-------------------------- MODULE PipelineDelivery --------------------------
(***************************************************************************)
(* The records of one pipeline on their way from a Kafka partition or a    *)
(* webhook to the ClickHouse table: ConsumeClaim or the webhook source     *)
(* collects them into batches, batchCh holds the batches, runPipeline      *)
(* writes them through the tunnel and acknowledges them (kafka.go,         *)
(* webhook.go, runner.go, clickhouse_sink.go).                             *)
(*                                                                         *)
(* Records are numbered in the order of the partition, or of the requests; *)
(* every stage keeps that order, so a buffer or a batch is an interval.    *)
(* Sarama is modelled from how kafka.go uses it: MarkMessage raises the    *)
(* marked offset of a session that is still open, auto-commit copies it,   *)
(* and a session begins after the committed offset or, when the group has  *)
(* committed nothing, at the end of the partition (OffsetNewest).          *)
(***************************************************************************)
EXTENDS Naturals, Sequences, SequencesExt

CONSTANTS Kinds,        \* the sources: "kafka", "webhook"
          LastRecord,   \* bound: number of records
          Committed0,   \* records committed or written by earlier runs; 0: a new group
          BatchSize,    \* batch_size
          QueueCap,     \* capacity of batchCh: 10 in the code
          IncomingCap,  \* capacity of webhookReceiver.incoming: 1000 in the code
          CreateTable,  \* create_table of the sink
          SinkFails,    \* whether ClickHouse or the tunnel may fail a write
          MaxRestarts   \* bound: sessions after the first

ASSUME DeliveryAssumption ==
    /\ Kinds \subseteq {"kafka", "webhook"}
    /\ LastRecord \in Nat
    /\ Committed0 \in 0..LastRecord
    /\ BatchSize \in Nat \ {0}
    /\ QueueCap \in Nat \ {0}
    /\ IncomingCap \in Nat \ {0}
    /\ CreateTable \in BOOLEAN
    /\ SinkFails \in BOOLEAN
    /\ MaxRestarts \in Nat

VARIABLES
    kind,       \* the source of the pipeline
    run,        \* the run: on, stopping (its context is cancelled) or off
    restarts,
    produced,   \* records in the partition, or accepted by HandleWebhook
    next,       \* the next record the source receives
    first,      \* the source has collected first..(next - 1): buf
    batchCh,    \* batches: their records, and whether their session is open
    writing,    \* the batch runPipeline writes, if any
    table,      \* tableOnce and tableErr: untried, created or failed
    marked,     \* highest offset marked in the session
    committed,  \* highest offset committed
    sink,       \* records in the ClickHouse table
    failed      \* records of batches whose failure was counted and logged

sourceVars == <<produced, next, first>>
sinkVars == <<table, sink, failed>>
offsetVars == <<marked, committed>>
vars == <<kind, run, restarts, sourceVars, batchCh, writing, offsetVars, sinkVars>>

Records == 1..LastRecord
Batches == [first : Records, last : Records, open : BOOLEAN]
RecordsOf(b) == b.first..b.last

TypeOK ==
    /\ kind \in Kinds
    /\ run \in {"on", "stopping", "off"}
    /\ restarts \in 0..MaxRestarts
    /\ produced \in 0..LastRecord
    /\ next \in 1..(produced + 1)
    /\ first \in 1..next
    /\ next - first <= BatchSize
    /\ batchCh \in Seq(Batches)
    /\ Len(batchCh) <= QueueCap
    /\ writing \in Seq(Batches)
    /\ Len(writing) <= 1
    /\ table \in {"untried", "created", "failed"}
    /\ marked \in 0..LastRecord
    /\ committed \in 0..LastRecord
    /\ sink \subseteq Records
    /\ failed \subseteq Records

Init ==
    /\ kind \in Kinds
    /\ run = "on"
    /\ restarts = 0
    /\ produced = Committed0
    /\ next = Committed0 + 1
    /\ first = next
    /\ batchCh = <<>>
    /\ writing = <<>>
    /\ table = "untried"
    /\ marked = Committed0
    /\ committed = Committed0
    /\ sink = 1..Committed0
    /\ failed = {}

----------------------------------------------------------------------------
(* The source.                                                             *)

\* webhookReceiver.incoming holds next..produced; without room the request is
\* answered 429, without a run 404.
Accepts == kind = "webhook" => run # "off" /\ (produced + 1) - next < IncomingCap

\* HandleWebhook accepts a record, or a producer appends one to the partition.
Post ==
    /\ produced < LastRecord
    /\ Accepts
    /\ produced' = produced + 1
    /\ UNCHANGED <<kind, run, restarts, next, first, batchCh, writing, offsetVars, sinkVars>>

\* The source takes a record; a full buffer is flushed before the next one.
Receive ==
    /\ run # "off"
    /\ next <= produced
    /\ next - first < BatchSize
    /\ next' = next + 1
    /\ UNCHANGED <<kind, run, restarts, produced, first, batchCh, writing, offsetVars, sinkVars>>

Buffered == [first |-> first, last |-> next - 1, open |-> TRUE]

\* Faulty: only a full buffer is flushed.
FlushFull ==
    /\ run # "off"
    /\ next - first = BatchSize
    /\ Len(batchCh) < QueueCap
    /\ batchCh' = Append(batchCh, Buffered)
    /\ first' = next
    /\ UNCHANGED <<kind, run, restarts, produced, next, writing, offsetVars, sinkVars>>

\* flush: on a full buffer, on the ticker, or when the context ends.
Flush ==
    /\ run # "off"
    /\ first < next
    /\ Len(batchCh) < QueueCap
    /\ batchCh' = Append(batchCh, Buffered)
    /\ first' = next
    /\ UNCHANGED <<kind, run, restarts, produced, next, writing, offsetVars, sinkVars>>

\* The session's auto-commit.
AutoCommit ==
    /\ kind = "kafka"
    /\ run # "off"
    /\ committed < marked
    /\ committed' = marked
    /\ UNCHANGED <<kind, run, restarts, sourceVars, batchCh, writing, marked, sinkVars>>

\* Where a session begins.
Position == IF kind = "webhook" \/ committed = 0 THEN produced + 1 ELSE committed + 1

Closed(batches) == [i \in DOMAIN batches |-> [batches[i] EXCEPT !.open = FALSE]]

\* Faulty: the position is the next unread record whatever was committed.
RebalanceFromNext ==
    /\ kind = "kafka"
    /\ run = "on"
    /\ restarts < MaxRestarts
    /\ restarts' = restarts + 1
    /\ first' = next
    /\ marked' = committed
    /\ batchCh' = Closed(batchCh)
    /\ writing' = Closed(writing)
    /\ UNCHANGED <<kind, run, produced, next, committed, sinkVars>>

\* The session ends without the run: ConsumeClaim returns, the Ack of the
\* batches it has sent marks nothing any more, and Consume begins another.
Rebalance ==
    /\ kind = "kafka"
    /\ run = "on"
    /\ restarts < MaxRestarts
    /\ restarts' = restarts + 1
    /\ next' = Position
    /\ first' = Position
    /\ marked' = committed
    /\ batchCh' = Closed(batchCh)
    /\ writing' = Closed(writing)
    /\ UNCHANGED <<kind, run, produced, committed, sinkVars>>

----------------------------------------------------------------------------
(* runPipeline and the sink.                                               *)

\* Batch.Ack: MarkMessage for each message of a Kafka batch.
Ack(b) ==
    marked' = IF kind = "kafka" /\ b.open /\ marked < b.last THEN b.last ELSE marked

\* Faulty: acknowledges before it writes.
TakeAndAck ==
    /\ run = "on"
    /\ writing = <<>>
    /\ batchCh # <<>>
    /\ writing' = <<Head(batchCh)>>
    /\ batchCh' = Tail(batchCh)
    /\ Ack(Head(batchCh))
    /\ UNCHANGED <<kind, run, restarts, sourceVars, committed, sinkVars>>

Take ==
    /\ run = "on"
    /\ writing = <<>>
    /\ batchCh # <<>>
    /\ writing' = <<Head(batchCh)>>
    /\ batchCh' = Tail(batchCh)
    /\ UNCHANGED <<kind, run, restarts, sourceVars, offsetVars, sinkVars>>

\* tableOnce runs ensureTable at the first batch only.
TableTried == IF CreateTable THEN "created" ELSE table

\* WriteBatch inserts the rows, then the batch is acknowledged.
Write ==
    /\ writing # <<>>
    /\ table # "failed"
    /\ table' = TableTried
    /\ sink' = sink \cup RecordsOf(writing[1])
    /\ Ack(writing[1])
    /\ writing' = <<>>
    /\ UNCHANGED <<kind, run, restarts, sourceVars, batchCh, committed, failed>>

\* WriteBatch returns an error; it is counted and logged and the loop goes on.
Report ==
    /\ failed' = failed \cup RecordsOf(writing[1])
    /\ writing' = <<>>
    /\ UNCHANGED <<kind, run, restarts, sourceVars, batchCh, offsetVars>>

\* The insert fails; after a timeout the agent may have executed it.
WriteFails ==
    /\ SinkFails
    /\ writing # <<>>
    /\ table # "failed"
    /\ table' = TableTried
    /\ sink' \in {sink, sink \cup RecordsOf(writing[1])}
    /\ Report

\* ensureTable fails, now or, by the remembered tableErr, at an earlier batch.
TableFails ==
    /\ SinkFails /\ CreateTable
    /\ writing # <<>>
    /\ table # "created"
    /\ table' = "failed"
    /\ UNCHANGED sink
    /\ Report

----------------------------------------------------------------------------
(* Stop, crash, and the next run.                                          *)

Cancel ==
    /\ run = "on"
    /\ restarts < MaxRestarts
    /\ run' = "stopping"
    /\ UNCHANGED <<kind, restarts, sourceVars, batchCh, writing, offsetVars, sinkVars>>

\* What the source and batchCh still hold goes with the run.
Drop ==
    /\ run' = "off"
    /\ batchCh' = <<>>
    /\ writing' = <<>>
    /\ marked' = committed
    /\ first' = next
    /\ UNCHANGED <<kind, restarts, produced, next, committed, table, failed>>

\* runPipeline leaves its loop between two batches.
EndRun ==
    /\ run = "stopping"
    /\ writing = <<>>
    /\ Drop
    /\ UNCHANGED sink

\* The process ends; the agent may execute the insert it was sent.
Crash ==
    /\ run = "on"
    /\ restarts < MaxRestarts
    /\ Drop
    /\ \/ UNCHANGED sink
       \/ writing # <<>> /\ sink' = sink \cup RecordsOf(writing[1])

\* The next run: a new sink, and a source at its position.
StartRun ==
    /\ run = "off"
    /\ run' = "on"
    /\ restarts' = restarts + 1
    /\ table' = "untried"
    /\ next' = Position
    /\ first' = Position
    /\ UNCHANGED <<kind, produced, batchCh, writing, offsetVars, sink, failed>>

----------------------------------------------------------------------------

SourceStep == Post \/ Receive \/ Flush \/ AutoCommit \/ Rebalance
RunStep == Take \/ Write \/ WriteFails \/ TableFails
LifeStep == Cancel \/ EndRun \/ Crash \/ StartRun

Next == SourceStep \/ RunStep \/ LifeStep

Spec == Init /\ [][Next]_vars

\* The source goroutine and its ticker, the runner's loop, a write that ends,
\* and the recovery of an ended run.
Fairness ==
    /\ WF_vars(Receive) /\ WF_vars(Flush) /\ WF_vars(Take)
    /\ WF_vars(Write \/ WriteFails \/ TableFails)
    /\ WF_vars(EndRun) /\ WF_vars(StartRun)

FairSpec == Spec /\ Fairness

----------------------------------------------------------------------------
(* Properties.                                                             *)

\* Records in a batch that waits in batchCh or is being written.
InFlight == UNION {RecordsOf(b) : b \in Range(writing) \cup Range(batchCh)}

\* CHANGELOG.md:122, "consumer offsets are committed only after the batch is
\* durably written to the sink": no committed offset is ahead of a record
\* that is not in the table.  Kept as long as no write fails.
CommittedIsWritten == \A o \in 1..committed : o \in sink

\* What the code does of it: a record behind the committed offset is in the
\* table, or its batch failed and the failure was counted and logged.
LossIsReported == \A o \in 1..committed : o \in sink \cup failed

\* Nothing but its goroutine remembers what a webhook pipeline has accepted:
\* its first run has not ended.
FirstRun == run = "on" /\ restarts = 0

\* kafka.go:120, "a crash before the sink write re-delivers these messages",
\* and an accepted webhook record as long as its run lasts: what the source
\* has passed is in its buffer, in a batch, in the table, or reported.
PassedIsKept ==
    run = "on" /\ (kind = "webhook" => FirstRun)
       => \A o \in 1..(next - 1) :
              o \in (first..(next - 1)) \cup InFlight \cup sink \cup failed

\* Nothing that was passed or committed is lost without a trace.
NoSilentLoss == LossIsReported /\ PassedIsKept

\* A record that was produced is written in the end, or its failure reported,
\* however often the run is stopped, crashes or loses its session; one that
\* a webhook accepted, unless its run ends.
Delivered ==
    \A o \in Records :
        produced >= o ~> o \in sink \cup failed \/ (kind = "webhook" /\ ~FirstRun)

=============================================================================
