---------------------------- MODULE PollingSources ----------------------------
(***************************************************************************)
(* The pipeline sources that poll: a database that is queried and a bucket *)
(* whose objects are read (pipelines/database_source.go, s3_source.go),    *)
(* with the loop that writes their batches (pipelines/runner.go).  A row or *)
(* a line is [id, kind]: "good", "bad" if it is skipped with a warning, and *)
(* "end" if the reading ends there with an error.                          *)
(***************************************************************************)
EXTENDS Naturals, Sequences, FiniteSets, SequencesExt, TLC

CONSTANTS
    BatchSize,      \* batch_size: 1000 in the code
    ChannelSize,    \* of batchCh: 10 in the code
    None,
    Scenarios       \* bound: [type, query, column, lenient, foreign, changes, polls, runs, faults]

VARIABLES
    foreign,        \* what the database or the bucket holds: rows by key, "query" for a database
    source,         \* the goroutine of Start
    batches,          \* batchCh
    writing,        \* the batch in WriteBatch
    cancelled,      \* the context of the run
    run,            \* number of the run
    kept,           \* history: the table, as <<run, id>>
    reported,       \* history: the same of batches whose write failed
    whole,          \* history: what this run has read to its end, by key
    retries,        \* history: objects whose reading failed
    polls, changes, faults,
    scenario

vars == <<foreign, source, batches, writing, cancelled, run, kept, reported, whole, retries,
          polls, changes, faults, scenario>>

\* The rows of all scenarios.
Row == UNION {(UNION {ToSet(s.foreign[key]) : key \in DOMAIN s.foreign})
              \cup (UNION {ToSet(c.rows) : c \in ToSet(s.changes)}) : s \in Scenarios}

GoodIds(rows) == {row.id : row \in {r \in ToSet(rows) : r.kind = "good"}}

\* What a key may hold.
Versions(s) == {<<key, s.foreign[key]>> : key \in DOMAIN s.foreign}
               \cup {<<c.key, c.rows>> : c \in ToSet(s.changes)}

\* The id of a good row is that of one line of an object, however often it is written, and
\* of one row of the table.
IdAssumption ==
    \A s \in Scenarios :
       /\ \A v \in Versions(s) : \A i, j \in 1 .. Len(v[2]) :
             v[2][i].kind = "good" /\ v[2][j].kind = "good" /\ v[2][i].id = v[2][j].id => i = j
       /\ s.type = "s3" =>
             \A v, w \in Versions(s) : v[1] # w[1] => GoodIds(v[2]) \cap GoodIds(w[2]) = {}
       /\ s.type = "database" =>
             \A i \in 1 .. Len(s.changes) :
                GoodIds(s.changes[i].rows) \cap
                   (GoodIds(s.foreign["query"])
                    \cup UNION {GoodIds(s.changes[j].rows) : j \in 1 .. (i - 1)}) = {}

\* What the proofs assume: a database has one table, "query".
PollAssumption ==
    /\ BatchSize \in Nat \ {0} /\ ChannelSize \in Nat /\ IdAssumption
    /\ None \notin Seq(Row)
    /\ \A s \in Scenarios :
          /\ s.type \in {"database", "s3"}
          /\ \A key \in DOMAIN s.foreign : s.foreign[key] \in Seq(Row)
          /\ s.changes \in Seq(ToSet(s.changes))
          /\ \A i \in 1 .. Len(s.changes) : s.changes[i].rows \in Seq(Row)
          /\ s.type = "database" =>
                /\ "query" \in DOMAIN s.foreign
                /\ \A i \in 1 .. Len(s.changes) : s.changes[i].key = "query"

New == [at |-> "starting", listed |-> {}, processed |-> {}, watermark |-> None, key |-> None,
        rows |-> <<>>, next |-> 1, buf |-> <<>>, failed |-> FALSE]

Init ==
    /\ scenario \in Scenarios
    /\ foreign = scenario.foreign /\ source = New /\ batches = <<>> /\ writing = None
    /\ cancelled = FALSE /\ run = 1 /\ kept = <<>> /\ reported = {} /\ whole = <<>>
    /\ retries = 0 /\ polls = 0 /\ changes = 0 /\ faults = 0

outside == <<foreign, cancelled, run, changes, scenario>>
history == <<kept, reported, whole, retries>>

At(at) == source.at = at
To(at) == source' = [source EXCEPT !.at = at]
Put(f, key, rows) == [k \in DOMAIN f \cup {key} |-> IF k = key THEN rows ELSE f[k]]
Fault == faults < scenario.faults /\ faults' = faults + 1

\* The rows of s that are in S, in their order.
Among(s, S) ==
    LET Loop[i \in 0 .. Len(s)] ==
            IF i = 0 THEN <<>>
            ELSE IF s[i] \in S THEN Append(Loop[i - 1], s[i]) ELSE Loop[i - 1]
    IN Loop[Len(s)]

Good(rows) == Among(rows, {r \in ToSet(rows) : r.kind = "good"})

Poll(type) ==
    /\ scenario.type = type /\ At("idle") /\ ~cancelled
    /\ polls < scenario.polls /\ polls' = polls + 1
    /\ UNCHANGED <<batches, writing, outside, history>>

----------------------------------------------------------------------------
(* Start: the database, and the bucket. *)

\* The database is opened and pinged, the client of the bucket is made.
Open ==
    /\ At("starting")
    /\ \/ To("idle") /\ UNCHANGED faults
       \/ To("ended") /\ Fault
    /\ UNCHANGED <<batches, writing, outside, history, polls>>

\* The watermark is an argument of the query once a row has been read.
Arguments == IF scenario.column /\ source.watermark # None THEN 1 ELSE 0

\* External: a driver refuses arguments that are not as many as the placeholders; that of
\* SQLite ignores those it does not need.
Accepts(n) ==
    IF scenario.query = "placeholder" THEN n = 1 ELSE n = 0 \/ scenario.lenient

\* External: the rows of the query, in the order of their ids.
Result == IF scenario.query = "placeholder"
          THEN Among(foreign["query"], {r \in ToSet(foreign["query"]) : r.id > source.watermark})
          ELSE foreign["query"]

Reading(key, rows) ==
    source' = [source EXCEPT !.at = "reading", !.key = key, !.rows = rows, !.next = 1,
                             !.failed = FALSE]

\* A query that is refused or fails is logged; the next tick tries again.
Query ==
    /\ Poll("database")
    /\ \/ Accepts(Arguments) /\ Reading("query", Result) /\ UNCHANGED faults
       \/ ~Accepts(Arguments) /\ UNCHANGED <<source, faults>>
       \/ Fault /\ UNCHANGED source

ListObjects ==
    /\ Poll("s3")
    /\ source' = [source EXCEPT !.at = "listing", !.listed = DOMAIN foreign]
    /\ UNCHANGED faults

\* Faulty: an object that was processed is read again.
SeenNever(key) == FALSE
Seen(key) == key \in source.processed

Listed(key) ==
    /\ At("listing") /\ key \in source.listed /\ ~cancelled
    /\ UNCHANGED <<batches, writing, outside, history, polls>>

\* An object that was processed is passed over, so is an error of the list.
PassOver(key) ==
    /\ Listed(key)
    /\ \/ Seen(key) /\ UNCHANGED faults
       \/ Fault
    /\ source' = [source EXCEPT !.listed = @ \ {key}]

\* An object is marked, then read; the mark goes if it cannot be opened.
ProcessFile(key) ==
    /\ Listed(key) /\ ~Seen(key)
    /\ \/ /\ source' = [source EXCEPT !.at = "reading", !.key = key, !.rows = foreign[key],
                                      !.next = 1, !.failed = FALSE,
                                      !.listed = @ \ {key}, !.processed = @ \cup {key}]
          /\ UNCHANGED faults
       \/ source' = [source EXCEPT !.listed = @ \ {key}] /\ Fault

EndOfList ==
    /\ At("listing") /\ source.listed = {} /\ To("idle")
    /\ UNCHANGED <<batches, writing, outside, history, polls, faults>>

----------------------------------------------------------------------------
(* The rows of a query and the lines of an object. *)

\* Rows are read until the buffer is full, an error or the end: up to this one.
Batch(m) == source.buf \o Good(SubSeq(source.rows, source.next, m))
LastRead ==
    Min({m \in source.next - 1 .. Len(source.rows) :
           \/ Len(Batch(m)) = BatchSize
           \/ m = Len(source.rows)
           \/ source.rows[m + 1].kind = "end"})

\* Faulty: the last rows are not sent.
LeftoverNone(rows, failed) == <<>>
\* An error of the rows drops the buffer of a query, that of an object is sent first.
Leftover(rows, failed) == IF failed /\ scenario.type = "database" THEN <<>> ELSE rows

Watermark(rows) ==
    IF scenario.column /\ rows # <<>> THEN Last(rows).id ELSE source.watermark

\* The connection may break after any row.
ReadRows ==
    /\ At("reading") /\ ~(cancelled /\ scenario.type = "s3")
    /\ \E m \in source.next - 1 .. LastRead :
          LET breaks == m # LastRead
              full == ~breaks /\ Len(Batch(m)) = BatchSize
              failed == breaks \/ (~full /\ m < Len(source.rows))
              buf == IF full THEN Batch(m) ELSE Leftover(Batch(m), failed) IN
          /\ IF breaks THEN Fault ELSE UNCHANGED faults
          /\ source' = [source EXCEPT !.at = IF buf = <<>> THEN "finished" ELSE "sending",
                            !.next = IF full THEN m + 1 ELSE Len(source.rows) + 1,
                            !.buf = buf, !.failed = failed,
                            !.watermark = Watermark(Batch(m))]
    /\ UNCHANGED <<batches, writing, outside, history, polls>>

\* A full buffer is sent and the reading goes on, also at the end of the rows.
Send ==
    /\ At("sending") /\ Len(batches) < ChannelSize
    /\ batches' = Append(batches, source.buf)
    /\ source' = [source EXCEPT !.buf = <<>>,
          !.at = IF Len(source.buf) = BatchSize THEN "reading" ELSE "finished"]
    /\ UNCHANGED <<writing, outside, history, polls, faults>>

\* Faulty: an object that could not be read stays marked.
UnmarkedNever(processed) == processed
Unmarked(processed) == IF source.failed THEN processed \ {source.key} ELSE processed

Finish ==
    /\ At("finished")
    /\ source' = [source EXCEPT !.at = IF scenario.type = "s3" THEN "listing" ELSE "idle",
                                !.processed = Unmarked(@), !.key = None, !.rows = <<>>]
    /\ IF source.failed
       THEN retries' = retries + 1 /\ UNCHANGED whole
       ELSE whole' = Put(whole, source.key, source.rows) /\ UNCHANGED retries
    /\ UNCHANGED <<batches, writing, outside, kept, reported, polls, faults>>

\* The context is cancelled: whatever the source waits for or reads.
SourceEnds ==
    /\ cancelled /\ ~At("ended") /\ To("ended")
    /\ UNCHANGED <<batches, writing, outside, history, polls, faults>>

----------------------------------------------------------------------------
(* The loop of runPipeline. *)

Ids(batch) == [i \in DOMAIN batch |-> <<run, batch[i].id>>]

Take ==
    /\ writing = None /\ batches # <<>> /\ ~cancelled
    /\ writing' = Head(batches) /\ batches' = Tail(batches)
    /\ UNCHANGED <<source, outside, history, polls, faults>>

WriteBatch ==
    /\ writing # None
    /\ kept' = kept \o Ids(writing) /\ writing' = None
    /\ UNCHANGED <<source, batches, outside, reported, whole, retries, polls, faults>>

\* A write that fails may have reached the table; it is logged and counted.
WriteFails ==
    /\ writing # None
    /\ IF cancelled THEN UNCHANGED faults ELSE Fault
    /\ \/ kept' = kept \o Ids(writing)
       \/ UNCHANGED kept
    /\ reported' = reported \cup ToSet(Ids(writing)) /\ writing' = None
    /\ UNCHANGED <<source, batches, outside, whole, retries, polls>>

\* The map of processed objects and the watermark are those of the run.
NextRun ==
    /\ run < scenario.runs /\ run' = run + 1
    /\ source' = New /\ batches' = <<>> /\ writing' = None /\ cancelled' = FALSE
    /\ whole' = <<>>
    /\ UNCHANGED <<foreign, reported, retries, polls, changes, scenario>>

\* The run has ended, cancelled or with an error of its source, and is started again.
Restart ==
    /\ writing = None
    /\ cancelled \/ (At("ended") /\ batches = <<>>)
    /\ NextRun /\ UNCHANGED <<kept, faults>>

Crash ==
    /\ Fault /\ NextRun
    /\ \/ writing # None /\ kept' = kept \o Ids(writing)
       \/ UNCHANGED kept

----------------------------------------------------------------------------
(* Others. *)

Cancel ==
    /\ ~cancelled /\ ~(At("ended") /\ batches = <<>> /\ writing = None) /\ cancelled' = TRUE
    /\ UNCHANGED <<foreign, source, batches, writing, run, history, polls, changes, faults, scenario>>

\* Rows are inserted, objects are added or written again.
Change(key) ==
    /\ changes < Len(scenario.changes) /\ changes' = changes + 1
    /\ LET c == scenario.changes[changes + 1] IN
       /\ key = c.key
       /\ foreign' = Put(foreign, key, IF scenario.type = "database" THEN foreign[key] \o c.rows
                                       ELSE c.rows)
    /\ UNCHANGED <<source, batches, writing, cancelled, run, history, polls, faults, scenario>>

Keys == DOMAIN foreign \cup {c.key : c \in ToSet(scenario.changes)}

Next ==
    \/ Open \/ Query \/ ListObjects \/ EndOfList \/ ReadRows \/ Send \/ Finish \/ SourceEnds
    \/ \E key \in Keys : PassOver(key) \/ ProcessFile(key) \/ Change(key)
    \/ Take \/ WriteBatch \/ WriteFails \/ Restart \/ Crash \/ Cancel

Spec == Init /\ [][Next]_vars

----------------------------------------------------------------------------
(* Properties. *)

\* What the run has handed on and the table may not have yet.
UnderWay == (UNION {ToSet(Ids(batch)) : batch \in ToSet(batches)})
            \cup (IF writing = None THEN {} ELSE ToSet(Ids(writing)))

\* An object stays marked only if it was read to its end: the mark of one that could not
\* be read must go, or its lines are never read (s3_source.go:92).
MarkedIsRead ==
    ~cancelled => \A key \in source.processed : key = source.key \/ key \in DOMAIN whole

\* Of what was read to its end each good row is in the table, on its way there, or in a
\* write whose failure was reported: no buffer is left behind (database_source.go:148,
\* s3_source.go:174).
ReadIsKept ==
    ~cancelled =>
        \A key \in DOMAIN whole : \A row \in ToSet(Good(whole[key])) :
            <<run, row.id>> \in ToSet(kept) \cup reported \cup UnderWay

\* A row of a bucket is written once by each run, and once more for each reading of an
\* object that failed; a row of a database once by each poll.
CopiesBounded ==
    \A row \in ToSet(kept) :
        Cardinality({i \in DOMAIN kept : kept[i][2] = row[2]})
            <= IF scenario.type = "s3" THEN run + retries ELSE polls

PollInv == MarkedIsRead /\ ReadIsKept /\ CopiesBounded
=============================================================================
