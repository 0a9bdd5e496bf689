--------------------------- MODULE PipelineProofs ---------------------------
(***************************************************************************)
(* The pipelines.  First what one pipeline does with its records           *)
(* (PipelineDelivery), for every number of records, batch size, channel    *)
(* capacity and number of sessions; then which pipelines run               *)
(* (PipelineRunner, as Runner), for every number of pipelines and runs;    *)
(* then the sources that poll (PollingSources, as Polling), for every      *)
(* table, bucket, batch size and number of polls; and the uploads (as Up), *)
(* for every file and table.                                               *)
(*                                                                         *)
(* The argument about the records: every record before the buffer is in   *)
(* the table, reported, or in a batch that can still be acknowledged       *)
(* (Kept), and these batches wait in the order of their records (Ordered). *)
(* So when a batch is acknowledged nothing before its last record is still *)
(* on its way, and the marked offset never passes an unaccounted record    *)
(* (MarkedReported).                                                       *)
(***************************************************************************)
EXTENDS PipelineDelivery, SequenceTheorems, FiniteSetTheorems, WellFoundedInduction, TLAPS

Covered(o, s) == \E i \in DOMAIN s : s[i].open /\ s[i].first <= o /\ o <= s[i].last

BatchesOK(s) ==
    \A i \in DOMAIN s : /\ s[i].last \in 1..produced
                        /\ s[i].first \in 1..s[i].last
                        /\ s[i].open => s[i].last < first

Bounded ==
    /\ committed <= marked
    /\ marked <= produced
    /\ marked < first
    /\ BatchesOK(writing)
    /\ BatchesOK(batchCh)

Idle ==
    /\ run = "off" => batchCh = <<>> /\ writing = <<>> /\ marked = committed
    /\ run # "on" => restarts < MaxRestarts

TypeInv == TypeOK /\ Bounded /\ Idle

Kept ==
    run # "off" => \A o \in 1..(first - 1) :
        o \in sink \/ o \in failed \/ Covered(o, writing) \/ Covered(o, batchCh)

Ordered ==
    /\ \A i, j \in DOMAIN batchCh :
          i < j /\ batchCh[i].open /\ batchCh[j].open => batchCh[i].last < batchCh[j].first
    /\ \A i \in DOMAIN writing, j \in DOMAIN batchCh :
          writing[i].open /\ batchCh[j].open => writing[i].last < batchCh[j].first

MarkedReported == \A o \in 1..marked : o \in sink \/ o \in failed

HealthyReports == ~SinkFails => failed = {}

KeepInv == committed # 0 /\ Kept /\ Ordered /\ MarkedReported /\ HealthyReports

----------------------------------------------------------------------------
(* Type correctness.                                                       *)

LEMMA TypeInit == Init => TypeInv
  BY DeliveryAssumption DEF Init, TypeInv, TypeOK, Bounded, BatchesOK, Idle, Records

LEMMA SingleBatch ==
  ASSUME NEW S, NEW s \in Seq(S), s # <<>>, Len(s) <= 1
  PROVE  DOMAIN s = {1}
  <1>1. Len(s) \in Nat \ {0}
    BY EmptySeq
  <1>2. \A n \in Nat \ {0} : n <= 1 => n = 1
    OBVIOUS
  <1>3. Len(s) = 1
    BY <1>1, <1>2, Zenon
  <1> QED
    BY <1>3

\* What a state with TypeInv says of the batch that is written.
LEMMA WritingBatch ==
  ASSUME TypeInv, writing # <<>>
  PROVE  /\ DOMAIN writing = {1}
         /\ writing[1].first \in Nat
         /\ writing[1].last \in Nat
         /\ RecordsOf(writing[1]) \subseteq Records
         /\ writing[1].last <= produced
         /\ writing[1].open => writing[1].last < first
  <1>1. DOMAIN writing = {1}
    BY SingleBatch DEF TypeInv, TypeOK
  <1>2. writing[1].last \in 1..produced /\ writing[1].first \in 1..writing[1].last
    BY <1>1 DEF TypeInv, Bounded, BatchesOK
  <1>3. produced \in 0..LastRecord /\ first \in Nat
    BY DeliveryAssumption DEF TypeInv, TypeOK
  <1>4. writing[1].open => writing[1].last < first
    BY <1>1 DEF TypeInv, Bounded, BatchesOK
  <1> QED
    BY <1>1, <1>2, <1>3, <1>4, DeliveryAssumption DEF RecordsOf, Records

LEMMA AppendBatch ==
  ASSUME NEW s \in Seq(Batches), NEW b \in Batches
  PROVE  /\ Append(s, b) \in Seq(Batches)
         /\ Len(Append(s, b)) = Len(s) + 1
         /\ DOMAIN Append(s, b) = DOMAIN s \cup {Len(s) + 1}
         /\ Append(s, b)[Len(s) + 1] = b
         /\ \A i \in DOMAIN s : Append(s, b)[i] = s[i]
  OBVIOUS

LEMMA TakeBatch ==
  ASSUME NEW s \in Seq(Batches), s # <<>>
  PROVE  /\ Tail(s) \in Seq(Batches)
         /\ Len(Tail(s)) = Len(s) - 1
         /\ Head(s) \in Batches
         /\ Head(s) = s[1]
         /\ 1 \in DOMAIN s
         /\ \A i \in DOMAIN Tail(s) : i \in Nat /\ i + 1 \in DOMAIN s /\ Tail(s)[i] = s[i + 1]
         /\ \A i \in DOMAIN s : i = 1 \/ (i - 1 \in DOMAIN Tail(s) /\ s[i] = Tail(s)[i - 1])
  OBVIOUS

LEMMA ClosedBatches ==
  ASSUME NEW s \in Seq(Batches)
  PROVE  /\ Closed(s) \in Seq(Batches)
         /\ Len(Closed(s)) = Len(s)
         /\ DOMAIN Closed(s) = DOMAIN s
         /\ \A i \in DOMAIN s : /\ Closed(s)[i].first = s[i].first
                                /\ Closed(s)[i].last = s[i].last
                                /\ Closed(s)[i].open = FALSE
  <1>1. DOMAIN s = 1..Len(s) /\ Len(s) \in Nat
    OBVIOUS
  <1>2. \A i \in DOMAIN s : s[i] \in Batches
    OBVIOUS
  <1>3. \A i \in DOMAIN s : /\ [s[i] EXCEPT !.open = FALSE] \in Batches
                            /\ [s[i] EXCEPT !.open = FALSE].first = s[i].first
                            /\ [s[i] EXCEPT !.open = FALSE].last = s[i].last
                            /\ [s[i] EXCEPT !.open = FALSE].open = FALSE
    BY <1>2 DEF Batches
  <1>4. Closed(s) = [i \in 1..Len(s) |-> [s[i] EXCEPT !.open = FALSE]]
    BY <1>1 DEF Closed
  <1>5. Closed(s) \in Seq(Batches) /\ Len(Closed(s)) = Len(s)
    BY <1>1, <1>3, <1>4
  <1> QED
    BY <1>1, <1>3, <1>4, <1>5

LEMMA TypeStep == TypeInv /\ [Next]_vars => TypeInv'
  <1> SUFFICES ASSUME TypeInv, [Next]_vars PROVE TypeInv'
    OBVIOUS
  <1>0. batchCh \in Seq(Batches) /\ writing \in Seq(Batches)
    BY DEF TypeInv, TypeOK
  <1>7. writing # <<>> =>
           /\ RecordsOf(writing[1]) \subseteq Records
           /\ writing[1].last \in Nat
           /\ writing[1].last <= produced
           /\ writing[1].open => writing[1].last < first
    BY WritingBatch
  <1>16. <<>> \in Seq(Batches) /\ Len(<<>>) = 0 /\ DOMAIN <<>> = {}
    OBVIOUS
  <1> USE DeliveryAssumption DEF TypeInv, TypeOK, Bounded, BatchesOK, Idle, Records
  <1>1. CASE Post
    BY <1>1 DEF Post, offsetVars, sinkVars
  <1>2. CASE Receive
    BY <1>2 DEF Receive, offsetVars, sinkVars
  <1>3. CASE Flush
    <2>1. Buffered \in Batches
      BY <1>3 DEF Flush, Buffered, Batches
    <2>2. /\ batchCh' \in Seq(Batches)
          /\ Len(batchCh') <= QueueCap
          /\ DOMAIN batchCh' = DOMAIN batchCh \cup {Len(batchCh) + 1}
          /\ batchCh'[Len(batchCh) + 1] = Buffered
          /\ \A i \in DOMAIN batchCh : batchCh'[i] = batchCh[i]
      BY <1>0, <1>3, <2>1, AppendBatch DEF Flush
    <2> HIDE DEF TypeInv, TypeOK, BatchesOK
    <2>3. first <= next /\ next - 1 \in 1..produced /\ first \in 1..(next - 1)
      BY <1>3 DEF Flush, TypeInv, TypeOK
    <2>4. /\ \A i \in DOMAIN batchCh : batchCh[i].last \in Nat
          /\ \A i \in DOMAIN writing : writing[i].last \in Nat
          /\ first \in Nat /\ next \in Nat
      BY <2>3 DEF TypeInv, TypeOK, Bounded, BatchesOK
    <2>5. BatchesOK(batchCh)'
      BY <1>3, <2>2, <2>3, <2>4 DEF Flush, TypeInv, Bounded, BatchesOK, Buffered
    <2>6. BatchesOK(writing)'
      BY <1>3, <2>3, <2>4 DEF Flush, TypeInv, Bounded, BatchesOK
    <2> QED
      BY <1>3, <2>2, <2>3, <2>5, <2>6 DEF Flush, offsetVars, sinkVars, TypeInv, TypeOK
  <1>4. CASE AutoCommit
    BY <1>4 DEF AutoCommit, sourceVars, sinkVars
  <1>5. CASE Rebalance
    <2>1. Position \in 1..(produced + 1) /\ committed < Position
      BY DEF Position
    <2>2. /\ batchCh' \in Seq(Batches) /\ Len(batchCh') = Len(batchCh)
          /\ writing' \in Seq(Batches) /\ Len(writing') = Len(writing)
      BY <1>0, <1>5, ClosedBatches DEF Rebalance
    <2>3. BatchesOK(batchCh)'
      BY <1>0, <1>5, ClosedBatches DEF Rebalance
    <2>4. BatchesOK(writing)'
      BY <1>0, <1>5, ClosedBatches DEF Rebalance
    <2> QED
      BY <1>5, <2>1, <2>2, <2>3, <2>4 DEF Rebalance, sinkVars
  <1>6. CASE Take
    <2>1. batchCh # <<>> /\ batchCh' = Tail(batchCh) /\ writing' = <<batchCh[1]>> /\ 1 \in DOMAIN batchCh
      BY <1>0, <1>6, TakeBatch DEF Take
    <2>2. batchCh' \in Seq(Batches) /\ Len(batchCh') <= QueueCap
      BY <1>0, <2>1, TakeBatch
    <2>3. writing' \in Seq(Batches) /\ Len(writing') <= 1 /\ DOMAIN writing' = {1} /\ writing'[1] = batchCh[1]
      BY <1>0, <2>1
    <2>4. BatchesOK(batchCh)'
      BY <1>0, <1>6, <2>1, TakeBatch DEF Take, sourceVars
    <2>5. BatchesOK(writing)'
      BY <1>6, <2>1, <2>3 DEF Take, sourceVars
    <2> HIDE DEF BatchesOK
    <2> QED
      BY <1>6, <2>2, <2>3, <2>4, <2>5 DEF Take, sourceVars, offsetVars, sinkVars
  <1>8. CASE Write
    <2>1. sink' \subseteq Records /\ table' \in {"untried", "created", "failed"}
      BY <1>7, <1>8 DEF Write, TableTried
    <2>2. /\ marked' \in 0..LastRecord
          /\ marked <= marked' /\ marked' <= produced /\ marked' < first
      BY <1>7, <1>8 DEF Write, Ack
    <2>3. run' # "off"
      BY <1>8 DEF Write
    <2> QED
      BY <1>16, <1>8, <2>1, <2>2, <2>3 DEF Write, sourceVars
  <1>9. CASE WriteFails
    <2>1. sink' \subseteq Records /\ failed' \subseteq Records
      BY <1>7, <1>9 DEF WriteFails, Report
    <2>2. table' \in {"untried", "created", "failed"}
      BY <1>9 DEF WriteFails, TableTried
    <2> QED
      BY <1>16, <1>9, <2>1, <2>2 DEF WriteFails, Report, sourceVars, offsetVars
  <1>10. CASE TableFails
    <2>1. sink' \subseteq Records /\ failed' \subseteq Records
      BY <1>7, <1>10 DEF TableFails, Report
    <2> QED
      BY <1>16, <1>10, <2>1 DEF TableFails, Report, sourceVars, offsetVars
  <1>11. CASE Cancel
    BY <1>11 DEF Cancel, sourceVars, offsetVars, sinkVars
  <1>12. CASE EndRun
    BY <1>16, <1>12 DEF EndRun, Drop
  <1>13. CASE Crash
    <2>1. sink' \subseteq Records
      BY <1>7, <1>13 DEF Crash
    <2> QED
      BY <1>16, <1>13, <2>1 DEF Crash, Drop
  <1>14. CASE StartRun
    <2>1. batchCh' = <<>> /\ writing' = <<>>
      BY <1>14 DEF StartRun
    <2>2. BatchesOK(batchCh)' /\ BatchesOK(writing)'
      BY <2>1
    <2>3. Position \in 1..(produced + 1) /\ committed < Position
      BY DEF Position
    <2> HIDE DEF BatchesOK
    <2> QED
      BY <1>14, <1>16, <2>1, <2>2, <2>3 DEF StartRun, offsetVars
  <1>15. CASE UNCHANGED vars
    BY <1>15 DEF vars, sourceVars, offsetVars, sinkVars
  <1> QED
    BY <1>1, <1>2, <1>3, <1>4, <1>5, <1>6, <1>8, <1>9, <1>10, <1>11, <1>12,
       <1>13, <1>14, <1>15 DEF Next, SourceStep, RunStep, LifeStep

\* Every reachable state is well typed: the position of a session lies in the
\* partition, the buffer and batchCh stay within batch_size and capacity.
THEOREM TypeCorrect == Spec => []TypeOK
  <1>1. TypeInv => TypeOK
    BY DEF TypeInv
  <1> QED
    BY <1>1, TypeInit, TypeStep, PTL DEF Spec

----------------------------------------------------------------------------
(* Nothing is lost without a trace.                                        *)

LEMMA CoverAppend ==
  ASSUME NEW s \in Seq(Batches), NEW b \in Batches, NEW o,
         Covered(o, s) \/ (b.open /\ b.first <= o /\ o <= b.last)
  PROVE  Covered(o, Append(s, b))
  BY AppendBatch DEF Covered

LEMMA CoverTake ==
  ASSUME NEW s \in Seq(Batches), s # <<>>, NEW o, Covered(o, s)
  PROVE  Covered(o, <<Head(s)>>) \/ Covered(o, Tail(s))
  <1>1. PICK i \in DOMAIN s : s[i].open /\ s[i].first <= o /\ o <= s[i].last
    BY DEF Covered
  <1>2. CASE i = 1
    BY TakeBatch, <1>1, <1>2 DEF Covered
  <1>3. CASE i # 1
    BY <1>1, <1>3, TakeBatch DEF Covered
  <1> QED
    BY <1>2, <1>3

LEMMA ClosedCoversNothing ==
  ASSUME NEW s \in Seq(Batches)
  PROVE  \A i \in DOMAIN Closed(s) : ~Closed(s)[i].open
  BY ClosedBatches

\* What remains once a batch is acknowledged: nothing up to its last record
\* is still on its way.
LEMMA AckedIsReported ==
  ASSUME TypeInv, KeepInv, writing # <<>>, writing[1].open,
         NEW o \in 1..writing[1].last
  PROVE  o \in sink \cup RecordsOf(writing[1]) \/ o \in failed
  <1>1. run # "off" /\ first \in Nat
    BY DeliveryAssumption DEF TypeInv, Idle, TypeOK
  <1>2. DOMAIN writing = {1} /\ writing[1].last \in Nat /\ writing[1].first \in Nat
        /\ writing[1].last < first
    BY WritingBatch
  <1>3. o \in 1..(first - 1)
    BY <1>1, <1>2
  <1>4. o \in sink \/ o \in failed \/ Covered(o, writing) \/ Covered(o, batchCh)
    BY <1>1, <1>3 DEF KeepInv, Kept
  <1>5. ASSUME Covered(o, writing) PROVE o \in RecordsOf(writing[1])
    BY <1>2, <1>3, <1>5 DEF Covered, RecordsOf
  <1>6. ~Covered(o, batchCh)
    <2> SUFFICES ASSUME NEW j \in DOMAIN batchCh, batchCh[j].open, batchCh[j].first <= o
                 PROVE  FALSE
      BY DEF Covered
    <2>1. writing[1].last < batchCh[j].first
      BY <1>2 DEF KeepInv, Ordered
    <2>2. batchCh[j].first \in Nat
      BY DEF TypeInv, Bounded, BatchesOK
    <2> QED
      BY <1>2, <2>1, <2>2
  <1> QED
    BY <1>4, <1>5, <1>6

LEMMA KeepInit == Init /\ Committed0 # 0 => KeepInv
  BY DeliveryAssumption
  DEF Init, KeepInv, Kept, Ordered, MarkedReported, HealthyReports

LEMMA KeepStep ==
  ASSUME kind = "kafka", TypeInv, KeepInv, [Next]_vars
  PROVE  KeepInv'
  <1>0. /\ batchCh \in Seq(Batches) /\ writing \in Seq(Batches)
        /\ committed \in Nat /\ committed # 0 /\ marked \in Nat
        /\ first \in Nat /\ next \in Nat /\ committed <= marked /\ first <= next
    BY DeliveryAssumption DEF TypeInv, TypeOK, Bounded, KeepInv
  <1>1. CASE Post
    BY <1>1 DEF Post, offsetVars, sinkVars, KeepInv, Kept, Ordered, MarkedReported,
                HealthyReports, Covered
  <1>2. CASE Receive
    BY <1>2 DEF Receive, offsetVars, sinkVars, KeepInv, Kept, Ordered, MarkedReported,
                HealthyReports, Covered
  <1>3. CASE Flush
    <2>1. Buffered \in Batches
      BY <1>3, DeliveryAssumption DEF Flush, Buffered, Batches, Records, TypeInv, TypeOK
    <2>2. batchCh' = Append(batchCh, Buffered) /\ first' = next
      BY <1>3 DEF Flush
    <2>3. Kept'
      <3> SUFFICES ASSUME NEW o \in 1..(next - 1), ~(o \in sink), ~(o \in failed),
                          ~Covered(o, writing)
                   PROVE  Covered(o, batchCh')
        BY <1>3, <2>2 DEF Flush, Kept, sinkVars, Covered
      <3>1. CASE o \in 1..(first - 1)
        BY <1>3, <3>1, <1>0, <2>1, <2>2, CoverAppend DEF Flush, KeepInv, Kept
      <3>2. CASE o \in first..(next - 1)
        BY <3>2, <1>0, <2>1, <2>2, CoverAppend DEF Buffered
      <3> QED
        BY <1>0, <3>1, <3>2
    <2>4. Ordered'
      <3>1. \A i \in DOMAIN batchCh : batchCh[i].open => batchCh[i].last < first
        BY DEF TypeInv, Bounded, BatchesOK
      <3>2. \A i \in DOMAIN writing : writing[i].open => writing[i].last < first
        BY DEF TypeInv, Bounded, BatchesOK
      <3>3. Buffered.first = first
        BY DEF Buffered
      <3>4. /\ DOMAIN batchCh' = DOMAIN batchCh \cup {Len(batchCh) + 1}
            /\ batchCh'[Len(batchCh) + 1] = Buffered
            /\ \A i \in DOMAIN batchCh : batchCh'[i] = batchCh[i]
            /\ \A i \in DOMAIN batchCh : i \in Nat /\ i <= Len(batchCh)
            /\ Len(batchCh) \in Nat
        BY <1>0, <2>1, <2>2, AppendBatch
      <3>5. writing' = writing
        BY <1>3 DEF Flush
      <3> QED
        BY <3>1, <3>2, <3>3, <3>4, <3>5 DEF Ordered, KeepInv
    <2> QED
      BY <1>3, <2>3, <2>4 DEF Flush, offsetVars, sinkVars, KeepInv, MarkedReported,
                              HealthyReports
  <1>4. CASE AutoCommit
    BY <1>0, <1>4 DEF AutoCommit, sourceVars, sinkVars, KeepInv, Kept, Ordered,
                      MarkedReported, HealthyReports, Covered
  <1>5. CASE Rebalance
    BY <1>0, <1>5, ClosedCoversNothing DEF Rebalance, Position, KeepInv, MarkedReported, sinkVars,
       Kept, Ordered, HealthyReports
  <1>6. CASE Take
    <2>1. /\ batchCh # <<>> /\ writing = <<>>
          /\ batchCh' = Tail(batchCh) /\ writing' = <<Head(batchCh)>>
      BY <1>6 DEF Take
    <2>2. \A o : Covered(o, batchCh) => Covered(o, writing') \/ Covered(o, batchCh')
      BY <1>0, <2>1, CoverTake
    <2>3. \A o : ~Covered(o, writing)
      BY <2>1 DEF Covered
    <2>4. Kept'
      BY <1>6, <2>2, <2>3 DEF Take, sourceVars, sinkVars, KeepInv, Kept
    <2>5. Ordered'
      <3>1. /\ \A i \in DOMAIN batchCh' : i \in Nat /\ i + 1 \in DOMAIN batchCh
                                          /\ batchCh'[i] = batchCh[i + 1] /\ i # 0
            /\ DOMAIN writing' = {1} /\ writing'[1] = batchCh[1] /\ 1 \in DOMAIN batchCh
        BY <1>0, <2>1, TakeBatch
      <3> QED
        BY <3>1 DEF KeepInv, Ordered
    <2> QED
      BY <1>6, <2>4, <2>5 DEF Take, offsetVars, sinkVars, KeepInv, MarkedReported,
                              HealthyReports
  <1>7. ASSUME writing # <<>>, writing' = <<>>, UNCHANGED <<run, first, batchCh>>,
               sink' \cup failed' = sink \cup failed \cup RecordsOf(writing[1])
        PROVE  Kept' /\ Ordered'
    BY <1>7, WritingBatch, <1>0 DEF Covered, RecordsOf, KeepInv, Kept, Ordered
  <1>8. CASE Write
    <2>1. Kept' /\ Ordered'
      BY <1>7, <1>8 DEF Write, sourceVars
    <2>2. MarkedReported'
      BY <1>8, AckedIsReported DEF Write, KeepInv, MarkedReported, Ack
    <2> QED
      BY <1>8, <2>1, <2>2 DEF Write, KeepInv, HealthyReports
  <1>9. CASE WriteFails
    BY <1>9, <1>7 DEF WriteFails, Report, sourceVars, offsetVars, KeepInv, MarkedReported,
       HealthyReports
  <1>10. CASE TableFails
    BY <1>10, <1>7 DEF TableFails, Report, sourceVars, offsetVars, KeepInv, MarkedReported,
       HealthyReports
  <1>11. CASE Cancel
    BY <1>11 DEF Cancel, sourceVars, offsetVars, sinkVars, KeepInv, Kept, Ordered,
                 MarkedReported, HealthyReports, Covered
  <1>12. ASSUME Drop, sink \subseteq sink' PROVE KeepInv'
    BY <1>0, <1>12 DEF Drop, KeepInv, MarkedReported, Kept, Ordered, HealthyReports
  <1>13. CASE EndRun
    BY <1>12, <1>13 DEF EndRun
  <1>14. CASE Crash
    BY <1>12, <1>14 DEF Crash
  <1>15. CASE StartRun
    BY <1>0, <1>15 DEF StartRun, Position, offsetVars, KeepInv, MarkedReported, Kept, Ordered,
       HealthyReports
  <1>16. CASE UNCHANGED vars
    BY <1>16 DEF vars, sourceVars, offsetVars, sinkVars, KeepInv, Kept, Ordered,
                 MarkedReported, HealthyReports, Covered
  <1> QED
    BY <1>1, <1>2, <1>3, <1>4, <1>5, <1>6, <1>8, <1>9, <1>10, <1>11, <1>13,
       <1>14, <1>15, <1>16 DEF Next, SourceStep, RunStep, LifeStep

LEMMA KeepInvariant ==
  ASSUME Kinds = {"kafka"}, Committed0 # 0
  PROVE  Spec => [](TypeInv /\ KeepInv)
  <1>1. Init => TypeInv /\ KeepInv
    BY TypeInit, KeepInit
  <1>2. TypeInv /\ KeepInv /\ [Next]_vars => (TypeInv /\ KeepInv)'
    BY TypeStep, KeepStep DEF TypeInv, TypeOK
  <1> QED
    BY <1>1, <1>2, PTL DEF Spec

\* Of a Kafka group that has committed before: a record behind the committed
\* offset is in the table or its batch's failure was counted and logged,
\* through stops, crashes and rebalances, and however writes fail.
THEOREM LossReported ==
  ASSUME Kinds = {"kafka"}, Committed0 # 0
  PROVE  Spec => []LossIsReported
  <1>1. TypeInv /\ KeepInv => LossIsReported
    BY DeliveryAssumption
    DEF TypeInv, TypeOK, Bounded, KeepInv, MarkedReported, LossIsReported
  <1> QED
    BY <1>1, KeepInvariant, PTL

\* If no write fails, what is committed is in the table.
THEOREM CommittedWritten ==
  ASSUME Kinds = {"kafka"}, Committed0 # 0, ~SinkFails
  PROVE  Spec => []CommittedIsWritten
  <1>1. TypeInv /\ KeepInv => CommittedIsWritten
    BY DeliveryAssumption
    DEF TypeInv, TypeOK, Bounded, KeepInv, MarkedReported, HealthyReports, CommittedIsWritten
  <1> QED
    BY <1>1, KeepInvariant, PTL

\* No record the source of a running pipeline has passed is lost without a
\* trace: it is buffered, in a batch, written, or its failure is reported.
THEOREM PassedKept ==
  ASSUME Kinds = {"kafka"}, Committed0 # 0
  PROVE  Spec => []PassedIsKept
  <1>1. TypeInv /\ KeepInv => PassedIsKept
    <2> SUFFICES ASSUME TypeInv, KeepInv, run = "on", NEW o \in 1..(next - 1)
                 PROVE  o \in (first..(next - 1)) \cup InFlight \cup sink \cup failed
      BY DEF PassedIsKept
    <2>1. first \in Nat /\ next \in Nat
      BY DeliveryAssumption DEF TypeInv, TypeOK
    <2>2. CASE o \in first..(next - 1)
      BY <2>2
    <2>3. CASE o \in 1..(first - 1)
      BY <2>3 DEF KeepInv, Kept, Covered, InFlight, RecordsOf, Range
    <2> QED
      BY <2>1, <2>2, <2>3
  <1> QED
    BY <1>1, KeepInvariant, PTL

\* Nothing that a Kafka pipeline passed or committed is lost without a trace.
THEOREM NothingLostSilently ==
  ASSUME Kinds = {"kafka"}, Committed0 # 0
  PROVE  Spec => []NoSilentLoss
  <1>1. LossIsReported /\ PassedIsKept => NoSilentLoss
    BY DEF NoSilentLoss
  <1> QED
    BY <1>1, LossReported, PassedKept, PTL

----------------------------------------------------------------------------
(* The runs (PipelineRunner).  The argument: a start that has passed the   *)
(* check of the map inserts its run before another start looks (OneStart), *)
(* so that the map has exactly the live runs (InMap); and a run writes its *)
(* final status before it leaves the map (Closing), so that a pipeline     *)
(* does not keep the status running of a run that is gone.                 *)

CONSTANTS Pipelines, Hooks, Runs, NoRun, MaxStarts, MayCrash

VARIABLES webhooks, status, server, remaining, timer, recovering, entry, registry, stopper,
          of, stage, resumed, cancelled, source, queue, row

Runner == INSTANCE PipelineRunner

\* The assumption of PipelineRunner.
RunnerConstants ==
    /\ Pipelines # {} /\ Hooks \subseteq Pipelines
    /\ IsFiniteSet(Runs) /\ NoRun \notin Runs
    /\ QueueCap \in Nat \ {0}
    /\ MaxStarts \in Nat
    /\ MayCrash \in BOOLEAN

\* The stages of runPipeline up to its deferred delete.
Live == {"running", "row", "status", "unmap"}

\* The map has the runs that are live, under their pipelines, and nothing else.
InMap == \A p \in Pipelines, r \in Runs : entry[p] = r <=> of[r] = p /\ stage[r] \in Live

\* No pipeline is being started twice at once.
Apart == \A q, r \in Runs :
    stage[q] \in Runner!Starting /\ stage[r] \in Runner!Starting /\ of[q] = of[r] => q = r

\* The one start of a pipeline under way found it out of the map and, when it was
\* requested, not running in the database.
OneStart ==
    /\ \A r \in Runs : stage[r] \in {"checked", "created", "marked"} => entry[of[r]] = NoRun
    /\ \A r \in Runs : stage[r] \in {"asked", "checked", "created"} /\ ~resumed[r]
                        => status[of[r]] # "running"

\* A run that ends writes its status before it leaves the map.
RowFinal == \A r \in Runs : stage[r] = "status" => row[r] \in Runner!Final
Closing == \A r \in Runs : stage[r] = "unmap" => status[of[r]] # "running"

MapInv == InMap /\ OneStart /\ Closing /\ Runner!RunningIsRun

\* Whatever the map has of a pipeline is a run of it that has not ended.
MapLive == \A p \in Pipelines :
    entry[p] # NoRun => of[entry[p]] = p /\ stage[entry[p]] \in Live

LEMMA RunnerSome == ASSUME RunnerConstants PROVE Runner!SomePipeline \in Pipelines
BY DEF RunnerConstants, Runner!SomePipeline

\* The types are kept.
LEMMA RunnerTypeStep ==
    ASSUME RunnerConstants
    PROVE  Runner!TypeOK /\ RowFinal /\ [Runner!Next]_Runner!vars => Runner!TypeOK'
<1> SUFFICES ASSUME Runner!TypeOK, RowFinal, [Runner!Next]_Runner!vars PROVE Runner!TypeOK'
  OBVIOUS
<1>c. QueueCap \in Nat \ {0} /\ NoRun \notin Runs
  BY DEF RunnerConstants
<1>e. ASSUME Runner!Exit PROVE Runner!TypeOK'
  <2>1. Runner!SomePipeline \in Pipelines /\ 0 \in 0..QueueCap
    BY <1>c, RunnerSome
  <2>2. of' \in [Runs -> Pipelines] /\ queue' \in [Runs -> 0..QueueCap]
    BY <1>e, <2>1 DEF Runner!Exit
  <2>3. /\ stage' \in [Runs -> {"free", "running", "done"} \cup Runner!Starting \cup Runner!Ending]
        /\ stopper' \in [Pipelines -> {"idle", "asked", "mark"} \cup Runs]
        /\ source' \in [Runs -> {"off", "up", "failed", "down"}]
        /\ row' \in [Runs -> {"none", "running"} \cup Runner!Final]
    BY <1>e DEF Runner!Exit
  <2> QED
    BY <1>e, <2>2, <2>3 DEF Runner!Exit, Runner!TypeOK
<1>1. ASSUME NEW p \in Pipelines, NEW r \in Runs, Runner!StartAsk(p, r) PROVE Runner!TypeOK'
  <2>1. Runner!Allocate(r, p, FALSE)
    BY <1>1 DEF Runner!StartAsk
  <2>2. /\ of' \in [Runs -> Pipelines]
        /\ stage' \in [Runs -> {"free", "running", "done"} \cup Runner!Starting \cup Runner!Ending]
        /\ resumed' \in [Runs -> BOOLEAN] /\ cancelled' \in [Runs -> BOOLEAN]
    BY <2>1 DEF Runner!Allocate, Runner!TypeOK, Runner!Starting
  <2>3. /\ source' \in [Runs -> {"off", "up", "failed", "down"}]
        /\ row' \in [Runs -> {"none", "running"} \cup Runner!Final]
    BY <2>1 DEF Runner!Allocate, Runner!TypeOK
  <2>4. queue' \in [Runs -> 0..QueueCap]
    BY <2>1, <1>c DEF Runner!Allocate, Runner!TypeOK
  <2>5. recovering' \subseteq Pipelines
    BY <1>1 DEF Runner!StartAsk, Runner!TypeOK
  <2> QED
    BY <1>1, <2>2, <2>3, <2>4, <2>5 DEF Runner!StartAsk, Runner!TypeOK, Runner!shutVars
<1>2. ASSUME NEW p \in Pipelines, NEW r \in Runs, Runner!Resume(p, r) PROVE Runner!TypeOK'
  <2>1. Runner!Allocate(r, p, TRUE)
    BY <1>2 DEF Runner!Resume
  <2>2. /\ of' \in [Runs -> Pipelines]
        /\ stage' \in [Runs -> {"free", "running", "done"} \cup Runner!Starting \cup Runner!Ending]
        /\ resumed' \in [Runs -> BOOLEAN] /\ cancelled' \in [Runs -> BOOLEAN]
    BY <2>1 DEF Runner!Allocate, Runner!TypeOK, Runner!Starting
  <2>3. /\ source' \in [Runs -> {"off", "up", "failed", "down"}]
        /\ row' \in [Runs -> {"none", "running"} \cup Runner!Final]
    BY <2>1 DEF Runner!Allocate, Runner!TypeOK
  <2>4. queue' \in [Runs -> 0..QueueCap]
    BY <2>1, <1>c DEF Runner!Allocate, Runner!TypeOK
  <2>5. recovering' \subseteq Pipelines
    BY <1>2 DEF Runner!Resume, Runner!TypeOK
  <2> QED
    BY <1>2, <2>2, <2>3, <2>4, <2>5 DEF Runner!Resume, Runner!TypeOK, Runner!shutVars
<1> USE DEF Runner!TypeOK, Runner!Starting, Runner!Ending, Runner!Final, Runner!vars,
            Runner!shutVars, Runner!runVars
<1>3. ASSUME NEW r \in Runs, Runner!StartCheck(r) PROVE Runner!TypeOK'
  BY <1>3 DEF Runner!StartCheck, Runner!StartFails
<1>4. ASSUME NEW r \in Runs, Runner!StartInvalid(r) PROVE Runner!TypeOK'
  BY <1>4 DEF Runner!StartInvalid, Runner!StartFails
<1>5. ASSUME NEW r \in Runs, Runner!StartCreate(r) PROVE Runner!TypeOK'
  BY <1>5 DEF Runner!StartCreate
<1>6. ASSUME NEW r \in Runs, Runner!StartMark(r) PROVE Runner!TypeOK'
  BY <1>6 DEF Runner!StartMark
<1>7. ASSUME NEW r \in Runs, Runner!StartInsert(r) PROVE Runner!TypeOK'
  BY <1>7 DEF Runner!StartInsert
<1>8. ASSUME NEW r \in Runs, Runner!SourceUp(r) PROVE Runner!TypeOK'
  BY <1>8 DEF Runner!SourceUp
<1>9. ASSUME NEW r \in Runs, Runner!SourceEmit(r) PROVE Runner!TypeOK'
  <2>1. queue[r] + 1 \in 0..QueueCap
    BY <1>9, <1>c DEF Runner!SourceEmit, Runner!TypeOK
  <2>2. queue' \in [Runs -> 0..QueueCap]
    BY <1>9, <2>1 DEF Runner!SourceEmit, Runner!TypeOK
  <2>3. stage' \in [Runs -> {"free", "running", "done"} \cup Runner!Starting \cup Runner!Ending]
    BY <1>9 DEF Runner!SourceEmit, Runner!TypeOK, Runner!Ending
  <2> QED
    BY <1>9, <2>2, <2>3 DEF Runner!SourceEmit, Runner!TypeOK, Runner!shutVars
<1>10. ASSUME NEW r \in Runs, Runner!SourceStops(r) PROVE Runner!TypeOK'
  BY <1>10 DEF Runner!SourceStops
<1>11. ASSUME NEW r \in Runs, Runner!SourceFails(r) PROVE Runner!TypeOK'
  BY <1>11 DEF Runner!SourceFails
<1>12. ASSUME NEW r \in Runs, Runner!Consume(r) PROVE Runner!TypeOK'
  <2>1. queue[r] - 1 \in 0..QueueCap
    BY <1>12, <1>c DEF Runner!Consume, Runner!TypeOK
  <2>2. queue' \in [Runs -> 0..QueueCap]
    BY <1>12, <2>1 DEF Runner!Consume, Runner!TypeOK
  <2>3. stage' \in [Runs -> {"free", "running", "done"} \cup Runner!Starting \cup Runner!Ending]
    BY <1>12 DEF Runner!Consume, Runner!TypeOK, Runner!Ending
  <2> QED
    BY <1>12, <2>2, <2>3 DEF Runner!Consume, Runner!TypeOK, Runner!shutVars
<1>13. ASSUME NEW r \in Runs, Runner!Drained(r) PROVE Runner!TypeOK'
  BY <1>13 DEF Runner!Drained
<1>14. ASSUME NEW r \in Runs, Runner!RecordRun(r) PROVE Runner!TypeOK'
  BY <1>14 DEF Runner!RecordRun
<1>15. ASSUME NEW r \in Runs, Runner!RecordStatus(r) PROVE Runner!TypeOK'
  BY <1>15 DEF Runner!RecordStatus, RowFinal, Runner!TypeOK, Runner!Ending, Runner!shutVars
<1>16. ASSUME NEW r \in Runs, Runner!Unmap(r) PROVE Runner!TypeOK'
  BY <1>16 DEF Runner!Unmap
<1>17. ASSUME NEW r \in Runs, Runner!CloseDone(r) PROVE Runner!TypeOK'
  BY <1>17 DEF Runner!CloseDone
<1>18. ASSUME NEW r \in Runs, Runner!Forget(r) PROVE Runner!TypeOK'
  BY <1>18 DEF Runner!Forget
<1>19. ASSUME NEW p \in Pipelines, Runner!StopAsk(p) PROVE Runner!TypeOK'
  BY <1>19 DEF Runner!StopAsk
<1>20. ASSUME NEW p \in Pipelines, Runner!StopLoad(p) PROVE Runner!TypeOK'
  BY <1>20 DEF Runner!StopLoad
<1>21. ASSUME NEW p \in Pipelines, Runner!StopMark(p) PROVE Runner!TypeOK'
  BY <1>21 DEF Runner!StopMark
<1>22. ASSUME NEW p \in Pipelines, Runner!StopReturn(p) PROVE Runner!TypeOK'
  BY <1>22 DEF Runner!StopReturn
<1>23. ASSUME Runner!ShutCancel PROVE Runner!TypeOK'
  BY <1>23 DEF Runner!ShutCancel
<1>24. ASSUME Runner!ShutLock PROVE Runner!TypeOK'
  BY <1>24 DEF Runner!ShutLock
<1>25. ASSUME NEW p \in Pipelines, Runner!ShutWait(p) PROVE Runner!TypeOK'
  BY <1>25 DEF Runner!ShutWait
<1>26. ASSUME Runner!ShutEnd PROVE Runner!TypeOK'
  BY <1>26, <1>e DEF Runner!ShutEnd
<1>27. ASSUME Runner!Crash PROVE Runner!TypeOK'
  BY <1>27, <1>e DEF Runner!Crash
<1>28. ASSUME Runner!Restart PROVE Runner!TypeOK'
  BY <1>28 DEF Runner!Restart
<1>29. CASE UNCHANGED Runner!vars
  BY <1>29
<1> HIDE DEF Runner!TypeOK, Runner!vars
<1> QED
  BY <1>1, <1>2, <1>3, <1>4, <1>5, <1>6, <1>7, <1>8, <1>9, <1>10, <1>11, <1>12, <1>13, <1>14, <1>15,
     <1>16, <1>17, <1>18, <1>19, <1>20, <1>21, <1>22, <1>23, <1>24, <1>25, <1>26, <1>27, <1>28, <1>29
     DEF Runner!Next, Runner!StartStep, Runner!SourceStep, Runner!RunStep, Runner!StopStep,
         Runner!ShutStep

\* The map, the runs and the database stay in step.
LEMMA RunnerStep ==
    ASSUME RunnerConstants
    PROVE  Runner!TypeOK /\ RowFinal /\ MapInv /\ Apart /\ [Runner!Next]_Runner!vars => MapInv'
<1> SUFFICES ASSUME Runner!TypeOK, RowFinal, MapInv, Apart, [Runner!Next]_Runner!vars
             PROVE  MapInv'
  OBVIOUS
<1>n. NoRun \notin Runs
  BY DEF RunnerConstants
<1>t. /\ status \in [Pipelines -> {"draft", "running"} \cup Runner!Final]
      /\ entry \in [Pipelines -> Runs \cup {NoRun}]
      /\ of \in [Runs -> Pipelines]
      /\ stage \in [Runs -> {"free", "running", "done"} \cup Runner!Starting \cup Runner!Ending]
      /\ resumed \in [Runs -> BOOLEAN] /\ row \in [Runs -> {"none", "running"} \cup Runner!Final]
      /\ recovering \subseteq Pipelines
  BY DEF Runner!TypeOK
<1>1. ASSUME NEW p \in Pipelines, NEW r \in Runs, Runner!StartAsk(p, r) PROVE MapInv'
  <2>1. Runner!Allocate(r, p, FALSE)
    BY <1>1 DEF Runner!StartAsk
  <2>2. /\ of' = [of EXCEPT ![r] = p] /\ stage' = [stage EXCEPT ![r] = "asked"] /\ stage[r] = "free"
        /\ resumed' = [resumed EXCEPT ![r] = FALSE]
        /\ row' = [row EXCEPT ![r] = "none"]
    BY <2>1 DEF Runner!Allocate
  <2>4. UNCHANGED <<entry, status, server>> /\ (recovering' = recovering \/ recovering' = recovering \ {p})
        /\ status[p] # "running" /\ recovering' = recovering
    BY <1>1 DEF Runner!StartAsk, Runner!shutVars
  <2>5. InMap'
    BY <1>t, <1>n, <2>2, <2>4 DEF MapInv, InMap, Live
  <2>6. OneStart'
    BY <1>t, <2>2, <2>4 DEF MapInv, OneStart
  <2>7. Closing'
    BY <1>t, <2>2, <2>4 DEF MapInv, Closing
  <2>8. Runner!RunningIsRun'
    BY <1>t, <2>2, <2>4 DEF MapInv, Runner!RunningIsRun, Runner!Starting, Runner!Alive
  <2> QED
    BY <2>5, <2>6, <2>7, <2>8 DEF MapInv
<1>2. ASSUME NEW p \in Pipelines, NEW r \in Runs, Runner!Resume(p, r) PROVE MapInv'
  <2>1. Runner!Allocate(r, p, TRUE)
    BY <1>2 DEF Runner!Resume
  <2>2. /\ of' = [of EXCEPT ![r] = p] /\ stage' = [stage EXCEPT ![r] = "asked"] /\ stage[r] = "free"
        /\ resumed' = [resumed EXCEPT ![r] = TRUE]
        /\ row' = [row EXCEPT ![r] = "none"]
    BY <2>1 DEF Runner!Allocate
  <2>4. UNCHANGED <<entry, status, server>> /\ (recovering' = recovering \/ recovering' = recovering \ {p})
        /\ p \notin recovering'
    BY <1>2 DEF Runner!Resume, Runner!shutVars
  <2>5. InMap'
    BY <1>t, <1>n, <2>2, <2>4 DEF MapInv, InMap, Live
  <2>6. OneStart'
    BY <1>t, <2>2, <2>4 DEF MapInv, OneStart
  <2>7. Closing'
    BY <1>t, <2>2, <2>4 DEF MapInv, Closing
  <2>8. Runner!RunningIsRun'
    BY <1>t, <2>2, <2>4 DEF MapInv, Runner!RunningIsRun, Runner!Starting, Runner!Alive
  <2> QED
    BY <2>5, <2>6, <2>7, <2>8 DEF MapInv
<1> USE <1>t, <1>n
        DEF MapInv, InMap, OneStart, Apart, RowFinal, Closing, Runner!RunningIsRun, Runner!Alive,
            Runner!MayLock, Runner!Starting, Runner!Final, Live, Runner!vars, Runner!shutVars,
            Runner!runVars
<1>3. ASSUME NEW r \in Runs, Runner!StartCheck(r) PROVE MapInv'
  BY <1>3 DEF Runner!StartCheck, Runner!StartFails
<1>4. ASSUME NEW r \in Runs, Runner!StartInvalid(r) PROVE MapInv'
  BY <1>4 DEF Runner!StartInvalid, Runner!StartFails
<1>5. ASSUME NEW r \in Runs, Runner!StartCreate(r) PROVE MapInv'
  BY <1>5 DEF Runner!StartCreate
<1>6. ASSUME NEW r \in Runs, Runner!StartMark(r) PROVE MapInv'
  BY <1>6 DEF Runner!StartMark
<1>7. ASSUME NEW r \in Runs, Runner!StartInsert(r) PROVE MapInv'
  BY <1>7 DEF Runner!StartInsert
<1>8. ASSUME NEW r \in Runs, Runner!SourceUp(r) PROVE MapInv'
  BY <1>8 DEF Runner!SourceUp
<1>9. ASSUME NEW r \in Runs, Runner!SourceEmit(r) PROVE MapInv'
  BY <1>9 DEF Runner!SourceEmit
<1>10. ASSUME NEW r \in Runs, Runner!SourceStops(r) PROVE MapInv'
  BY <1>10 DEF Runner!SourceStops
<1>11. ASSUME NEW r \in Runs, Runner!SourceFails(r) PROVE MapInv'
  BY <1>11 DEF Runner!SourceFails
<1>12. ASSUME NEW r \in Runs, Runner!Consume(r) PROVE MapInv'
  BY <1>12 DEF Runner!Consume
<1>13. ASSUME NEW r \in Runs, Runner!Drained(r) PROVE MapInv'
  BY <1>13 DEF Runner!Drained
<1>14. ASSUME NEW r \in Runs, Runner!RecordRun(r) PROVE MapInv'
  BY <1>14 DEF Runner!RecordRun
<1>15. ASSUME NEW r \in Runs, Runner!RecordStatus(r) PROVE MapInv'
  BY <1>15 DEF Runner!RecordStatus
<1>16. ASSUME NEW r \in Runs, Runner!Unmap(r) PROVE MapInv'
  BY <1>16 DEF Runner!Unmap
<1>17. ASSUME NEW r \in Runs, Runner!CloseDone(r) PROVE MapInv'
  BY <1>17 DEF Runner!CloseDone
<1>18. ASSUME NEW r \in Runs, Runner!Forget(r) PROVE MapInv'
  BY <1>18 DEF Runner!Forget
<1>19. ASSUME NEW p \in Pipelines, Runner!StopAsk(p) PROVE MapInv'
  BY <1>19 DEF Runner!StopAsk
<1>20. ASSUME NEW p \in Pipelines, Runner!StopLoad(p) PROVE MapInv'
  BY <1>20 DEF Runner!StopLoad
<1>21. ASSUME NEW p \in Pipelines, Runner!StopMark(p) PROVE MapInv'
  BY <1>21 DEF Runner!StopMark
<1>22. ASSUME NEW p \in Pipelines, Runner!StopReturn(p) PROVE MapInv'
  BY <1>22 DEF Runner!StopReturn
<1>23. ASSUME Runner!ShutCancel PROVE MapInv'
  BY <1>23 DEF Runner!ShutCancel
<1>24. ASSUME Runner!ShutLock PROVE MapInv'
  BY <1>24 DEF Runner!ShutLock
<1>25. ASSUME NEW p \in Pipelines, Runner!ShutWait(p) PROVE MapInv'
  BY <1>25 DEF Runner!ShutWait
<1>26. ASSUME Runner!ShutEnd PROVE MapInv'
  BY <1>26 DEF Runner!ShutEnd, Runner!Exit
<1>27. ASSUME Runner!Crash PROVE MapInv'
  BY <1>27 DEF Runner!Crash, Runner!Exit
<1>28. ASSUME Runner!Restart PROVE MapInv'
  BY <1>28 DEF Runner!Restart
<1>29. CASE UNCHANGED Runner!vars
  BY <1>29
<1> HIDE DEF MapInv, Runner!vars
<1> QED
  BY <1>1, <1>2, <1>3, <1>4, <1>5, <1>6, <1>7, <1>8, <1>9, <1>10, <1>11, <1>12, <1>13, <1>14, <1>15,
     <1>16, <1>17, <1>18, <1>19, <1>20, <1>21, <1>22, <1>23, <1>24, <1>25, <1>26, <1>27, <1>28, <1>29
     DEF Runner!Next, Runner!StartStep, Runner!SourceStep, Runner!RunStep, Runner!StopStep,
         Runner!ShutStep

\* However starts overlap: a run is taken out of the map before its slot is used again.
LEMMA MapLiveStep ==
    ASSUME RunnerConstants
    PROVE  Runner!TypeOK /\ RowFinal /\ MapLive /\ [Runner!Next]_Runner!vars
               => RowFinal' /\ MapLive'
<1> SUFFICES ASSUME Runner!TypeOK, RowFinal, MapLive, [Runner!Next]_Runner!vars
             PROVE  RowFinal' /\ MapLive'
  OBVIOUS
<1>t. /\ entry \in [Pipelines -> Runs \cup {NoRun}] /\ of \in [Runs -> Pipelines]
      /\ stage \in [Runs -> {"free", "running", "done"} \cup Runner!Starting \cup Runner!Ending]
      /\ row \in [Runs -> {"none", "running"} \cup Runner!Final] /\ NoRun \notin Runs
  BY DEF Runner!TypeOK, RunnerConstants
<1> USE <1>t DEF RowFinal, MapLive, Live, Runner!Final
<1>1. ASSUME NEW r \in Runs, Runner!StartStep(r) PROVE RowFinal' /\ MapLive'
  <2>1. ASSUME NEW p \in Pipelines, Runner!StartAsk(p, r) \/ Runner!Resume(p, r)
        PROVE  RowFinal' /\ MapLive'
    BY <1>1, <2>1 DEF Runner!StartAsk, Runner!Resume, Runner!Allocate
  <2>2. CASE Runner!StartCheck(r) \/ Runner!StartInvalid(r)
    BY <1>1, <2>2 DEF Runner!StartCheck, Runner!StartFails, Runner!StartInvalid
  <2>3. CASE Runner!StartCreate(r) \/ Runner!StartMark(r)
    BY <1>1, <2>3 DEF Runner!StartCreate, Runner!StartMark
  <2>4. CASE Runner!StartInsert(r)
    BY <1>1, <2>4 DEF Runner!StartInsert
  <2> QED
    BY <1>1, <2>1, <2>2, <2>3, <2>4 DEF Runner!StartStep
<1>2. ASSUME NEW r \in Runs, Runner!SourceStep(r) PROVE RowFinal' /\ MapLive'
  BY <1>2
     DEF Runner!SourceStep, Runner!SourceUp, Runner!SourceEmit, Runner!SourceStops,
         Runner!SourceFails
<1>3. ASSUME NEW r \in Runs, Runner!RunStep(r) PROVE RowFinal' /\ MapLive'
  BY <1>3
     DEF Runner!RunStep, Runner!Consume, Runner!Drained, Runner!RecordRun, Runner!RecordStatus,
         Runner!Unmap, Runner!CloseDone, Runner!Forget
<1>4. ASSUME NEW p \in Pipelines, Runner!StopStep(p) PROVE RowFinal' /\ MapLive'
  BY <1>4
     DEF Runner!StopStep, Runner!StopAsk, Runner!StopLoad, Runner!StopMark, Runner!StopReturn,
         Runner!runVars
<1>5. ASSUME Runner!ShutStep \/ Runner!Crash \/ Runner!Restart \/ UNCHANGED Runner!vars
      PROVE  RowFinal' /\ MapLive'
  BY <1>5
     DEF Runner!ShutStep, Runner!ShutCancel, Runner!ShutLock, Runner!ShutWait, Runner!ShutEnd,
         Runner!Exit, Runner!Crash, Runner!Restart, Runner!vars, Runner!runVars
<1> QED
  BY <1>1, <1>2, <1>3, <1>4, <1>5 DEF Runner!Next

LEMMA RunnerInit == ASSUME RunnerConstants PROVE 
    Runner!Init => Runner!TypeOK /\ RowFinal /\ MapLive /\ MapInv
<1> SUFFICES ASSUME Runner!Init PROVE Runner!TypeOK /\ RowFinal /\ MapLive /\ MapInv
  OBVIOUS
<1>1. Runner!SomePipeline \in Pipelines /\ QueueCap \in Nat /\ NoRun \notin Runs
  BY RunnerSome DEF RunnerConstants
<1>2. Runner!TypeOK
  <2>1. of \in [Runs -> Pipelines] /\ queue \in [Runs -> 0..QueueCap]
    BY <1>1 DEF Runner!Init
  <2>2. /\ stage \in [Runs -> {"free", "running", "done"} \cup Runner!Starting \cup Runner!Ending]
        /\ stopper \in [Pipelines -> {"idle", "asked", "mark"} \cup Runs]
        /\ source \in [Runs -> {"off", "up", "failed", "down"}]
        /\ row \in [Runs -> {"none", "running"} \cup Runner!Final]
        /\ status \in [Pipelines -> {"draft", "running"} \cup Runner!Final]
        /\ webhooks \subseteq Hooks
    BY DEF Runner!Init
  <2> QED
    BY <2>1, <2>2 DEF Runner!Init, Runner!TypeOK
<1>3. RowFinal /\ MapLive /\ MapInv
  BY <1>1
     DEF Runner!Init, RowFinal, MapLive, MapInv, InMap, OneStart, Closing, Runner!RunningIsRun,
         Live, Runner!Starting
<1> QED
  BY <1>2, <1>3

\* For any number of pipelines, runs, batches and starts, and wherever the process is stopped
\* or killed: what a stop finds in the map is a run of its pipeline that has not ended, even
\* if starts of one pipeline overlap; and as long as none do (those of different ones may),
\* every run that is executed is in the map, and a pipeline that the database shows as
\* running is run, started or about to be resumed (runner.go, Start).
THEOREM RunsAreInMap ==
    ASSUME RunnerConstants
    PROVE  /\ Runner!Spec => []MapLive
           /\ Runner!Spec /\ []Apart => []Runner!RunInv
<1> DEFINE I == Runner!TypeOK /\ RowFinal /\ MapLive
<1>1. Runner!Init => I /\ MapInv
  BY RunnerInit
<1>2. I /\ [Runner!Next]_Runner!vars => I'
  BY RunnerTypeStep, MapLiveStep
<1>3. I /\ MapInv /\ Apart /\ [Runner!Next]_Runner!vars => MapInv'
  BY RunnerStep
<1>4. I /\ MapInv => Runner!RunInv
  <2> SUFFICES ASSUME I, MapInv PROVE Runner!LiveRunInMap
    BY DEF Runner!RunInv, MapInv
  <2> QED
    BY DEF MapInv, InMap, Live, Runner!LiveRunInMap, Runner!TypeOK
<1> QED
  BY <1>1, <1>2, <1>3, <1>4, PTL DEF Runner!Spec

-----------------------------------------------------------------------------
(* The sources that poll (PollingSources).  The argument: what was read of *)
(* a table or an object, up to the next row to read, has been handed on or *)
(* is in the buffer (SoFar), and a reading that ends without an error ends *)
(* behind the last row with an empty buffer (Ends); so that the rows of    *)
(* what is noted as read to its end have been handed on.  An object is     *)
(* marked while it is read, and after that only if it was read to its end  *)
(* (Marks).                                                                *)

CONSTANTS ChannelSize, None, Scenarios
VARIABLES foreign, batches, kept, reported, whole, retries, polls, changes, faults, scenario

Polling == INSTANCE PollingSources

\* A set of natural numbers has a least one.
LEMMA Least == ASSUME NEW S \in SUBSET Nat, S # {} PROVE \E x \in S : \A y \in S : x <= y
<1> DEFINE R == {ss \in Nat \X Nat : ss[1] < ss[2]}
<1>1. IsWellFoundedOn(R, Nat)
  BY NatLessThanWellFounded DEF OpToRel
<1>2. \E x \in S : \A y \in S : ~ (<<y, x>> \in R)
  <2> HIDE DEF R
  <2> QED BY <1>1, WFMin
<1>3. PICK x \in S : \A y \in S : ~ (<<y, x>> \in R)
  BY <1>2
<1>4. ASSUME NEW y \in S PROVE x <= y
  <2>1. x \in Nat /\ y \in Nat /\ <<y, x>> \in Nat \X Nat
    OBVIOUS
  <2>2. ~ (y < x)
    BY <1>3
  <2> QED
    BY <2>2
<1> QED
  BY <1>4

\* What holds at 0 and is kept by each step up to n holds up to n.
LEMMA StepByStep ==
    ASSUME NEW n \in Nat, NEW P \in SUBSET Nat, 0 \in P, \A i \in 1 .. n : i - 1 \in P => i \in P
    PROVE  \A i \in 0 .. n : i \in P
<1> SUFFICES ASSUME {i \in 0 .. n : i \notin P} # {} PROVE FALSE
  OBVIOUS
<1>1. PICK i \in {i \in 0 .. n : i \notin P} : \A j \in {j \in 0 .. n : j \notin P} : i <= j
  <2>1. {i \in 0 .. n : i \notin P} \in SUBSET Nat
    OBVIOUS
  <2> QED BY <2>1, Least
<1>2. i \in 1 .. n /\ i - 1 \in 0 .. n
  BY <1>1
<1>3. i - 1 \in P
  BY <1>1, <1>2
<1> QED
  BY <1>1, <1>2, <1>3

\* A function that is defined by what it does with its value before.
Loops(n, S, a, step) ==
    {f \in [0 .. n -> S] : f[0] = a /\ \A i \in 1 .. n : f[i] = step[<<i, f[i - 1]>>]}

LEMMA LoopExists ==
    ASSUME NEW n \in Nat, NEW S, NEW a \in S, NEW step \in [(1 .. n) \X S -> S]
    PROVE  \E f : f \in Loops(n, S, a, step)
<1> DEFINE Upto(k) == \E f \in [0 .. k -> S] : f[0] = a /\ \A i \in 1 .. k : f[i] = step[<<i, f[i - 1]>>]
           P == {k \in 0 .. n : Upto(k)}
<1>1. 0 \in P
  <2>1. [i \in 0 .. 0 |-> a] \in [0 .. 0 -> S]
    OBVIOUS
  <2>2. [i \in 0 .. 0 |-> a][0] = a /\ 1 .. 0 = {}
    OBVIOUS
  <2>3. Upto(0)
    BY <2>1, <2>2
  <2> QED BY <2>3
<1>2. ASSUME NEW k \in 1 .. n, k - 1 \in P PROVE k \in P
  <2>1. PICK f \in [0 .. (k - 1) -> S] :
           f[0] = a /\ \A i \in 1 .. (k - 1) : f[i] = step[<<i, f[i - 1]>>]
    BY <1>2
  <2> DEFINE h == [i \in 0 .. k |-> IF i = k THEN step[<<k, f[k - 1]>>] ELSE f[i]]
  <2>2. h \in [0 .. k -> S]
    BY <1>2, <2>1
  <2>3. h[0] = a
    BY <1>2, <2>1
  <2>4. ASSUME NEW i \in 1 .. k PROVE h[i] = step[<<i, h[i - 1]>>]
    <3>1. i - 1 \in 0 .. k /\ i - 1 # k /\ i \in 0 .. k
      BY <1>2, <2>4
    <3>2. h[i - 1] = f[i - 1]
      BY <3>1
    <3>3. CASE i = k
      BY <3>1, <3>2, <3>3
    <3>4. CASE i # k
      BY <1>2, <2>4, <3>4, <3>1, <2>1, <3>2
    <3> QED BY <3>3, <3>4
  <2> HIDE DEF h
  <2>5. Upto(k)
    BY <2>2, <2>3, <2>4
  <2> QED BY <1>2, <2>5
<1>3. P \in SUBSET Nat
  OBVIOUS
<1>4. \A i \in 0 .. n : i \in P
  <2> HIDE DEF P
  <2> QED BY <1>1, <1>2, <1>3, StepByStep
<1> QED
  BY <1>4 DEF Loops
Filtered(f, X, s, S) ==
    /\ f \in [0 .. Len(s) -> Seq(X)]
    /\ f[0] = <<>> /\ Polling!Among(s, S) = f[Len(s)]
    /\ \A i \in 1 .. Len(s) : f[i] = IF s[i] \in S THEN Append(f[i - 1], s[i]) ELSE f[i - 1]

LEMMA FilterLoop ==
    ASSUME NEW X, NEW s \in Seq(X), NEW S
    PROVE  \E f : Filtered(f, X, s, S)
<1> DEFINE n == Len(s)
           step == [x \in (1 .. n) \X Seq(X) |->
                       IF s[x[1]] \in S THEN Append(x[2], s[x[1]]) ELSE x[2]]
           body(f) == [i \in 0 .. n |-> IF i = 0 THEN <<>>
                          ELSE IF s[i] \in S THEN Append(f[i - 1], s[i]) ELSE f[i - 1]]
           loop == CHOOSE f : f = body(f)
<1>1. n \in Nat /\ <<>> \in Seq(X) /\ \A i \in 1 .. n : s[i] \in X
  OBVIOUS
<1>2. step \in [(1 .. n) \X Seq(X) -> Seq(X)]
  <2>1. ASSUME NEW x \in (1 .. n) \X Seq(X)
        PROVE  (IF s[x[1]] \in S THEN Append(x[2], s[x[1]]) ELSE x[2]) \in Seq(X)
    BY <2>1, <1>1
  <2> QED BY <2>1
<1>3. PICK f \in [0 .. n -> Seq(X)] :
         f[0] = <<>> /\ \A i \in 1 .. n : f[i] = step[<<i, f[i - 1]>>]
  <2>1. PICK f : f \in Loops(n, Seq(X), <<>>, step)
    <3> HIDE DEF step, n
    <3> QED BY <1>1, <1>2, LoopExists
  <2> HIDE DEF step
  <2> QED BY <2>1 DEF Loops
<1>4. ASSUME NEW i \in 1 .. n
      PROVE  f[i] = IF s[i] \in S THEN Append(f[i - 1], s[i]) ELSE f[i - 1]
  <2>1. i - 1 \in 0 .. n
    BY <1>4
  <2>2. <<i, f[i - 1]>> \in (1 .. n) \X Seq(X)
    BY <1>3, <1>4, <2>1
  <2> QED BY <1>3, <1>4, <2>2
<1>5. f = body(f)
  <2>1. f = [i \in 0 .. n |-> f[i]]
    BY <1>3
  <2>2. \A i \in 0 .. n : i # 0 => i \in 1 .. n
    BY <1>1
  <2>3. \A i \in 0 .. n : f[i] = body(f)[i]
    BY <1>3, <1>4, <2>2
  <2> QED BY <2>1, <2>3
<1>6. loop = body(loop)
  <2> HIDE DEF body
  <2> QED BY <1>5
<1>7. loop[0] = <<>> /\ loop = [i \in 0 .. n |-> loop[i]]
  <2> HIDE DEF loop
  <2> QED BY <1>1, <1>6
<1>8. ASSUME NEW i \in 1 .. n
      PROVE  loop[i] = IF s[i] \in S THEN Append(loop[i - 1], s[i]) ELSE loop[i - 1]
  <2> HIDE DEF loop
  <2>1. i \in 0 .. n /\ i # 0
    BY <1>8
  <2> QED BY <1>6, <2>1
<1>9. \A i \in 0 .. n : loop[i] \in Seq(X)
  <2> DEFINE P == {i \in 0 .. n : loop[i] \in Seq(X)}
  <2>1. P \in SUBSET Nat /\ 0 \in P
    <3> HIDE DEF loop
    <3>1. 0 \in 0 .. n /\ 0 .. n \subseteq Nat
      BY <1>1
    <3>2. loop[0] \in Seq(X)
      BY <1>1, <1>7
    <3> HIDE DEF n
    <3> QED BY <3>1, <3>2
  <2>2. ASSUME NEW i \in 1 .. n, i - 1 \in P PROVE i \in P
    <3> HIDE DEF loop
    <3>1. loop[i - 1] \in Seq(X) /\ s[i] \in X
      BY <1>1, <2>2
    <3>2. loop[i] \in Seq(X)
      <4>1. Append(loop[i - 1], s[i]) \in Seq(X)
        BY <3>1
      <4> QED BY <1>8, <2>2, <3>1, <4>1
    <3> QED BY <3>2, <2>2
  <2>3. \A i \in 0 .. n : i \in P
    <3> HIDE DEF P
    <3> QED BY <1>1, <2>1, <2>2, StepByStep
  <2> QED BY <2>3
<1>10. Polling!Among(s, S) = loop[n]
  BY DEF Polling!Among
<1> HIDE DEF loop
<1>11. loop \in [0 .. n -> Seq(X)]
  BY <1>7, <1>9
<1> QED
  BY <1>7, <1>8, <1>10, <1>11 DEF Filtered

\* Among keeps what is in S, and nothing else.
LEMMA AmongKeeps ==
    ASSUME NEW X, NEW s \in Seq(X), NEW S
    PROVE  /\ Polling!Among(s, S) \in Seq(X)
           /\ \A x : x \in Polling!ToSet(Polling!Among(s, S)) <=> x \in S /\ x \in Polling!ToSet(s)
<1> DEFINE n == Len(s)
           In(r, x) == \E i \in 1 .. Len(r) : r[i] = x
<1>1. PICK f \in [0 .. n -> Seq(X)] :
         /\ f[0] = <<>> /\ Polling!Among(s, S) = f[n]
         /\ \A i \in 1 .. n : f[i] = IF s[i] \in S THEN Append(f[i - 1], s[i]) ELSE f[i - 1]
  <2>1. PICK f : Filtered(f, X, s, S)
    BY FilterLoop
  <2> QED BY <2>1 DEF Filtered
<1> DEFINE P == {i \in 0 .. n : \A x : In(f[i], x) <=> x \in S /\ \E j \in 1 .. i : s[j] = x}
<1>2. n \in Nat /\ 0 \in P
  BY <1>1
<1>3. ASSUME NEW i \in 1 .. n, i - 1 \in P PROVE i \in P
  <2>1. i - 1 \in 0 .. n /\ i \in 0 .. n /\ f[i - 1] \in Seq(X) /\ s[i] \in X
    BY <1>1, <1>3
  <2>2. \A x : In(f[i - 1], x) <=> x \in S /\ \E j \in 1 .. (i - 1) : s[j] = x
    BY <1>3
  <2>3. \A x : (\E j \in 1 .. i : s[j] = x) <=> s[i] = x \/ \E j \in 1 .. (i - 1) : s[j] = x
    BY <2>1, <1>3
  <2>4. ASSUME NEW x PROVE In(f[i], x) <=> x \in S /\ \E j \in 1 .. i : s[j] = x
    <3>1. CASE s[i] \notin S
      <4>1. f[i] = f[i - 1]
        BY <1>1, <1>3, <3>1
      <4> HIDE DEF In
      <4> QED BY <2>2, <2>3, <3>1, <4>1
    <3>2. CASE s[i] \in S
      <4>1. f[i] = Append(f[i - 1], s[i])
        BY <1>1, <1>3, <3>2
      <4>2. In(f[i], x) <=> In(f[i - 1], x) \/ x = s[i]
        <5> DEFINE r == f[i - 1]
                   m == Len(r)
        <5>1. m \in Nat /\ Len(Append(r, s[i])) = m + 1 /\ Append(r, s[i])[m + 1] = s[i]
          BY <2>1
        <5>2. \A j \in 1 .. m : Append(r, s[i])[j] = r[j]
          BY <2>1
        <5>3. \A j \in 1 .. (m + 1) : j = m + 1 \/ j \in 1 .. m
          <6> HIDE DEF m
          <6> QED BY <5>1
        <5>4. m + 1 \in 1 .. (m + 1) /\ 1 .. m \subseteq 1 .. (m + 1)
          <6> HIDE DEF m
          <6> QED BY <5>1
        <5> HIDE DEF r
        <5> QED BY <4>1, <5>1, <5>2, <5>3, <5>4 DEF r
      <4> HIDE DEF In
      <4> QED BY <2>2, <2>3, <3>2, <4>2
    <3> QED BY <3>1, <3>2
  <2> HIDE DEF In
  <2> QED BY <2>1, <2>4
<1>4. \A i \in 0 .. n : i \in P
  <2>1. P \in SUBSET Nat
    OBVIOUS
  <2> HIDE DEF P, n
  <2> QED BY <1>2, <1>3, <2>1, StepByStep
<1>5. f[n] \in Seq(X) /\ n \in 0 .. n
  BY <1>1, <1>2
<1>6. \A x : In(f[n], x) <=> x \in S /\ In(s, x)
  BY <1>4, <1>5
<1>7. \A r : r \in Seq(X) => \A x : x \in Polling!ToSet(r) <=> In(r, x)
  <2> SUFFICES ASSUME NEW r \in Seq(X), NEW x PROVE x \in Polling!ToSet(r) <=> In(r, x)
    OBVIOUS
  <2>1. DOMAIN r = 1 .. Len(r)
    OBVIOUS
  <2> QED BY <2>1 DEF Polling!ToSet
<1> HIDE DEF In
<1> QED
  BY <1>1, <1>5, <1>6, <1>7

Busy == {"reading", "sending", "finished"}
Copies == Nat \X {r.id : r \in Polling!Row}
HandedOn == Polling!ToSet(kept) \cup reported \cup Polling!UnderWay

SourceTypes ==
    /\ DOMAIN source = {"at", "listed", "processed", "watermark", "key", "rows", "next", "buf",
                        "failed"}
    /\ source.at \in {"starting", "idle", "listing", "ended"} \cup Busy
    /\ source.rows \in Seq(Polling!Row) /\ source.buf \in Seq(Polling!Row)
    /\ source.failed \in BOOLEAN
    /\ source.at \in Busy => source.next \in 1 .. (Len(source.rows) + 1)

PollTypes ==
    /\ SourceTypes
    /\ batches \in Seq(Seq(Polling!Row)) /\ (writing # None => writing \in Seq(Polling!Row))
    /\ run \in Nat /\ kept \in Seq(Copies)
    /\ scenario \in Scenarios /\ changes \in Nat /\ source.listed \subseteq DOMAIN foreign
    /\ \A key \in DOMAIN foreign : foreign[key] \in Seq(Polling!Row)
    /\ scenario.type = "database" => "query" \in DOMAIN foreign
    /\ \A key \in DOMAIN whole : whole[key] \in Seq(Polling!Row)

Ends ==
    /\ source.at \notin {"sending", "ended"} => source.buf = <<>>
    /\ source.at = "reading" => ~source.failed
    /\ source.at = "sending" /\ source.failed => Len(source.buf) # BatchSize
    /\ source.at = "sending" /\ Len(source.buf) # BatchSize /\ ~source.failed
          => source.next = Len(source.rows) + 1
    /\ source.at = "finished" /\ ~source.failed => source.next = Len(source.rows) + 1

SoFar ==
    ~cancelled /\ source.at \in Busy /\ ~source.failed =>
        \A i \in 1 .. (source.next - 1) : source.rows[i].kind = "good" =>
            \/ <<run, source.rows[i].id>> \in HandedOn
            \/ source.rows[i] \in Polling!ToSet(source.buf)

Marks ==
    ~cancelled => \A key \in source.processed :
        key \in DOMAIN whole \/ (source.at \in Busy /\ key = source.key)

\* The members of sequences.
LEMMA SetOf == ASSUME NEW X, NEW s \in Seq(X), NEW x
               PROVE  x \in Polling!ToSet(s) <=> \E i \in 1 .. Len(s) : s[i] = x
BY DEF Polling!ToSet

LEMMA SetOfAppend == ASSUME NEW X, NEW s \in Seq(X), NEW e \in X
                     PROVE  Polling!ToSet(Append(s, e)) = Polling!ToSet(s) \cup {e}
<1> DEFINE m == Len(s)
<1>1. m \in Nat /\ Append(s, e) \in Seq(X) /\ Len(Append(s, e)) = m + 1 /\ Append(s, e)[m + 1] = e
  OBVIOUS
<1>2. \A j \in 1 .. m : Append(s, e)[j] = s[j]
  OBVIOUS
<1>3. \A j \in 1 .. (m + 1) : j = m + 1 \/ j \in 1 .. m
  <2> HIDE DEF m
  <2> QED BY <1>1
<1>4. m + 1 \in 1 .. (m + 1) /\ 1 .. m \subseteq 1 .. (m + 1)
  <2> HIDE DEF m
  <2> QED BY <1>1
<1>5. \A x : x \in Polling!ToSet(Append(s, e)) <=> x \in Polling!ToSet(s) \/ x = e
  <2>1. \A x : x \in Polling!ToSet(s) <=> \E i \in 1 .. m : s[i] = x
    BY SetOf
  <2>2. \A x : x \in Polling!ToSet(Append(s, e)) <=> \E i \in 1 .. (m + 1) : Append(s, e)[i] = x
    BY <1>1, SetOf
  <2> HIDE DEF m
  <2> QED BY <1>1, <1>2, <1>3, <1>4, <2>1, <2>2
<1> QED BY <1>5

LEMMA SetOfConcat == ASSUME NEW X, NEW s \in Seq(X), NEW t \in Seq(X)
                     PROVE  Polling!ToSet(s \o t) = Polling!ToSet(s) \cup Polling!ToSet(t)
<1>1. s \o t \in Seq(X) /\ Len(s \o t) = Len(s) + Len(t) /\ Len(s) \in Nat /\ Len(t) \in Nat
  OBVIOUS
<1>2. \A i \in 1 .. (Len(s) + Len(t)) :
         (s \o t)[i] = IF i <= Len(s) THEN s[i] ELSE t[i - Len(s)]
  OBVIOUS
<1>3. ASSUME NEW x \in Polling!ToSet(s) PROVE x \in Polling!ToSet(s \o t)
  <2>1. PICK i \in 1 .. Len(s) : s[i] = x
    BY <1>3, SetOf
  <2>2. i \in 1 .. Len(s \o t) /\ (s \o t)[i] = x
    BY <1>1, <1>2, <2>1
  <2> QED BY <1>1, <2>2, SetOf
<1>4. ASSUME NEW x \in Polling!ToSet(t) PROVE x \in Polling!ToSet(s \o t)
  <2>1. PICK i \in 1 .. Len(t) : t[i] = x
    BY <1>4, SetOf
  <2>2. Len(s) + i \in 1 .. Len(s \o t) /\ (s \o t)[Len(s) + i] = x
    BY <1>1, <1>2, <2>1
  <2> QED BY <1>1, <2>2, SetOf
<1>5. ASSUME NEW x \in Polling!ToSet(s \o t) PROVE x \in Polling!ToSet(s) \cup Polling!ToSet(t)
  <2>1. PICK i \in 1 .. (Len(s) + Len(t)) : (s \o t)[i] = x
    BY <1>1, <1>5, SetOf
  <2>2. CASE i <= Len(s)
    BY <1>1, <1>2, <2>1, <2>2, SetOf
  <2>3. CASE ~ (i <= Len(s))
    BY <1>1, <1>2, <2>1, <2>3, SetOf
  <2> QED BY <2>2, <2>3
<1> QED BY <1>3, <1>4, <1>5

LEMMA SetOfHeadTail ==
    ASSUME NEW X, NEW s \in Seq(X), s # <<>>
    PROVE  /\ Head(s) \in X /\ Tail(s) \in Seq(X)
           /\ Polling!ToSet(s) = {Head(s)} \cup Polling!ToSet(Tail(s))
<1>1. Len(s) \in Nat /\ Len(s) >= 1
  BY EmptySeq
<1>2. Head(s) \in X /\ Tail(s) \in Seq(X) /\ Head(s) = s[1] /\ Len(Tail(s)) = Len(s) - 1
  BY <1>1
<1>3. \A i \in 1 .. (Len(s) - 1) : Tail(s)[i] = s[i + 1]
  BY <1>1
<1>4. ASSUME NEW x \in Polling!ToSet(s) PROVE x = Head(s) \/ x \in Polling!ToSet(Tail(s))
  <2>1. PICK i \in 1 .. Len(s) : s[i] = x
    BY <1>4, SetOf
  <2>2. CASE i = 1
    BY <1>2, <2>1, <2>2
  <2>3. CASE i # 1
    <3>1. i - 1 \in 1 .. (Len(s) - 1) /\ (i - 1) + 1 = i
      BY <1>1, <2>1, <2>3
    <3>2. Tail(s)[i - 1] = x
      BY <1>3, <2>1, <3>1
    <3> QED BY <1>2, <3>1, <3>2, SetOf
  <2> QED BY <2>2, <2>3
<1>5. Head(s) \in Polling!ToSet(s)
  BY <1>1, <1>2, SetOf
<1>6. ASSUME NEW x \in Polling!ToSet(Tail(s)) PROVE x \in Polling!ToSet(s)
  <2>0. PICK i \in 1 .. Len(Tail(s)) : Tail(s)[i] = x
    BY <1>2, <1>6, SetOf
  <2>1. i \in 1 .. (Len(s) - 1)
    BY <1>2
  <2>2. i + 1 \in 1 .. Len(s) /\ s[i + 1] = x
    BY <1>1, <1>3, <2>0, <2>1
  <2> QED BY <2>2, SetOf
<1> QED BY <1>2, <1>4, <1>5, <1>6

\* Good keeps the good rows.
LEMMA GoodKeeps ==
    ASSUME NEW rows \in Seq(Polling!Row)
    PROVE  /\ Polling!Good(rows) \in Seq(Polling!Row)
           /\ \A r : r \in Polling!ToSet(Polling!Good(rows))
                        <=> r.kind = "good" /\ r \in Polling!ToSet(rows)
<1> DEFINE S == {r \in Polling!ToSet(rows) : r.kind = "good"}
<1>1. Polling!Good(rows) = Polling!Among(rows, S)
  BY DEF Polling!Good
<1>2. \A r : r \in S <=> r.kind = "good" /\ r \in Polling!ToSet(rows)
  OBVIOUS
<1> HIDE DEF S
<1> QED BY <1>1, <1>2, AmongKeeps

\* What may be read next: the rows of a batch are good, and none of them is left out.
LEMMA BatchKeeps ==
    ASSUME SourceTypes, source.buf = <<>>, source.at \in Busy,
           NEW m \in (source.next - 1) .. Len(source.rows)
    PROVE  /\ Polling!Batch(m) \in Seq(Polling!Row)
           /\ \A i \in source.next .. m : source.rows[i].kind = "good"
                 => source.rows[i] \in Polling!ToSet(Polling!Batch(m))
<1> DEFINE part == SubSeq(source.rows, source.next, m)
           rows == source.rows
           next0 == source.next
<1>1. rows \in Seq(Polling!Row) /\ next0 \in 1 .. (Len(rows) + 1) /\ Len(rows) \in Nat
  BY DEF SourceTypes
<1>2. part \in Seq(Polling!Row)
  <2> HIDE DEF rows, next0
  <2>1. \A i \in next0 .. m : i \in 1 .. Len(rows)
    BY <1>1 DEF rows, next0
  <2> QED BY <1>1, <2>1, SubSeqProperties DEF rows, next0
<1>3. ASSUME NEW i \in next0 .. m PROVE rows[i] \in Polling!ToSet(part)
  <2>1. \A j \in next0 .. m : j \in 1 .. Len(rows)
    BY <1>1
  <2>2. Len(part) = m - next0 + 1 /\ i - next0 + 1 \in 1 .. Len(part)
    BY <1>1, <2>1, SubSeqProperties
  <2>3. part[i - next0 + 1] = rows[i]
    <3>1. next0 + (i - next0 + 1) - 1 = i
      BY <1>1
    <3>2. \A k \in 1 .. m - next0 + 1 : part[k] = rows[next0 + k - 1]
      <4> HIDE DEF rows, next0
      <4>1. \A j \in next0 .. m : rows[j] \in Polling!Row
        BY <1>1, <2>1
      <4>2. next0 \in Int /\ m \in Int
        BY <1>1 DEF rows, next0
      <4>3. \A k \in 1 .. m - next0 + 1 : SubSeq(rows, next0, m)[k] = rows[next0 + k - 1]
        BY <4>1, <4>2, SubSeqProperties
      <4> QED BY <4>3 DEF rows, next0
    <3>3. i - next0 + 1 \in 1 .. m - next0 + 1
      BY <1>1
    <3> HIDE DEF part, rows, next0
    <3> QED BY <3>1, <3>2, <3>3
  <2> HIDE DEF part
  <2> QED BY <1>2, <2>2, <2>3, SetOf
<1> HIDE DEF part
<1>4. Polling!Batch(m) = Polling!Good(part)
  BY <1>2, GoodKeeps DEF Polling!Batch, part
<1> QED
  BY <1>2, <1>3, <1>4, GoodKeeps

\* The reading stops at a full buffer, not behind it.
LEMMA LastReadIs ==
    ASSUME SourceTypes, source.at \in Busy
    PROVE  /\ Polling!LastRead \in (source.next - 1) .. Len(source.rows)
           /\ \A m \in (source.next - 1) .. Len(source.rows) :
                 m < Polling!LastRead => Len(Polling!Batch(m)) # BatchSize
<1> DEFINE S == {m \in source.next - 1 .. Len(source.rows) :
                   \/ Len(Polling!Batch(m)) = BatchSize
                   \/ m = Len(source.rows)
                   \/ source.rows[m + 1].kind = "end"}
<1>1. source.next \in 1 .. (Len(source.rows) + 1) /\ Len(source.rows) \in Nat
  BY DEF SourceTypes
<1>2. S \in SUBSET Nat /\ Len(source.rows) \in S
  BY <1>1
<1>3. Polling!LastRead = CHOOSE x \in S : \A y \in S : x <= y
  BY DEF Polling!LastRead, Polling!Min
<1>4. \A m \in (source.next - 1) .. Len(source.rows) : m \notin S => Len(Polling!Batch(m)) # BatchSize
  OBVIOUS
<1>5. S \subseteq (source.next - 1) .. Len(source.rows)
  OBVIOUS
<1> HIDE DEF S
<1>6. Polling!LastRead \in S /\ \A y \in S : Polling!LastRead <= y
  BY <1>2, Least, <1>3
<1>7. ASSUME NEW m \in (source.next - 1) .. Len(source.rows), m < Polling!LastRead
      PROVE  m \notin S
  BY <1>1, <1>2, <1>6, <1>7
<1> QED
  BY <1>4, <1>5, <1>6, <1>7

\* A step of reading: unless it fails, the good rows that it passes are in the buffer.
LEMMA ReadRowsFacts ==
    ASSUME Polling!PollAssumption, SourceTypes, Ends, Polling!ReadRows
    PROVE  /\ source.at = "reading" /\ source.next \in 1 .. (Len(source.rows) + 1)
           /\ DOMAIN source' = DOMAIN source
           /\ source'.processed = source.processed /\ source'.key = source.key
           /\ source'.rows = source.rows
           /\ source'.buf \in Seq(Polling!Row) /\ source'.failed \in BOOLEAN
           /\ source'.at = IF source'.buf = <<>> THEN "finished" ELSE "sending"
           /\ source'.next \in source.next .. (Len(source.rows) + 1)
           /\ ~source'.failed => \A i \in source.next .. (source'.next - 1) :
                 source.rows[i].kind = "good" => source.rows[i] \in Polling!ToSet(source'.buf)
           /\ ~source'.failed /\ Len(source'.buf) # BatchSize
                 => source'.next = Len(source.rows) + 1
           /\ source'.failed => Len(source'.buf) # BatchSize
           /\ UNCHANGED <<batches, writing, foreign, cancelled, run, changes, scenario, kept,
                          reported, whole>>
<1>1. /\ source.at = "reading" /\ source.buf = <<>> /\ ~source.failed
      /\ source.next \in 1 .. (Len(source.rows) + 1) /\ Len(source.rows) \in Nat
      /\ BatchSize \in Nat \ {0}
  BY DEF Polling!ReadRows, Polling!At, Ends, SourceTypes, Busy, Polling!PollAssumption
<1> DEFINE rows == source.rows
           breaks(m) == m # Polling!LastRead
           full(m) == ~breaks(m) /\ Len(Polling!Batch(m)) = BatchSize
           broken(m) == breaks(m) \/ (~full(m) /\ m < Len(rows))
           buf(m) == IF full(m) THEN Polling!Batch(m)
                     ELSE Polling!Leftover(Polling!Batch(m), broken(m))
<1>2. PICK m \in (source.next - 1) .. Polling!LastRead :
         source' = [source EXCEPT !.at = IF buf(m) = <<>> THEN "finished" ELSE "sending",
                       !.next = IF full(m) THEN m + 1 ELSE Len(rows) + 1,
                       !.buf = buf(m), !.failed = broken(m),
                       !.watermark = Polling!Watermark(Polling!Batch(m))]
  BY DEF Polling!ReadRows
<1> DEFINE B == Polling!Batch(m)
<1>3. /\ source'.at = IF buf(m) = <<>> THEN "finished" ELSE "sending"
      /\ source'.next = IF full(m) THEN m + 1 ELSE Len(rows) + 1
      /\ source'.buf = buf(m) /\ source'.failed = broken(m)
      /\ source'.processed = source.processed /\ source'.key = source.key
      /\ source'.rows = source.rows /\ DOMAIN source' = DOMAIN source
  <2> HIDE DEF buf, full, broken, rows
  <2> QED BY <1>2 DEF SourceTypes
<1>4. /\ Polling!LastRead \in (source.next - 1) .. Len(rows)
      /\ \A k \in (source.next - 1) .. Len(rows) :
            k < Polling!LastRead => Len(Polling!Batch(k)) # BatchSize
  BY <1>1, LastReadIs DEF Busy
<1>5. m \in (source.next - 1) .. Len(rows) /\ m <= Polling!LastRead
  BY <1>1, <1>2, <1>4
<1>6. /\ B \in Seq(Polling!Row)
      /\ \A i \in source.next .. m : rows[i].kind = "good" => rows[i] \in Polling!ToSet(B)
  BY <1>1, <1>5, BatchKeeps DEF Busy
<1>7. breaks(m) => Len(B) # BatchSize
  BY <1>1, <1>4, <1>5
<1>8. broken(m) \in BOOLEAN
  OBVIOUS
<1>9. buf(m) = B \/ (broken(m) /\ buf(m) = <<>>)
  BY DEF Polling!Leftover
<1>10. UNCHANGED <<batches, writing, foreign, cancelled, run, changes, scenario, kept,
                   reported, whole>>
  BY DEF Polling!ReadRows, Polling!outside, Polling!history
<1>11. broken(m) => ~full(m) /\ Len(B) # BatchSize
  BY <1>7
<1>12. ~broken(m) => full(m) \/ m = Len(rows)
  BY <1>1, <1>5
<1>13. full(m) => Len(B) = BatchSize
  OBVIOUS
<1> HIDE DEF breaks, full, broken, buf, B
<1>14. buf(m) \in Seq(Polling!Row)
  <2>1. <<>> \in Seq(Polling!Row)
    OBVIOUS
  <2> QED BY <1>6, <1>9, <2>1
<1>15. source'.next \in source.next .. (Len(rows) + 1)
  BY <1>1, <1>3, <1>5
<1>16. broken(m) => Len(buf(m)) # BatchSize
  BY <1>1, <1>9, <1>11
<1>17. ASSUME ~broken(m), NEW i \in source.next .. (source'.next - 1), rows[i].kind = "good"
       PROVE  rows[i] \in Polling!ToSet(buf(m))
  <2>1. i \in source.next .. m
    BY <1>1, <1>3, <1>5, <1>12, <1>17
  <2> QED BY <1>6, <1>9, <1>17, <2>1
<1>18. ~broken(m) /\ Len(buf(m)) # BatchSize => source'.next = Len(rows) + 1
  BY <1>1, <1>3, <1>5, <1>9, <1>13
<1> QED
  BY <1>1, <1>3, <1>8, <1>10, <1>14, <1>15, <1>16, <1>17, <1>18

\* What one batch hands on.
LEMMA IdsOf ==
    ASSUME run \in Nat, NEW b \in Seq(Polling!Row)
    PROVE  /\ Polling!Ids(b) \in Seq(Copies)
           /\ \A r \in Polling!ToSet(b) : <<run, r.id>> \in Polling!ToSet(Polling!Ids(b))
<1>1. DOMAIN b = 1 .. Len(b) /\ Len(b) \in Nat /\ \A i \in 1 .. Len(b) : b[i] \in Polling!Row
  OBVIOUS
<1>2. Polling!Ids(b) = [i \in 1 .. Len(b) |-> <<run, b[i].id>>]
  BY <1>1 DEF Polling!Ids
<1>3. \A i \in 1 .. Len(b) : <<run, b[i].id>> \in Copies
  BY <1>1 DEF Copies
<1>4. Polling!Ids(b) \in Seq(Copies) /\ Len(Polling!Ids(b)) = Len(b)
  <2> DEFINE n == Len(b)
  <2> HIDE DEF n
  <2>1. n \in Nat /\ [i \in 1 .. n |-> <<run, b[i].id>>] \in [1 .. n -> Copies]
    BY <1>1, <1>3 DEF n
  <2>2. [i \in 1 .. n |-> <<run, b[i].id>>] \in Seq(Copies)
    BY <2>1
  <2>3. Len([i \in 1 .. n |-> <<run, b[i].id>>]) = n
    BY <2>1
  <2> QED BY <1>2, <2>2, <2>3 DEF n
<1>5. ASSUME NEW r \in Polling!ToSet(b) PROVE <<run, r.id>> \in Polling!ToSet(Polling!Ids(b))
  <2>1. PICK i \in 1 .. Len(b) : b[i] = r
    BY <1>5, SetOf
  <2>2. Polling!Ids(b)[i] = <<run, r.id>>
    BY <1>2, <2>1
  <2> QED BY <1>4, <2>1, <2>2, SetOf
<1> QED BY <1>4, <1>5

\* What the query returns.
LEMMA ResultIsRows ==
    ASSUME "query" \in DOMAIN foreign, foreign["query"] \in Seq(Polling!Row)
    PROVE  Polling!Result \in Seq(Polling!Row)
<1> DEFINE S == {r \in Polling!ToSet(foreign["query"]) : r.id > source.watermark}
<1>1. Polling!Among(foreign["query"], S) \in Seq(Polling!Row)
  <2> HIDE DEF S
  <2> QED BY AmongKeeps
<1> QED BY <1>1 DEF Polling!Result

\* Kinds of steps: those of the source goroutine, of the loop, and others.
SourceSteps ==
    \/ Polling!Open \/ Polling!Query \/ Polling!ListObjects \/ Polling!EndOfList
    \/ (\E key \in Polling!Keys : Polling!PassOver(key) \/ Polling!ProcessFile(key))
    \/ Polling!SourceEnds

\* What such a step leaves: it may begin to read, and marks then what it reads.
Begins ==
    /\ SourceTypes' /\ Ends' /\ source'.listed \subseteq DOMAIN foreign
    /\ UNCHANGED <<batches, writing, foreign, cancelled, run, changes, scenario, kept,
                   reported, whole>>
    /\ ~cancelled =>
          /\ source.at \notin Busy
          /\ source'.at \in Busy => source'.at = "reading" /\ source'.next = 1
          /\ \/ source'.processed = source.processed
             \/ /\ source'.processed = source.processed \cup {source'.key}
                /\ source'.at = "reading"

\* Rows, none of which has been read.
LEMMA BeginsReading ==
    ASSUME PollTypes, Ends, source.at \in {"idle", "listing"},
           NEW rows \in Seq(Polling!Row), DOMAIN source' = DOMAIN source,
           source'.at = "reading", source'.rows = rows, source'.next = 1,
           source'.failed = FALSE, source'.buf = source.buf
    PROVE  SourceTypes' /\ Ends'
<1>1. source'.buf = <<>> /\ source'.buf \in Seq(Polling!Row)
  BY DEF Ends, PollTypes, SourceTypes
<1>2. 1 \in 1 .. (Len(rows) + 1)
  OBVIOUS
<1> QED
  BY <1>1, <1>2 DEF PollTypes, SourceTypes, Ends, Busy

\* No rows are read.
LEMMA BeginsNothing ==
    ASSUME PollTypes, Ends, source.at \notin {"sending", "ended"}, DOMAIN source' = DOMAIN source,
           source'.at \in {"idle", "listing", "ended"}, source'.rows = source.rows,
           source'.failed = source.failed, source'.buf = source.buf
    PROVE  SourceTypes' /\ Ends'
BY DEF PollTypes, SourceTypes, Ends, Busy

\* The steps of the source goroutine that neither read rows nor hand them on.
LEMMA SourceStepFacts == ASSUME PollTypes, Ends, SourceSteps PROVE Begins
<1> USE DEF Polling!outside, Polling!history, Polling!At, Polling!To
<1>0. /\ DOMAIN source = {"at", "listed", "processed", "watermark", "key", "rows", "next", "buf",
                          "failed"}
      /\ source.listed \subseteq DOMAIN foreign
  BY DEF PollTypes, SourceTypes
<1>1. CASE Polling!Open
  <2>1. /\ source.at = "starting"
        /\ \E at \in {"idle", "ended"} : source' = [source EXCEPT !.at = at]
        /\ UNCHANGED <<batches, writing, foreign, cancelled, run, changes, scenario, kept,
                       reported, whole>>
    BY <1>1 DEF Polling!Open
  <2>2. PICK at \in {"idle", "ended"} : source' = [source EXCEPT !.at = at]
    BY <2>1
  <2> QED BY <1>0, <2>1, <2>2, BeginsNothing DEF Begins, Busy
<1>2. CASE Polling!Query
  <2>1. /\ source.at = "idle" /\ scenario.type = "database"
        /\ UNCHANGED <<batches, writing, foreign, cancelled, run, changes, scenario, kept,
                       reported, whole>>
    BY <1>2 DEF Polling!Query, Polling!Poll
  <2>2. CASE Polling!Reading("query", Polling!Result)
    <3>1. Polling!Result \in Seq(Polling!Row)
      BY <2>1, ResultIsRows DEF PollTypes
    <3> HIDE DEF Polling!Result
    <3>2. /\ DOMAIN source' = DOMAIN source /\ source'.at = "reading"
          /\ source'.rows = Polling!Result /\ source'.next = 1 /\ source'.failed = FALSE
          /\ source'.buf = source.buf /\ source'.processed = source.processed
          /\ source'.listed = source.listed
      BY <1>0, <2>2 DEF Polling!Reading
    <3>3. SourceTypes' /\ Ends'
      BY <2>1, <3>1, <3>2, BeginsReading
    <3> QED BY <1>0, <2>1, <3>2, <3>3 DEF Begins, Busy
  <2>3. CASE UNCHANGED source
    BY <2>1, <2>3, BeginsNothing, <1>0 DEF Begins, Busy
  <2> QED BY <1>2, <2>2, <2>3 DEF Polling!Query
<1>3. CASE Polling!ListObjects
  BY <1>3, <1>0, BeginsNothing DEF Polling!ListObjects, Polling!Poll, Begins, Busy
<1>4. CASE Polling!EndOfList
  BY <1>4, <1>0, BeginsNothing DEF Polling!EndOfList, Begins, Busy
<1>5. ASSUME NEW key \in Polling!Keys, Polling!PassOver(key) PROVE Begins
  BY <1>5, <1>0, BeginsNothing DEF Polling!PassOver, Polling!Listed, Begins, Busy
<1>6. ASSUME NEW key \in Polling!Keys, Polling!ProcessFile(key) PROVE Begins
  <2>1. /\ source.at = "listing" /\ key \in source.listed
        /\ UNCHANGED <<batches, writing, foreign, cancelled, run, changes, scenario, kept,
                       reported, whole>>
    BY <1>6 DEF Polling!ProcessFile, Polling!Listed
  <2>2. CASE source' = [source EXCEPT !.at = "reading", !.key = key, !.rows = foreign[key],
                                      !.next = 1, !.failed = FALSE,
                                      !.listed = @ \ {key}, !.processed = @ \cup {key}]
    BY <1>0, <2>1, <2>2, BeginsReading DEF PollTypes, Begins, Busy
  <2>3. CASE source' = [source EXCEPT !.listed = @ \ {key}]
    BY <1>0, <2>1, <2>3, BeginsNothing DEF Begins, Busy
  <2> QED BY <1>6, <2>2, <2>3 DEF Polling!ProcessFile
<1>7. CASE Polling!SourceEnds
  BY <1>7, <1>0 DEF Polling!SourceEnds, PollTypes, SourceTypes, Ends, Busy, Begins
<1> QED
  BY <1>1, <1>2, <1>3, <1>4, <1>5, <1>6, <1>7 DEF SourceSteps

-----------------------------------------------------------------------------
\* What was handed on stays so, as long as no batch disappears.
LEMMA HandedStays ==
    ASSUME run' = run, Polling!ToSet(kept) \subseteq Polling!ToSet(kept'), reported \subseteq reported',
           \A b : b \in Polling!ToSet(batches) \/ (writing # None /\ b = writing)
              => \/ b \in Polling!ToSet(batches') \/ (writing' # None /\ b = writing')
                 \/ Polling!ToSet(Polling!Ids(b)) \subseteq Polling!ToSet(kept') \cup reported'
    PROVE  HandedOn \subseteq HandedOn'
<1>1. \A b : Polling!Ids(b)' = Polling!Ids(b)
  BY DEF Polling!Ids
<1>2. HandedOn' = Polling!ToSet(kept') \cup reported'
                  \cup (UNION {Polling!ToSet(Polling!Ids(b)) : b \in Polling!ToSet(batches')})
                  \cup (IF writing' = None THEN {} ELSE Polling!ToSet(Polling!Ids(writing')))
  BY DEF HandedOn, Polling!UnderWay, Polling!ToSet, Polling!Ids
<1>3. ASSUME NEW x \in HandedOn PROVE x \in HandedOn'
  <2>1. CASE x \in Polling!ToSet(kept) \cup reported
    BY <1>2, <2>1
  <2>2. CASE x \in Polling!UnderWay
    <3>1. PICK b : /\ b \in Polling!ToSet(batches) \/ (writing # None /\ b = writing)
                   /\ x \in Polling!ToSet(Polling!Ids(b))
      BY <2>2 DEF Polling!UnderWay
    <3> QED BY <1>2, <3>1
  <2> QED BY <2>1, <2>2 DEF HandedOn
<1> QED BY <1>3

\* The part of the invariant that is about the rows that were read.
RowInv == SoFar /\ Marks /\ Polling!ReadIsKept

\* ReadIsKept, with the rows by their place.
LEMMA WholeRows ==
    ASSUME \A key \in DOMAIN whole : whole[key] \in Seq(Polling!Row)
    PROVE  Polling!ReadIsKept <=>
              (~cancelled => \A key \in DOMAIN whole : \A r \in Polling!ToSet(whole[key]) :
                   r.kind = "good" => <<run, r.id>> \in HandedOn)
BY GoodKeeps DEF Polling!ReadIsKept, HandedOn

LEMMA WholeRowsLater ==
    ASSUME \A key \in DOMAIN whole' : whole'[key] \in Seq(Polling!Row)
    PROVE  Polling!ReadIsKept' <=>
              (~cancelled' => \A key \in DOMAIN whole' : \A r \in Polling!ToSet(whole'[key]) :
                   r.kind = "good" => <<run', r.id>> \in HandedOn')
BY GoodKeeps DEF Polling!Good, Polling!Among, Polling!ToSet, Polling!ReadIsKept, HandedOn

\* Steps that hand on, or that leave the source alone.
LEMMA RowsStay ==
    ASSUME PollTypes, RowInv, run' = run, HandedOn \subseteq HandedOn',
           UNCHANGED <<source, whole>>, cancelled => cancelled'
    PROVE  RowInv'
<1>1. SoFar'
  BY DEF SoFar, RowInv, Polling!ToSet
<1>2. Marks'
  BY DEF Marks, RowInv
<1>3. Polling!ReadIsKept'
  BY WholeRows, WholeRowsLater DEF PollTypes, RowInv
<1> QED
  BY <1>1, <1>2, <1>3 DEF RowInv

LEMMA BeginsStep ==
    ASSUME PollTypes, Ends, RowInv, Begins
    PROVE  PollTypes' /\ Ends' /\ RowInv'
<1>1. PollTypes' /\ Ends'
  BY DEF Begins, PollTypes
<1>2. HandedOn \subseteq HandedOn' /\ run' = run /\ cancelled' = cancelled /\ whole' = whole
  BY HandedStays DEF Begins
<1>3. SoFar'
  <2> SUFFICES ASSUME ~cancelled', source'.at \in Busy PROVE 1 .. (source'.next - 1) = {}
    BY DEF SoFar
  <2>1. source'.next = 1
    BY <1>2 DEF Begins
  <2> QED BY <2>1
<1>4. Marks'
  <2> SUFFICES ASSUME ~cancelled, NEW key \in source'.processed
               PROVE  key \in DOMAIN whole \/ (source'.at \in Busy /\ key = source'.key)
    BY <1>2 DEF Marks
  <2>1. \A k \in source.processed : k \in DOMAIN whole
    BY DEF RowInv, Marks, Begins
  <2> QED BY <2>1 DEF Begins, Busy
<1>5. Polling!ReadIsKept'
  BY <1>2, WholeRows, WholeRowsLater DEF PollTypes, RowInv
<1> QED
  BY <1>1, <1>3, <1>4, <1>5 DEF RowInv

LEMMA ReadStep ==
    ASSUME Polling!PollAssumption, PollTypes, Ends, RowInv, Polling!ReadRows
    PROVE  PollTypes' /\ Ends' /\ RowInv'
<1>1. /\ source.at = "reading" /\ source.next \in 1 .. (Len(source.rows) + 1)
      /\ DOMAIN source' = DOMAIN source
      /\ source'.processed = source.processed /\ source'.key = source.key
      /\ source'.rows = source.rows
      /\ source'.buf \in Seq(Polling!Row) /\ source'.failed \in BOOLEAN
      /\ source'.at = IF source'.buf = <<>> THEN "finished" ELSE "sending"
      /\ source'.next \in source.next .. (Len(source.rows) + 1)
      /\ ~source'.failed => \A i \in source.next .. (source'.next - 1) :
            source.rows[i].kind = "good" => source.rows[i] \in Polling!ToSet(source'.buf)
      /\ ~source'.failed /\ Len(source'.buf) # BatchSize => source'.next = Len(source.rows) + 1
      /\ source'.failed => Len(source'.buf) # BatchSize
      /\ UNCHANGED <<batches, writing, foreign, cancelled, run, changes, scenario, kept,
                     reported, whole>>
  BY ReadRowsFacts DEF PollTypes
<1>2. /\ source.buf = <<>> /\ ~source.failed /\ source.rows \in Seq(Polling!Row)
      /\ Len(source.rows) \in Nat /\ BatchSize \in Nat \ {0}
  BY <1>1 DEF Ends, PollTypes, SourceTypes, Polling!PollAssumption
<1>3. source'.listed = source.listed
  BY DEF Polling!ReadRows, PollTypes, SourceTypes
<1>4. SourceTypes'
  BY <1>1, <1>2 DEF PollTypes, SourceTypes, Busy
<1>5. PollTypes'
  BY <1>1, <1>3, <1>4 DEF PollTypes
<1>6. Ends'
  BY <1>2, <1>1 DEF Ends
<1>7. HandedOn \subseteq HandedOn'
  BY <1>1, HandedStays
<1>8. SoFar'
  <2> SUFFICES ASSUME ~cancelled, ~source'.failed, NEW i \in 1 .. (source'.next - 1),
                      source.rows[i].kind = "good"
               PROVE  <<run, source.rows[i].id>> \in HandedOn'
                      \/ source.rows[i] \in Polling!ToSet(source'.buf)
    BY <1>1 DEF SoFar, Polling!ToSet
  <2>1. CASE i \in source.next .. (source'.next - 1)
    BY <1>1, <2>1
  <2>2. CASE i \in 1 .. (source.next - 1)
    <3>1. source.rows[i] \notin Polling!ToSet(source.buf)
      BY <1>2 DEF Polling!ToSet
    <3> QED BY <1>1, <1>2, <1>7, <2>2, <3>1 DEF RowInv, SoFar, Busy
  <2> QED BY <1>1, <2>1, <2>2
<1>9. Marks'
  BY <1>1 DEF RowInv, Marks, Busy
<1>10. Polling!ReadIsKept'
  BY <1>1, <1>7, WholeRows, WholeRowsLater DEF PollTypes, RowInv
<1> QED
  BY <1>5, <1>6, <1>8, <1>9, <1>10 DEF RowInv

LEMMA SendStep ==
    ASSUME Polling!PollAssumption, PollTypes, Ends, RowInv, Polling!Send
    PROVE  PollTypes' /\ Ends' /\ RowInv'
<1>1. /\ source.at = "sending" /\ batches' = Append(batches, source.buf)
      /\ source' = [source EXCEPT !.buf = <<>>,
            !.at = IF Len(source.buf) = BatchSize THEN "reading" ELSE "finished"]
      /\ UNCHANGED <<writing, foreign, cancelled, run, changes, scenario, kept, reported, whole>>
  BY DEF Polling!Send, Polling!At, Polling!outside, Polling!history
<1>2. /\ source.buf \in Seq(Polling!Row) /\ source.rows \in Seq(Polling!Row)
      /\ batches \in Seq(Seq(Polling!Row)) /\ run \in Nat
  BY DEF PollTypes, SourceTypes
<1>3. /\ DOMAIN source' = DOMAIN source /\ source'.buf = <<>>
      /\ source'.at = IF Len(source.buf) = BatchSize THEN "reading" ELSE "finished"
      /\ source'.processed = source.processed /\ source'.key = source.key
      /\ source'.rows = source.rows /\ source'.failed = source.failed
      /\ source'.next = source.next /\ source'.listed = source.listed
  BY <1>1 DEF PollTypes, SourceTypes
<1>4. PollTypes'
  BY <1>2, <1>1, <1>3 DEF PollTypes, SourceTypes, Busy
<1>5. Ends'
  BY <1>1, <1>3 DEF Ends
<1>6. Polling!ToSet(batches') = Polling!ToSet(batches) \cup {source.buf}
  BY <1>1, <1>2, SetOfAppend
<1>7. HandedOn \subseteq HandedOn'
  BY <1>1, <1>6, HandedStays
<1>8. ASSUME NEW r \in Polling!ToSet(source.buf) PROVE <<run, r.id>> \in HandedOn'
  <2>1. <<run, r.id>> \in Polling!ToSet(Polling!Ids(source.buf))
    BY <1>2, <1>8, IdsOf
  <2>2. [i \in DOMAIN source.buf |-> <<run', source.buf[i].id>>]
           = [i \in DOMAIN source.buf |-> <<run, source.buf[i].id>>]
    BY <1>1
  <2>3. HandedOn' = Polling!ToSet(kept') \cup reported'
                  \cup (UNION {Polling!ToSet([i \in DOMAIN b |-> <<run', b[i].id>>]) :
                                  b \in Polling!ToSet(batches')})
                  \cup (IF writing' = None THEN {}
                        ELSE Polling!ToSet([i \in DOMAIN writing' |-> <<run', writing'[i].id>>]))
    BY DEF HandedOn, Polling!UnderWay, Polling!ToSet, Polling!Ids
  <2>4. <<run, r.id>> \in Polling!ToSet([i \in DOMAIN source.buf |-> <<run', source.buf[i].id>>])
    BY <2>1, <2>2 DEF Polling!Ids
  <2> QED BY <1>6, <2>3, <2>4
<1>9. SoFar'
  <2> SUFFICES ASSUME ~cancelled, ~source.failed, NEW i \in 1 .. (source.next - 1),
                      source.rows[i].kind = "good"
               PROVE  <<run, source.rows[i].id>> \in HandedOn'
    BY <1>1, <1>3 DEF SoFar, Polling!ToSet
  <2> QED BY <1>1, <1>7, <1>8 DEF RowInv, SoFar, Busy
<1>10. Marks'
  BY <1>1, <1>3 DEF RowInv, Marks, Busy
<1>11. Polling!ReadIsKept'
  BY <1>1, <1>7, WholeRows, WholeRowsLater DEF PollTypes, RowInv
<1> QED
  BY <1>4, <1>5, <1>9, <1>10, <1>11 DEF RowInv

\* A reading that ends without an error has handed on all its good rows.
LEMMA FinishStep ==
    ASSUME Polling!PollAssumption, PollTypes, Ends, RowInv, Polling!Finish
    PROVE  PollTypes' /\ Ends' /\ RowInv'
<1>1. /\ source.at = "finished"
      /\ source' = [source EXCEPT !.at = IF scenario.type = "s3" THEN "listing" ELSE "idle",
                                  !.processed = Polling!Unmarked(@), !.key = None, !.rows = <<>>]
      /\ UNCHANGED <<batches, writing, foreign, cancelled, run, changes, scenario, kept, reported>>
  BY DEF Polling!Finish, Polling!At, Polling!outside
<1>2. /\ DOMAIN source' = DOMAIN source /\ source'.at \in {"listing", "idle"}
      /\ source'.processed = Polling!Unmarked(source.processed)
      /\ source'.rows = <<>> /\ source'.failed = source.failed /\ source'.buf = source.buf
      /\ source'.next = source.next /\ source'.listed = source.listed
  <2> HIDE DEF Polling!Unmarked
  <2> QED BY <1>1 DEF PollTypes, SourceTypes
<1>3. /\ source.rows \in Seq(Polling!Row) /\ source.buf = <<>>
      /\ ~source.failed => source.next = Len(source.rows) + 1
  BY <1>1 DEF PollTypes, SourceTypes, Ends
<1>4. CASE source.failed
  <2>1. whole' = whole /\ source'.processed = source.processed \ {source.key}
    BY <1>2, <1>4 DEF Polling!Finish, Polling!Unmarked
  <2>2. PollTypes'
    BY <1>2, <1>1, <2>1 DEF PollTypes, SourceTypes, Busy
  <2>3. Ends' /\ SoFar'
    BY <1>2, <1>3 DEF Ends, SoFar, Busy
  <2>4. Marks'
    BY <1>1, <1>2, <2>1 DEF RowInv, Marks, Busy
  <2>5. HandedOn \subseteq HandedOn'
    BY <1>1, HandedStays
  <2>6. Polling!ReadIsKept'
    BY <2>1, <1>1, <2>5, WholeRows, WholeRowsLater DEF PollTypes, RowInv
  <2> QED BY <2>2, <2>3, <2>4, <2>6 DEF RowInv
<1>5. CASE ~source.failed
  <2>1. /\ whole' = [k \in DOMAIN whole \cup {source.key} |->
                        IF k = source.key THEN source.rows ELSE whole[k]]
        /\ source'.processed = source.processed
    BY <1>2, <1>5 DEF Polling!Finish, Polling!Unmarked, Polling!Put
  <2>2. DOMAIN whole' = DOMAIN whole \cup {source.key} /\ whole'[source.key] = source.rows
        /\ \A k \in DOMAIN whole : k # source.key => whole'[k] = whole[k]
    BY <2>1
  <2>3. \A key \in DOMAIN whole' : whole'[key] \in Seq(Polling!Row)
    BY <1>3, <2>2 DEF PollTypes
  <2>4. PollTypes'
    BY <1>2, <1>1, <2>3 DEF PollTypes, SourceTypes, Busy
  <2>5. Ends' /\ SoFar'
    BY <1>2, <1>3 DEF Ends, SoFar, Busy
  <2>6. Marks'
    BY <1>1, <1>2, <2>1, <2>2 DEF RowInv, Marks, Busy
  <2>7. HandedOn \subseteq HandedOn'
    BY <1>1, HandedStays
  <2>8. ASSUME ~cancelled, NEW r \in Polling!ToSet(source.rows), r.kind = "good"
        PROVE  <<run, r.id>> \in HandedOn'
    <3>1. PICK i \in 1 .. Len(source.rows) : source.rows[i] = r
      BY <1>3, <2>8, SetOf
    <3>2. i \in 1 .. (source.next - 1)
      BY <1>3, <1>5
    <3>3. source.rows[i] \notin Polling!ToSet(source.buf)
      BY <1>3 DEF Polling!ToSet
    <3>4. <<run, r.id>> \in HandedOn
      BY <1>1, <1>5, <2>8, <3>1, <3>2, <3>3 DEF RowInv, SoFar, Busy
    <3> QED BY <2>7, <3>4
  <2>9. Polling!ReadIsKept'
    <3>1. \A key \in DOMAIN whole : whole[key] \in Seq(Polling!Row)
      BY DEF PollTypes
    <3>2. ~cancelled => \A key \in DOMAIN whole : \A r \in Polling!ToSet(whole[key]) :
             r.kind = "good" => <<run, r.id>> \in HandedOn'
      BY <2>7, <3>1, WholeRows DEF RowInv
    <3>3. ~cancelled => \A key \in DOMAIN whole' : \A r \in Polling!ToSet(whole'[key]) :
             r.kind = "good" => <<run, r.id>> \in HandedOn'
      <4> SUFFICES ASSUME ~cancelled, NEW key \in DOMAIN whole',
                          NEW r \in Polling!ToSet(whole'[key]), r.kind = "good"
                   PROVE  <<run, r.id>> \in HandedOn'
        OBVIOUS
      <4>1. CASE key = source.key
        BY <2>2, <2>8, <4>1
      <4>2. CASE key # source.key
        BY <2>2, <3>2, <4>2
      <4> QED BY <4>1, <4>2
    <3> QED BY <1>1, <2>3, <3>3, WholeRowsLater
  <2> QED BY <2>4, <2>5, <2>6, <2>9 DEF RowInv
<1> QED
  BY <1>4, <1>5

\* The loop that writes.
LEMMA LoopStep ==
    ASSUME Polling!PollAssumption, PollTypes, Ends, RowInv,
           Polling!Take \/ Polling!WriteBatch \/ Polling!WriteFails
    PROVE  PollTypes' /\ Ends' /\ RowInv'
<1> USE DEF Polling!outside, Polling!history
<1>1. /\ UNCHANGED <<source, foreign, cancelled, run, changes, scenario, whole>>
      /\ batches \in Seq(Seq(Polling!Row)) /\ run \in Nat /\ kept \in Seq(Copies)
      /\ writing # None => writing \in Seq(Polling!Row)
  BY DEF PollTypes, Polling!Take, Polling!WriteBatch, Polling!WriteFails
<1>2. CASE Polling!Take
  BY <1>2, <1>1, SetOfHeadTail, HandedStays, RowsStay DEF Polling!Take, Polling!PollAssumption,
     PollTypes, SourceTypes, Ends
<1>3. CASE Polling!WriteBatch \/ Polling!WriteFails
  <2>1. /\ writing # None /\ writing' = None /\ batches' = batches
        /\ \/ kept' = kept \o Polling!Ids(writing) /\ reported' = reported
           \/ /\ kept' = kept \o Polling!Ids(writing) \/ kept' = kept
              /\ reported' = reported \cup Polling!ToSet(Polling!Ids(writing))
    BY <1>3 DEF Polling!WriteBatch, Polling!WriteFails
  <2>2. Polling!Ids(writing) \in Seq(Copies)
    BY <1>1, <2>1, IdsOf
  <2>3. /\ kept \o Polling!Ids(writing) \in Seq(Copies)
        /\ Polling!ToSet(kept \o Polling!Ids(writing))
              = Polling!ToSet(kept) \cup Polling!ToSet(Polling!Ids(writing))
    BY <1>1, <2>2, SetOfConcat
  <2>4. /\ kept' \in Seq(Copies)
        /\ Polling!ToSet(kept) \subseteq Polling!ToSet(kept') /\ reported \subseteq reported'
        /\ Polling!ToSet(Polling!Ids(writing)) \subseteq Polling!ToSet(kept') \cup reported'
    BY <1>1, <2>1, <2>3
  <2>5. HandedOn \subseteq HandedOn'
    BY <1>1, <2>1, <2>4, HandedStays
  <2>6. RowInv'
    BY <1>1, <2>5, RowsStay
  <2> QED BY <1>1, <2>1, <2>4, <2>6 DEF PollTypes, SourceTypes, Ends
<1> QED
  BY <1>2, <1>3

\* A run begins with nothing.
LEMMA NewRun ==
    ASSUME source' = Polling!New, batches' = <<>>, writing' = None, run' \in Nat,
           cancelled' = FALSE, whole' = <<>>, kept' \in Seq(Copies),
           scenario' \in Scenarios, changes' \in Nat,
           \A key \in DOMAIN foreign' : foreign'[key] \in Seq(Polling!Row),
           scenario'.type = "database" => "query" \in DOMAIN foreign'
    PROVE  PollTypes' /\ Ends' /\ RowInv'
<1>1. /\ DOMAIN source' = {"at", "listed", "processed", "watermark", "key", "rows", "next", "buf",
                           "failed"}
      /\ source'.at = "starting" /\ source'.listed = {} /\ source'.processed = {}
      /\ source'.rows = <<>> /\ source'.buf = <<>> /\ source'.failed = FALSE
  BY DEF Polling!New
<1>2. <<>> \in Seq(Polling!Row) /\ <<>> \in Seq(Seq(Polling!Row)) /\ DOMAIN <<>> = {}
  OBVIOUS
<1>3. SourceTypes'
  BY <1>1, <1>2 DEF SourceTypes, Busy
<1>4. DOMAIN whole' = {}
  BY <1>2
<1>5. PollTypes'
  BY <1>1, <1>2, <1>3, <1>4 DEF PollTypes
<1>6. Ends' /\ SoFar' /\ Marks'
  BY <1>1 DEF Ends, SoFar, Marks, Busy
<1>7. Polling!ReadIsKept'
  BY <1>4 DEF Polling!ReadIsKept
<1> QED
  BY <1>5, <1>6, <1>7 DEF RowInv

LEMMA PollInit ==
    ASSUME Polling!PollAssumption, Polling!Init
    PROVE  PollTypes /\ Ends /\ RowInv
<1>1. /\ DOMAIN source = {"at", "listed", "processed", "watermark", "key", "rows", "next", "buf",
                          "failed"}
      /\ source.at = "starting" /\ source.listed = {} /\ source.processed = {}
      /\ source.rows = <<>> /\ source.buf = <<>> /\ source.failed = FALSE
  BY DEF Polling!Init, Polling!New
<1>2. /\ <<>> \in Seq(Polling!Row) /\ <<>> \in Seq(Seq(Polling!Row)) /\ DOMAIN <<>> = {}
      /\ <<>> \in Seq(Copies)
  OBVIOUS
<1>3. SourceTypes
  BY <1>1, <1>2 DEF SourceTypes, Busy
<1>4. PollTypes
  BY <1>1, <1>2, <1>3 DEF PollTypes, Polling!Init, Polling!PollAssumption
<1>5. Ends /\ SoFar /\ Marks
  BY <1>1 DEF Ends, SoFar, Marks, Busy
<1>6. Polling!ReadIsKept
  BY <1>2 DEF Polling!ReadIsKept, Polling!Init
<1> QED
  BY <1>4, <1>5, <1>6 DEF RowInv

\* Rows are inserted, objects are added.
LEMMA ChangeStep ==
    ASSUME Polling!PollAssumption, PollTypes, Ends, RowInv, NEW key, Polling!Change(key)
    PROVE  PollTypes' /\ Ends' /\ RowInv'
<1> DEFINE c == scenario.changes[changes + 1]
           new == IF scenario.type = "database" THEN foreign[key] \o c.rows ELSE c.rows
<1>1. /\ UNCHANGED <<source, batches, writing, cancelled, run, kept, reported, whole, scenario>>
      /\ changes < Len(scenario.changes) /\ changes' = changes + 1 /\ key = c.key
      /\ foreign' = [k \in DOMAIN foreign \cup {key} |-> IF k = key THEN new ELSE foreign[k]]
  BY DEF Polling!Change, Polling!history, Polling!Put
<1>2. changes + 1 \in 1 .. Len(scenario.changes) /\ changes' \in Nat
  BY <1>1 DEF Polling!PollAssumption, PollTypes
<1>3. c.rows \in Seq(Polling!Row) /\ (scenario.type = "database" => key = "query")
  BY <1>1, <1>2 DEF Polling!PollAssumption, PollTypes
<1>4. scenario.type = "database" => foreign[key] \in Seq(Polling!Row)
  BY <1>3 DEF PollTypes
<1>5. new \in Seq(Polling!Row)
  <2> HIDE DEF c
  <2> QED BY <1>3, <1>4
<1> HIDE DEF new, c
<1>6. /\ DOMAIN foreign \subseteq DOMAIN foreign'
      /\ \A k \in DOMAIN foreign' : foreign'[k] \in Seq(Polling!Row)
  BY <1>1, <1>5 DEF PollTypes
<1>7. PollTypes' /\ Ends'
  BY <1>1, <1>2, <1>6 DEF PollTypes, SourceTypes, Ends
<1>8. HandedOn \subseteq HandedOn'
  BY <1>1, HandedStays
<1> QED
  BY <1>1, <1>7, <1>8, RowsStay

\* The run is started again.
LEMMA NextRunStep ==
    ASSUME PollTypes, Polling!Restart \/ Polling!Crash
    PROVE  PollTypes' /\ Ends' /\ RowInv'
<1>1. Polling!NextRun
  BY DEF Polling!Restart, Polling!Crash
<1>2. /\ source' = Polling!New /\ batches' = <<>> /\ writing' = None /\ run' \in Nat
      /\ cancelled' = FALSE /\ whole' = <<>>
      /\ UNCHANGED <<foreign, changes, scenario>>
  BY <1>1 DEF Polling!NextRun, PollTypes
<1>3. kept' \in Seq(Copies)
  <2>1. kept \in Seq(Copies)
    BY DEF PollTypes
  <2>2. writing # None => kept \o Polling!Ids(writing) \in Seq(Copies)
    BY <2>1, IdsOf DEF PollTypes
  <2> QED BY <2>1, <2>2 DEF Polling!Restart, Polling!Crash
<1> QED
  BY <1>2, <1>3, NewRun DEF PollTypes

LEMMA PollStep ==
    ASSUME Polling!PollAssumption, PollTypes, Ends, RowInv, [Polling!Next]_Polling!vars
    PROVE  PollTypes' /\ Ends' /\ RowInv'
<1>1. CASE SourceSteps
  BY <1>1, SourceStepFacts, BeginsStep
<1>2. CASE Polling!ReadRows
  BY <1>2, ReadStep
<1>3. CASE Polling!Send
  BY <1>3, SendStep
<1>4. CASE Polling!Finish
  BY <1>4, FinishStep
<1>5. CASE Polling!Take \/ Polling!WriteBatch \/ Polling!WriteFails
  BY <1>5, LoopStep
<1>6. CASE Polling!Restart \/ Polling!Crash
  BY <1>6, NextRunStep
<1>7. ASSUME NEW key \in Polling!Keys, Polling!Change(key) PROVE PollTypes' /\ Ends' /\ RowInv'
  BY <1>7, ChangeStep
<1>8. CASE Polling!Cancel \/ UNCHANGED Polling!vars
  <2>1. /\ UNCHANGED <<source, batches, writing, foreign, run, changes, scenario, kept, reported,
                       whole>>
        /\ cancelled => cancelled'
    BY <1>8 DEF Polling!Cancel, Polling!history, Polling!vars
  <2>2. HandedOn \subseteq HandedOn'
    BY <2>1, HandedStays
  <2>3. RowInv'
    BY <2>1, <2>2, RowsStay
  <2> QED BY <2>1, <2>3 DEF PollTypes, SourceTypes, Ends
<1> QED
  BY <1>1, <1>2, <1>3, <1>4, <1>5, <1>6, <1>7, <1>8 DEF Polling!Next, SourceSteps

-----------------------------------------------------------------------------
(* How often a row is copied.  The argument: of the copies of a row in the *)
(* table, in a batch on its way there, in the buffer and among the rows    *)
(* still to be read (Tally), there are no more than the polls of a         *)
(* database; and no more than the earlier runs, the readings that failed,  *)
(* and one if the object of the row is marked (Budget).  An object is read *)
(* when it is not marked, and marked with that; its mark goes with a       *)
(* reading that failed, or with the run.                                   *)

Times(s, T) == Cardinality({i \in 1 .. Len(s) : s[i] \in T})

LEMMA Shifted ==
    ASSUME NEW A \in SUBSET Int, IsFiniteSet(A), NEW k \in Int, NEW B \in SUBSET Int,
           \A i \in Int : i \in A <=> i + k \in B
    PROVE  IsFiniteSet(B) /\ Cardinality(B) = Cardinality(A)
<1> DEFINE f == [i \in A |-> i + k]
<1>1. f \in [A -> B] /\ \A i, j \in A : f[i] = f[j] => i = j
  OBVIOUS
<1>2. ASSUME NEW j \in B PROVE \E i \in A : f[i] = j
  OBVIOUS
<1>3. f \in Bijection(A, B)
  <2> HIDE DEF f
  <2> QED BY <1>1, <1>2 DEF Bijection, Injection, Surjection, IsInjective
<1> QED
  <2> HIDE DEF f
  <2> QED BY <1>3, FS_Bijection DEF ExistsBijection

LEMMA TimesFinite ==
    ASSUME NEW X, NEW s \in Seq(X), NEW T
    PROVE  /\ IsFiniteSet({i \in 1 .. Len(s) : s[i] \in T}) /\ Times(s, T) \in Nat
           /\ Times(s, T) = 0 <=> \A i \in 1 .. Len(s) : s[i] \notin T
           /\ (\A i, j \in 1 .. Len(s) : s[i] \in T /\ s[j] \in T => i = j) => Times(s, T) <= 1
<1> DEFINE A == {i \in 1 .. Len(s) : s[i] \in T}
<1>1. IsFiniteSet(A) /\ Cardinality(A) \in Nat
  <2>1. Len(s) \in Int /\ 1 \in Int /\ A \in SUBSET (1 .. Len(s))
    OBVIOUS
  <2> QED BY <2>1, FS_Interval, FS_Subset, FS_CardinalityType
<1>2. Cardinality(A) = 0 <=> A = {}
  BY <1>1, FS_EmptySet
<1>3. ASSUME \A i, j \in 1 .. Len(s) : s[i] \in T /\ s[j] \in T => i = j, A # {}
      PROVE  Cardinality(A) = 1
  <2>1. PICK i : i \in A
    BY <1>3
  <2>2. A = {i}
    BY <1>3, <2>1
  <2> QED BY <2>2, FS_Singleton
<1> QED
  BY <1>1, <1>2, <1>3 DEF Times

LEMMA TimesConcat ==
    ASSUME NEW X, NEW s \in Seq(X), NEW t \in Seq(X), NEW T
    PROVE  Times(s \o t, T) = Times(s, T) + Times(t, T)
<1> DEFINE m == Len(s)
           n == Len(t)
           A == {i \in 1 .. m : s[i] \in T}
           B == {i \in 1 .. n : t[i] \in T}
           C == {i \in (m + 1) .. (m + n) : (s \o t)[i] \in T}
<1>1. m \in Nat /\ n \in Nat /\ Len(s \o t) = m + n
      /\ \A i \in 1 .. (m + n) : (s \o t)[i] = IF i <= m THEN s[i] ELSE t[i - m]
  OBVIOUS
<1>2. IsFiniteSet(A) /\ IsFiniteSet(B) /\ Times(s, T) = Cardinality(A) /\ Times(t, T) = Cardinality(B)
  BY TimesFinite DEF Times
<1>3. A \in SUBSET Int /\ B \in SUBSET Int /\ C \in SUBSET Int
  BY <1>1
<1>4. \A i \in Int : i \in B <=> i + m \in C
  <2> SUFFICES ASSUME NEW i \in Int PROVE i \in B <=> i + m \in C
    OBVIOUS
  <2>1. i \in 1 .. n <=> i + m \in (m + 1) .. (m + n)
    BY <1>1
  <2>2. i \in 1 .. n => i + m \in 1 .. (m + n) /\ ~ (i + m <= m) /\ (i + m) - m = i
    BY <1>1
  <2> QED BY <1>1, <2>1, <2>2
<1>5. {i \in 1 .. (m + n) : (s \o t)[i] \in T} = A \cup C
  <2>1. \A i \in 1 .. (m + n) : i \in 1 .. m \/ i \in (m + 1) .. (m + n)
    BY <1>1
  <2>2. \A i \in 1 .. m : i \in 1 .. (m + n) /\ i <= m
    BY <1>1
  <2>3. \A i \in (m + 1) .. (m + n) : i \in 1 .. (m + n)
    BY <1>1
  <2> HIDE DEF m, n
  <2> QED BY <1>1, <2>1, <2>2, <2>3
<1>6. A \cap C = {}
  BY <1>1
<1> HIDE DEF A, B, C
<1>7. IsFiniteSet(C) /\ Cardinality(C) = Cardinality(B)
  <2>1. m \in Int
    BY <1>1
  <2> HIDE DEF m
  <2> QED BY <1>2, <1>3, <1>4, <2>1, Shifted
<1>8. Cardinality(A \cup C) = Cardinality(A) + Cardinality(C)
  <2>1. Cardinality(A) \in Nat /\ Cardinality(C) \in Nat /\ Cardinality(A \cap C) = 0
    BY <1>2, <1>6, <1>7, FS_EmptySet, FS_CardinalityType
  <2>2. Cardinality(A \cup C) = Cardinality(A) + Cardinality(C) - Cardinality(A \cap C)
    BY <1>2, <1>7, FS_Union
  <2> QED BY <2>1, <2>2
<1> QED
  BY <1>1, <1>2, <1>5, <1>7, <1>8 DEF Times

LEMMA TimesOne ==
    ASSUME NEW e, NEW T
    PROVE  Times(<<>>, T) = 0 /\ Times(<<e>>, T) = IF e \in T THEN 1 ELSE 0
<1>1. {i \in 1 .. Len(<<>>) : <<>>[i] \in T} = {}
  BY Len(<<>>) = 0
<1>2. {i \in 1 .. Len(<<e>>) : <<e>>[i] \in T} = IF e \in T THEN {1} ELSE {}
  OBVIOUS
<1> QED
  BY <1>1, <1>2, FS_EmptySet, FS_Singleton DEF Times

LEMMA TimesEnds ==
    ASSUME NEW X, NEW s \in Seq(X), NEW T
    PROVE  /\ \A e \in X : Times(Append(s, e), T) = Times(s, T) + IF e \in T THEN 1 ELSE 0
           /\ s # <<>> => Times(s, T) = Times(Tail(s), T) + IF Head(s) \in T THEN 1 ELSE 0
<1>1. ASSUME NEW e \in X PROVE Times(Append(s, e), T) = Times(s, T) + IF e \in T THEN 1 ELSE 0
  <2>1. Append(s, e) = s \o <<e>> /\ <<e>> \in Seq(X)
    OBVIOUS
  <2>2. Times(s \o <<e>>, T) = Times(s, T) + Times(<<e>>, T)
    BY <2>1, TimesConcat
  <2> QED BY <2>1, <2>2, TimesOne
<1>2. ASSUME s # <<>>
      PROVE  Times(s, T) = Times(Tail(s), T) + IF Head(s) \in T THEN 1 ELSE 0
  <2>1. <<Head(s)>> \in Seq(X) /\ Tail(s) \in Seq(X)
    <3>1. Head(s) \in X /\ Tail(s) \in Seq(X)
      BY <1>2, HeadTailProperties
    <3> QED BY <3>1
  <2>2. s = <<Head(s)>> \o Tail(s)
    <3>1. Len(s) \in Nat \ {0} /\ Len(Tail(s)) = Len(s) - 1
          /\ \A k \in 1 .. Len(Tail(s)) : Tail(s)[k] = s[k + 1]
      BY <1>2, HeadTailProperties, EmptySeq
    <3>2. Len(<<Head(s)>>) = 1 /\ <<Head(s)>>[1] = s[1]
      BY <1>2
    <3>3. <<Head(s)>> \o Tail(s) \in Seq(X)
          /\ Len(<<Head(s)>> \o Tail(s)) = Len(s)
          /\ \A k \in 1 .. Len(s) : (<<Head(s)>> \o Tail(s))[k]
                                     = IF k <= 1 THEN <<Head(s)>>[k] ELSE Tail(s)[k - 1]
      <4> DEFINE one == <<Head(s)>>
                 rest == Tail(s)
      <4>1. Len(one) = 1 /\ one \in Seq(X) /\ rest \in Seq(X)
        BY <2>1, <3>2
      <4> HIDE DEF one, rest
      <4>2. one \o rest \in Seq(X) /\ Len(one \o rest) = Len(one) + Len(rest)
            /\ \A k \in 1 .. Len(one) + Len(rest) : (one \o rest)[k]
                                     = IF k <= Len(one) THEN one[k] ELSE rest[k - Len(one)]
        BY <4>1, ConcatProperties
      <4>3. Len(rest) = Len(s) - 1 /\ Len(s) \in Nat
        BY <3>1 DEF rest
      <4>4. Len(one) + Len(rest) = Len(s)
        BY <4>1, <4>3
      <4>5. one \o rest \in Seq(X) /\ Len(one \o rest) = Len(s)
            /\ \A k \in 1 .. Len(s) : (one \o rest)[k] = IF k <= 1 THEN one[k] ELSE rest[k - 1]
        BY <4>1, <4>2, <4>4
      <4> QED BY <4>5 DEF one, rest
    <3>4. ASSUME NEW k \in 1 .. Len(s) PROVE s[k] = (<<Head(s)>> \o Tail(s))[k]
      <4>1. CASE k = 1
        BY <3>2, <3>3, <4>1
      <4>2. CASE k # 1
        <5>1. k - 1 \in 1 .. Len(Tail(s)) /\ ~(k <= 1) /\ (k - 1) + 1 = k
          BY <3>1, <4>2
        <5>2. Tail(s)[k - 1] = s[k]
          BY <3>1, <5>1
        <5> QED BY <3>3, <5>1, <5>2
      <4> QED BY <4>1, <4>2
    <3> QED BY <3>3, <3>4, SeqEqual
  <2>3. Times(s, T) = Times(<<Head(s)>>, T) + Times(Tail(s), T)
    <3> DEFINE one == <<Head(s)>>
               rest == Tail(s)
    <3>1. one \in Seq(X) /\ rest \in Seq(X) /\ s = one \o rest
      BY <2>1, <2>2
    <3> HIDE DEF one, rest
    <3>2. Times(one \o rest, T) = Times(one, T) + Times(rest, T)
      BY <3>1, TimesConcat
    <3>3. Times(s, T) = Times(one, T) + Times(rest, T)
      <4>1. Times(s, T) = Times(one \o rest, T)
        BY <3>1, Zenon
      <4> QED BY <3>2, <4>1, Zenon
    <3> QED BY <3>3 DEF one, rest
  <2>4. Times(Tail(s), T) \in Nat
    BY <2>1, TimesFinite
  <2> QED BY <2>3, <2>4, TimesOne
<1> QED
  BY <1>1, <1>2

LEMMA TimesMore ==
    ASSUME NEW X, NEW s \in Seq(X), NEW T, NEW U, \A x \in X : x \in T => x \in U
    PROVE  Times(s, T) <= Times(s, U)
<1>1. {i \in 1 .. Len(s) : s[i] \in T} \in SUBSET {i \in 1 .. Len(s) : s[i] \in U}
  OBVIOUS
<1> QED
  BY <1>1, TimesFinite, FS_Subset DEF Times

\* What is kept of a sequence is in it at least as often.
LEMMA TimesAmong ==
    ASSUME NEW X, NEW s \in Seq(X), NEW S, NEW T
    PROVE  Times(Polling!Among(s, S), T) <= Times(s, S \cap T)
<1> DEFINE n == Len(s)
           upto(i) == {j \in 1 .. i : s[j] \in S \cap T}
<1>1. PICK f : Filtered(f, X, s, S)
  BY FilterLoop
<1>2. /\ n \in Nat /\ f \in [0 .. n -> Seq(X)] /\ f[0] = <<>> /\ Polling!Among(s, S) = f[n]
      /\ \A i \in 1 .. n : f[i] = IF s[i] \in S THEN Append(f[i - 1], s[i]) ELSE f[i - 1]
  BY <1>1 DEF Filtered
<1> DEFINE P == {i \in 0 .. n : IsFiniteSet(upto(i)) /\ Times(f[i], T) <= Cardinality(upto(i))}
<1>3. 0 \in P
  <2>1. upto(0) = {}
    OBVIOUS
  <2>2. Times(f[0], T) = 0
    BY <1>2, TimesOne
  <2> QED BY <1>2, <2>1, <2>2, FS_EmptySet
<1>4. ASSUME NEW i \in 1 .. n, i - 1 \in P PROVE i \in P
  <2>1. /\ i - 1 \in 0 .. n /\ i \in 0 .. n /\ f[i - 1] \in Seq(X) /\ s[i] \in X
        /\ IsFiniteSet(upto(i - 1)) /\ Times(f[i - 1], T) <= Cardinality(upto(i - 1))
    BY <1>2, <1>4
  <2>2. upto(i) = IF s[i] \in S \cap T THEN upto(i - 1) \cup {i} ELSE upto(i - 1)
    BY <1>2
  <2>3. i \notin upto(i - 1)
    BY <1>2
  <2>4. /\ IsFiniteSet(upto(i)) /\ Cardinality(upto(i - 1)) \in Nat
        /\ Cardinality(upto(i)) = Cardinality(upto(i - 1)) + IF s[i] \in S \cap T THEN 1 ELSE 0
    <3> HIDE DEF upto
    <3> QED BY <2>1, <2>2, <2>3, FS_AddElement, FS_CardinalityType
  <2>5. Times(f[i], T) = Times(f[i - 1], T) + IF s[i] \in S \cap T THEN 1 ELSE 0
    <3>1. Times(f[i - 1], T) \in Nat
      BY <2>1, TimesFinite
    <3> QED BY <1>2, <2>1, <3>1, TimesEnds
  <2>6. Times(f[i - 1], T) \in Nat
    BY <2>1, TimesFinite
  <2> HIDE DEF upto
  <2> QED BY <2>1, <2>4, <2>5, <2>6
<1>5. n \in P
  <2>1. P \in SUBSET Nat /\ n \in 0 .. n
    BY <1>2
  <2> HIDE DEF P, n
  <2> QED BY <1>2, <1>3, <1>4, <2>1, StepByStep
<1> QED
  BY <1>2, <1>5 DEF Times

Named(id) == {r \in Polling!Row : r.id = id}
Goods(id) == {r \in Polling!Row : r.kind = "good" /\ r.id = id}
With(id) == {b \in Seq(Polling!Row) : \E i \in 1 .. Len(b) : b[i].id = id}

Ahead(s, id) == {i \in s.next .. Len(s.rows) : s.rows[i] \in Goods(id)}
Left(s, id) == IF s.at \in {"reading", "sending"} THEN Cardinality(Ahead(s, id)) ELSE 0
Held(s, id) == Times(s.buf, Named(id)) + Left(s, id)
Out(w, id) == IF w = None THEN 0 ELSE Times(w, Named(id))
Tally(id) == Times(kept, Nat \X {id}) + Times(batches, With(id)) + Out(writing, id) + Held(source, id)

MarkedIn(marks, id) ==
    IF \E v \in Polling!Versions(scenario) : v[1] \in marks /\ id \in Polling!GoodIds(v[2])
    THEN 1 ELSE 0
Budget(id) ==
    IF scenario.type = "s3" THEN run - 1 + retries + MarkedIn(source.processed, id) ELSE polls

Within(id) ==
    /\ Tally(id) <= Budget(id)
    /\ Held(source, id) <= 1 /\ Out(writing, id) <= 1
    /\ \A b \in Polling!ToSet(batches) : Times(b, Named(id)) <= 1

\* No version of an object holds an id of another, and the table holds an id once.
CopyData ==
    /\ run \in Nat \ {0} /\ retries \in Nat /\ polls \in Nat
    /\ source.at = "listing" => scenario.type = "s3"
    /\ scenario.type = "s3" =>
          \A key \in DOMAIN foreign : <<key, foreign[key]>> \in Polling!Versions(scenario)
    /\ scenario.type = "database" => \A id :
          /\ Times(foreign["query"], Goods(id)) <= 1
          /\ \A i \in (changes + 1) .. Len(scenario.changes) :
                \/ Times(foreign["query"], Goods(id)) = 0
                \/ Times(scenario.changes[i].rows, Goods(id)) = 0

\* The numbers that are compared, now and in the next state.
LEMMA CountTypes ==
    ASSUME NEW k \in Seq(Copies), NEW bs \in Seq(Seq(Polling!Row)), NEW w, NEW s, NEW id,
           w # None => w \in Seq(Polling!Row),
           s.buf \in Seq(Polling!Row), s.rows \in Seq(Polling!Row),
           s.at \in Busy => s.next \in 1 .. (Len(s.rows) + 1)
    PROVE  /\ Times(k, Nat \X {id}) \in Nat /\ Times(bs, With(id)) \in Nat /\ Out(w, id) \in Nat
           /\ Times(s.buf, Named(id)) \in Nat /\ Left(s, id) \in Nat /\ Held(s, id) \in Nat
<1>1. Left(s, id) \in Nat
  <2>1. CASE s.at \in {"reading", "sending"}
    <3>1. s.next \in Int /\ Len(s.rows) \in Int
      BY <2>1 DEF Busy
    <3>2. Ahead(s, id) \in SUBSET (s.next .. Len(s.rows))
      BY DEF Ahead
    <3> QED BY <2>1, <3>1, <3>2, FS_Interval, FS_Subset, FS_CardinalityType DEF Left
  <2> QED BY <2>1 DEF Left
<1>2. Times(s.buf, Named(id)) \in Nat /\ (w # None => Times(w, Named(id)) \in Nat)
  BY TimesFinite
<1>3. Times(k, Nat \X {id}) \in Nat /\ Times(bs, With(id)) \in Nat
  BY TimesFinite
<1> QED
  BY <1>1, <1>2, <1>3 DEF Out, Held

Numbers(k, bs, w, s, id) ==
    /\ Times(k, Nat \X {id}) \in Nat /\ Times(bs, With(id)) \in Nat /\ Out(w, id) \in Nat
    /\ Times(s.buf, Named(id)) \in Nat /\ Left(s, id) \in Nat /\ Held(s, id) \in Nat

LEMMA NumbersHere ==
    ASSUME PollTypes, NEW id
    PROVE  Numbers(kept, batches, writing, source, id)
BY CountTypes DEF PollTypes, SourceTypes, Numbers

LEMMA NumbersLater ==
    ASSUME PollTypes', NEW id
    PROVE  /\ Numbers(kept', batches', writing', source', id)
           /\ Tally(id)' = Times(kept', Nat \X {id}) + Times(batches', With(id))
                           + Out(writing', id) + Held(source', id)
           /\ Within(id)' <=>
                 /\ Tally(id)' <= Budget(id)'
                 /\ Held(source', id) <= 1 /\ Out(writing', id) <= 1
                 /\ \A b \in Polling!ToSet(batches') : Times(b, Named(id)) <= 1
<1>1. /\ Times(kept, Nat \X {id})' = Times(kept', Nat \X {id})
      /\ Times(batches, With(id))' = Times(batches', With(id))
      /\ Out(writing, id)' = Out(writing', id)
      /\ Held(source, id)' = Held(source', id)
  BY DEF Times, Out, Left, Held, Ahead, With, Named, Goods
<1>2. Tally(id)' = Times(kept', Nat \X {id}) + Times(batches', With(id))
                   + Out(writing', id) + Held(source', id)
  BY <1>1 DEF Tally
<1>3. Within(id)' <=>
         /\ Tally(id)' <= Budget(id)'
         /\ Held(source', id) <= 1 /\ Out(writing', id) <= 1
         /\ \A b \in Polling!ToSet(batches') : Times(b, Named(id)) <= 1
  BY <1>1 DEF Within, Polling!ToSet, Times, Named
<1>4. Numbers(kept', batches', writing', source', id)
  BY CountTypes DEF PollTypes, SourceTypes, Numbers
<1> QED
  BY <1>2, <1>3, <1>4

\* A step of the source that hands nothing on, and what it may add.
LEMMA SourceMoves ==
    ASSUME PollTypes, PollTypes', UNCHANGED <<kept, batches, writing>>, NEW id, Within(id),
           Budget(id) \in Int, Budget(id)' \in Int,
           Held(source', id) <= 1,
           Held(source', id) + Budget(id) <= Held(source, id) + Budget(id)'
    PROVE  Within(id)'
<1>1. Numbers(kept, batches, writing, source, id) /\ Numbers(kept', batches', writing', source', id)
  BY NumbersHere, NumbersLater
<1>2. Tally(id)' <= Budget(id)'
  BY NumbersLater, <1>1 DEF Tally, Within, Numbers
<1> QED
  BY <1>2, NumbersLater DEF Within

\* The rows of a sequence that have an id, and those of its good rows.
LEMMA TimesId ==
    ASSUME NEW b \in Seq(Polling!Row), NEW id
    PROVE  /\ Times(b, Named(id)) \in Nat
           /\ b \in With(id) => Times(b, Named(id)) >= 1
           /\ b \notin With(id) => Times(b, Named(id)) = 0
           /\ id \notin Polling!GoodIds(b) => Times(b, Goods(id)) = 0
           /\ run \in Nat => Times(Polling!Ids(b), Nat \X {id}) = Times(b, Named(id))
<1>1. \A i \in 1 .. Len(b) : b[i] \in Polling!Row /\ (b[i] \in Named(id) <=> b[i].id = id)
  BY DEF Named
<1>2. /\ Times(b, Named(id)) \in Nat
      /\ Times(b, Named(id)) = 0 <=> \A i \in 1 .. Len(b) : b[i] \notin Named(id)
      /\ Times(b, Goods(id)) = 0 <=> \A i \in 1 .. Len(b) : b[i] \notin Goods(id)
  BY TimesFinite
<1>3. b \in With(id) <=> \E i \in 1 .. Len(b) : b[i] \in Named(id)
  BY <1>1 DEF With
<1>4. id \notin Polling!GoodIds(b) => \A i \in 1 .. Len(b) : b[i] \notin Goods(id)
  BY SetOf DEF Polling!GoodIds, Goods
<1>5. ASSUME run \in Nat PROVE Times(Polling!Ids(b), Nat \X {id}) = Times(b, Named(id))
  <2>1. DOMAIN b = 1 .. Len(b) /\ Len(b) \in Nat
    OBVIOUS
  <2>2. Polling!Ids(b) = [i \in 1 .. Len(b) |-> <<run, b[i].id>>]
    BY <2>1 DEF Polling!Ids
  <2>3. Len(Polling!Ids(b)) = Len(b)
    BY <1>5, <2>2, IdsOf, <2>1, LenProperties
  <2>4. \A i \in 1 .. Len(b) : Polling!Ids(b)[i] \in Nat \X {id} <=> b[i] \in Named(id)
    BY <1>1, <1>5, <2>2
  <2> QED BY <2>3, <2>4 DEF Times
<1> QED
  BY <1>2, <1>3, <1>4, <1>5

\* A version holds an id once.
LEMMA VersionOnce ==
    ASSUME Polling!PollAssumption, scenario \in Scenarios,
           NEW v \in Polling!Versions(scenario), v[2] \in Seq(Polling!Row), NEW id
    PROVE  Times(v[2], Goods(id)) <= 1
<1>1. \A i, j \in 1 .. Len(v[2]) : v[2][i] \in Goods(id) /\ v[2][j] \in Goods(id) => i = j
  BY DEF Polling!PollAssumption, Polling!IdAssumption, Goods
<1> QED
  BY <1>1, TimesFinite

LEMMA BudgetIs ==
    ASSUME CopyData, NEW id
    PROVE  Budget(id) \in Int /\ \A marks : MarkedIn(marks, id) \in {0, 1}
BY DEF CopyData, Budget, MarkedIn

\* Nothing is read on.
LEMMA Stops ==
    ASSUME PollTypes, PollTypes', CopyData, CopyData', UNCHANGED <<kept, batches, writing, run, scenario>>,
           NEW id, Within(id), source'.at \notin {"reading", "sending"}, source'.buf = source.buf,
           Budget(id) <= Budget(id)'
    PROVE  Within(id)'
<1>1. Held(source', id) = Times(source.buf, Named(id)) /\ Held(source', id) <= Held(source, id)
      /\ Held(source', id) \in Nat /\ Held(source, id) \in Nat
  <2>1. Numbers(kept, batches, writing, source, id)
    BY NumbersHere
  <2>2. Left(source', id) = 0
    BY DEF Left
  <2> QED BY <2>1, <2>2 DEF Numbers, Held
<1>2. Budget(id) \in Int
  BY BudgetIs
<1>3. Budget(id)' \in Int
  BY DEF CopyData, Budget, MarkedIn
<1> QED
  BY <1>1, <1>2, <1>3, SourceMoves DEF Within

\* All of the steps below: what holds before one, and of its types after it.
CountsHere(id) ==
    /\ Polling!PollAssumption /\ PollTypes /\ Ends /\ CopyData /\ Within(id)
    /\ Numbers(kept, batches, writing, source, id)

LEMMA BudgetKeeps ==
    ASSUME CopyData, CopyData', UNCHANGED <<run, scenario>>, polls <= polls', NEW id,
           \/ retries' = retries /\ source'.processed = source.processed
           \/ retries' = retries + 1
    PROVE  Budget(id) <= Budget(id)' /\ Budget(id) \in Int /\ Budget(id)' \in Int
<1>1. /\ MarkedIn(source.processed, id) \in {0, 1} /\ MarkedIn(source.processed, id)' \in {0, 1}
      /\ source'.processed = source.processed
            => MarkedIn(source.processed, id)' = MarkedIn(source.processed, id)
  BY DEF MarkedIn
<1> QED
  BY <1>1 DEF CopyData, Budget

\* A reading begins: all its rows are ahead.
LEMMA HeldReading ==
    ASSUME NEW s, NEW id, s.at = "reading", s.next = 1, s.buf = <<>>, s.rows \in Seq(Polling!Row)
    PROVE  Held(s, id) = Times(s.rows, Goods(id))
<1>1. Times(s.buf, Named(id)) = 0 /\ Times(s.rows, Goods(id)) \in Nat
  BY TimesOne, TimesFinite
<1> QED
  BY <1>1 DEF Held, Left, Ahead, Times

LEMMA QueryCounts ==
    ASSUME NEW id, CountsHere(id), PollTypes', CopyData', Polling!Query
    PROVE  Within(id)'
<1>1. /\ scenario.type = "database" /\ source.at = "idle" /\ polls' = polls + 1
      /\ UNCHANGED <<kept, batches, writing, run, retries, scenario>>
      /\ Polling!Reading("query", Polling!Result) \/ UNCHANGED source
  BY DEF Polling!Query, Polling!Poll, Polling!At, Polling!outside, Polling!history
<1>2. source.buf = <<>>
  BY <1>1 DEF CountsHere, Ends
<1>3. CASE UNCHANGED source
  BY <1>1, <1>3, BudgetKeeps, Stops DEF CountsHere, CopyData
<1>4. CASE Polling!Reading("query", Polling!Result)
  <2>1. Polling!Result \in Seq(Polling!Row) /\ foreign["query"] \in Seq(Polling!Row)
    BY <1>1, ResultIsRows DEF CountsHere, PollTypes
  <2>2. Times(Polling!Result, Goods(id)) <= Times(foreign["query"], Goods(id))
    <3> DEFINE S == {r \in Polling!ToSet(foreign["query"]) : r.id > source.watermark}
    <3>1. Polling!Result \in {Polling!Among(foreign["query"], S), foreign["query"]}
      BY DEF Polling!Result
    <3> HIDE DEF S
    <3>2. Times(Polling!Among(foreign["query"], S), Goods(id))
             <= Times(foreign["query"], S \cap Goods(id))
      BY <2>1, TimesAmong
    <3>3. Times(foreign["query"], S \cap Goods(id)) <= Times(foreign["query"], Goods(id))
      BY <2>1, TimesMore
    <3>4. /\ Times(foreign["query"], S \cap Goods(id)) \in Nat
          /\ Times(foreign["query"], Goods(id)) \in Nat
          /\ Times(Polling!Result, Goods(id)) \in Nat
      BY <2>1, TimesFinite
    <3> QED BY <3>1, <3>2, <3>3, <3>4
  <2>3. /\ source'.at = "reading" /\ source'.next = 1 /\ source'.rows = Polling!Result
        /\ source'.buf = <<>> /\ source'.processed = source.processed
    BY <1>2, <1>4 DEF Polling!Reading, CountsHere, PollTypes, SourceTypes
  <2>4. Held(source', id) <= 1 /\ Held(source', id) \in Nat /\ Held(source, id) \in Nat
    <3>1. Held(source', id) = Times(Polling!Result, Goods(id))
      BY <2>1, <2>3, HeldReading
    <3>2. Times(foreign["query"], Goods(id)) <= 1
      BY <1>1 DEF CountsHere, CopyData
    <3>3. Times(Polling!Result, Goods(id)) \in Nat /\ Times(foreign["query"], Goods(id)) \in Nat
      BY <2>1, TimesFinite
    <3> QED BY <2>2, <3>1, <3>2, <3>3 DEF CountsHere, Numbers
  <2>5. Budget(id)' = Budget(id) + 1 /\ Budget(id) \in Int /\ Budget(id)' \in Int
    BY <1>1 DEF CountsHere, CopyData, Budget
  <2> QED BY <1>1, <2>4, <2>5, SourceMoves DEF CountsHere
<1> QED
  BY <1>1, <1>3, <1>4

LEMMA FileCounts ==
    ASSUME NEW id, CountsHere(id), PollTypes', CopyData', NEW key, Polling!ProcessFile(key)
    PROVE  Within(id)'
<1>1. /\ source.at = "listing" /\ key \in DOMAIN foreign /\ key \notin source.processed
      /\ scenario.type = "s3" /\ source.buf = <<>>
      /\ UNCHANGED <<kept, batches, writing, run, retries, polls, scenario>>
  BY DEF Polling!ProcessFile, Polling!Listed, Polling!At, Polling!Seen, Polling!outside,
     Polling!history, CountsHere, CopyData, PollTypes, Ends
<1>2. CASE source' = [source EXCEPT !.listed = @ \ {key}]
  BY <1>1, <1>2, BudgetKeeps, Stops DEF CountsHere, PollTypes, SourceTypes, CopyData
<1>3. CASE source' = [source EXCEPT !.at = "reading", !.key = key, !.rows = foreign[key],
                                    !.next = 1, !.failed = FALSE,
                                    !.listed = @ \ {key}, !.processed = @ \cup {key}]
  <2>1. /\ source'.at = "reading" /\ source'.next = 1 /\ source'.rows = foreign[key]
        /\ source'.buf = <<>> /\ source'.processed = source.processed \cup {key}
    BY <1>1, <1>3 DEF CountsHere, PollTypes, SourceTypes
  <2>2. /\ <<key, foreign[key]>> \in Polling!Versions(scenario)
        /\ foreign[key] \in Seq(Polling!Row) /\ scenario \in Scenarios
    BY <1>1 DEF CountsHere, CopyData, PollTypes
  <2>3. Held(source', id) = Times(foreign[key], Goods(id)) /\ Times(foreign[key], Goods(id)) <= 1
    BY <2>1, <2>2, HeldReading, VersionOnce DEF CountsHere
  <2>4. Times(foreign[key], Goods(id)) + MarkedIn(source.processed, id)
           <= MarkedIn(source'.processed, id)
    <3>1. Times(foreign[key], Goods(id)) \in Nat
      BY <2>2, TimesFinite
    <3>2. CASE id \in Polling!GoodIds(foreign[key])
      <4>1. MarkedIn(source'.processed, id) = 1
        BY <2>1, <2>2, <3>2 DEF MarkedIn
      <4>2. \A v \in Polling!Versions(scenario) : id \in Polling!GoodIds(v[2]) => v[1] = key
        BY <1>1, <2>2, <3>2 DEF CountsHere, Polling!PollAssumption, Polling!IdAssumption
      <4>3. MarkedIn(source.processed, id) = 0
        BY <1>1, <4>2 DEF MarkedIn
      <4> QED BY <2>3, <3>1, <4>1, <4>3
    <3>3. CASE id \notin Polling!GoodIds(foreign[key])
      <4>1. Times(foreign[key], Goods(id)) = 0
        BY <2>2, <3>3, TimesId
      <4> QED BY <2>1, <4>1 DEF MarkedIn
    <3> QED BY <3>2, <3>3
  <2>5. /\ Budget(id) = run - 1 + retries + MarkedIn(source.processed, id)
        /\ Budget(id)' = run - 1 + retries + MarkedIn(source'.processed, id)
        /\ MarkedIn(source.processed, id) \in {0, 1} /\ MarkedIn(source'.processed, id) \in {0, 1}
    BY <1>1 DEF Budget, MarkedIn
  <2>6. Held(source', id) \in Nat /\ Held(source, id) \in Nat /\ run \in Int /\ retries \in Int
    <3>1. Times(foreign[key], Goods(id)) \in Nat
      BY <2>2, TimesFinite
    <3> QED BY <2>3, <3>1 DEF CountsHere, Numbers, CopyData
  <2>7. Held(source', id) + Budget(id) <= Held(source, id) + Budget(id)'
    BY <2>3, <2>4, <2>5, <2>6
  <2>8. Budget(id) \in Int /\ Budget(id)' \in Int
    BY <2>5, <2>6
  <2> QED BY <1>1, <2>3, <2>7, <2>8, SourceMoves DEF CountsHere
<1> QED
  BY <1>2, <1>3 DEF Polling!ProcessFile

LEMMA SourceCounts ==
    ASSUME NEW id, CountsHere(id), PollTypes', CopyData', SourceSteps \/ Polling!Finish
    PROVE  Within(id)'
<1> USE DEF Polling!outside, Polling!history, Polling!At, Polling!To
<1>1. DOMAIN source = {"at", "listed", "processed", "watermark", "key", "rows", "next", "buf",
                       "failed"}
  BY DEF CountsHere, PollTypes, SourceTypes
<1> DEFINE Rests ==
              /\ source'.at \notin {"reading", "sending"} /\ source'.buf = source.buf
              /\ UNCHANGED <<kept, batches, writing, run, scenario>> /\ polls \in Int
              /\ polls' \in {polls, polls + 1}
              /\ \/ retries' = retries /\ source'.processed = source.processed
                 \/ retries' = retries + 1
<1>2. ASSUME Rests PROVE Within(id)'
  BY <1>2, BudgetKeeps, Stops DEF CountsHere
<1>3. polls \in Int
  BY DEF CountsHere, CopyData
<1>4. CASE Polling!Open
  BY <1>1, <1>2, <1>3, <1>4 DEF Polling!Open
<1>5. CASE Polling!ListObjects
  BY <1>1, <1>2, <1>3, <1>5 DEF Polling!ListObjects, Polling!Poll
<1>6. CASE Polling!EndOfList \/ Polling!SourceEnds
  BY <1>1, <1>2, <1>3, <1>6 DEF Polling!EndOfList, Polling!SourceEnds
<1>7. ASSUME NEW key, Polling!PassOver(key) PROVE Within(id)'
  BY <1>1, <1>2, <1>3, <1>7 DEF Polling!PassOver, Polling!Listed
<1>8. CASE Polling!Finish
  <2>1. /\ source' = [source EXCEPT !.at = IF scenario.type = "s3" THEN "listing" ELSE "idle",
                                    !.processed = Polling!Unmarked(@), !.key = None, !.rows = <<>>]
        /\ source.failed => retries' = retries + 1
        /\ ~source.failed => retries' = retries
        /\ UNCHANGED <<kept, batches, writing, run, scenario, polls>>
    BY <1>8 DEF Polling!Finish
  <2>2. ~source.failed => Polling!Unmarked(source.processed) = source.processed
    BY DEF Polling!Unmarked
  <2> HIDE DEF Polling!Unmarked
  <2>3. /\ source'.at \in {"listing", "idle"} /\ source'.buf = source.buf
        /\ source'.processed = Polling!Unmarked(source.processed)
    BY <1>1, <2>1
  <2> QED BY <1>2, <1>3, <2>1, <2>2, <2>3
<1> QED
  BY <1>4, <1>5, <1>6, <1>7, <1>8, QueryCounts, FileCounts DEF SourceSteps

\* The rows of a batch leave those that are ahead.
LEMMA BatchTimes ==
    ASSUME SourceTypes, source.buf = <<>>, source.at \in Busy, NEW id,
           NEW m \in (source.next - 1) .. Len(source.rows)
    PROVE  Times(Polling!Batch(m), Named(id))
              + Cardinality({i \in (m + 1) .. Len(source.rows) : source.rows[i] \in Goods(id)})
              <= Cardinality(Ahead(source, id))
<1> DEFINE rows == source.rows
           k == source.next - 1
           n == Len(rows)
           part == SubSeq(rows, source.next, m)
           A == {i \in 1 .. (m - k) : rows[i + k] \in Goods(id)}
           B == {i \in (k + 1) .. m : rows[i] \in Goods(id)}
           C == {i \in (m + 1) .. n : rows[i] \in Goods(id)}
           S == {r \in Polling!ToSet(part) : r.kind = "good"}
<1>1. k \in Nat /\ k + 1 = source.next /\ n \in Nat /\ m \in k .. n /\ rows \in Seq(Polling!Row)
  BY DEF SourceTypes
<1>2. /\ part \in Seq(Polling!Row) /\ Len(part) = m - k
      /\ \A i \in 1 .. (m - k) : part[i] = rows[i + k]
  <2>1. \A i \in source.next .. m : rows[i] \in Polling!Row
    <3>1. \A i \in source.next .. m : i \in 1 .. Len(rows)
      BY <1>1
    <3> HIDE DEF rows
    <3> QED BY <1>1, <3>1 DEF rows
  <2>2. source.next \in Int /\ m \in Int /\ source.next <= m + 1 /\ m - source.next + 1 = m - k
    BY <1>1
  <2>3. part \in Seq(Polling!Row) /\ Len(part) = m - k
        /\ \A i \in 1 .. (m - source.next + 1) : part[i] = rows[source.next + i - 1]
    <3> HIDE DEF rows, k
    <3> QED BY <2>1, <2>2, SubSeqProperties
  <2>4. \A i \in 1 .. (m - k) : i \in 1 .. (m - source.next + 1) /\ rows[source.next + i - 1] = rows[i + k]
    <3>1. \A i \in 1 .. (m - k) : source.next + i - 1 = i + k
      BY <1>1
    <3> HIDE DEF rows
    <3> QED BY <2>2, <3>1
  <2> HIDE DEF part, rows, k
  <2> QED BY <2>3, <2>4
<1>3. Times(Polling!Batch(m), Named(id)) <= Times(part, Goods(id))
      /\ Times(Polling!Batch(m), Named(id)) \in Nat
  <2>1. Polling!Batch(m) = Polling!Among(part, S) /\ Polling!Batch(m) \in Seq(Polling!Row)
    <3>1. Polling!Good(part) = Polling!Among(part, S) /\ Polling!Good(part) \in Seq(Polling!Row)
      <4> HIDE DEF part
      <4> QED BY <1>2, GoodKeeps DEF Polling!Good
    <3>2. Polling!Batch(m) = <<>> \o Polling!Good(part)
      BY DEF Polling!Batch
    <3> HIDE DEF part, S
    <3> QED BY <3>1, <3>2
  <2>2. Times(Polling!Among(part, S), Named(id)) <= Times(part, S \cap Named(id))
    <3> HIDE DEF part, S
    <3> QED BY <1>2, TimesAmong
  <2>3. Times(part, S \cap Named(id)) <= Times(part, Goods(id))
    <3>1. \A r \in Polling!Row : r \in S \cap Named(id) => r \in Goods(id)
      BY DEF Named, Goods
    <3> HIDE DEF part, S
    <3> QED BY <1>2, <3>1, TimesMore
  <2> HIDE DEF part, S
  <2>4. Times(part, S \cap Named(id)) \in Nat /\ Times(part, Goods(id)) \in Nat
        /\ Times(Polling!Batch(m), Named(id)) \in Nat
    BY <1>2, <2>1, TimesFinite
  <2> QED BY <2>1, <2>2, <2>3, <2>4
<1>4. Times(part, Goods(id)) = Cardinality(A)
  <2> HIDE DEF part, k
  <2> QED BY <1>2 DEF Times
<1>5. IsFiniteSet(A) /\ IsFiniteSet(C)
  <2>1. A \in SUBSET (1 .. (m - k)) /\ C \in SUBSET ((m + 1) .. n)
    OBVIOUS
  <2>2. m - k \in Int /\ m + 1 \in Int /\ n \in Int /\ 1 \in Int
    BY <1>1
  <2> HIDE DEF A, C, k, n
  <2> QED BY <2>1, <2>2, FS_Interval, FS_Subset
<1>6. IsFiniteSet(B) /\ Cardinality(B) = Cardinality(A)
  <2>1. A \in SUBSET Int /\ B \in SUBSET Int /\ k \in Int
    BY <1>1
  <2>2. \A i \in Int : i \in A <=> i + k \in B
    <3>1. \A i \in Int : i \in 1 .. (m - k) <=> i + k \in (k + 1) .. m
      BY <1>1
    <3> HIDE DEF k
    <3> QED BY <3>1
  <2> HIDE DEF A, B, k
  <2> QED BY <1>5, <2>1, <2>2, Shifted
<1>7. Ahead(source, id) = B \cup C /\ B \cap C = {}
  <2>1. \A i : i \in source.next .. n <=> i \in (k + 1) .. m \/ i \in (m + 1) .. n
    BY <1>1
  <2>2. \A i \in (k + 1) .. m : i \notin (m + 1) .. n
    BY <1>1
  <2> HIDE DEF k, n
  <2> QED BY <2>1, <2>2 DEF Ahead, n
<1> HIDE DEF A, B, C, part
<1>8. Cardinality(B \cup C) = Cardinality(B) + Cardinality(C)
  <2>1. Cardinality(B) \in Nat /\ Cardinality(C) \in Nat /\ Cardinality(B \cap C) = 0
    BY <1>5, <1>6, <1>7, FS_EmptySet, FS_CardinalityType
  <2>2. Cardinality(B \cup C) = Cardinality(B) + Cardinality(C) - Cardinality(B \cap C)
    BY <1>5, <1>6, FS_Union
  <2> QED BY <2>1, <2>2
<1>9. Cardinality(A) \in Nat /\ Cardinality(C) \in Nat
  BY <1>5, FS_CardinalityType
<1> QED
  BY <1>3, <1>4, <1>6, <1>7, <1>8, <1>9 DEF C

LEMMA ReadCounts ==
    ASSUME NEW id, CountsHere(id), PollTypes', CopyData', Polling!ReadRows
    PROVE  Within(id)'
<1>1. /\ source.at = "reading" /\ source.buf = <<>> /\ SourceTypes
      /\ source.next \in 1 .. (Len(source.rows) + 1) /\ Len(source.rows) \in Nat
      /\ UNCHANGED <<kept, batches, writing, run, retries, polls, scenario>>
  BY DEF Polling!ReadRows, Polling!At, Polling!outside, Polling!history, CountsHere, Ends,
     PollTypes, SourceTypes, Busy
<1>2. PICK m \in (source.next - 1) .. Polling!LastRead :
         LET full == ~(m # Polling!LastRead) /\ Len(Polling!Batch(m)) = BatchSize
             broken == m # Polling!LastRead \/ (~full /\ m < Len(source.rows))
             buf == IF full THEN Polling!Batch(m) ELSE Polling!Leftover(Polling!Batch(m), broken) IN
         source' = [source EXCEPT !.at = IF buf = <<>> THEN "finished" ELSE "sending",
                       !.next = IF full THEN m + 1 ELSE Len(source.rows) + 1,
                       !.buf = buf, !.failed = broken,
                       !.watermark = Polling!Watermark(Polling!Batch(m))]
  BY DEF Polling!ReadRows
<1>3. /\ source'.rows = source.rows /\ source'.processed = source.processed
      /\ source'.at \in {"finished", "sending"} /\ source'.next \in {m + 1, Len(source.rows) + 1}
      /\ source'.buf \in {Polling!Batch(m), <<>>}
  <2>1. \A p : Polling!Leftover(Polling!Batch(m), p) \in {Polling!Batch(m), <<>>}
    BY DEF Polling!Leftover
  <2> HIDE DEF Polling!Leftover, Polling!Batch
  <2> QED BY <1>2, <2>1 DEF CountsHere, PollTypes, SourceTypes
<1>4. m \in (source.next - 1) .. Len(source.rows)
  BY <1>1, <1>2, LastReadIs DEF Busy
<1> DEFINE rest == Cardinality({i \in (m + 1) .. Len(source.rows) : source.rows[i] \in Goods(id)})
<1>5. Times(Polling!Batch(m), Named(id)) + rest <= Left(source, id)
  BY <1>1, <1>4, BatchTimes DEF Busy, Left
<1>6. rest \in Nat /\ Left(source', id) \in {rest, 0}
  <2>1. {i \in (m + 1) .. Len(source.rows) : source.rows[i] \in Goods(id)}
           \in SUBSET ((m + 1) .. Len(source.rows))
    OBVIOUS
  <2>2. rest \in Nat
    <3>1. m + 1 \in Int /\ Len(source.rows) \in Int
      BY <1>1, <1>4
    <3> QED BY <2>1, <3>1, FS_Interval, FS_Subset, FS_CardinalityType
  <2>3. source'.next = Len(source.rows) + 1 => Ahead(source', id) = {}
    BY <1>1, <1>3 DEF Ahead
  <2>4. source'.next = m + 1 => Cardinality(Ahead(source', id)) = rest
    BY <1>3 DEF Ahead
  <2> QED BY <1>3, <2>2, <2>3, <2>4, FS_EmptySet DEF Left
<1>7. /\ Times(source'.buf, Named(id)) \in {Times(Polling!Batch(m), Named(id)), 0}
      /\ Times(Polling!Batch(m), Named(id)) \in Nat
  BY <1>1, <1>4, BatchKeeps, <1>3, TimesOne, TimesFinite DEF Busy
<1> HIDE DEF rest
<1>8. Held(source', id) <= Held(source, id) /\ Held(source', id) \in Nat /\ Held(source, id) \in Nat
  BY <1>5, <1>6, <1>7 DEF Held, CountsHere, Numbers
<1>9. Held(source, id) <= 1
  BY DEF CountsHere, Within
<1>10. Budget(id) <= Budget(id)' /\ Budget(id) \in Int /\ Budget(id)' \in Int
  BY <1>1, <1>3, BudgetKeeps DEF CountsHere, CopyData
<1> QED
  BY <1>1, <1>8, <1>9, <1>10, SourceMoves DEF CountsHere

\* A batch is handed on, taken or written.
LEMMA HandCounts ==
    ASSUME NEW id, CountsHere(id), PollTypes', CopyData', UNCHANGED scenario,
           Polling!Send \/ Polling!Take \/ Polling!WriteBatch \/ Polling!WriteFails
    PROVE  Within(id)'
<1> USE DEF Polling!outside, Polling!history
<1> DEFINE k == Times(kept, Nat \X {id})
           b == Times(batches, With(id))
           w == Out(writing, id)
           k2 == Times(kept', Nat \X {id})
           b2 == Times(batches', With(id))
           w2 == Out(writing', id)
<1>1. /\ kept \in Seq(Copies) /\ batches \in Seq(Seq(Polling!Row)) /\ run \in Nat
      /\ writing # None => writing \in Seq(Polling!Row)
      /\ source.buf \in Seq(Polling!Row) /\ None \notin Seq(Polling!Row)
  BY DEF CountsHere, PollTypes, SourceTypes, Polling!PollAssumption
<1>2. /\ Budget(id)' = Budget(id) /\ Budget(id) \in Int
      /\ k + b + w + Held(source, id) <= Budget(id)
      /\ Held(source, id) <= 1 /\ w <= 1
      /\ \A x \in Polling!ToSet(batches) : Times(x, Named(id)) <= 1
  <2>1. UNCHANGED <<run, retries, polls>> /\ source'.processed = source.processed
    BY DEF Polling!Send, Polling!Take, Polling!WriteBatch, Polling!WriteFails, CountsHere,
       PollTypes, SourceTypes
  <2>2. Budget(id)' = Budget(id)
    BY <2>1 DEF Budget, MarkedIn
  <2> QED BY <2>2, BudgetIs DEF CountsHere, Within, Tally
<1>3. /\ Numbers(kept, batches, writing, source, id)
      /\ Numbers(kept', batches', writing', source', id)
      /\ Tally(id)' = k2 + b2 + w2 + Held(source', id)
  BY NumbersLater DEF CountsHere
<1>4. /\ k + b + w + Held(source, id) >= k2 + b2 + w2 + Held(source', id)
      /\ Held(source', id) <= 1 /\ w2 <= 1
      /\ \A x \in Polling!ToSet(batches') : Times(x, Named(id)) <= 1
  <2>1. CASE Polling!Send
    <3>1. /\ source.at = "sending" /\ batches' = Append(batches, source.buf)
          /\ UNCHANGED <<kept, writing>>
          /\ source'.at \in {"reading", "finished"} /\ source'.buf = <<>>
          /\ source'.next = source.next /\ source'.rows = source.rows
      BY <2>1 DEF Polling!Send, Polling!At, CountsHere, PollTypes, SourceTypes
    <3>2. b2 <= b + Times(source.buf, Named(id))
      <4>1. b2 = b + IF source.buf \in With(id) THEN 1 ELSE 0
        BY <1>1, <3>1, TimesEnds
      <4>2. source.buf \in With(id) => Times(source.buf, Named(id)) >= 1
        BY <1>1, TimesId
      <4> QED BY <1>3, <4>1, <4>2 DEF Numbers
    <3>3. Held(source', id) <= Left(source, id)
      <4>1. Left(source', id) \in {Left(source, id), 0}
        BY <3>1 DEF Left, Ahead
      <4>2. Times(source'.buf, Named(id)) = 0
        BY <3>1, TimesOne
      <4> QED BY <1>3, <4>1, <4>2 DEF Held, Numbers
    <3>4. Held(source, id) = Times(source.buf, Named(id)) + Left(source, id)
      BY DEF Held
    <3>5. Polling!ToSet(batches') = Polling!ToSet(batches) \cup {source.buf}
      BY <1>1, <3>1, SetOfAppend
    <3>6. Times(source.buf, Named(id)) <= 1 /\ Left(source, id) <= 1
      BY <1>2, <1>3, <3>4 DEF Numbers
    <3>7. k2 = k /\ w2 = w
      BY <3>1
    <3> HIDE DEF k, b, w, k2, b2, w2
    <3>8. k + b + w + Held(source, id) >= k2 + b2 + w2 + Held(source', id)
      BY <1>3, <3>2, <3>3, <3>4, <3>7 DEF Numbers, k, b, w, k2, b2, w2
    <3>9. Held(source', id) <= 1
      BY <1>3, <3>3, <3>6 DEF Numbers
    <3> QED BY <1>2, <3>5, <3>6, <3>7, <3>8, <3>9
  <2>2. CASE Polling!Take
    <3>1. /\ writing = None /\ batches # <<>> /\ writing' = Head(batches)
          /\ batches' = Tail(batches) /\ UNCHANGED <<kept, source>>
      BY <2>2 DEF Polling!Take
    <3>2. /\ Head(batches) \in Seq(Polling!Row)
          /\ Polling!ToSet(batches) = {Head(batches)} \cup Polling!ToSet(batches')
      BY <1>1, <3>1, SetOfHeadTail
    <3>3. b = b2 + IF Head(batches) \in With(id) THEN 1 ELSE 0
      BY <1>1, <3>1, TimesEnds
    <3>4. w = 0 /\ w2 = Times(Head(batches), Named(id)) /\ w2 <= 1
      BY <1>1, <1>2, <3>1, <3>2 DEF Out
    <3>5. Head(batches) \notin With(id) => w2 = 0
      BY <3>2, <3>4, TimesId
    <3>6. k2 = k /\ Held(source', id) = Held(source, id)
      BY <3>1
    <3> HIDE DEF k, b, w, k2, b2, w2
    <3>7. k + b + w + Held(source, id) >= k2 + b2 + w2 + Held(source', id)
      BY <1>3, <3>3, <3>4, <3>5, <3>6 DEF Numbers, k, b, w, k2, b2, w2
    <3> QED BY <1>2, <3>2, <3>4, <3>6, <3>7
  <2>3. CASE Polling!WriteBatch \/ Polling!WriteFails
    <3>1. /\ writing # None /\ writing' = None /\ UNCHANGED <<batches, source>>
          /\ kept' = kept \o Polling!Ids(writing) \/ kept' = kept
      BY <2>3 DEF Polling!WriteBatch, Polling!WriteFails
    <3>2. Times(kept \o Polling!Ids(writing), Nat \X {id}) = k + w
      <4>1. Polling!Ids(writing) \in Seq(Copies)
        BY <1>1, <3>1, IdsOf
      <4>2. Times(kept \o Polling!Ids(writing), Nat \X {id})
               = k + Times(Polling!Ids(writing), Nat \X {id})
        BY <1>1, <4>1, TimesConcat
      <4>3. Times(Polling!Ids(writing), Nat \X {id}) = w
        BY <1>1, <3>1, TimesId DEF Out
      <4> QED BY <4>2, <4>3
    <3>3. k2 <= k + w /\ w2 = 0
      <4>1. w2 = 0
        BY <3>1 DEF Out
      <4>2. k2 \in {k + w, k}
        BY <3>1, <3>2
      <4>3. k \in Nat /\ w \in Nat
        BY <1>3 DEF Numbers
      <4> HIDE DEF k, w, k2, w2
      <4> QED BY <4>1, <4>2, <4>3
    <3>4. b2 = b /\ Held(source', id) = Held(source, id) /\ batches' = batches
      BY <3>1
    <3> HIDE DEF k, b, w, k2, b2, w2
    <3>5. k + b + w + Held(source, id) >= k2 + b2 + w2 + Held(source', id)
      BY <1>3, <3>3, <3>4 DEF Numbers, k, b, w, k2, b2, w2
    <3> QED BY <1>2, <3>3, <3>4, <3>5
  <2> QED BY <2>1, <2>2, <2>3
<1> HIDE DEF k, b, w, k2, b2, w2
<1>5. Tally(id)' <= Budget(id)'
  BY <1>2, <1>3, <1>4 DEF Numbers, k, b, w, k2, b2, w2
<1> QED
  BY <1>4, <1>5, NumbersLater DEF w2

\* The next run: what was on its way is lost, or was written before the crash.
LEMMA RunCounts ==
    ASSUME NEW id, CountsHere(id), PollTypes', CopyData', Polling!Restart \/ Polling!Crash
    PROVE  Within(id)'
<1>1. /\ source' = Polling!New /\ batches' = <<>> /\ writing' = None /\ run' = run + 1
      /\ UNCHANGED <<retries, polls, scenario>>
      /\ \/ kept' = kept
         \/ writing # None /\ kept' = kept \o Polling!Ids(writing)
  BY DEF Polling!Restart, Polling!Crash, Polling!NextRun
<1>2. Times(batches', With(id)) = 0 /\ Out(writing', id) = 0 /\ Held(source', id) = 0
  <2>1. source'.at = "starting" /\ source'.buf = <<>>
    BY <1>1 DEF Polling!New
  <2>2. Times(batches', With(id)) = 0 /\ Times(source'.buf, Named(id)) = 0
    BY <1>1, <2>1, TimesOne
  <2>3. Out(writing', id) = 0 /\ Left(source', id) = 0
    BY <1>1, <2>1 DEF Out, Left
  <2> QED BY <2>2, <2>3 DEF Held
<1>3. Numbers(kept, batches, writing, source, id) /\ Numbers(kept', batches', writing', source', id)
  BY NumbersLater DEF CountsHere
<1>4. Times(kept', Nat \X {id}) <= Times(kept, Nat \X {id}) + Out(writing, id)
  <2>1. CASE kept' = kept
    BY <1>3, <2>1 DEF Numbers
  <2>2. CASE writing # None /\ kept' = kept \o Polling!Ids(writing)
    <3>1. writing \in Seq(Polling!Row) /\ kept \in Seq(Copies) /\ run \in Nat
      BY <2>2 DEF CountsHere, PollTypes
    <3>2. Times(kept', Nat \X {id})
             = Times(kept, Nat \X {id}) + Times(Polling!Ids(writing), Nat \X {id})
      BY <2>2, <3>1, IdsOf, TimesConcat
    <3>3. Times(Polling!Ids(writing), Nat \X {id}) = Out(writing, id)
      BY <2>2, <3>1, TimesId DEF Out
    <3> QED BY <1>3, <3>2, <3>3 DEF Numbers
  <2> QED BY <1>1, <2>1, <2>2
<1>5. Budget(id) <= Budget(id)' /\ Budget(id) \in Int /\ Budget(id)' \in Int
  BY <1>1 DEF MarkedIn, CountsHere, CopyData, Budget
<1>6. Tally(id) <= Budget(id)
      /\ Tally(id) = Times(kept, Nat \X {id}) + Times(batches, With(id)) + Out(writing, id)
                     + Held(source, id)
  BY DEF CountsHere, Within, Tally
<1>7. Tally(id)' = Times(kept', Nat \X {id}) + Times(batches', With(id)) + Out(writing', id)
                   + Held(source', id)
  BY NumbersLater
<1>8. Tally(id)' <= Budget(id)'
  BY <1>2, <1>3, <1>4, <1>5, <1>6, <1>7 DEF Numbers
<1>9. Polling!ToSet(batches') = {}
  BY <1>1 DEF Polling!ToSet
<1>10. Held(source', id) <= 1 /\ Out(writing', id) <= 1
  BY <1>2
<1> QED
  BY <1>8, <1>9, <1>10, NumbersLater

\* What is known of the data.
LEMMA CopyDataStep ==
    ASSUME Polling!PollAssumption, PollTypes, Ends, CopyData, [Polling!Next]_Polling!vars
    PROVE  CopyData'
<1> USE DEF Polling!outside, Polling!history
<1>1. run' \in {run, run + 1} /\ retries' \in {retries, retries + 1} /\ polls' \in {polls, polls + 1}
      /\ scenario' = scenario
  BY DEF Polling!Next, Polling!Open, Polling!Query, Polling!ListObjects, Polling!EndOfList,
     Polling!ReadRows, Polling!Send, Polling!Finish, Polling!SourceEnds, Polling!PassOver,
     Polling!ProcessFile, Polling!Change, Polling!Take, Polling!WriteBatch, Polling!WriteFails,
     Polling!Restart, Polling!Crash, Polling!Cancel, Polling!NextRun, Polling!Poll,
     Polling!Listed, Polling!vars
<1>2. \/ UNCHANGED <<foreign, changes>>
      \/ \E key : Polling!Change(key)
  BY DEF Polling!Next, Polling!Open, Polling!Query, Polling!ListObjects, Polling!EndOfList,
     Polling!ReadRows, Polling!Send, Polling!Finish, Polling!SourceEnds, Polling!PassOver,
     Polling!ProcessFile, Polling!Take, Polling!WriteBatch, Polling!WriteFails,
     Polling!Restart, Polling!Crash, Polling!Cancel, Polling!NextRun, Polling!Poll,
     Polling!Listed, Polling!vars
<1>3. source'.at = "listing" => scenario.type = "s3"
  <2>1. DOMAIN source = {"at", "listed", "processed", "watermark", "key", "rows", "next", "buf",
                         "failed"}
    BY DEF PollTypes, SourceTypes
  <2> SUFFICES source'.at = "listing" => source.at = "listing" \/ scenario.type = "s3"
    BY DEF CopyData
  <2>2. CASE Polling!ReadRows \/ Polling!Send
    BY <2>1, <2>2 DEF Polling!ReadRows, Polling!Send
  <2>3. CASE Polling!Finish
    BY <2>1, <2>3 DEF Polling!Finish
  <2>4. CASE Polling!Query
    BY <2>1, <2>4 DEF Polling!Query, Polling!Reading
  <2>5. CASE SourceSteps /\ ~Polling!Query
    BY <2>1, <2>5 DEF SourceSteps, Polling!Open, Polling!ListObjects, Polling!EndOfList,
       Polling!SourceEnds, Polling!PassOver, Polling!ProcessFile, Polling!Poll, Polling!To,
       Polling!Listed, Polling!At
  <2>6. CASE Polling!Restart \/ Polling!Crash
    BY <2>6 DEF Polling!Restart, Polling!Crash, Polling!NextRun, Polling!New
  <2>7. CASE UNCHANGED source \/ UNCHANGED Polling!vars
    BY <2>7 DEF Polling!vars
  <2>8. ASSUME NEW key, Polling!Change(key) PROVE UNCHANGED source
    BY <2>8 DEF Polling!Change
  <2> QED BY <2>2, <2>3, <2>4, <2>5, <2>6, <2>7, <2>8 DEF Polling!Next, SourceSteps, Polling!Take,
             Polling!WriteBatch, Polling!WriteFails, Polling!Cancel
<1>4. ASSUME scenario.type = "s3", NEW key \in DOMAIN foreign'
      PROVE  <<key, foreign'[key]>> \in Polling!Versions(scenario)
  <2>1. CASE UNCHANGED foreign
    BY <1>4, <2>1 DEF CopyData
  <2>2. ASSUME NEW at, Polling!Change(at) PROVE <<key, foreign'[key]>> \in Polling!Versions(scenario)
    <3> DEFINE c == scenario.changes[changes + 1]
    <3>1. /\ changes < Len(scenario.changes) /\ at = c.key
          /\ foreign' = [k \in DOMAIN foreign \cup {at} |-> IF k = at THEN c.rows ELSE foreign[k]]
      BY <1>4, <2>2 DEF Polling!Change, Polling!Put
    <3>2. c \in Polling!ToSet(scenario.changes)
      BY <3>1, SetOf DEF PollTypes, Polling!PollAssumption
    <3> HIDE DEF c
    <3>3. CASE key = at
      BY <3>1, <3>2, <3>3 DEF Polling!Versions
    <3>4. CASE key # at
      BY <1>4, <3>1, <3>4 DEF CopyData
    <3> QED BY <3>3, <3>4
  <2> QED BY <1>2, <2>1, <2>2
<1>5. ASSUME scenario.type = "database", NEW id
      PROVE  /\ Times(foreign'["query"], Goods(id)) <= 1
             /\ \A i \in (changes' + 1) .. Len(scenario.changes) :
                   \/ Times(foreign'["query"], Goods(id)) = 0
                   \/ Times(scenario.changes[i].rows, Goods(id)) = 0
  <2>1. CASE UNCHANGED <<foreign, changes>>
    BY <1>5, <2>1 DEF CopyData
  <2>2. ASSUME NEW at, Polling!Change(at)
        PROVE  /\ Times(foreign'["query"], Goods(id)) <= 1
               /\ \A i \in (changes' + 1) .. Len(scenario.changes) :
                     \/ Times(foreign'["query"], Goods(id)) = 0
                     \/ Times(scenario.changes[i].rows, Goods(id)) = 0
    <3> DEFINE j == changes + 1
               c == scenario.changes[j]
               n == Len(scenario.changes)
    <3>1. /\ changes \in Nat /\ n \in Nat /\ changes < n /\ changes' = j /\ at = c.key
          /\ foreign' = [k \in DOMAIN foreign \cup {at} |->
                            IF k = at THEN foreign[at] \o c.rows ELSE foreign[k]]
      BY <1>5, <2>2 DEF Polling!Change, Polling!Put, PollTypes, Polling!PollAssumption
    <3>2. j \in 1 .. n
      BY <3>1
    <3>3. /\ at = "query" /\ foreign["query"] \in Seq(Polling!Row) /\ c.rows \in Seq(Polling!Row)
          /\ \A i \in 1 .. n : scenario.changes[i].rows \in Seq(Polling!Row)
      BY <1>5, <3>1, <3>2 DEF PollTypes, Polling!PollAssumption
    <3>4. foreign'["query"] = foreign["query"] \o c.rows
      BY <3>1, <3>3
    <3>5. Times(foreign'["query"], Goods(id))
             = Times(foreign["query"], Goods(id)) + Times(c.rows, Goods(id))
      BY <3>3, <3>4, TimesConcat
    <3>6. /\ Times(foreign["query"], Goods(id)) \in Nat
          /\ \A i \in 1 .. n : Times(scenario.changes[i].rows, Goods(id)) \in Nat
      BY <3>3, TimesFinite
    <3>7. /\ Times(foreign["query"], Goods(id)) <= 1
          /\ \A i \in j .. n : \/ Times(foreign["query"], Goods(id)) = 0
                               \/ Times(scenario.changes[i].rows, Goods(id)) = 0
      BY <1>5 DEF CopyData
    <3>8. Times(c.rows, Goods(id)) <= 1
      <4>1. \A p, q \in 1 .. Len(c.rows) : c.rows[p] \in Goods(id) /\ c.rows[q] \in Goods(id) => p = q
        <5>1. c \in Polling!ToSet(scenario.changes)
          BY <3>2, SetOf DEF PollTypes, Polling!PollAssumption
        <5>2. <<c.key, c.rows>> \in Polling!Versions(scenario) /\ <<c.key, c.rows>>[2] = c.rows
          BY <5>1 DEF Polling!Versions
        <5> HIDE DEF c
        <5> QED BY <5>2 DEF PollTypes, Polling!PollAssumption, Polling!IdAssumption, Goods
      <4> QED BY <3>3, <4>1, TimesFinite
    <3>9. ASSUME NEW i \in (j + 1) .. n
          PROVE  Times(c.rows, Goods(id)) = 0 \/ Times(scenario.changes[i].rows, Goods(id)) = 0
      <4>1. i \in 1 .. n /\ j \in 1 .. (i - 1)
        BY <3>1, <3>9
      <4>2. Polling!GoodIds(scenario.changes[i].rows) \cap Polling!GoodIds(c.rows) = {}
        <5>1. Polling!GoodIds(scenario.changes[i].rows)
                 \cap (Polling!GoodIds(scenario.foreign["query"])
                       \cup UNION {Polling!GoodIds(scenario.changes[p].rows) : p \in 1 .. (i - 1)}) = {}
          BY <1>5, <4>1 DEF PollTypes, Polling!PollAssumption, Polling!IdAssumption
        <5> QED BY <4>1, <5>1
      <4> HIDE DEF c
      <4> QED BY <3>3, <4>1, <4>2, TimesId
    <3>10. \A i \in (j + 1) .. n : i \in j .. n /\ i \in 1 .. n
      BY <3>1
    <3>11. j \in j .. n
      BY <3>2
    <3> HIDE DEF j, c, n
    <3>12. Times(foreign["query"], Goods(id)) = 0 \/ Times(c.rows, Goods(id)) = 0
      BY <3>7, <3>11 DEF c
    <3>13. Times(c.rows, Goods(id)) \in Nat
      BY <3>3, TimesFinite
    <3>14. Times(foreign'["query"], Goods(id)) <= 1
      BY <3>5, <3>6, <3>7, <3>8, <3>12, <3>13
    <3>15. ASSUME NEW i \in (j + 1) .. n
           PROVE  \/ Times(foreign'["query"], Goods(id)) = 0
                  \/ Times(scenario.changes[i].rows, Goods(id)) = 0
      BY <3>5, <3>6, <3>7, <3>9, <3>10, <3>13
    <3> QED BY <3>1, <3>14, <3>15 DEF n
  <2> QED BY <1>2, <2>1, <2>2
<1>6. /\ \A id : Times(foreign["query"], Goods(id))' = Times(foreign'["query"], Goods(id))
      /\ \A id, i : Times(scenario.changes[i].rows, Goods(id))' = Times(scenario'.changes[i].rows, Goods(id))
  BY DEF Times, Goods
<1>7. run' \in Nat \ {0} /\ retries' \in Nat /\ polls' \in Nat
  BY <1>1 DEF CopyData
<1> QED
  BY <1>1, <1>3, <1>4, <1>5, <1>6, <1>7 DEF CopyData

CopyInv == CopyData /\ \A id \in {r.id : r \in Polling!Row} : Within(id)

LEMMA CopyInit ==
    ASSUME Polling!PollAssumption, Polling!Init
    PROVE  CopyInv
<1>1. PollTypes
  BY PollInit
<1>2. /\ source.at = "starting" /\ source.buf = <<>> /\ scenario \in Scenarios
      /\ batches = <<>> /\ writing = None /\ kept = <<>> /\ foreign = scenario.foreign
      /\ run = 1 /\ retries = 0 /\ polls = 0 /\ changes = 0
  BY DEF Polling!Init, Polling!New
<1>3. CopyData
  <2>1. ASSUME NEW key \in DOMAIN foreign PROVE <<key, foreign[key]>> \in Polling!Versions(scenario)
    BY <1>2 DEF Polling!Versions
  <2>2. ASSUME scenario.type = "database", NEW id
        PROVE  /\ Times(foreign["query"], Goods(id)) <= 1
               /\ \A i \in (changes + 1) .. Len(scenario.changes) :
                     \/ Times(foreign["query"], Goods(id)) = 0
                     \/ Times(scenario.changes[i].rows, Goods(id)) = 0
    <3>1. "query" \in DOMAIN foreign /\ foreign["query"] \in Seq(Polling!Row)
      BY <1>1, <2>2 DEF PollTypes
    <3>2. Times(foreign["query"], Goods(id)) <= 1
      <4> DEFINE v == <<"query", foreign["query"]>>
      <4>1. v \in Polling!Versions(scenario) /\ v[2] = foreign["query"]
        BY <2>1, <3>1
      <4> HIDE DEF v
      <4> QED BY <1>2, <3>1, <4>1, VersionOnce
    <3>3. ASSUME NEW i \in 1 .. Len(scenario.changes)
          PROVE  \/ Times(foreign["query"], Goods(id)) = 0
                 \/ Times(scenario.changes[i].rows, Goods(id)) = 0
      BY <1>2, <2>2, <3>3, <3>1, TimesId DEF Polling!PollAssumption, Polling!IdAssumption
    <3> QED BY <1>2, <3>2, <3>3
  <2> QED BY <1>2, <2>1, <2>2 DEF CopyData
<1>4. ASSUME NEW id PROVE Within(id)
  <2>1. Times(kept, Nat \X {id}) = 0 /\ Times(batches, With(id)) = 0 /\ Times(source.buf, Named(id)) = 0
    BY <1>2, TimesOne
  <2>2. Out(writing, id) = 0 /\ Left(source, id) = 0 /\ Polling!ToSet(batches) = {}
    BY <1>2 DEF Out, Left, Polling!ToSet
  <2>3. Tally(id) = 0 /\ Held(source, id) = 0
    BY <2>1, <2>2 DEF Tally, Held
  <2>4. Budget(id) >= 0
    BY <1>2 DEF Budget, MarkedIn
  <2> QED BY <2>2, <2>3, <2>4 DEF Within
<1> QED
  BY <1>3, <1>4 DEF CopyInv

LEMMA CopyStep ==
    ASSUME Polling!PollAssumption, PollTypes, Ends, RowInv, CopyInv, [Polling!Next]_Polling!vars
    PROVE  CopyInv'
<1>1. PollTypes'
  BY PollStep
<1>2. CopyData'
  BY CopyDataStep DEF CopyInv
<1>3. ASSUME NEW id, Within(id) PROVE Within(id)'
  <2>1. CountsHere(id)
    BY <1>3, NumbersHere DEF CountsHere, CopyInv
  <2>2. CASE SourceSteps \/ Polling!Finish
    BY <1>1, <1>2, <2>1, <2>2, SourceCounts
  <2>3. CASE Polling!ReadRows
    BY <1>1, <1>2, <2>1, <2>3, ReadCounts
  <2>4. CASE Polling!Send \/ Polling!Take \/ Polling!WriteBatch \/ Polling!WriteFails
    BY <2>4, <1>1, <1>2, <2>1, HandCounts DEF Polling!Send, Polling!Take, Polling!WriteBatch,
       Polling!WriteFails, Polling!outside
  <2>5. CASE Polling!Restart \/ Polling!Crash
    BY <1>1, <1>2, <2>1, <2>5, RunCounts
  <2>6. CASE Polling!Cancel \/ (\E key : Polling!Change(key)) \/ UNCHANGED Polling!vars
    <3>1. UNCHANGED <<source, batches, writing, kept, run, retries, polls, scenario>>
      BY <2>6 DEF Polling!Cancel, Polling!Change, Polling!history, Polling!vars
    <3>2. Budget(id) <= Budget(id)' /\ Budget(id) \in Int /\ Budget(id)' \in Int
      BY <1>2, <2>1, <3>1, BudgetKeeps DEF CountsHere, CopyData
    <3>3. Held(source', id) = Held(source, id) /\ Held(source, id) <= 1 /\ Held(source, id) \in Nat
      BY <2>1, <3>1 DEF CountsHere, Within, Numbers
    <3>4. Held(source', id) <= 1 /\ Held(source', id) + Budget(id) <= Held(source, id) + Budget(id)'
      BY <3>2, <3>3
    <3> QED BY <1>1, <1>3, <2>1, <3>1, <3>2, <3>4, SourceMoves DEF CountsHere
  <2> QED BY <2>2, <2>3, <2>4, <2>5, <2>6 DEF Polling!Next, SourceSteps
<1> QED
  BY <1>2, <1>3 DEF CopyInv

LEMMA CopiesAreBounded == ASSUME PollTypes, CopyInv PROVE Polling!CopiesBounded
<1>1. /\ kept \in Seq(Copies) /\ DOMAIN kept = 1 .. Len(kept)
      /\ \A i \in 1 .. Len(kept) : kept[i] \in Copies
  BY DEF PollTypes
<1>2. ASSUME NEW copy \in Polling!ToSet(kept)
      PROVE  Cardinality({i \in DOMAIN kept : kept[i][2] = copy[2]})
                <= IF scenario.type = "s3" THEN run + retries ELSE polls
  <2> DEFINE id == copy[2]
  <2>1. id \in {r.id : r \in Polling!Row}
    <3>1. copy \in Copies
      BY <1>1, <1>2, SetOf
    <3> QED BY <3>1 DEF Copies
  <2>2. {i \in DOMAIN kept : kept[i][2] = id} = {i \in 1 .. Len(kept) : kept[i] \in Nat \X {id}}
    <3>1. \A c \in Copies : c[2] = id <=> c \in Nat \X {id}
      BY DEF Copies
    <3> HIDE DEF id
    <3> QED BY <1>1, <3>1
  <2> HIDE DEF id
  <2>3. Within(id) /\ Numbers(kept, batches, writing, source, id) /\ Budget(id) \in Int
    BY <2>1, NumbersHere, BudgetIs DEF CopyInv
  <2>4. Times(kept, Nat \X {id}) <= Budget(id) /\ Times(kept, Nat \X {id}) \in Nat
    BY <2>3 DEF Within, Tally, Numbers
  <2>5. MarkedIn(source.processed, id) \in {0, 1}
    BY DEF MarkedIn
  <2>6. /\ scenario.type = "s3" => Times(kept, Nat \X {id}) <= run + retries
        /\ scenario.type # "s3" => Times(kept, Nat \X {id}) <= polls
    BY <2>3, <2>4, <2>5 DEF Budget, CopyInv, CopyData
  <2> QED BY <2>2, <2>6 DEF Times, id
<1>3. \A S : Polling!Cardinality(S) = Cardinality(S)
  BY DEF Polling!Cardinality, Cardinality
<1> QED
  BY <1>2, <1>3 DEF Polling!CopiesBounded

\* For every table, bucket, batch size, capacity of the channel and number of polls, and
\* wherever a reading breaks, a write fails, or the run is cancelled or killed: an object stays
\* marked as processed only if it was read to its end, so that no failed object is left out by
\* the polls to come (s3_source.go:92); and each good row of what was read to its end is in the
\* table, in a batch on its way there, or in a batch whose failed write was reported: no buffer
\* is left behind (database_source.go:148, s3_source.go:174).  And a row is copied at most once
\* by each poll of a database, and by each run and each failed reading of an object.
THEOREM ReadRowsArrive ==
    ASSUME Polling!PollAssumption
    PROVE  Polling!Spec => []Polling!PollInv
<1> DEFINE I == PollTypes /\ Ends /\ RowInv /\ CopyInv
<1>1. Polling!Init => I
  BY PollInit, CopyInit
<1>2. I /\ [Polling!Next]_Polling!vars => I'
  BY PollStep, CopyStep
<1>3. I => Polling!PollInv
  BY CopiesAreBounded DEF RowInv, Marks, Polling!MarkedIsRead, Polling!PollInv
<1> QED
  BY <1>1, <1>2, <1>3, PTL DEF Polling!Spec

------------------------------------------------------------------------------
(* Uploaded files (Uploads).  The argument: whatever a request has          *)
(* computed, it computed of its file (Computed); a written line has in each *)
(* column the cell of its row, converted to the type of the column, and was *)
(* not refused (LineMeans); and the batches of a request are its rows up to *)
(* start, or one batch more where it failed (Arrived).  What a conversion   *)
(* does to the values a type was inferred from is a fact of the types       *)
(* (Fits), and headers that are not repeated stay apart (HeadersAre).       *)

CONSTANT Clients
VARIABLE upload     \* table, here, is the table of an upload

Up == INSTANCE Uploads

Fields == {"at", "form", "rows", "columns", "inferred", "start", "inserted", "try", "last"}

FileRows(c) == Up!ParseUploadDataset(scenario.files[c])
TypeOfColumn(c, name) ==
    Up!InferUploadColumnType({Up!Cell(FileRows(c)[i], name) : i \in DOMAIN FileRows(c)})
Inferred(c) == upload[c].inferred /\ scenario.ask[c].create

TableTypes ==
    /\ DOMAIN table = {"there", "columns", "batches"}
    /\ Up!IsASeq(table.batches) /\ Up!Unique(table.columns)
    /\ ~table.there => table.batches = <<>>

RequestTypes(c) ==
    LET u == upload[c] IN
    /\ DOMAIN u = Fields
    /\ u.at \in {"idle", "create", "describe", "insert", "done", "failed"}
    /\ u.start \in Nat /\ u.inserted \in Nat /\ u.try \in Nat
    /\ u.inferred \in BOOLEAN
    /\ Up!IsASeq(u.form) /\ Up!IsASeq(u.columns)

\* What a request has computed of its file.
Computed(c) ==
    LET u == upload[c] IN
    /\ u.inferred => u.form \in {<<>>, Up!InferUploadColumns(FileRows(c))}
    /\ u.rows # <<>> => Up!Readable(scenario.files[c]) /\ u.rows = FileRows(c)
    /\ u.rows # <<>> /\ u.form = <<>> => u.inferred
    /\ u.rows # <<>> /\ Inferred(c) => u.columns = Up!InferUploadColumns(FileRows(c))
    /\ u.at # "idle" => u.try # 0
    /\ u.at = "idle" => u.rows = <<>> /\ u.try = 0 /\ u.last = None
    /\ u.at \in {"create", "describe", "insert", "done"} => u.rows # <<>>
    /\ u.at \in {"idle", "create", "describe"} => u.start = 0 /\ u.inserted = 0
    /\ u.at = "create" => scenario.ask[c].create
    /\ u.at = "describe" => ~scenario.ask[c].create
    /\ u.at = "insert" /\ ~scenario.ask[c].create =>
          table.there /\ Up!ToSet(u.columns) \subseteq table.columns

\* A written cell is that of the file, converted to the type of its column: the one
\* inferred, or one of the table.
LineMeans(c, i, line) ==
    /\ Inferred(c) => DOMAIN line = UNION {DOMAIN FileRows(c)[k] : k \in DOMAIN FileRows(c)} \ {<<>>}
    /\ \A name \in DOMAIN line :
          LET converted(base) == Up!CoerceUploadValueForType(Up!Cell(FileRows(c)[i], name), base) IN
          /\ line[name] # Up!Refused
          /\ Inferred(c) => line[name] = converted(TypeOfColumn(c, name).base)
          /\ ~scenario.ask[c].create =>
                \E t \in table.columns : t.name = name /\ line[name] = converted(t.type.base)

BatchMeans(b) ==
    /\ b.by \in Clients /\ b.try \in 1 .. upload[b.by].try /\ upload[b.by].rows # <<>>
    /\ DOMAIN b.lines \subseteq DOMAIN FileRows(b.by)
    /\ \A i \in DOMAIN b.lines : LineMeans(b.by, i, b.lines[i])

\* The batches of a request are its rows before start, or one batch more where it failed.
BatchRows(k) == DOMAIN table.batches[k].lines
Arrived(c) ==
    /\ \A j, k \in Up!Mine(c) : j < k => \A x \in BatchRows(j), y \in BatchRows(k) : x < y
    /\ upload[c].at \in {"idle", "create", "describe"} => Up!Mine(c) = {}
    /\ upload[c].rows # <<>> =>
          UNION {BatchRows(k) : k \in Up!Mine(c)} \in
             {Up!Sent(c)} \cup IF upload[c].at = "failed"
                             THEN {Up!Sent(c) \cup Up!Written(upload[c])} ELSE {}
    /\ upload[c].inserted = Up!Cardinality(Up!Sent(c))

UploadsOK ==
    /\ scenario \in Scenarios /\ TableTypes /\ Up!TypesFit
    /\ DOMAIN upload = Clients
    /\ \A c \in Clients : RequestTypes(c) /\ Computed(c) /\ Arrived(c)
    /\ \A k \in DOMAIN table.batches : BatchMeans(table.batches[k])

LEMMA CardinalitySame == \A S : Up!Cardinality(S) = Cardinality(S)
  BY DEF Up!Cardinality, Cardinality

\* A finite set, listed.
LEMMA Listed ==
    ASSUME NEW S, IsFiniteSet(S)
    PROVE  LET s == Up!SetToSeq(S) IN
           /\ Up!IsASeq(s) /\ Up!ToSet(s) = S
           /\ \A i, j \in DOMAIN s : s[i] = s[j] => i = j
<1> DEFINE n == Cardinality(S)
           s == Up!SetToSeq(S)
<1>1. n \in Nat /\ ExistsBijection(1 .. n, S)
  BY FS_CardinalityType
<1>2. PICK f \in [1 .. n -> S] : \A i, j \in 1 .. n : f[i] = f[j] => i = j
  BY <1>1 DEF ExistsBijection, Bijection, Injection, IsInjective
<1>3. Up!IsInjective(f)
  BY <1>2 DEF Up!IsInjective
<1>4. s \in [1 .. n -> S] /\ Up!IsInjective(s)
  <2>1. s = CHOOSE g \in [1 .. n -> S] : Up!IsInjective(g)
    BY CardinalitySame DEF Up!SetToSeq
  <2> HIDE DEF s
  <2> QED BY <1>3, <2>1
<1> HIDE DEF s
<1>5. \A i, j \in 1 .. n : s[i] = s[j] => i = j
  BY <1>4 DEF Up!IsInjective
<1>6. s \in Injection(1 .. n, S)
  BY <1>4, <1>5 DEF Injection, IsInjective
<1>7. IsFiniteSet(1 .. n) /\ Cardinality(1 .. n) = n
  BY <1>1, FS_Interval
<1>8. s \in Surjection(1 .. n, S)
  <2>1. Cardinality(1 .. n) = Cardinality(S)
    BY <1>7
  <2> HIDE DEF n
  <2> QED BY <1>6, <2>1, FS_Injection
<1>9. Up!ToSet(s) = S
  BY <1>4, <1>8 DEF Surjection, Up!ToSet
<1>10. s \in Seq(S)
  BY <1>1, <1>4
<1> QED
  BY <1>4, <1>5, <1>9, <1>10 DEF Up!IsASeq, s

LEMMA SeqIs ==
    ASSUME NEW s, Up!IsASeq(s)
    PROVE  /\ Len(s) \in Nat /\ DOMAIN s = 1 .. Len(s)
           /\ \A x : x \in Up!ToSet(s) <=> \E i \in DOMAIN s : x = s[i]
  BY DEF Up!IsASeq, Up!ToSet

----------------------------------------------------------------------------
(* The cells. *)

NoneIsNoValue ==
    None \notin {Up!Refused, Up!Blank, "padded", "words", "7", "007", "long", "rounded", "fraction",
                 "moment", "zoned", "utc", "utc day", "day", "#true", "#2^53", "#2^53+1",
                 "#2^64", "wrapped"}

\* A value, and what a reading or a conversion makes of it.
Becomes(v, w) == w = v \/ <<v, w>> \in Up!Changed

\* The type inferred for the values of a column.
LEMMA Fits ==
    ASSUME NoneIsNoValue, NEW values, NEW v \in values, v \notin {Up!Refused, Up!Blank}
    PROVE  LET type == Up!InferUploadColumnType(values)
               w == Up!CoerceUploadValueForType(v, type.base) IN
           /\ w = Up!Refused => v \in {"t", "NaN"}
           /\ w = None => type.nullable
           /\ w = Up!Refused \/ Becomes(v, w)
<1> DEFINE vs == values \ {None}
           base == Up!InferUploadColumnType(values).base
           w == Up!CoerceUploadValueForType(v, base)
<1>1. /\ Up!InferUploadColumnType(values).nullable = (None \in values \/ vs = {})
      /\ \/ base = "String"
         \/ base = "Bool" /\ vs \subseteq Up!ParseBool \cup Up!Bools
         \/ base = "Int64" /\ vs \subseteq Up!ParseInt \cup Up!Whole
         \/ base = "Float64" /\ vs \subseteq Up!ParseFloat \cup Up!Numbers
         \/ base = "DateTime" /\ vs \subseteq Up!IsDateTimeString
         \/ base = "Date" /\ vs \subseteq {"day"}
  BY DEF Up!InferUploadColumnType
<1>2. CASE v = None
  BY <1>1, <1>2 DEF NoneIsNoValue, Up!CoerceUploadValueForType, Becomes
<1>3. CASE v # None
  <2> HIDE DEF base
  <2>1. v \in vs
    BY <1>3
  <2>2. /\ w = Up!Refused => v \in {"t", "NaN"}
        /\ w # None
        /\ w = Up!Refused \/ Becomes(v, w)
    <3>1. CASE base = "String"
      BY <1>3, <3>1 DEF Up!CoerceUploadValueForType, Up!NormalizeUploadValue, Up!Changed,
         Becomes, NoneIsNoValue, Up!Refused
    <3>2. CASE base = "Bool" /\ vs \subseteq Up!ParseBool \cup Up!Bools
      BY <1>3, <2>1, <3>2 DEF Up!CoerceUploadValueForType, Up!CoerceBool, Up!ParseBool,
         Up!Bools, Up!ParseBoolUploadValue, Up!Numbers, Up!Whole, Up!Refused, NoneIsNoValue, Becomes
    <3>3. CASE base = "Int64" /\ vs \subseteq Up!ParseInt \cup Up!Whole
      BY <1>3, <2>1, <3>3 DEF Up!CoerceUploadValueForType, Up!CoerceInt, Up!ParseInt,
         Up!Whole, Up!Refused, Up!Changed, NoneIsNoValue, Becomes
    <3>4. CASE base = "Float64" /\ vs \subseteq Up!ParseFloat \cup Up!Numbers
      BY <1>3, <2>1, <3>4 DEF Up!CoerceUploadValueForType, Up!CoerceFloat, Up!AsFloat, Up!ParseFloat, Up!ParseInt,
         Up!Numbers, Up!Whole, Up!Refused, Up!Changed, NoneIsNoValue, Becomes
    <3>5. CASE base = "DateTime" /\ vs \subseteq Up!IsDateTimeString
      BY <1>3, <2>1, <3>5 DEF Up!CoerceUploadValueForType, Up!CoerceTime, Up!ParseFlexibleTime,
         Up!IsDateTimeString, Up!Refused, Up!Changed, NoneIsNoValue, Becomes
    <3>6. CASE base = "Date" /\ vs \subseteq {"day"}
      BY <1>3, <2>1, <3>6 DEF Up!CoerceUploadValueForType, Up!CoerceTime, Up!ParseFlexibleTime,
         Up!IsDateTimeString, Up!Refused, Up!Changed, NoneIsNoValue, Becomes
    <3> QED BY <1>1, <3>1, <3>2, <3>3, <3>4, <3>5, <3>6
  <2> QED BY <2>2 DEF base
<1> QED BY <1>2, <1>3

\* A value of a line is that of the row, converted to the type of a column of its name.
LEMMA LineIs ==
    ASSUME NEW read, NEW columns, Up!IsASeq(columns)
    PROVE  LET line == Up!Line(read, columns) IN
           /\ DOMAIN line = Up!Names(columns)
           /\ \A name \in DOMAIN line : \E t \in Up!ToSet(columns) :
                 /\ t.name = name
                 /\ line[name] = Up!CoerceUploadValueForType(Up!Cell(read, name), t.type.base)
<1> DEFINE line == Up!Line(read, columns)
           firstOf(name, i) == columns[i].name = name /\ \A j \in 1 .. (i - 1) : columns[j].name # name
<1>1. DOMAIN line = Up!Names(columns)
  BY DEF Up!Line, Up!Names
<1>2. Len(columns) \in Nat /\ DOMAIN columns = 1 .. Len(columns)
      /\ \A x : x \in Up!ToSet(columns) <=> \E i \in DOMAIN columns : x = columns[i]
  BY SeqIs
<1>3. ASSUME NEW name \in DOMAIN line
      PROVE  \E t \in Up!ToSet(columns) :
                /\ t.name = name
                /\ line[name] = Up!CoerceUploadValueForType(Up!Cell(read, name), t.type.base)
  <2> DEFINE k == CHOOSE i \in DOMAIN columns : firstOf(name, i)
  <2>1. \E i \in DOMAIN columns : firstOf(name, i)
    <3> DEFINE N == {i \in DOMAIN columns : columns[i].name = name}
    <3>1. N \in SUBSET Nat /\ N # {}
      BY <1>1, <1>2, <1>3 DEF Up!Names
    <3>2. PICK i \in N : \A j \in N : i <= j
      BY <3>1, Least
    <3>3. \A j \in 1 .. (i - 1) : j \in DOMAIN columns /\ j < i
      BY <1>2, <3>2
    <3> QED BY <1>2, <3>2, <3>3
  <2>2. k \in DOMAIN columns /\ columns[k].name = name
    BY <2>1
  <2>3. line[name] = Up!CoerceUploadValueForType(Up!Cell(read, name), columns[k].type.base)
    BY <1>3, <1>1 DEF Up!Line, Up!Names
  <2> HIDE DEF k
  <2> QED BY <1>2, <2>2, <2>3
<1> QED BY <1>1, <1>3

----------------------------------------------------------------------------
(* The rows that were read. *)

Rows(rows) ==
    /\ \E n \in Nat : DOMAIN rows = 1 .. n
    /\ \A i \in DOMAIN rows :
          /\ IsFiniteSet(DOMAIN rows[i])
          /\ \A name \in DOMAIN rows[i] : rows[i][name] \notin {Up!Refused, Up!Blank}

Values(rows, name) == {Up!Cell(rows[i], name) : i \in DOMAIN rows}

LEMMA NormalizedIs ==
    ASSUME NoneIsNoValue, NEW v, v # Up!Refused
    PROVE  Up!NormalizeUploadValue(v) \notin {Up!Refused, Up!Blank}
  BY DEF NoneIsNoValue, Up!NormalizeUploadValue, Up!Refused, Up!Blank

LEMMA CSVRowIs ==
    ASSUME NoneIsNoValue, NEW headers, Up!IsASeq(headers), NEW raw,
           Up!IsASeq(raw.cells), Up!Refused \notin Up!ToSet(raw.cells)
    PROVE  LET read == Up!CSVRow(headers, raw) IN
           /\ IsFiniteSet(DOMAIN read)
           /\ \A name \in DOMAIN read : read[name] \notin {Up!Refused, Up!Blank}
           /\ \A j \in DOMAIN raw.cells \cap DOMAIN headers :
                 (\A i \in DOMAIN headers : headers[i] = headers[j] => i <= j) =>
                    headers[j] \in DOMAIN read /\ read[headers[j]] = Up!NormalizeUploadValue(raw.cells[j])
<1> DEFINE read == Up!CSVRow(headers, raw)
           last(name, k) == headers[k] = name /\ \A j \in DOMAIN headers : headers[j] = name => j <= k
           lastOf(name) == CHOOSE k \in DOMAIN headers : last(name, k)
<1>1. /\ DOMAIN read = Up!ToSet(headers)
      /\ \A name \in DOMAIN read : read[name] =
            IF lastOf(name) > Len(raw.cells) THEN None
            ELSE Up!NormalizeUploadValue(raw.cells[lastOf(name)])
  BY DEF Up!CSVRow
<1>2. Len(headers) \in Nat /\ DOMAIN headers = 1 .. Len(headers)
      /\ \A x : x \in Up!ToSet(headers) <=> \E i \in DOMAIN headers : x = headers[i]
  BY SeqIs
<1>3. Len(raw.cells) \in Nat /\ DOMAIN raw.cells = 1 .. Len(raw.cells)
      /\ \A x : x \in Up!ToSet(raw.cells) <=> \E i \in DOMAIN raw.cells : x = raw.cells[i]
  BY SeqIs
<1>4. IsFiniteSet(Up!ToSet(headers))
  <2> DEFINE f == [i \in 1 .. Len(headers) |-> headers[i]]
  <2>1. f \in Surjection(1 .. Len(headers), Up!ToSet(headers))
    BY <1>2 DEF Surjection
  <2> HIDE DEF f
  <2> QED BY <1>2, <2>1, FS_Interval, FS_Surjection
<1>5. ASSUME NEW name \in DOMAIN read PROVE lastOf(name) \in DOMAIN headers /\ last(name, lastOf(name))
  <2> DEFINE N == {Len(headers) - k : k \in {i \in DOMAIN headers : headers[i] = name}}
  <2>1. N \in SUBSET Nat /\ N # {}
    BY <1>1, <1>2, <1>5
  <2>2. PICK n \in N : \A m \in N : n <= m
    BY <2>1, Least
  <2>3. PICK k \in DOMAIN headers : headers[k] = name /\ n = Len(headers) - k
    BY <2>2
  <2>4. \A j \in DOMAIN headers : headers[j] = name => j <= k
    <3> SUFFICES ASSUME NEW j \in DOMAIN headers, headers[j] = name PROVE j <= k
      OBVIOUS
    <3>1. n <= Len(headers) - j
      BY <2>2
    <3> QED BY <1>2, <2>3, <3>1
  <2>5. \E i \in DOMAIN headers : last(name, i)
    BY <2>3, <2>4
  <2> QED BY <2>5
<1> HIDE DEF lastOf, read
<1>6. ASSUME NEW name \in DOMAIN read PROVE read[name] \notin {Up!Refused, Up!Blank}
  <2>1. None \notin {Up!Refused, Up!Blank}
    BY DEF NoneIsNoValue
  <2>2. CASE lastOf(name) > Len(raw.cells)
    BY <1>1, <1>6, <2>1, <2>2
  <2>3. CASE ~(lastOf(name) > Len(raw.cells))
    <3>1. lastOf(name) \in DOMAIN raw.cells
      BY <1>2, <1>3, <1>5, <1>6, <2>3
    <3>2. raw.cells[lastOf(name)] # Up!Refused
      BY <1>3, <3>1
    <3> QED BY <1>1, <1>6, <2>3, <3>2, NormalizedIs
  <2> QED BY <2>2, <2>3
<1>7. ASSUME NEW j \in DOMAIN raw.cells \cap DOMAIN headers,
             \A i \in DOMAIN headers : headers[i] = headers[j] => i <= j
      PROVE  headers[j] \in DOMAIN read /\ read[headers[j]] = Up!NormalizeUploadValue(raw.cells[j])
  BY <1>1, <1>2, <1>5, <1>7, <1>3
<1> QED BY <1>1, <1>4, <1>6, <1>7 DEF read

\* Headers become different names.
LEMMA HeadersAre ==
    ASSUME NEW header, Up!IsASeq(header), \A j \in DOMAIN header : Up!IsASeq(header[j])
    PROVE  LET names == Up!NormalizeCSVHeaders(header) IN
           /\ Up!IsASeq(names) /\ DOMAIN names = DOMAIN header
           /\ Up!HeaderOK(header) => \A i, j \in DOMAIN names : names[i] = names[j] => i = j
<1> DEFINE base == [i \in DOMAIN header |->
                       IF header[i] = <<>> THEN <<"column", i>> ELSE header[i]]
           same(i) == {j \in 1 .. (i - 1) : base[j] = base[i]}
           before(i) == Cardinality(same(i))
           names == Up!NormalizeCSVHeaders(header)
<1>1. Len(header) \in Nat /\ DOMAIN header = 1 .. Len(header)
      /\ \A x : x \in Up!ToSet(header) <=> \E i \in DOMAIN header : x = header[i]
  BY SeqIs
<1>2. names = [i \in DOMAIN header |->
                  IF before(i) = 0 THEN base[i] ELSE Append(base[i], before(i) + 1)]
  BY CardinalitySame DEF Up!NormalizeCSVHeaders
<1>3. Up!IsASeq(names) /\ DOMAIN names = DOMAIN header
  <2> HIDE DEF before, base
  <2>1. names \in Seq(Up!ToSet(names))
    BY <1>1, <1>2 DEF Up!ToSet
  <2> QED BY <1>2, <2>1 DEF Up!IsASeq
<1> HIDE DEF names
<1>4. \A i \in DOMAIN header : IsFiniteSet(same(i)) /\ before(i) \in Nat
  <2> SUFFICES ASSUME NEW i \in DOMAIN header PROVE IsFiniteSet(same(i)) /\ before(i) \in Nat
    OBVIOUS
  <2>1. same(i) \subseteq 1 .. (i - 1) /\ i - 1 \in Int /\ 1 \in Int
    BY <1>1
  <2> HIDE DEF same
  <2>2. IsFiniteSet(1 .. (i - 1))
    BY <2>1, FS_Interval
  <2>3. IsFiniteSet(same(i))
    BY <2>1, <2>2, FS_Subset
  <2> QED BY <2>3, FS_CardinalityType
<1>5. ASSUME NEW i \in DOMAIN header, NEW j \in DOMAIN header, i < j, base[i] = base[j]
      PROVE  before(i) < before(j)
  <2>1. same(i) \subseteq same(j) /\ i \in same(j) /\ i \notin same(i)
    BY <1>1, <1>5
  <2> HIDE DEF same
  <2>2. same(i) # same(j)
    BY <2>1
  <2> QED BY <1>4, <2>1, <2>2, FS_Subset
<1>6. ASSUME Up!HeaderOK(header), NEW i \in DOMAIN names, NEW j \in DOMAIN names,
             i < j, names[i] = names[j]
      PROVE  FALSE
  <2>1. \A k \in DOMAIN header : header[k] = <<>> \/ \E w : header[k] = <<w>>
    <3> SUFFICES ASSUME NEW k \in DOMAIN header PROVE header[k] = <<>> \/ \E w : header[k] = <<w>>
      OBVIOUS
    <3>1. /\ header[k] \in Seq(Up!ToSet(header[k])) /\ Len(header[k]) <= 1
          /\ Len(header[k]) \in Nat
      BY <1>6 DEF Up!HeaderOK, Up!IsASeq
    <3>2. CASE Len(header[k]) = 0
      BY <3>1, <3>2
    <3>3. CASE Len(header[k]) = 1
      BY <3>1, <3>3
    <3>4. Len(header[k]) = 0 \/ Len(header[k]) = 1
      <4>1. \A n \in Nat : n <= 1 => n = 0 \/ n = 1
        OBVIOUS
      <4> QED BY <3>1, <4>1
    <3> QED BY <3>2, <3>3, <3>4
  <2>2. ~ (\E k, m \in DOMAIN header : header[k] = <<>> /\ header[m] = <<"column">>)
    BY <1>1, <1>6 DEF Up!HeaderOK
  <2> DEFINE bi == base[i]
             bj == base[j]
             ni == before(i)
             nj == before(j)
  <2>3. /\ ni \in Nat /\ nj \in Nat
        /\ bi = bj => ni < nj
        /\ (IF ni = 0 THEN bi ELSE Append(bi, ni + 1)) = (IF nj = 0 THEN bj ELSE Append(bj, nj + 1))
    BY <1>2, <1>3, <1>4, <1>5, <1>6
  <2>4. \/ header[i] = <<>> /\ bi = <<"column", i>>
        \/ \E w : header[i] = <<w>> /\ bi = <<w>>
    BY <1>3, <1>6, <2>1
  <2>5. \/ header[j] = <<>> /\ bj = <<"column", j>>
        \/ \E w : header[j] = <<w>> /\ bj = <<w>>
    BY <1>3, <1>6, <2>1
  <2>6. header[i] = <<>> => same(i) = {}
    <3>1. \A k \in 1 .. (i - 1) : k \in DOMAIN header /\ k # i
      BY <1>1, <1>3
    <3>2. ASSUME header[i] = <<>>, NEW k \in 1 .. (i - 1) PROVE base[k] # base[i]
      <4>1. base[k] = <<"column", k>> \/ \E w : base[k] = <<w>>
        BY <2>1, <3>1
      <4>2. base[i] = <<"column", i>>
        BY <1>3, <3>2
      <4> HIDE DEF base
      <4>3. \A w : <<w>> # <<"column", i>>
        <5> SUFFICES ASSUME NEW w, <<w>> = <<"column", i>> PROVE FALSE
          OBVIOUS
        <5>1. Len(<<w>>) = 1 /\ Len(<<"column", i>>) = 2
          OBVIOUS
        <5> QED BY <5>1
      <4> QED BY <3>1, <4>1, <4>2, <4>3
    <3> QED BY <3>2
  <2>7. header[j] = <<>> => same(j) = {}
    <3>1. \A k \in 1 .. (j - 1) : k \in DOMAIN header /\ k # j
      BY <1>1, <1>3
    <3>2. ASSUME header[j] = <<>>, NEW k \in 1 .. (j - 1) PROVE base[k] # base[j]
      <4>1. base[k] = <<"column", k>> \/ \E w : base[k] = <<w>>
        BY <2>1, <3>1
      <4>2. base[j] = <<"column", j>>
        BY <1>3, <3>2
      <4> HIDE DEF base
      <4>3. \A w : <<w>> # <<"column", j>>
        <5> SUFFICES ASSUME NEW w, <<w>> = <<"column", j>> PROVE FALSE
          OBVIOUS
        <5>1. Len(<<w>>) = 1 /\ Len(<<"column", j>>) = 2
          OBVIOUS
        <5> QED BY <5>1
      <4> QED BY <3>1, <4>1, <4>2, <4>3
    <3> QED BY <3>2
  <2>8. Cardinality({}) = 0
    BY FS_EmptySet
  <2>9. (header[i] = <<>> => ni = 0) /\ (header[j] = <<>> => nj = 0)
    BY <2>6, <2>7, <2>8
  <2> HIDE DEF bi, bj, ni, nj
  <2>10. \A w, n : Append(<<w>>, n) = <<w, n>>
    <3> SUFFICES ASSUME NEW w, NEW n PROVE Append(<<w>>, n) = <<w, n>>
      OBVIOUS
    <3>1. <<w>> \in Seq({w, n}) /\ n \in {w, n} /\ Len(<<w>>) = 1
      OBVIOUS
    <3>2. /\ Append(<<w>>, n) \in Seq({w, n}) /\ Len(Append(<<w>>, n)) = 2
          /\ Append(<<w>>, n)[1] = w /\ Append(<<w>>, n)[2] = n
      BY <3>1
    <3>3. Append(<<w>>, n) = [q \in 1 .. 2 |-> Append(<<w>>, n)[q]]
      BY <3>2
    <3>4. <<w, n>> = [q \in 1 .. 2 |-> IF q = 1 THEN w ELSE n]
      OBVIOUS
    <3>5. \A q \in 1 .. 2 : q = 1 \/ q = 2
      OBVIOUS
    <3> QED BY <3>2, <3>3, <3>4, <3>5
  <2>11. \A v, w, m, n : <<v, m>> = <<w, n>> => v = w /\ m = n
    OBVIOUS
  <2>12. \A v, w, m : <<v>> # <<w, m>>
    <3> SUFFICES ASSUME NEW v, NEW w, NEW m, <<v>> = <<w, m>> PROVE FALSE
      OBVIOUS
    <3>1. Len(<<v>>) = 1 /\ Len(<<w, m>>) = 2
      OBVIOUS
    <3> QED BY <3>1
  <2>13. \A v, w : <<v>> = <<w>> => v = w
    OBVIOUS
  <2>14. \A w : header[i] # <<w>> \/ header[i] # <<>>
    OBVIOUS
  <2>15. CASE header[i] = <<>> /\ header[j] = <<>>
    BY <1>1, <1>3, <1>6, <2>3, <2>4, <2>5, <2>9, <2>11, <2>15
  <2>16. CASE header[i] = <<>> /\ \E w : header[j] = <<w>> /\ bj = <<w>>
    BY <1>3, <1>6, <2>2, <2>3, <2>4, <2>9, <2>10, <2>11, <2>12, <2>16
  <2>17. CASE header[j] = <<>> /\ \E w : header[i] = <<w>> /\ bi = <<w>>
    BY <1>3, <1>6, <2>2, <2>3, <2>5, <2>9, <2>10, <2>11, <2>12, <2>17
  <2>18. CASE /\ \E w : header[i] = <<w>> /\ bi = <<w>>
              /\ \E w : header[j] = <<w>> /\ bj = <<w>>
    <3>1. PICK v : bi = <<v>>
      BY <2>18
    <3>2. PICK w : bj = <<w>>
      BY <2>18
    <3>3. CASE ni = 0 /\ nj = 0
      BY <2>3, <3>3
    <3>4. CASE ni = 0 /\ nj # 0
      BY <2>3, <2>10, <2>12, <3>1, <3>2, <3>4
    <3>5. CASE ni # 0 /\ nj = 0
      BY <2>3, <2>10, <2>12, <3>1, <3>2, <3>5
    <3>6. CASE ni # 0 /\ nj # 0
      BY <2>3, <2>10, <2>11, <3>1, <3>2, <3>6
    <3> QED BY <3>3, <3>4, <3>5, <3>6
  <2> QED BY <2>4, <2>5, <2>15, <2>16, <2>17, <2>18
<1>7. Up!HeaderOK(header) => \A i, j \in DOMAIN names : names[i] = names[j] => i = j
  <2> SUFFICES ASSUME Up!HeaderOK(header), NEW i \in DOMAIN names, NEW j \in DOMAIN names,
                      names[i] = names[j], i # j
               PROVE  FALSE
    OBVIOUS
  <2>1. i \in Int /\ j \in Int
    BY <1>1, <1>3
  <2>2. i < j \/ j < i
    BY <2>1
  <2> QED BY <1>6, <2>2
<1> QED BY <1>3, <1>7 DEF names

\* What is read of a file.
LEMMA RowsAreRead ==
    ASSUME NoneIsNoValue, NEW file, Up!FileOK(file), Up!Readable(file)
    PROVE  LET rows == Up!ParseUploadDataset(file) IN
           /\ DOMAIN rows = DOMAIN file.rows /\ Rows(rows)
           /\ \A i \in DOMAIN rows :
                 IF file.format = "csv"
                 THEN \A j \in DOMAIN file.rows[i].cells \cap DOMAIN file.header :
                         Up!HeaderOK(file.header) \/ Up!LastOfName(file, j) =>
                            Up!Cell(rows[i], Up!HeaderOf(file, j))
                               = Up!NormalizeUploadValue(file.rows[i].cells[j])
                 ELSE Up!IsObject(file.rows[i]) =>
                         \A name \in DOMAIN file.rows[i].object :
                            Up!Cell(rows[i], name)
                               = Up!NormalizeUploadValue(Up!AsFloat(file.rows[i].object[name]))
<1> DEFINE rows == Up!ParseUploadDataset(file)
<1>1. /\ file.format \in {"csv", "json", "jsonl", "parquet"}
      /\ Up!IsASeq(file.header) /\ \A j \in DOMAIN file.header : Up!IsASeq(file.header[j])
      /\ Up!IsASeq(file.rows)
      /\ \A i \in DOMAIN file.rows : Up!RowOK(file, file.rows[i])
  BY DEF Up!Readable, Up!FileOK
<1>2. Len(file.rows) \in Nat /\ DOMAIN file.rows = 1 .. Len(file.rows)
  BY <1>1, SeqIs
<1>3. CASE file.format = "csv"
  <2> DEFINE names == Up!NormalizeCSVHeaders(file.header)
  <2>1. rows = [i \in DOMAIN file.rows |-> Up!CSVRow(names, file.rows[i])]
    BY <1>3 DEF Up!ParseUploadDataset, Up!ParseCSVDataset
  <2>2. /\ Up!IsASeq(names) /\ DOMAIN names = DOMAIN file.header
        /\ Up!HeaderOK(file.header) => \A i, j \in DOMAIN names : names[i] = names[j] => i = j
    BY <1>1, HeadersAre
  <2> DEFINE Final(j) == \A k \in DOMAIN names : names[k] = names[j] => k <= j
  <2> HIDE DEF names, rows
  <2>3. ASSUME NEW i \in DOMAIN file.rows
        PROVE  /\ IsFiniteSet(DOMAIN rows[i])
               /\ \A name \in DOMAIN rows[i] : rows[i][name] \notin {Up!Refused, Up!Blank}
               /\ \A j \in DOMAIN file.rows[i].cells \cap DOMAIN file.header :
                     Final(j) =>
                        Up!Cell(rows[i], names[j])
                           = Up!NormalizeUploadValue(file.rows[i].cells[j])
    BY <1>1, <1>3, <2>1, <2>2, CSVRowIs DEF Up!RowOK, Up!Cell
  <2>4. Rows(rows) /\ DOMAIN rows = DOMAIN file.rows
    BY <1>2, <2>1, <2>3 DEF Rows
  <2>5. ASSUME NEW j \in DOMAIN file.header, Up!HeaderOK(file.header) \/ Up!LastOfName(file, j)
        PROVE  Final(j)
    BY <1>1, SeqIs, <2>2, <2>5 DEF Up!LastOfName, Up!HeaderOf, names
  <2> HIDE DEF Final
  <2>6. \A j : Up!HeaderOf(file, j) = names[j]
    BY DEF Up!HeaderOf, names
  <2> QED BY <1>3, <2>3, <2>4, <2>5, <2>6 DEF rows
<1>4. CASE file.format # "csv"
  <2> HIDE DEF rows
  <2>1. rows = [i \in DOMAIN file.rows |-> Up!NormalizeRowFromAny(Up!Unmarshalled(file.rows[i]))]
    BY <1>1, <1>4 DEF rows, Up!ParseUploadDataset, Up!ParseJSONDataset, Up!ParseParquetDataset
  <2>2. ASSUME NEW i \in DOMAIN file.rows
        PROVE  /\ IsFiniteSet(DOMAIN rows[i])
               /\ \A name \in DOMAIN rows[i] : rows[i][name] \notin {Up!Refused, Up!Blank}
               /\ Up!IsObject(file.rows[i]) => \A name \in DOMAIN file.rows[i].object :
                     Up!Cell(rows[i], name)
                        = Up!NormalizeUploadValue(Up!AsFloat(file.rows[i].object[name]))
    <3> DEFINE raw == file.rows[i]
    <3>1. IF Up!IsObject(raw)
          THEN IsFiniteSet(DOMAIN raw.object)
               /\ \A name \in DOMAIN raw.object : raw.object[name] # Up!Refused
          ELSE raw.value # Up!Refused
      BY <1>1, <1>4 DEF Up!RowOK, Up!IsFiniteSet, IsFiniteSet
    <3>2. CASE Up!IsObject(raw)
      <4>1. rows[i] = [name \in DOMAIN raw.object |-> Up!NormalizeUploadValue(Up!AsFloat(raw.object[name]))]
        <5>1. Up!Unmarshalled(raw) = [object |-> [name \in DOMAIN raw.object |-> Up!AsFloat(raw.object[name])]]
          BY <3>2 DEF Up!Unmarshalled
        <5>2. Up!NormalizeRowFromAny(Up!Unmarshalled(raw)) =
                 [name \in DOMAIN raw.object |-> Up!NormalizeUploadValue(Up!AsFloat(raw.object[name]))]
          BY <5>1 DEF Up!NormalizeRowFromAny, Up!IsObject
        <5> QED BY <2>1, <5>2
      <4> HIDE DEF raw
      <4>2. DOMAIN rows[i] = DOMAIN raw.object
        BY <4>1
      <4>3. ASSUME NEW name \in DOMAIN raw.object
            PROVE  /\ rows[i][name] \notin {Up!Refused, Up!Blank}
                   /\ rows[i][name] = Up!NormalizeUploadValue(Up!AsFloat(raw.object[name]))
        BY <3>1, <3>2, <4>1, NormalizedIs DEF Up!Refused, Up!AsFloat
      <4> QED BY <3>1, <3>2, <4>2, <4>3 DEF Up!Cell, raw
    <3>3. CASE ~Up!IsObject(raw)
      <4>1. rows[i] = [name \in {<<"value">>} |-> Up!NormalizeUploadValue(Up!AsFloat(raw.value))]
        <5>1. Up!Unmarshalled(raw) = [value |-> Up!AsFloat(raw.value)]
          BY <3>3 DEF Up!Unmarshalled
        <5>2. Up!NormalizeRowFromAny(Up!Unmarshalled(raw)) =
                 [name \in {<<"value">>} |-> Up!NormalizeUploadValue(Up!AsFloat(raw.value))]
          BY <5>1 DEF Up!NormalizeRowFromAny, Up!IsObject
        <5> QED BY <2>1, <5>2
      <4> HIDE DEF raw
      <4>2. Up!AsFloat(raw.value) # Up!Refused
        BY <3>1, <3>3 DEF Up!Refused, Up!AsFloat
      <4>3. IsFiniteSet({<<"value">>})
        BY FS_Singleton
      <4>4. \A name \in DOMAIN rows[i] : rows[i][name] \notin {Up!Refused, Up!Blank}
        BY <4>1, <4>2, NormalizedIs
      <4>5. DOMAIN rows[i] = {<<"value">>}
        BY <4>1
      <4> QED BY <3>3, <4>3, <4>4, <4>5 DEF raw
    <3> QED BY <3>2, <3>3
  <2>3. Rows(rows) /\ DOMAIN rows = DOMAIN file.rows
    BY <1>2, <2>1, <2>2 DEF Rows
  <2> QED BY <1>4, <2>2, <2>3 DEF rows
<1> QED BY <1>3, <1>4

LEMMA ImageFinite ==
    ASSUME NEW S, IsFiniteSet(S), NEW f, S \subseteq DOMAIN f
    PROVE  IsFiniteSet({f[x] : x \in S})
<1> DEFINE g == [x \in S |-> f[x]]
<1>1. g \in Surjection(S, {f[x] : x \in S})
  BY DEF Surjection
<1> HIDE DEF g
<1> QED BY <1>1, FS_Surjection

\* The columns inferred from rows.
LEMMA ColumnsAre ==
    ASSUME NEW rows, Rows(rows)
    PROVE  LET columns == Up!InferUploadColumns(rows) IN
           /\ Up!IsASeq(columns) /\ Up!Unique(Up!ToSet(columns))
           /\ Up!Names(columns) = UNION {DOMAIN rows[i] : i \in DOMAIN rows} \ {<<>>}
           /\ \A t \in Up!ToSet(columns) :
                 t.type = Up!InferUploadColumnType(Values(rows, t.name))
<1> DEFINE names == UNION {DOMAIN rows[i] : i \in DOMAIN rows} \ {<<>>}
           f == [n \in names |-> [name |-> n, type |-> Up!InferUploadColumnType(Values(rows, n))]]
           columns == Up!InferUploadColumns(rows)
<1>1. IsFiniteSet(names)
  <2> DEFINE d == [i \in DOMAIN rows |-> DOMAIN rows[i]]
             D == {d[i] : i \in DOMAIN rows}
  <2>1. IsFiniteSet(DOMAIN rows)
    BY FS_Interval DEF Rows
  <2>2. IsFiniteSet(D)
    <3>1. DOMAIN rows \subseteq DOMAIN d
      OBVIOUS
    <3> HIDE DEF d
    <3> QED BY <2>1, <3>1, ImageFinite
  <2>3. \A S \in D : IsFiniteSet(S)
    BY DEF Rows
  <2>4. UNION {DOMAIN rows[i] : i \in DOMAIN rows} = UNION D
    OBVIOUS
  <2> HIDE DEF D
  <2>5. IsFiniteSet(UNION D)
    BY <2>2, <2>3, FS_UNION
  <2> QED BY <2>4, <2>5, FS_Subset
<1>2. columns = Up!SetToSeq({f[n] : n \in names})
  <2>1. {f[n] : n \in names}
          = {[name |-> n, type |-> Up!InferUploadColumnType(Values(rows, n))] : n \in names}
    OBVIOUS
  <2> HIDE DEF f
  <2> QED BY <2>1 DEF Up!InferUploadColumns, Values
<1>3. IsFiniteSet({f[n] : n \in names})
  <2>1. names \subseteq DOMAIN f
    OBVIOUS
  <2> HIDE DEF f, names
  <2> QED BY <1>1, <2>1, ImageFinite
<1>4. Up!IsASeq(columns) /\ Up!ToSet(columns) = {f[n] : n \in names}
  <2> HIDE DEF f, names, columns
  <2> QED BY <1>2, <1>3, Listed
<1>5. \A n \in names : f[n].name = n /\ f[n].type = Up!InferUploadColumnType(Values(rows, n))
  OBVIOUS
<1> HIDE DEF f, columns
<1>6. Up!Names(columns) = names
  <2>1. \A x : x \in Up!Names(columns) <=> \E t \in Up!ToSet(columns) : t.name = x
    BY DEF Up!Names, Up!ToSet
  <2> HIDE DEF names
  <2>2. \A x : x \in Up!Names(columns) => x \in names
    BY <1>4, <1>5, <2>1
  <2>3. \A x \in names : x \in Up!Names(columns)
    BY <1>4, <1>5, <2>1
  <2>4. Up!Names(columns) \subseteq names /\ names \subseteq Up!Names(columns)
    BY <2>2, <2>3
  <2> QED BY <2>4
<1>7. Up!Unique(Up!ToSet(columns))
  BY <1>4, <1>5 DEF Up!Unique
<1>8. \A t \in Up!ToSet(columns) : t.type = Up!InferUploadColumnType(Values(rows, t.name))
  BY <1>4, <1>5
<1> QED BY <1>4, <1>6, <1>7, <1>8 DEF columns

\* What a request has read.
LEMMA FileRowsAre ==
    ASSUME Up!UploadAssumption, UploadsOK, NEW c \in Clients, Up!Readable(scenario.files[c])
    PROVE  /\ NoneIsNoValue /\ Up!FileOK(scenario.files[c])
           /\ Rows(FileRows(c)) /\ DOMAIN FileRows(c) = DOMAIN scenario.files[c].rows
BY RowsAreRead DEF Up!UploadAssumption, NoneIsNoValue, UploadsOK, FileRows

LEMMA CellIs ==
    ASSUME NEW rows, Rows(rows), NEW i \in DOMAIN rows, NEW name, NoneIsNoValue
    PROVE  Up!Cell(rows[i], name) \in Values(rows, name) /\ 
           Up!Cell(rows[i], name) \notin {Up!Refused, Up!Blank}
  BY DEF Rows, Values, Up!Cell, NoneIsNoValue

\* A written line means what it should.
LEMMA LinesMean ==
    ASSUME Up!UploadAssumption, UploadsOK, NEW c \in Clients, upload[c].at = "insert",
           Up!RefusedIn(upload[c]) = {}, NEW i \in Up!Batch(upload[c])
    PROVE  LineMeans(c, i, Up!LineOf(upload[c], i))
<1> DEFINE u == upload[c]
           line == Up!LineOf(u, i)
<1>1. /\ Up!IsASeq(u.columns) /\ u.rows = FileRows(c) /\ i \in DOMAIN FileRows(c)
      /\ Up!Readable(scenario.files[c])
      /\ Inferred(c) => u.columns = Up!InferUploadColumns(FileRows(c))
      /\ ~scenario.ask[c].create => table.there /\ Up!ToSet(u.columns) \subseteq table.columns
  BY DEF UploadsOK, RequestTypes, Computed, Up!Batch
<1>2. NoneIsNoValue /\ Rows(FileRows(c))
  BY <1>1, FileRowsAre
<1>3. /\ DOMAIN line = Up!Names(u.columns)
      /\ \A name \in DOMAIN line : \E t \in Up!ToSet(u.columns) :
            /\ t.name = name
            /\ line[name] = Up!CoerceUploadValueForType(Up!Cell(FileRows(c)[i], name), t.type.base)
  BY <1>1, LineIs DEF Up!LineOf
<1>4. \A name \in DOMAIN line : line[name] # Up!Refused
  <2> SUFFICES ASSUME NEW name \in DOMAIN line, line[name] = Up!Refused PROVE FALSE
    OBVIOUS
  <2>1. Up!Cell(u.rows[i], name) \in Up!RefusedIn(u)
    BY <1>3 DEF Up!RefusedIn
  <2> QED BY <2>1
<1> HIDE DEF line
<1>5. CASE Inferred(c)
  BY <1>1, <1>2, <1>5, ColumnsAre, <1>3, <1>4 DEF TypeOfColumn, Values, Inferred, LineMeans, line
<1>6. CASE ~Inferred(c)
  BY <1>1, <1>3, <1>4, <1>6 DEF LineMeans, line
<1> QED BY <1>5, <1>6

----------------------------------------------------------------------------
(* What the meaning of the batches says of the table. *)

LEMMA CellsAreKept == ASSUME Up!UploadAssumption, UploadsOK PROVE Up!CellsKept
<1> SUFFICES ASSUME NEW k \in DOMAIN table.batches, NEW i \in DOMAIN table.batches[k].lines
             PROVE  LET b == table.batches[k]
                        file == scenario.files[b.by]
                        raw == file.rows[i]
                        keeps(name, v) ==
                           /\ name \in DOMAIN b.lines[i] /\ upload[b.by].inferred
                           /\ scenario.ask[b.by].create
                              \/ [name |-> name, type |-> Up!Text] \in table.columns
                           => Becomes(v, b.lines[i][name]) IN
                    IF file.format = "csv"
                    THEN \A j \in DOMAIN raw.cells \cap DOMAIN file.header :
                            Up!HeaderOK(file.header) \/ Up!LastOfName(file, j) =>
                               keeps(Up!HeaderOf(file, j), raw.cells[j])
                    ELSE Up!IsObject(raw) =>
                            \A name \in DOMAIN raw.object : keeps(name, raw.object[name])
  BY DEF Up!CellsKept, Becomes
<1> DEFINE b == table.batches[k]
           c == b.by
           line == b.lines[i]
<1>1. /\ c \in Clients /\ i \in DOMAIN FileRows(c) /\ LineMeans(c, i, line)
      /\ Up!Readable(scenario.files[c])
  BY DEF UploadsOK, BatchMeans, Computed
<1>2. NoneIsNoValue /\ Up!FileOK(scenario.files[c]) /\ Rows(FileRows(c))
  BY <1>1, FileRowsAre
<1> HIDE DEF c, line
<1>3. ASSUME NEW name \in DOMAIN line, upload[c].inferred,
             scenario.ask[c].create \/ [name |-> name, type |-> Up!Text] \in table.columns
      PROVE  LET w == Up!Cell(FileRows(c)[i], name) IN
             Becomes(w, line[name])
  <2> DEFINE w == Up!Cell(FileRows(c)[i], name)
  <2>1. w \in Values(FileRows(c), name) /\ w \notin {Up!Refused, Up!Blank}
    BY <1>1, <1>2, CellIs
  <2> HIDE DEF w
  <2>2. CASE scenario.ask[c].create
    <3>1. /\ line[name] # Up!Refused
          /\ line[name] = Up!CoerceUploadValueForType(w, TypeOfColumn(c, name).base)
      BY <1>1, <1>3, <2>2 DEF Inferred, LineMeans, w
    <3>2. TypeOfColumn(c, name) = Up!InferUploadColumnType(Values(FileRows(c), name))
      BY DEF TypeOfColumn, Values
    <3> QED BY <1>2, <2>1, <3>1, <3>2, Fits DEF w
  <2>3. CASE ~scenario.ask[c].create
    <3>1. PICK t \in table.columns :
             t.name = name /\ line[name] = Up!CoerceUploadValueForType(w, t.type.base)
      BY <1>1, <1>3, <2>3 DEF LineMeans, w
    <3>2. t = [name |-> name, type |-> Up!Text]
      BY <1>3, <2>3, <3>1 DEF UploadsOK, TableTypes, Up!Unique
    <3>3. t.type.base = "String"
      BY <3>2 DEF Up!Text
    <3> QED BY <2>1, <3>1, <3>3 DEF Up!CoerceUploadValueForType, Up!NormalizeUploadValue, w,
               Becomes, Up!Changed
  <2> QED BY <2>2, <2>3
<1>4. IF scenario.files[c].format = "csv"
      THEN \A j \in DOMAIN scenario.files[c].rows[i].cells \cap DOMAIN scenario.files[c].header :
                 Up!HeaderOK(scenario.files[c].header) \/ Up!LastOfName(scenario.files[c], j) =>
                    Up!Cell(FileRows(c)[i], Up!HeaderOf(scenario.files[c], j))
                       = Up!NormalizeUploadValue(scenario.files[c].rows[i].cells[j])
      ELSE Up!IsObject(scenario.files[c].rows[i]) =>
                 \A name \in DOMAIN scenario.files[c].rows[i].object :
                    Up!Cell(FileRows(c)[i], name)
                       = Up!NormalizeUploadValue(Up!AsFloat(scenario.files[c].rows[i].object[name]))
  BY <1>1, <1>2, RowsAreRead DEF FileRows
<1>5. ASSUME NEW v, NEW w, NEW x, Becomes(w, x),
             w \in {Up!NormalizeUploadValue(v), Up!NormalizeUploadValue(Up!AsFloat(v))}
      PROVE  Becomes(v, x)
  <2>1. w = v \/ w \in {None, "words", "#2^53"}
    BY <1>5 DEF Up!NormalizeUploadValue, Up!AsFloat
  <2>2. Becomes(v, w)
    BY <1>5 DEF Up!NormalizeUploadValue, Up!AsFloat, Becomes, Up!Changed, Up!Blank
  <2>3. w \in {None, "words", "#2^53"} => x = w
    BY <1>2, <1>5 DEF Becomes, Up!Changed, NoneIsNoValue, Up!Blank
  <2> QED BY <1>5, <2>1, <2>2, <2>3
<1> DEFINE file == scenario.files[c]
           raw == file.rows[i]
           Keeps(name, v) ==
              /\ name \in DOMAIN line /\ upload[c].inferred
              /\ scenario.ask[c].create \/ [name |-> name, type |-> Up!Text] \in table.columns
              => Becomes(v, line[name])
<1>6. ASSUME NEW name, NEW v,
             Up!Cell(FileRows(c)[i], name)
                \in {Up!NormalizeUploadValue(v), Up!NormalizeUploadValue(Up!AsFloat(v))}
      PROVE  Keeps(name, v)
  BY <1>3, <1>5, <1>6
<1> HIDE DEF Keeps
<1>7. IF file.format = "csv"
      THEN \A j \in DOMAIN raw.cells \cap DOMAIN file.header :
              Up!HeaderOK(file.header) \/ Up!LastOfName(file, j) =>
                 Keeps(Up!HeaderOf(file, j), raw.cells[j])
      ELSE Up!IsObject(raw) =>
              \A name \in DOMAIN raw.object : Keeps(name, raw.object[name])
  BY <1>4, <1>6
<1> QED BY <1>7 DEF c, line, Keeps

LEMMA NullsAreDeclared == ASSUME Up!UploadAssumption, UploadsOK PROVE Up!NullsDeclared
<1> SUFFICES ASSUME NEW k \in DOMAIN table.batches,
                    Inferred(table.batches[k].by),
                    NEW i \in DOMAIN table.batches[k].lines,
                    NEW j \in DOMAIN upload[table.batches[k].by].columns,
                    table.batches[k].lines[i][upload[table.batches[k].by].columns[j].name] = None
             PROVE  upload[table.batches[k].by].columns[j].type.nullable
  BY DEF Up!NullsDeclared, Inferred
<1> DEFINE b == table.batches[k]
           c == b.by
           t == upload[c].columns[j]
           rows == FileRows(c)
           v == Up!Cell(rows[i], t.name)
<1>1. /\ c \in Clients /\ i \in DOMAIN rows /\ LineMeans(c, i, b.lines[i])
      /\ Up!Readable(scenario.files[c]) /\ upload[c].columns = Up!InferUploadColumns(rows)
  BY DEF UploadsOK, BatchMeans, Computed
<1>2. NoneIsNoValue /\ Rows(rows)
  BY <1>1, FileRowsAre
<1> HIDE DEF rows
<1>3. /\ t.type = Up!InferUploadColumnType(Values(rows, t.name))
      /\ t.name \in Up!Names(upload[c].columns)
      /\ Up!Names(upload[c].columns) = UNION {DOMAIN rows[m] : m \in DOMAIN rows} \ {<<>>}
  <2>1. t \in Up!ToSet(upload[c].columns)
    BY DEF Up!ToSet
  <2>2. t.name \in Up!Names(upload[c].columns)
    BY DEF Up!Names
  <2> HIDE DEF t
  <2> QED BY <1>1, <1>2, <2>1, <2>2, ColumnsAre
<1>4. TypeOfColumn(c, t.name) = t.type
  BY <1>3 DEF TypeOfColumn, Values, rows
<1>5. None = Up!CoerceUploadValueForType(v, t.type.base)
  <2>1. t.name \in DOMAIN b.lines[i]
    BY <1>1, <1>3 DEF LineMeans, rows
  <2>2. b.lines[i][t.name] = Up!CoerceUploadValueForType(v, TypeOfColumn(c, t.name).base)
    BY <1>1, <2>1 DEF LineMeans, rows
  <2> QED BY <1>4, <2>2
<1>6. v \in Values(rows, t.name) /\ v \notin {Up!Refused, Up!Blank}
  BY <1>1, <1>2, CellIs
<1> HIDE DEF v
<1> QED BY <1>2, <1>3, <1>5, <1>6, Fits

----------------------------------------------------------------------------
(* The steps. *)

\* What a step of client c leaves alone.
TableMoves(c) ==
    /\ TableTypes'
    /\ table.there => table'.there /\ table'.columns = table.columns
    /\ \A k \in DOMAIN table.batches :
          k \in DOMAIN table'.batches /\ table'.batches[k] = table.batches[k]
    /\ \A k \in DOMAIN table'.batches \ DOMAIN table.batches : table'.batches[k].by = c

RequestMoves(c) ==
    /\ scenario' = scenario
    /\ DOMAIN upload' = Clients /\ \A d \in Clients \ {c} : upload'[d] = upload[d]
    /\ upload'[c].try >= upload[c].try
    /\ upload[c].rows # <<>> =>
          upload'[c].rows # <<>> /\ upload'[c].inferred = upload[c].inferred

LastFits(c) == Inferred(c) /\ upload[c].last # None => upload[c].last \subseteq {"t", "NaN"}

LEMMA Frame ==
    ASSUME UploadsOK, NEW c \in Clients, TableMoves(c), RequestMoves(c),
           RequestTypes(c)', Computed(c)', Arrived(c)', LastFits(c)',
           \A k \in DOMAIN table'.batches \ DOMAIN table.batches : BatchMeans(table.batches[k])'
    PROVE  UploadsOK'
<1>1. ASSUME NEW d \in Clients \ {c}
      PROVE  RequestTypes(d)' /\ Computed(d)' /\ Arrived(d)' /\ LastFits(d)'
  <2>1. upload'[d] = upload[d] /\ scenario' = scenario /\ RequestTypes(d) /\ Computed(d)
        /\ Arrived(d) /\ LastFits(d)
    BY DEF RequestMoves, UploadsOK, Up!TypesFit, LastFits, Inferred
  <2>2. RequestTypes(d)' /\ LastFits(d)'
    BY <2>1 DEF RequestTypes, LastFits, Inferred
  <2>3. FileRows(d)' = FileRows(d) /\ Up!Sent(d)' = Up!Sent(d)
        /\ Up!Written(upload[d])' = Up!Written(upload[d])
    BY <2>1 DEF FileRows, Up!Sent, Up!Written, Up!Batch, Up!LineOf
  <2>4. Computed(d)'
    BY <2>1, <2>3 DEF Computed, Inferred, TableMoves
  <2>5. Up!Mine(d)' = Up!Mine(d)
        /\ \A k \in Up!Mine(d) : BatchRows(k)' = BatchRows(k)
    BY <2>1 DEF Up!Mine, TableMoves, BatchRows
  <2>6. {BatchRows(k)' : k \in Up!Mine(d)'} = {BatchRows(k) : k \in Up!Mine(d)}
    BY <2>5
  <2>7. Arrived(d)'
    BY <2>1, <2>3, <2>5, <2>6 DEF Arrived
  <2> QED BY <2>2, <2>4, <2>7
<1>2. ASSUME NEW k \in DOMAIN table.batches
      PROVE  BatchMeans(table.batches[k])'
  <2> DEFINE b == table.batches[k]
             d == b.by
  <2>1. BatchMeans(b) /\ table'.batches[k] = b /\ scenario' = scenario
    BY DEF UploadsOK, TableMoves, RequestMoves
  <2>2. /\ d \in Clients /\ upload'[d].try >= upload[d].try /\ upload'[d].rows # <<>>
        /\ upload'[d].inferred = upload[d].inferred
        /\ b.try \in 1 .. upload'[d].try
    <3>1. d \in Clients /\ b.try \in 1 .. upload[d].try /\ upload[d].rows # <<>>
          /\ upload[d].try \in Nat /\ upload'[d].try \in Nat
      BY <1>1, <2>1 DEF BatchMeans, UploadsOK, RequestTypes
    <3> QED BY <3>1 DEF RequestMoves
  <2>3. \A e, name : FileRows(e)' = FileRows(e) /\ TypeOfColumn(e, name)' = TypeOfColumn(e, name)
    BY <2>1 DEF FileRows, TypeOfColumn
  <2>4. table.there
    BY DEF UploadsOK, TableTypes
  <2> HIDE DEF b, d
  <2>5. ASSUME NEW i \in DOMAIN b.lines PROVE LineMeans(d, i, b.lines[i])'
    <3>1. LineMeans(d, i, b.lines[i])
      BY <2>1 DEF BatchMeans, d
    <3>2. table'.columns = table.columns
      BY <2>4 DEF TableMoves
    <3>3. b' = b /\ d' = d
      BY <2>1 DEF b, d
    <3>4. Inferred(d)' = Inferred(d)
      BY <2>1, <2>2, <3>3 DEF Inferred
    <3> QED BY <2>1, <2>3, <3>1, <3>2, <3>3, <3>4 DEF LineMeans
  <2> QED BY <2>1, <2>2, <2>3, <2>5 DEF BatchMeans, b, d
<1>3. \A k \in DOMAIN table'.batches : BatchMeans(table.batches[k])'
  BY <1>2
<1>4. \A d \in Clients : RequestTypes(d)' /\ Computed(d)' /\ Arrived(d)' /\ LastFits(d)'
  BY <1>1
<1>5. Up!TypesFit'
  BY <1>4 DEF Up!TypesFit, LastFits, Inferred
<1>6. scenario' \in Scenarios
  BY DEF UploadsOK, RequestMoves
<1> QED
  BY <1>3, <1>4, <1>5, <1>6 DEF UploadsOK, TableMoves, RequestMoves

\* A request that has inserted nothing.
LEMMA NothingSent ==
    ASSUME NEW c \in Clients, upload[c].start = 0
    PROVE  Up!Sent(c) = {} /\ Cardinality(Up!Sent(c)) = 0
BY FS_EmptySet DEF Up!Sent

LEMMA NoneArrived ==
    ASSUME NEW c \in Clients, upload[c].start = 0, upload[c].inserted = 0, Up!Mine(c) = {}
    PROVE  Arrived(c)
BY NothingSent, CardinalitySame DEF Arrived

LEMMA NoneArrivesNext ==
    ASSUME NEW c \in Clients, upload'[c].start = 0, upload'[c].inserted = 0, Up!Mine(c)' = {}
    PROVE  Arrived(c)'
BY CardinalitySame, FS_EmptySet DEF Up!Sent, Arrived

LEMMA UploadInit == ASSUME Up!UploadAssumption, Up!Init PROVE UploadsOK
<1>1. /\ scenario \in Scenarios /\ table.batches = <<>> /\ table = scenario.table
      /\ DOMAIN table = {"there", "columns", "batches"} /\ Up!Unique(table.columns)
      /\ Up!IsASeq(scenario.form)
  BY DEF Up!Init, Up!UploadAssumption
<1>2. DOMAIN table.batches = {} /\ Up!IsASeq(<<>>)
  BY <1>1 DEF Up!IsASeq, Up!ToSet
<1>3. TableTypes
  BY <1>1, <1>2 DEF TableTypes
<1>4. DOMAIN upload = Clients
  BY DEF Up!Init
<1>5. ASSUME NEW c \in Clients
      PROVE  RequestTypes(c) /\ Computed(c) /\ Arrived(c) /\ LastFits(c)
  BY <1>1, <1>2, NoneArrived DEF Up!Init, Up!New, Fields, Computed, LastFits, Inferred,
     RequestTypes, Up!Mine
<1>6. Up!TypesFit
  BY <1>5 DEF Up!TypesFit, LastFits, Inferred
<1> QED BY <1>1, <1>2, <1>3, <1>4, <1>5, <1>6 DEF UploadsOK

LEMMA TableStays ==
    ASSUME UploadsOK, table' = table, NEW c \in Clients
    PROVE  TableMoves(c) /\ DOMAIN table'.batches \ DOMAIN table.batches = {}
  BY DEF UploadsOK, TableTypes, TableMoves

LEMMA DiscoverStep ==
    ASSUME Up!UploadAssumption, UploadsOK, NEW c \in Clients, Up!DiscoverUploadSchema(c)
    PROVE  UploadsOK'
<1>1. /\ upload[c].at = "idle" /\ upload[c].rows = <<>> /\ upload[c].last = None
      /\ upload[c].start = 0 /\ upload[c].inserted = 0
      /\ table' = table /\ scenario' = scenario /\ Up!Readable(scenario.files[c])
      /\ RequestTypes(c) /\ DOMAIN upload = Clients
  BY DEF Up!DiscoverUploadSchema, UploadsOK, Computed
<1>2. /\ upload' = [upload EXCEPT ![c] = upload'[c]]
      /\ upload'[c] = [upload[c] EXCEPT !.form = Up!InferUploadColumns(FileRows(c)), !.inferred = TRUE]
  BY <1>1 DEF Up!DiscoverUploadSchema, Up!Rows, FileRows
<1>3. Up!IsASeq(Up!InferUploadColumns(FileRows(c)))
  BY <1>1, FileRowsAre, ColumnsAre
<1>4. RequestTypes(c)' /\ FileRows(c)' = FileRows(c)
  BY <1>1, <1>2, <1>3 DEF RequestTypes, Fields, FileRows
<1>5. /\ upload'[c].at = "idle" /\ upload'[c].rows = <<>> /\ upload'[c].last = None
      /\ upload'[c].start = 0 /\ upload'[c].inserted = 0 /\ upload'[c].try = upload[c].try
      /\ upload'[c].form = Up!InferUploadColumns(FileRows(c))
  BY <1>1, <1>2 DEF RequestTypes, Fields
<1>6. RequestMoves(c) /\ LastFits(c)' /\ Computed(c)'
  BY <1>1, <1>2, <1>4, <1>5 DEF RequestMoves, LastFits, Computed, RequestTypes, UploadsOK
<1>7. Up!Mine(c)' = {}
  BY <1>1, <1>5 DEF Up!Mine, UploadsOK, Arrived
<1>8. Arrived(c)'
  BY <1>5, <1>7, NoneArrivesNext
<1> QED BY <1>1, <1>4, <1>6, <1>8, TableStays, Frame

LEMMA IngestStep ==
    ASSUME Up!UploadAssumption, UploadsOK, NEW c \in Clients, Up!IngestUpload(c)
    PROVE  UploadsOK'
<1> DEFINE u == upload[c]
           v == upload'[c]
           columns == IF u.form # <<>> THEN u.form ELSE Up!InferUploadColumns(FileRows(c))
<1>1. /\ u.at \in {"idle", "failed"} /\ table' = table /\ scenario' = scenario
      /\ RequestTypes(c) /\ Computed(c) /\ DOMAIN upload = Clients
  BY DEF Up!IngestUpload, UploadsOK
<1>2. /\ upload' = [upload EXCEPT ![c] = v]
      /\ \/ /\ Up!Readable(scenario.files[c]) /\ FileRows(c) # <<>>
            /\ v = [u EXCEPT !.try = u.try + 1, !.start = 0, !.inserted = 0, !.last = None,
                             !.at = IF scenario.ask[c].create THEN "create" ELSE "describe",
                             !.rows = FileRows(c), !.columns = columns,
                             !.inferred = u.inferred \/ u.form = <<>>]
         \/ v = [u EXCEPT !.try = u.try + 1, !.start = 0, !.inserted = 0, !.last = None,
                          !.at = "failed"]
  BY <1>1 DEF Up!IngestUpload, Up!Rows, FileRows, RequestTypes, Fields
<1> HIDE DEF v
<1>3. DOMAIN upload' = Clients /\ \A d \in Clients \ {c} : upload'[d] = upload[d]
  BY <1>1, <1>2
<1>4. /\ DOMAIN v = Fields /\ v.try = u.try + 1 /\ v.start = 0 /\ v.inserted = 0 /\ v.last = None
      /\ v.form = u.form /\ u.try \in Nat /\ FileRows(c)' = FileRows(c)
  BY <1>1, <1>2 DEF RequestTypes, Fields, FileRows
<1>5. Up!Mine(c)' = {}
  BY <1>1, <1>4 DEF UploadsOK, BatchMeans, Up!Mine, v
<1>6. Arrived(c)' /\ LastFits(c)'
  BY <1>4, <1>5, NoneArrivesNext DEF LastFits, v
<1>7. CASE /\ Up!Readable(scenario.files[c]) /\ FileRows(c) # <<>>
           /\ v.at = (IF scenario.ask[c].create THEN "create" ELSE "describe")
           /\ v.rows = FileRows(c) /\ v.columns = columns
           /\ v.inferred = (u.inferred \/ u.form = <<>>)
  <2>1. Up!IsASeq(columns)
    BY <1>1, <1>7, FileRowsAre, ColumnsAre DEF RequestTypes
  <2>2. RequestTypes(c)'
    BY <1>1, <1>4, <1>7, <2>1 DEF RequestTypes, v
  <2>3. u.inferred => columns = Up!InferUploadColumns(FileRows(c))
    BY <1>1 DEF Computed
  <2>4. v.inferred => columns = Up!InferUploadColumns(FileRows(c))
    BY <1>7, <2>3
  <2>5. Computed(c)'
    <3>1. /\ v.at \in {"create", "describe"} /\ scenario' = scenario
          /\ v.at = "create" => scenario.ask[c].create
          /\ v.at = "describe" => ~scenario.ask[c].create
      BY <1>1, <1>7
    <3>2. v.inferred => v.form \in {<<>>, Up!InferUploadColumns(FileRows(c))}
      BY <1>1, <1>4, <1>7 DEF Computed
    <3>3. v.rows # <<>> /\ v.form = <<>> => v.inferred
      BY <1>4, <1>7
    <3>4. v.try # 0
      BY <1>4
    <3> HIDE DEF columns
    <3> QED BY <1>4, <1>7, <2>4, <3>1, <3>2, <3>3, <3>4 DEF Computed, Inferred, v
  <2>6. u.rows # <<>> => v.inferred = u.inferred
    BY <1>1, <1>7 DEF Computed, RequestTypes
  <2>7. RequestMoves(c)
    BY <1>1, <1>3, <1>4, <1>7, <2>6 DEF RequestMoves, v
  <2> QED BY <1>1, <1>6, <2>2, <2>5, <2>7, TableStays, Frame
<1>8. CASE /\ v.at = "failed" /\ v.rows = u.rows /\ v.columns = u.columns
           /\ v.inferred = u.inferred
  BY <1>1, <1>4, <1>8, <1>3, <1>6, TableStays, Frame DEF RequestTypes, v, Computed, Inferred,
     RequestMoves
<1>9. \/ /\ Up!Readable(scenario.files[c]) /\ FileRows(c) # <<>>
         /\ v.at = (IF scenario.ask[c].create THEN "create" ELSE "describe")
         /\ v.rows = FileRows(c) /\ v.columns = columns
         /\ v.inferred = (u.inferred \/ u.form = <<>>)
      \/ /\ v.at = "failed" /\ v.rows = u.rows /\ v.columns = u.columns
         /\ v.inferred = u.inferred
  <2> HIDE DEF columns
  <2> QED BY <1>1, <1>2 DEF RequestTypes, Fields
<1> QED BY <1>7, <1>8, <1>9

\* A step that ends or moves on a request, whose batches stay.
LEMMA AnswerStep ==
    ASSUME UploadsOK, NEW c \in Clients, NEW what \in {"insert", "done", "failed"},
           Up!Answer(c, what), TableMoves(c), table'.batches = table.batches,
           scenario' = scenario, upload[c].at # "idle", upload[c].at # "failed",
           what = "insert" => upload[c].at = "create"
    PROVE  UploadsOK'
<1>1. /\ RequestTypes(c) /\ Computed(c) /\ Arrived(c) /\ LastFits(c) /\ DOMAIN upload = Clients
  BY DEF UploadsOK, Up!TypesFit, LastFits, Inferred
<1>2. /\ upload' = [upload EXCEPT ![c] = upload'[c]] /\ upload'[c] = [upload[c] EXCEPT !.at = what]
  BY <1>1 DEF Up!Answer
<1>3. /\ DOMAIN upload' = Clients /\ \A d \in Clients \ {c} : upload'[d] = upload[d]
      /\ DOMAIN upload'[c] = Fields /\ upload'[c].at = what
      /\ \A f \in Fields \ {"at"} : upload'[c][f] = upload[c][f]
  BY <1>1, <1>2 DEF RequestTypes
<1>4. /\ upload'[c].form = upload[c].form /\ upload'[c].rows = upload[c].rows
      /\ upload'[c].columns = upload[c].columns /\ upload'[c].inferred = upload[c].inferred
      /\ upload'[c].start = upload[c].start /\ upload'[c].inserted = upload[c].inserted
      /\ upload'[c].try = upload[c].try /\ upload'[c].last = upload[c].last
  BY <1>3 DEF Fields
<1>5. RequestTypes(c)' /\ LastFits(c)' /\ FileRows(c)' = FileRows(c)
  BY <1>1, <1>3, <1>4 DEF RequestTypes, LastFits, Inferred, FileRows
<1>6. Computed(c)'
  BY <1>1, <1>3, <1>4, <1>5 DEF Computed, Inferred, TableMoves, RequestTypes
<1>7. Up!Mine(c)' = Up!Mine(c) /\ Up!Sent(c)' = Up!Sent(c)
      /\ Up!Written(upload[c])' = Up!Written(upload[c])
  BY <1>3, <1>4 DEF Up!Mine, Up!Sent, Up!Written, Up!Batch, Up!LineOf
<1>8. \A k : BatchRows(k)' = BatchRows(k)
  BY DEF BatchRows
<1>9. {BatchRows(k)' : k \in Up!Mine(c)'} = {BatchRows(k) : k \in Up!Mine(c)}
  BY <1>7, <1>8
<1>10. Arrived(c)'
  BY <1>1, NothingSent, <1>3, <1>4, <1>7, <1>8, <1>9 DEF Computed, Arrived, RequestTypes
<1>11. RequestMoves(c) /\ DOMAIN table'.batches \ DOMAIN table.batches = {}
  BY <1>1, <1>3, <1>4 DEF RequestMoves, RequestTypes
<1> QED BY <1>5, <1>6, <1>10, <1>11, Frame

\* A table that is created has a column of each name, as the columns asked for have.
LEMMA CreatedIs ==
    ASSUME UploadsOK, NEW columns, Up!IsASeq(columns), NEW ifNotExists,
           Up!CanCreate(table, columns, ifNotExists), NEW c \in Clients,
           table' = Up!Created(table, columns)
    PROVE  TableMoves(c) /\ table'.batches = table.batches
<1>1. TableTypes
  BY DEF UploadsOK
<1>2. CASE table.there
  BY <1>1, <1>2 DEF Up!Created, TableMoves, TableTypes
<1>3. CASE ~table.there
  <2>1. /\ table' = [table EXCEPT !.there = TRUE, !.columns = Up!ToSet(columns)]
        /\ table.batches = <<>>
    BY <1>1, <1>3 DEF Up!Created, TableTypes
  <2>2. /\ DOMAIN table' = {"there", "columns", "batches"} /\ table'.there = TRUE
        /\ table'.columns = Up!ToSet(columns) /\ table'.batches = <<>>
    BY <1>1, <2>1 DEF TableTypes
  <2>3. Up!Unique(Up!ToSet(columns))
    <3> DEFINE n == Len(columns)
               f == [i \in 1 .. n |-> columns[i].name]
               N == Up!Names(columns)
    <3>1. n \in Nat /\ DOMAIN columns = 1 .. n
          /\ \A x : x \in Up!ToSet(columns) <=> \E i \in DOMAIN columns : x = columns[i]
      BY SeqIs
    <3>2. f \in Surjection(1 .. n, N)
      BY <3>1 DEF Surjection, Up!Names
    <3>3. Cardinality(N) = n
      BY CardinalitySame DEF Up!CanCreate
    <3>4. IsFiniteSet(1 .. n) /\ Cardinality(1 .. n) = n
      <4> HIDE DEF n
      <4>1. 1 \in Int /\ n \in Int /\ n \in Nat
        BY <3>1
      <4> QED BY <4>1, FS_Interval
    <3> HIDE DEF f
    <3> HIDE DEF N
    <3>5. f \in Injection(1 .. n, N)
      BY <3>2, <3>3, <3>4, FS_Surjection
    <3>6. \A i, j \in 1 .. n : f[i] = f[j] => i = j
      BY <3>5 DEF Injection, IsInjective
    <3>7. \A i, j \in 1 .. n : columns[i].name = columns[j].name => i = j
      BY <3>6 DEF f
    <3> QED BY <3>1, <3>7 DEF Up!Unique
  <2>4. Up!IsASeq(table'.batches) /\ DOMAIN <<>> = {}
    BY <2>2 DEF Up!IsASeq, Up!ToSet
  <2> QED BY <1>3, <2>1, <2>2, <2>3, <2>4 DEF TableMoves, TableTypes
<1> QED BY <1>2, <1>3

LEMMA CreateStep ==
    ASSUME UploadsOK, NEW c \in Clients, Up!BuildCreateTableSQL(c)
    PROVE  UploadsOK'
<1> DEFINE columns == upload[c].columns
           Can == Up!CanCreate(table, columns, scenario.ask[c].ifNotExists)
<1>1. upload[c].at = "create" /\ scenario' = scenario /\ Up!IsASeq(columns)
  BY DEF Up!BuildCreateTableSQL, UploadsOK, RequestTypes
<1>2. \/ Can /\ table' = Up!Created(table, columns) /\ Up!Answer(c, "insert")
      \/ Can /\ table' = Up!Created(table, columns) /\ Up!Answer(c, "failed")
      \/ table' = table /\ Up!Answer(c, "failed")
  BY DEF Up!BuildCreateTableSQL
<1>3. TableMoves(c) /\ table'.batches = table.batches
  BY <1>1, <1>2, CreatedIs, TableStays
<1> QED BY <1>1, <1>2, <1>3, AnswerStep

LEMMA SucceedsStep ==
    ASSUME UploadsOK, NEW c \in Clients, Up!Succeeds(c)
    PROVE  UploadsOK'
  BY TableStays, AnswerStep DEF Up!Succeeds

LEMMA DescribeStep ==
    ASSUME UploadsOK, NEW c \in Clients, Up!DescribeTable(c)
    PROVE  UploadsOK'
<1> DEFINE u == upload[c]
           v == upload'[c]
           matched == {CHOOSE t \in Up!Matches(u.columns[i].name) : TRUE :
                         i \in {k \in DOMAIN u.columns : Up!Matches(u.columns[k].name) # {}}}
           columns == Up!ResolveInsertColumns(u.columns)
<1>1. /\ u.at = "describe" /\ table' = table /\ scenario' = scenario
      /\ RequestTypes(c) /\ Computed(c) /\ Arrived(c) /\ LastFits(c) /\ DOMAIN upload = Clients
  BY DEF Up!DescribeTable, UploadsOK, Up!TypesFit, LastFits, Inferred
<1>2. CASE Up!Answer(c, "failed")
  BY <1>1, <1>2, TableStays, AnswerStep
<1>3. CASE /\ table.there
           /\ upload' = [upload EXCEPT ![c] = [u EXCEPT !.at = "insert", !.columns = columns]]
  <2>1. matched \subseteq table.columns
    BY DEF Up!Matches
  <2>2. IsFiniteSet(matched)
    <3> DEFINE M == {k \in DOMAIN u.columns : Up!Matches(u.columns[k].name) # {}}
               f == [i \in M |-> CHOOSE t \in Up!Matches(u.columns[i].name) : TRUE]
    <3>1. Len(u.columns) \in Nat /\ DOMAIN u.columns = 1 .. Len(u.columns)
      BY <1>1, SeqIs DEF RequestTypes
    <3>2. M \in SUBSET Nat /\ \A i \in M : i <= Len(u.columns)
      BY <3>1
    <3>3. IsFiniteSet(M)
      <4> HIDE DEF M
      <4> QED BY <3>1, <3>2, FS_BoundedSetOfNaturals
    <3>4. matched = {f[i] : i \in M} /\ M \subseteq DOMAIN f
      OBVIOUS
    <3> HIDE DEF M, f, matched
    <3> QED BY <3>3, <3>4, ImageFinite
  <2>3. Up!IsASeq(columns) /\ Up!ToSet(columns) = matched
    <3>1. columns = Up!SetToSeq(matched)
      BY DEF Up!ResolveInsertColumns
    <3> HIDE DEF matched, columns
    <3> QED BY <2>2, <3>1, Listed
  <2> HIDE DEF matched, columns
  <2>4. /\ DOMAIN upload' = Clients /\ \A d \in Clients \ {c} : upload'[d] = upload[d]
        /\ DOMAIN v = Fields /\ v.at = "insert" /\ v.columns = columns /\ v.form = u.form
        /\ v.rows = u.rows /\ v.inferred = u.inferred /\ v.start = 0 /\ v.inserted = 0
        /\ v.try = u.try /\ v.last = u.last
    BY <1>1, <1>3 DEF RequestTypes, Computed, Fields
  <2> HIDE DEF v
  <2>5. RequestTypes(c)' /\ LastFits(c)' /\ FileRows(c)' = FileRows(c)
    BY <1>1, <2>3, <2>4 DEF RequestTypes, LastFits, Inferred, FileRows, v
  <2>6. Computed(c)'
    BY <1>1, <1>3, <2>1, <2>3, <2>4, <2>5 DEF Computed, Inferred, v
  <2>7. Up!Mine(c)' = {}
    BY <1>1, <2>4 DEF Up!Mine, Arrived, v
  <2>8. Arrived(c)' /\ RequestMoves(c)
    BY <1>1, <2>4, <2>7, NoneArrivesNext DEF RequestMoves, RequestTypes, v
  <2> QED BY <1>1, <2>5, <2>6, <2>8, TableStays, Frame
<1> QED BY <1>2, <1>3 DEF Up!DescribeTable

\* A type inferred from a file refuses t and NaN only.
LEMMA RefuseStep ==
    ASSUME Up!UploadAssumption, UploadsOK, NEW c \in Clients, Up!RefuseBatch(c)
    PROVE  UploadsOK'
<1> DEFINE u == upload[c]
           v == upload'[c]
<1>1. /\ u.at = "insert" /\ table' = table /\ scenario' = scenario
      /\ RequestTypes(c) /\ Computed(c) /\ Arrived(c) /\ DOMAIN upload = Clients
      /\ upload' = [upload EXCEPT ![c] = [u EXCEPT !.at = "failed", !.last = Up!RefusedIn(u)]]
  BY DEF Up!RefuseBatch, UploadsOK
<1>2. /\ DOMAIN upload' = Clients /\ \A d \in Clients \ {c} : upload'[d] = upload[d]
      /\ DOMAIN v = Fields /\ v.at = "failed" /\ v.columns = u.columns /\ v.form = u.form
      /\ v.rows = u.rows /\ v.inferred = u.inferred /\ v.start = u.start
      /\ v.inserted = u.inserted /\ v.try = u.try /\ v.last = Up!RefusedIn(u)
  BY <1>1 DEF RequestTypes, Fields
<1> HIDE DEF v
<1>3. RequestTypes(c)' /\ FileRows(c)' = FileRows(c)
  BY <1>1, <1>2 DEF RequestTypes, FileRows, v
<1>4. Computed(c)'
  BY <1>1, <1>2, <1>3 DEF Computed, Inferred, v
<1>5. Inferred(c) => Up!RefusedIn(u) \subseteq {"t", "NaN"}
  <2> SUFFICES ASSUME Inferred(c), NEW i \in Up!Batch(u), NEW n \in Up!Names(u.columns),
                      Up!LineOf(u, i)[n] = Up!Refused
               PROVE  Up!Cell(u.rows[i], n) \in {"t", "NaN"}
    BY DEF Up!RefusedIn
  <2> DEFINE w == Up!Cell(u.rows[i], n)
  <2>1. /\ Up!Readable(scenario.files[c]) /\ u.rows = FileRows(c) /\ i \in DOMAIN FileRows(c)
        /\ u.columns = Up!InferUploadColumns(FileRows(c)) /\ Up!IsASeq(u.columns)
    BY <1>1 DEF Computed, RequestTypes, Up!Batch
  <2>2. NoneIsNoValue /\ Rows(FileRows(c))
    BY <2>1, FileRowsAre
  <2>3. PICK t \in Up!ToSet(u.columns) :
           /\ t.name = n
           /\ Up!LineOf(u, i)[n] = Up!CoerceUploadValueForType(w, t.type.base)
    BY <2>1, LineIs DEF Up!LineOf
  <2>4. t.type = Up!InferUploadColumnType(Values(FileRows(c), n))
    BY <2>1, <2>2, <2>3, ColumnsAre
  <2>5. w \in Values(FileRows(c), n) /\ w \notin {Up!Refused, Up!Blank}
    BY <2>1, <2>2, CellIs
  <2> HIDE DEF w
  <2> QED BY <2>2, <2>3, <2>4, <2>5, Fits DEF w
<1>6. LastFits(c)'
  BY <1>1, <1>2, <1>5 DEF LastFits, Inferred, v
<1>7. Up!Mine(c)' = Up!Mine(c) /\ Up!Sent(c)' = Up!Sent(c)
  BY <1>1, <1>2 DEF Up!Mine, Up!Sent, Up!LineOf, v
<1>8. \A k : BatchRows(k)' = BatchRows(k)
  BY <1>1 DEF BatchRows
<1>9. {BatchRows(k)' : k \in Up!Mine(c)'} = {BatchRows(k) : k \in Up!Mine(c)}
  BY <1>7, <1>8
<1>10. Arrived(c)'
  BY <1>1, <1>2, <1>7, <1>8, <1>9 DEF Arrived, v
<1>11. RequestMoves(c)
  BY <1>1, <1>2 DEF RequestMoves, RequestTypes, v
<1> QED BY <1>1, <1>3, <1>4, <1>6, <1>10, <1>11, TableStays, Frame

\* The rows that count as sent, and those of the next batch.
LEMMA SentAndWritten ==
    ASSUME Up!UploadAssumption, UploadsOK, NEW c \in Clients
    PROVE  LET u == upload[c] IN
           /\ IsFiniteSet(Up!Sent(c)) /\ IsFiniteSet(Up!Written(u))
           /\ Up!Sent(c) \cap Up!Written(u) = {}
           /\ \A x \in Up!Sent(c), y \in Up!Written(u) : x < y
           /\ Up!Sent(c) \cup Up!Written(u)
                 = {i \in 1 .. (u.start + BatchSize) : i \in DOMAIN u.rows /\ Up!HasData(Up!LineOf(u, i))}
           /\ Cardinality(Up!Sent(c) \cup Up!Written(u))
                 = Cardinality(Up!Sent(c)) + Cardinality(Up!Written(u))
<1> DEFINE u == upload[c]
<1>1. u.start \in Nat /\ BatchSize \in Nat
  BY DEF UploadsOK, RequestTypes, Up!UploadAssumption
<1>2. \A i \in DOMAIN u.rows : i \in Nat \ {0}
  BY FileRowsAre DEF UploadsOK, Computed, Rows
<1> DEFINE S == Up!Sent(c)
           W == Up!Written(u)
<1>3. /\ \A x : x \in S <=> x \in 1 .. u.start /\ x \in DOMAIN u.rows /\ Up!HasData(Up!LineOf(u, x))
      /\ \A x : x \in W <=> /\ x \in DOMAIN u.rows /\ u.start < x /\ x <= u.start + BatchSize
                            /\ Up!HasData(Up!LineOf(u, x))
  BY DEF Up!Sent, Up!Written, Up!Batch
<1> HIDE DEF S, W
<1>4. /\ S \in SUBSET Nat /\ \A x \in S : x <= u.start
      /\ W \in SUBSET Nat /\ \A x \in W : x <= u.start + BatchSize
      /\ u.start + BatchSize \in Nat
      /\ \A x \in S, y \in W : x < y
  BY <1>1, <1>2, <1>3
<1>5. IsFiniteSet(S) /\ IsFiniteSet(W)
  BY <1>1, <1>4, FS_BoundedSetOfNaturals
<1>6. S \cap W = {}
  BY <1>4
<1>7. S \cup W = {i \in 1 .. (u.start + BatchSize) : i \in DOMAIN u.rows /\ Up!HasData(Up!LineOf(u, i))}
  BY <1>1, <1>2, <1>3
<1>8. Cardinality(S \cup W) = Cardinality(S) + Cardinality(W)
  <2>1. Cardinality(S \cup W) = Cardinality(S) + Cardinality(W) - Cardinality(S \cap W)
    BY <1>5, FS_Union
  <2>2. Cardinality(S \cap W) = 0 /\ Cardinality(S) \in Nat /\ Cardinality(W) \in Nat
    BY <1>5, <1>6, FS_EmptySet, FS_CardinalityType
  <2> QED BY <2>1, <2>2
<1> QED BY <1>4, <1>5, <1>6, <1>7, <1>8 DEF S, W

\* One more batch in the table.
LEMMA InsertedIs ==
    ASSUME Up!UploadAssumption, UploadsOK, NEW c \in Clients, upload[c].at = "insert",
           Up!RefusedIn(upload[c]) = {}, Up!Written(upload[c]) # {},
           Up!CanInsert(table, upload[c].columns), table' = Up!Inserted(c, upload[c]),
           RequestMoves(c), upload'[c].try = upload[c].try
    PROVE  /\ TableMoves(c)
           /\ \A k \in DOMAIN table'.batches \ DOMAIN table.batches : BatchMeans(table.batches[k])'
           /\ \A j, k \in Up!Mine(c)' : j < k => \A x \in BatchRows(j)', y \in BatchRows(k)' : x < y
           /\ UNION {BatchRows(k)' : k \in Up!Mine(c)'}
                 = Up!Sent(c) \cup Up!Written(upload[c])
<1> DEFINE u == upload[c]
<1>a. PICK W : W = Up!Written(u)
  OBVIOUS
<1>b. PICK b : b = [by |-> c, try |-> u.try, lines |-> [i \in W |-> Up!LineOf(u, i)]]
  OBVIOUS
<1>c. PICK n : n = Len(table.batches)
  OBVIOUS
<1>1. /\ TableTypes /\ table.there /\ RequestTypes(c) /\ Computed(c) /\ Arrived(c)
  BY DEF UploadsOK, Up!CanInsert
<1>2. /\ n \in Nat /\ DOMAIN table.batches = 1 .. n
      /\ table.batches \in Seq(Up!ToSet(table.batches) \cup {b})
  BY <1>1, <1>c DEF TableTypes, Up!IsASeq
<1>3. b.by = c /\ b.try = u.try /\ DOMAIN b.lines = W
      /\ \A i \in W : b.lines[i] = Up!LineOf(u, i)
  BY <1>b
<1>4. table' = [table EXCEPT !.batches = Append(table.batches, b)]
  BY <1>a, <1>b DEF Up!Inserted
<1>5. /\ DOMAIN table' = {"there", "columns", "batches"} /\ table'.there = table.there
      /\ table'.columns = table.columns /\ table'.batches = Append(table.batches, b)
  BY <1>1, <1>4 DEF TableTypes
<1>6. /\ DOMAIN table'.batches = 1 .. (n + 1) /\ table'.batches[n + 1] = b
      /\ \A k \in 1 .. n : table'.batches[k] = table.batches[k]
      /\ table'.batches \in Seq(Up!ToSet(table.batches) \cup {b})
      /\ Len(table'.batches) = n + 1
  BY <1>2, <1>5, <1>c
<1>7. Up!IsASeq(table'.batches)
  BY <1>6 DEF Up!ToSet, Up!IsASeq
<1>8. TableMoves(c)
  BY <1>1, <1>2, <1>3, <1>5, <1>6, <1>7 DEF TableMoves, TableTypes
<1>9. ASSUME NEW k \in DOMAIN table'.batches \ DOMAIN table.batches
      PROVE  BatchMeans(table.batches[k])'
  <2>1. table'.batches[k] = b /\ scenario' = scenario
    BY <1>2, <1>6 DEF RequestMoves
  <2>2. u.rows # <<>> /\ u.rows = FileRows(c) /\ W \subseteq DOMAIN FileRows(c) /\ W \subseteq Up!Batch(u)
    BY <1>1, <1>a DEF Computed, Up!Written, Up!Batch
  <2>3. upload'[c].rows # <<>> /\ upload'[c].inferred = u.inferred
    BY <2>2 DEF RequestMoves
  <2>4. b.try \in 1 .. upload'[c].try
    BY <1>1, <1>3 DEF RequestTypes, Computed
  <2>5. FileRows(c)' = FileRows(c) /\ \A name : TypeOfColumn(c, name)' = TypeOfColumn(c, name)
    BY <2>1 DEF FileRows, TypeOfColumn
  <2>6. Inferred(c)' = Inferred(c)
    BY <2>1, <2>3 DEF Inferred
  <2>7. ASSUME NEW i \in W PROVE LineMeans(c, i, b.lines[i])'
    <3>1. LineMeans(c, i, b.lines[i])
      BY <1>3, <2>2, LinesMean
    <3> QED BY <1>5, <2>1, <2>5, <2>6, <3>1 DEF LineMeans
  <2> QED BY <1>3, <2>1, <2>2, <2>3, <2>4, <2>5, <2>7 DEF BatchMeans
<1>10. Up!Mine(c)' = Up!Mine(c) \cup {n + 1} /\ Up!Mine(c) \subseteq 1 .. n
  BY <1>2, <1>3, <1>6 DEF Up!Mine
<1>11. BatchRows(n + 1)' = W /\ \A k \in Up!Mine(c) : BatchRows(k)' = BatchRows(k)
  BY <1>3, <1>6, <1>10 DEF BatchRows
<1>12. UNION {BatchRows(k) : k \in Up!Mine(c)} = Up!Sent(c)
  BY <1>1 DEF Arrived, Computed
<1>13. \A k \in Up!Mine(c) : \A x \in BatchRows(k) : x \in Up!Sent(c)
  BY <1>12
<1>14. \A x \in Up!Sent(c), y \in W : x < y
  BY <1>a, SentAndWritten
<1>15. \A j, k \in Up!Mine(c)' : j < k => \A x \in BatchRows(j)', y \in BatchRows(k)' : x < y
  <2> SUFFICES ASSUME NEW j \in Up!Mine(c)', NEW k \in Up!Mine(c)', j < k
               PROVE  \A x \in BatchRows(j)', y \in BatchRows(k)' : x < y
    OBVIOUS
  <2>1. j \in Up!Mine(c)
    BY <1>2, <1>10
  <2>2. CASE k = n + 1
    BY <1>11, <1>13, <1>14, <2>1, <2>2
  <2>3. CASE k \in Up!Mine(c)
    BY <1>1, <1>11, <2>1, <2>3 DEF Arrived
  <2> QED BY <1>10, <2>2, <2>3
<1>16. UNION {BatchRows(k)' : k \in Up!Mine(c)'} = Up!Sent(c) \cup W
  BY <1>10, <1>11, <1>12
<1> QED BY <1>8, <1>9, <1>15, <1>16, <1>a

LEMMA InsertStep ==
    ASSUME Up!UploadAssumption, UploadsOK, NEW c \in Clients, Up!InsertBatch(c)
    PROVE  UploadsOK'
<1> DEFINE u == upload[c]
           v == upload'[c]
           W == Up!Written(u)
<1>1. /\ u.at = "insert" /\ Up!RefusedIn(u) = {} /\ scenario' = scenario
      /\ RequestTypes(c) /\ Computed(c) /\ Arrived(c) /\ LastFits(c) /\ DOMAIN upload = Clients
  BY DEF Up!InsertBatch, UploadsOK, Up!TypesFit, LastFits, Inferred
<1>2. CASE table' = table /\ Up!Answer(c, "failed")
  BY <1>1, <1>2, TableStays, AnswerStep
<1>3. CASE /\ upload' = [upload EXCEPT ![c] = Up!Advanced(u)]
           /\ W = {} \/ Up!CanInsert(table, u.columns)
           /\ table' = IF W = {} THEN table ELSE Up!Inserted(c, u)
  <2>1. /\ DOMAIN upload' = Clients /\ \A d \in Clients \ {c} : upload'[d] = upload[d]
        /\ DOMAIN v = Fields /\ v.at = u.at /\ v.columns = u.columns /\ v.form = u.form
        /\ v.rows = u.rows /\ v.inferred = u.inferred /\ v.start = u.start + BatchSize
        /\ v.inserted = u.inserted + Up!Cardinality(W) /\ v.try = u.try /\ v.last = u.last
    BY <1>1, <1>3 DEF RequestTypes, Fields, Up!Advanced
  <2> HIDE DEF v
  <2>2. RequestMoves(c)
    BY <1>1, <2>1 DEF RequestMoves, RequestTypes, v
  <2>3. /\ IsFiniteSet(Up!Sent(c)) /\ IsFiniteSet(W)
        /\ Up!Sent(c) \cup W
              = {i \in 1 .. (u.start + BatchSize) : i \in DOMAIN u.rows /\ Up!HasData(Up!LineOf(u, i))}
        /\ Cardinality(Up!Sent(c) \cup W) = Cardinality(Up!Sent(c)) + Cardinality(W)
    BY SentAndWritten
  <2>4. Up!Sent(c)' = Up!Sent(c) \cup W
    <3>1. Up!Sent(c)' = {i \in 1 .. v.start : i \in DOMAIN v.rows /\ Up!HasData(Up!LineOf(v, i))}
      BY DEF Up!Sent, v
    <3>2. \A i : Up!LineOf(v, i) = Up!LineOf(u, i)
      BY <2>1 DEF Up!LineOf
    <3> HIDE DEF W
    <3> QED BY <2>1, <2>3, <3>1, <3>2
  <2>5. /\ TableMoves(c)
        /\ \A k \in DOMAIN table'.batches \ DOMAIN table.batches : BatchMeans(table.batches[k])'
        /\ \A j, k \in Up!Mine(c)' : j < k => \A x \in BatchRows(j)', y \in BatchRows(k)' : x < y
        /\ UNION {BatchRows(k)' : k \in Up!Mine(c)'} = Up!Sent(c) \cup W
    <3>1. CASE W # {}
      BY <1>1, <1>3, <2>1, <2>2, <3>1, InsertedIs DEF v
    <3>2. CASE W = {}
      BY <1>3, <3>2, <2>1, <1>1, TableStays DEF Up!Mine, BatchRows, v, Arrived, Computed
    <3> QED BY <3>1, <3>2
  <2>6. Up!Cardinality(W) \in Nat /\ BatchSize \in Nat
    BY <2>3, CardinalitySame, FS_CardinalityType DEF Up!UploadAssumption
  <2> HIDE DEF W
  <2>7. RequestTypes(c)' /\ LastFits(c)' /\ FileRows(c)' = FileRows(c)
    BY <1>1, <2>1, <2>6 DEF RequestTypes, LastFits, Inferred, FileRows, v
  <2>8. Computed(c)'
    BY <1>1, <2>1, <2>5, <2>7 DEF Computed, Inferred, TableMoves, v
  <2>9. v.inserted = Up!Cardinality(Up!Sent(c)')
    BY <1>1, <2>1, <2>3, <2>4, CardinalitySame DEF Arrived
  <2>10. Arrived(c)'
    BY <1>1, <2>1, <2>4, <2>5, <2>9 DEF Arrived, v
  <2> QED BY <2>2, <2>5, <2>7, <2>8, <2>10, Frame
<1> QED BY <1>2, <1>3 DEF Up!InsertBatch

LEMMA FailsStep ==
    ASSUME Up!UploadAssumption, UploadsOK, NEW c \in Clients, Up!InsertFails(c)
    PROVE  UploadsOK'
<1> DEFINE u == upload[c]
           v == upload'[c]
           W == Up!Written(u)
<1>1. /\ u.at = "insert" /\ Up!RefusedIn(u) = {} /\ scenario' = scenario /\ W # {}
      /\ Up!Answer(c, "failed")
      /\ RequestTypes(c) /\ Computed(c) /\ Arrived(c) /\ LastFits(c) /\ DOMAIN upload = Clients
  BY DEF Up!InsertFails, UploadsOK, Up!TypesFit, LastFits, Inferred
<1>2. CASE table' = table
  BY <1>1, <1>2, TableStays, AnswerStep
<1>3. CASE table' = Up!Inserted(c, u) /\ Up!CanInsert(table, u.columns)
  <2>1. /\ DOMAIN upload' = Clients /\ \A d \in Clients \ {c} : upload'[d] = upload[d]
        /\ DOMAIN v = Fields /\ v.at = "failed" /\ v.columns = u.columns /\ v.form = u.form
        /\ v.rows = u.rows /\ v.inferred = u.inferred /\ v.start = u.start
        /\ v.inserted = u.inserted /\ v.try = u.try /\ v.last = u.last
    BY <1>1 DEF RequestTypes, Fields, Up!Answer
  <2> HIDE DEF v
  <2>2. RequestMoves(c)
    BY <1>1, <2>1 DEF RequestMoves, RequestTypes, v
  <2>3. /\ TableMoves(c)
        /\ \A k \in DOMAIN table'.batches \ DOMAIN table.batches : BatchMeans(table.batches[k])'
        /\ \A j, k \in Up!Mine(c)' : j < k => \A x \in BatchRows(j)', y \in BatchRows(k)' : x < y
        /\ UNION {BatchRows(k)' : k \in Up!Mine(c)'} = Up!Sent(c) \cup W
    BY <1>1, <1>3, <2>1, <2>2, InsertedIs DEF v
  <2>4. Up!Sent(c)' = Up!Sent(c) /\ Up!Written(v) = W
    BY <2>1 DEF Up!Sent, Up!Written, Up!Batch, Up!LineOf, v
  <2> HIDE DEF W
  <2>5. RequestTypes(c)' /\ LastFits(c)' /\ FileRows(c)' = FileRows(c)
    BY <1>1, <2>1 DEF RequestTypes, LastFits, Inferred, FileRows, v
  <2>6. Computed(c)'
    BY <1>1, <2>1, <2>3, <2>5 DEF Computed, Inferred, TableMoves, v
  <2>7. Arrived(c)'
    BY <1>1, <2>1, <2>3, <2>4 DEF Arrived, v
  <2> QED BY <2>2, <2>3, <2>5, <2>6, <2>7, Frame
<1> QED BY <1>2, <1>3 DEF Up!InsertFails

\* For every file of any format, every table, number of clients and size of a batch, and
\* wherever an INSERT fails or its answer is lost: the rows of a request are in the table
\* once, in the order of the file and by whole batches, and the count it reports is right but
\* for the batch that failed (query_upload.go:1068); each cell of the last column of its name
\* has the value of the file, whatever type was inferred for its column, or what Changed says
\* a conversion makes of it, and two headers get one name only if one of them is already
\* what a repeated or a blank header becomes; an inferred type refuses none of its values but t, f and NaN, and a
\* column that is not Nullable gets no null (query_upload.go:675, 1210).
THEOREM UploadsArrive ==
    ASSUME Up!UploadAssumption
    PROVE  Up!Spec => []Up!UploadInv
<1>1. Up!Init => UploadsOK
  BY UploadInit
<1>2. UploadsOK /\ [Up!Next]_Up!vars => UploadsOK'
  <2> SUFFICES ASSUME UploadsOK, [Up!Next]_Up!vars PROVE UploadsOK'
    OBVIOUS
  <2>1. CASE Up!Next
    BY <2>1, DiscoverStep, IngestStep, CreateStep, DescribeStep, RefuseStep, InsertStep, FailsStep,
       SucceedsStep DEF Up!Next
  <2>2. CASE UNCHANGED Up!vars
    <3>1. table' = table /\ upload' = upload /\ scenario' = scenario
      BY <2>2 DEF Up!vars
    <3>2. \A c : FileRows(c)' = FileRows(c) /\ Inferred(c)' = Inferred(c) /\ Up!Mine(c)' = Up!Mine(c)
                /\ Up!Sent(c)' = Up!Sent(c) /\ BatchRows(c)' = BatchRows(c)
                /\ RequestTypes(c)' = RequestTypes(c)
                /\ \A name : TypeOfColumn(c, name)' = TypeOfColumn(c, name)
      BY <3>1 DEF FileRows, Inferred, Up!Mine, Up!Sent, BatchRows, RequestTypes, TypeOfColumn
    <3>3. \A c : Computed(c)' = Computed(c) /\ Arrived(c)' = Arrived(c)
      BY <3>1, <3>2 DEF Computed, Arrived
    <3>4. \A b : BatchMeans(b)' = BatchMeans(b)
      BY <3>1, <3>2 DEF BatchMeans, LineMeans
    <3>5. TableTypes' = TableTypes /\ Up!TypesFit' = Up!TypesFit
      BY <3>1 DEF TableTypes, Up!TypesFit
    <3> QED BY <3>1, <3>2, <3>3, <3>4, <3>5 DEF UploadsOK
  <2> QED BY <2>1, <2>2
<1>3. UploadsOK => Up!UploadInv
  <2> SUFFICES ASSUME UploadsOK PROVE Up!UploadInv
    OBVIOUS
  <2>1. Up!BatchesWhole
    BY DEF UploadsOK, Arrived, BatchRows, Up!BatchesWhole
  <2> QED BY <2>1, CellsAreKept, NullsAreDeclared DEF UploadsOK, Up!UploadInv
<1> QED BY <1>1, <1>2, <1>3, PTL DEF Up!Spec
=============================================================================
