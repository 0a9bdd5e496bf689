------------------------- MODULE AlertDispatcherProofs -------------------------
(***************************************************************************)
(* The alert dispatcher for any number of events, routes, attempts, saves  *)
(* and crashes.                                                            *)
(*                                                                         *)
(* Most of the argument is about one row at a time (RowOf): what its       *)
(* attempts allow, and, of the rows the dispatcher has listed (Listed),    *)
(* that they have an attempt left.  Beyond the rows there are              *)
(*   - Buckets: a digest has one row for a window, so an event is added    *)
(*     once;                                                               *)
(*   - Taken: the event at hand is with the routes that have left `left';  *)
(*   - Fresh: without a crash, whatever a row holds is processed or is the *)
(*     event at hand, and the only row in sending is the one at hand.      *)
(***************************************************************************)
EXTENDS AlertDispatcher, WellFoundedInduction, TLAPS

Item == [route : Routes, of : Nat, events : SUBSET Events, closes : Nat, due : Nat,
         status : ItemStatus, attempts : Nat, sends : Nat, escalations : Nat]

TypeInv ==
    /\ now \in Nat
    /\ status \in [Events -> {"none", "new", "processed"}]
    /\ created \in [Events -> Nat]
    /\ queue \in Seq(Item)
    /\ routes \in Nat
    /\ phase \in {"idle", "events", "jobs", "digests"}
    /\ started \in [now : Nat, routes : Nat]
    /\ todo \in SUBSET Events
    /\ left \in SUBSET Routes
    /\ due \in SUBSET (DOMAIN queue)
    /\ result \in {"none", "sending", "sent", "retry", "failed"}
    /\ bound \in [of : Scenarios, crashes : Nat]

Bounds ==
    /\ now <= bound.of.time /\ routes <= bound.of.edits /\ bound.crashes <= bound.of.crashes
    /\ \A e \in Events : created[e] <= bound.of.time
    /\ started.now <= now /\ started.routes <= routes
    /\ \A i \in DOMAIN queue : queue[i].of <= routes

\* A row was tried once its window was closed, is sent once an attempt, and escalated
\* after the last one.
RowOf(i) ==
    /\ queue[i].sends <= queue[i].attempts /\ queue[i].attempts <= MaxAttempts
    /\ queue[i].escalations <= 1
    /\ queue[i].escalations = 1 => queue[i].status \notin Waiting
    /\ queue[i].attempts = 0 => queue[i].due = queue[i].closes
    /\ queue[i].attempts > 0 => queue[i].closes <= now
    /\ queue[i].attempts > 0 /\ phase = "events" => queue[i].closes <= started.now

\* A row that the dispatcher has listed and not yet tried.
Listed(i) ==
    /\ queue[i].status \in Waiting \cup {"deleted"}
    /\ queue[i].attempts < MaxAttempts /\ queue[i].due <= now /\ queue[i].escalations = 0

\* The row that it is trying.
AtHand(i) ==
    /\ queue[i].status \in {"sending", "deleted"} /\ queue[i].attempts > 0
    /\ result = "sending" => queue[i].sends < queue[i].attempts
    /\ result \in {"sending", "retry"} => queue[i].escalations = 0

RowInv ==
    /\ \A i \in DOMAIN queue : RowOf(i)
    /\ \A i \in due : i # Row \/ result = "none" => Listed(i)
    /\ result # "none" => due # {} /\ AtHand(Row)
    /\ due # {} => phase \in {"jobs", "digests"}
    /\ todo # {} => phase = "events"
    /\ \A e \in todo : status[e] = "new"

Buckets ==
    \A i, j \in DOMAIN queue :
        /\ queue[i].route \in Digest
        /\ queue[i].route = queue[j].route /\ queue[i].of = queue[j].of
        /\ queue[i].closes = queue[j].closes
        => i = j

\* The route has taken the event, or left it to an earlier job.
Took(e, r) ==
    \E i \in DOMAIN queue :
        /\ queue[i].route = r
        /\ e \in queue[i].events \/ (bound.of.fingerprint /\ bound.of.cooldown > 0 /\ r \in Immediate)

Taken ==
    routes = 0 =>
        /\ \A e \in Events, r \in Routes : status[e] = "processed" => Took(e, r)
        /\ todo # {} => \A r \in Routes \ left : Took(First, r)

\* An event is in one row of a route.
Once ==
    \A i, j \in DOMAIN queue :
        queue[i].route = queue[j].route /\ queue[i].of = queue[j].of
            => i = j \/ queue[i].events \cap queue[j].events = {}

\* No row is in sending but the one at hand.
NoOther == \A i \in DOMAIN queue : queue[i].status = "sending" => due # {} /\ Row = i /\ result # "none"

\* What a row holds is processed, or at hand and done with for its route.
Known ==
    \A i \in DOMAIN queue : \A e \in queue[i].events :
        \/ status[e] = "processed"
        \/ /\ todo # {} /\ e = First
           /\ queue[i].of = started.routes => queue[i].route \notin left

Fresh == bound.crashes = 0 => Once /\ NoOther /\ Known

IInv == TypeInv /\ Bounds /\ RowInv /\ Buckets /\ Taken /\ Fresh

-----------------------------------------------------------------------------
\* A nonempty set of naturals has a least element.
LEMMA Least ==
    ASSUME NEW S \in SUBSET Nat, S # {}
    PROVE  \E x \in S : \A y \in S : x <= y
<1> DEFINE R == {ss \in Nat \X Nat : ss[1] < ss[2]}
<1>1. IsWellFoundedOn(R, Nat)
  BY NatLessThanWellFounded DEF OpToRel
<1>2. PICK x \in S : \A y \in S : ~ (<<y, x>> \in R)
  <2> HIDE DEF R
  <2> QED
    BY <1>1, WFMin
<1>3. ASSUME NEW y \in S PROVE x <= y
  <2>1. ~ (y < x)
    BY <1>2
  <2> QED
    BY <2>1
<1> QED
  BY <1>3

\* The first of the events.
LEMMA FirstIsFirst ==
    ASSUME TypeInv, todo # {}
    PROVE  First \in todo /\ \A e \in todo : First <= e
<1>1. todo \in SUBSET Nat
  BY DEF TypeInv, Events
<1>2. \E x \in todo : \A y \in todo : x <= y
  BY <1>1, Least
<1> QED
  BY <1>2 DEF First, Min

\* The order of the rows has a first one in each list.
LEMMA KeyType ==
    ASSUME TypeInv, NEW i \in DOMAIN queue
    PROVE  Key(i) \in Nat /\ i \in Nat
<1>1. queue[i] \in Item /\ i \in Nat
  BY DEF TypeInv
<1>2. queue[i].closes \in Nat /\ queue[i].due \in Nat
  BY <1>1 DEF Item
<1> QED
  BY <1>1, <1>2 DEF Key

LEMMA RowIsFirst ==
    ASSUME TypeInv, due # {}
    PROVE  Row \in due /\ \A j \in due : Row = j \/ Older(Row, j)
<1> DEFINE K == {Key(i) : i \in due}
<1>1. \A i \in due : Key(i) \in Nat /\ i \in Nat
  BY KeyType DEF TypeInv
<1>2. PICK k \in K : \A y \in K : k <= y
  <2>1. K \in SUBSET Nat /\ K # {}
    BY <1>1
  <2> HIDE DEF K
  <2> QED
    BY <2>1, Least
<1> DEFINE F == {i \in due : Key(i) = k}
<1>3. PICK i \in F : \A j \in F : i <= j
  <2>1. F \in SUBSET Nat /\ F # {}
    BY <1>1, <1>2
  <2> HIDE DEF F
  <2> QED
    BY <2>1, Least
<1>4. ASSUME NEW j \in due PROVE i = j \/ Older(i, j)
  BY <1>1, <1>2, <1>3 DEF Older
<1>5. i \in due /\ \A j \in due : i = j \/ Older(i, j)
  BY <1>4
<1> QED
  BY <1>5 DEF Row


\* It stays the first as long as the order of the list does.
LEMMA RowKept ==
    ASSUME TypeInv, due # {}, due' = due,
           \A i \in due : /\ queue'[i].route = queue[i].route /\ queue'[i].closes = queue[i].closes
                          /\ queue'[i].due = queue[i].due
    PROVE  Row' = Row
<1>1. \A i, j \in due : Older(i, j)' <=> Older(i, j)
  BY DEF Older, Key
<1>2. Row \in due /\ \A j \in due : Row = j \/ Older(Row, j)
  BY RowIsFirst
<1>3. \E i \in due' : \A j \in due' : i = j \/ Older(i, j)'
  BY <1>1, <1>2
<1>4. (Row \in due /\ \A j \in due : Row = j \/ Older(Row, j))'
  BY <1>3 DEF Row, Older, Key
<1> DEFINE r == Row'
<1>5. r \in due /\ \A j \in due : r = j \/ Older(r, j)
  BY <1>4 DEF Older, Key
<1>6. Key(r) \in Nat /\ Key(Row) \in Nat /\ r \in Nat /\ Row \in Nat
  BY <1>2, <1>5, KeyType DEF TypeInv
<1> QED
  BY <1>2, <1>5, <1>6 DEF Older

\* The end of the window lies after the tick.
LEMMA WindowEnds ==
    ASSUME TypeInv
    PROVE  BucketEnd \in Nat /\ BucketEnd > started.now
<1>1. bound.of.window \in Nat \ {0} /\ started.now \in Nat
  BY AlertAssumption DEF TypeInv
<1>2. ASSUME NEW w \in Nat \ {0}, NEW n \in Nat PROVE ((n \div w) + 1) * w \in Nat /\ ((n \div w) + 1) * w > n
  OBVIOUS
<1> QED
  BY <1>1, <1>2 DEF BucketEnd

LEMMA BackoffType == ASSUME NEW n \in Nat PROVE retryBackoff(n) \in Nat
BY DEF retryBackoff

-----------------------------------------------------------------------------
(* What the steps do to the queue. *)

\* One row is written.
OneRow(i, x) ==
    /\ queue' \in Seq(Item) /\ DOMAIN queue' = DOMAIN queue /\ i \in DOMAIN queue
    /\ queue'[i] = x /\ x \in Item
    /\ \A j \in DOMAIN queue : j # i => queue'[j] = queue[j]

LEMMA RowChanged ==
    ASSUME queue \in Seq(Item), NEW i \in DOMAIN queue, NEW x \in Item,
           queue' = [queue EXCEPT ![i] = x]
    PROVE  OneRow(i, x)
BY DEF OneRow

\* The types of what a row may become.
LEMMA ItemTypes ==
    ASSUME NEW x \in Item
    PROVE  /\ \A st \in ItemStatus : [x EXCEPT !.status = st] \in Item
           /\ \A st \in ItemStatus : [x EXCEPT !.status = st, !.attempts = @ + 1] \in Item
           /\ \A st \in ItemStatus, d \in Nat : [x EXCEPT !.status = st, !.due = d] \in Item
           /\ [x EXCEPT !.sends = @ + 1] \in Item
           /\ \A n \in {0, 1} : [x EXCEPT !.sends = @ + 1, !.escalations = @ + n] \in Item
           /\ \A e \in Events : [x EXCEPT !.events = @ \cup {e}] \in Item
<1>1. ASSUME NEW st \in ItemStatus, NEW d \in Nat
      PROVE  [x EXCEPT !.status = st] \in Item /\ [x EXCEPT !.status = st, !.due = d] \in Item
  BY DEF Item
<1>2. ASSUME NEW st \in ItemStatus PROVE [x EXCEPT !.status = st, !.attempts = @ + 1] \in Item
  <2>1. x.attempts + 1 \in Nat
    BY DEF Item
  <2>2. \A n \in Nat : [x EXCEPT !.status = st, !.attempts = n] \in Item
    BY DEF Item
  <2> QED
    BY <2>1, <2>2
<1>3. [x EXCEPT !.sends = @ + 1] \in Item
  BY DEF Item
<1>4. ASSUME NEW n \in {0, 1} PROVE [x EXCEPT !.sends = @ + 1, !.escalations = @ + n] \in Item
  <2>1. x.sends + 1 \in Nat /\ x.escalations + n \in Nat
    BY DEF Item
  <2>2. \A a, b \in Nat : [x EXCEPT !.sends = a, !.escalations = b] \in Item
    BY DEF Item
  <2> QED
    BY <2>1, <2>2
<1>5. ASSUME NEW e \in Events PROVE [x EXCEPT !.events = @ \cup {e}] \in Item
  BY DEF Item
<1> QED
  BY <1>1, <1>2, <1>3, <1>4, <1>5

LEMMA RowType ==
    ASSUME TypeInv, due # {}
    PROVE  Row \in DOMAIN queue /\ queue[Row] \in Item /\ queue \in Seq(Item)
BY RowIsFirst DEF TypeInv

LEMMA MarkSendingDoes ==
    ASSUME TypeInv, MarkSending
    PROVE  OneRow(Row, [queue[Row] EXCEPT !.status = Updated("sending"), !.attempts = @ + 1])
<1> DEFINE x == [queue[Row] EXCEPT !.status = Updated("sending"), !.attempts = @ + 1]
<1>1. Row \in DOMAIN queue /\ queue[Row] \in Item /\ queue \in Seq(Item)
  BY RowType DEF MarkSending
<1>2. x \in Item
  BY <1>1, ItemTypes DEF Updated, ItemStatus
<1>3. queue' = [queue EXCEPT ![Row] = x]
  BY <1>1 DEF MarkSending
<1> HIDE DEF x
<1> QED
  BY <1>1, <1>2, <1>3, RowChanged DEF x

LEMMA SendSucceedsDoes ==
    ASSUME TypeInv, SendSucceeds, due # {}
    PROVE  OneRow(Row, [queue[Row] EXCEPT !.sends = @ + 1])
<1> DEFINE x == [queue[Row] EXCEPT !.sends = @ + 1]
<1>1. Row \in DOMAIN queue /\ queue[Row] \in Item /\ queue \in Seq(Item)
  BY RowType
<1>2. x \in Item
  BY <1>1, ItemTypes
<1>3. queue' = [queue EXCEPT ![Row] = x]
  BY <1>1 DEF SendSucceeds
<1> HIDE DEF x
<1> QED
  BY <1>1, <1>2, <1>3, RowChanged DEF x

LEMMA SendFailsDoes ==
    ASSUME TypeInv, SendFails, due # {}
    PROVE  /\ OneRow(Row, [queue[Row] EXCEPT !.sends = @ + 1,
                                             !.escalations = @ + Escalation(queue[Row].attempts)])
           /\ Escalation(queue[Row].attempts) \in {0, 1}
           /\ Escalation(queue[Row].attempts) = 1 => queue[Row].attempts >= MaxAttempts
<1> DEFINE n == Escalation(queue[Row].attempts)
           x == [queue[Row] EXCEPT !.sends = @ + 1, !.escalations = @ + n]
<1>1. Row \in DOMAIN queue /\ queue[Row] \in Item /\ queue \in Seq(Item)
  BY RowType
<1>2. n \in {0, 1} /\ (n = 1 => queue[Row].attempts >= MaxAttempts)
  BY DEF Escalation
<1> HIDE DEF n
<1>3. x \in Item
  BY <1>1, <1>2, ItemTypes
<1>4. queue' = [queue EXCEPT ![Row] = x]
  BY <1>1 DEF SendFails, n
<1> HIDE DEF x
<1> QED
  BY <1>1, <1>2, <1>3, <1>4, RowChanged DEF x, n

LEMMA RecordDoes ==
    ASSUME TypeInv, Record, due # {}
    PROVE  \/ /\ result = "retry"
              /\ OneRow(Row, [queue[Row] EXCEPT !.status = Updated("retrying"),
                                                !.due = now + retryBackoff(queue[Row].attempts)])
           \/ /\ result \in {"sent", "failed"}
              /\ OneRow(Row, [queue[Row] EXCEPT !.status = Updated(result)])
<1>1. Row \in DOMAIN queue /\ queue[Row] \in Item /\ queue \in Seq(Item) /\ now \in Nat
  BY RowType DEF TypeInv
<1>2. CASE result = "retry"
  <2> DEFINE d == now + retryBackoff(queue[Row].attempts)
             x == [queue[Row] EXCEPT !.status = Updated("retrying"), !.due = d]
  <2>1. d \in Nat
    <3>1. queue[Row].attempts \in Nat
      BY <1>1 DEF Item
    <3>2. retryBackoff(queue[Row].attempts) \in Nat /\ now \in Nat
      BY <1>1, <3>1, BackoffType
    <3> QED
      BY <3>2
  <2> HIDE DEF d
  <2>2. x \in Item
    BY <1>1, <2>1, ItemTypes DEF Updated, ItemStatus, Waiting
  <2>3. queue' = [queue EXCEPT ![Row] = x]
    BY <1>1, <1>2 DEF Record, d
  <2> HIDE DEF x
  <2> QED
    BY <1>1, <1>2, <2>2, <2>3, RowChanged DEF x, d
<1>3. CASE result \in {"sent", "failed"}
  <2> DEFINE x == [queue[Row] EXCEPT !.status = Updated(result)]
  <2>1. x \in Item
    BY <1>1, <1>3, ItemTypes DEF Updated, ItemStatus, Settled
  <2>2. queue' = [queue EXCEPT ![Row] = x]
    BY <1>1, <1>3 DEF Record
  <2> HIDE DEF x
  <2> QED
    BY <1>1, <1>3, <2>1, <2>2, RowChanged DEF x
<1> QED
  BY <1>2, <1>3 DEF Record

\* All rows are deleted.
LEMMA SaveRuleDoes ==
    ASSUME TypeInv, SaveRule
    PROVE  /\ queue' \in Seq(Item) /\ DOMAIN queue' = DOMAIN queue
           /\ \A i \in DOMAIN queue : queue'[i] = [queue[i] EXCEPT !.status = "deleted"]
<1>1. queue \in Seq(Item)
  BY DEF TypeInv
<1>2. ASSUME NEW i \in DOMAIN queue PROVE [queue[i] EXCEPT !.status = "deleted"] \in Item
  <2>1. queue[i] \in Item
    BY <1>1
  <2> QED
    BY <2>1, ItemTypes DEF ItemStatus
<1> DEFINE f(i) == [queue[i] EXCEPT !.status = "deleted"]
<1>3. queue' = [i \in 1 .. Len(queue) |-> f(i)] /\ \A i \in 1 .. Len(queue) : f(i) \in Item
  BY <1>1, <1>2 DEF SaveRule
<1> HIDE DEF f
<1>4. queue' \in Seq(Item) /\ DOMAIN queue' = DOMAIN queue /\ \A i \in DOMAIN queue : queue'[i] = f(i)
  BY <1>1, <1>3
<1> QED
  BY <1>4 DEF f

\* The rows of the digest of the tick.
InBucket(i, r) ==
    queue[i].route = r /\ queue[i].of = started.routes /\ queue[i].closes = BucketEnd

\* A route takes an event: it leaves the queue, or adds a row, or extends its digest.
Leaves(r) == queue' = queue /\ (started.routes # routes \/ (r \in Immediate /\ Suppressed(r)))
Adds(r, c) ==
    /\ started.routes = routes /\ c \in Nat /\ c >= started.now
    /\ r \in Digest => c = BucketEnd /\ \A i \in DOMAIN queue : ~InBucket(i, r)
    /\ queue' \in Seq(Item) /\ DOMAIN queue' = DOMAIN queue \cup {Len(queue) + 1}
    /\ Len(queue) + 1 \notin DOMAIN queue
    /\ queue'[Len(queue) + 1] = NewItem(First, r, c) /\ NewItem(First, r, c) \in Item
    /\ \A i \in DOMAIN queue : queue'[i] = queue[i]
Extends(r) ==
    /\ started.routes = routes /\ r \in Digest /\ \E i \in DOMAIN queue : InBucket(i, r)
    /\ queue' \in Seq(Item) /\ DOMAIN queue' = DOMAIN queue
    /\ \A i \in DOMAIN queue :
          queue'[i] = IF InBucket(i, r) THEN [queue[i] EXCEPT !.events = @ \cup {First}] ELSE queue[i]

LEMMA MaterializeDoes ==
    ASSUME TypeInv, NEW r \in Routes, Materialize(r)
    PROVE  Leaves(r) \/ (\E c \in Nat : Adds(r, c)) \/ Extends(r)
<1>1. queue \in Seq(Item) /\ First \in Events /\ started \in [now : Nat, routes : Nat]
  BY FirstIsFirst DEF TypeInv, Materialize
<1>2. CASE started.routes # routes
  BY <1>2 DEF Materialize, Leaves
<1>3. ASSUME NEW c \in Nat, c >= started.now, started.routes = routes,
             queue' = Append(queue, NewItem(First, r, c)),
             r \in Digest => c = BucketEnd /\ \A i \in DOMAIN queue : ~InBucket(i, r)
      PROVE  Adds(r, c)
  <2> DEFINE x == NewItem(First, r, c)
  <2>1. x \in Item
    BY <1>1 DEF NewItem, Item, ItemStatus, Waiting
  <2> HIDE DEF x
  <2>2. /\ queue' \in Seq(Item) /\ DOMAIN queue' = DOMAIN queue \cup {Len(queue) + 1}
        /\ Len(queue) + 1 \notin DOMAIN queue /\ queue'[Len(queue) + 1] = x
        /\ \A i \in DOMAIN queue : queue'[i] = queue[i]
    BY <1>1, <1>3, <2>1 DEF x
  <2> QED
    BY <1>3, <2>1, <2>2 DEF Adds, x
<1>4. CASE started.routes = routes /\ r \in Digest
  <2> DEFINE bucket == {i \in DOMAIN queue : InBucket(i, r)}
             f(i) == IF InBucket(i, r) THEN [queue[i] EXCEPT !.events = @ \cup {First}] ELSE queue[i]
  <2>1. AddToDigest(First, r)
    BY <1>4 DEF Materialize
  <2>2. CASE bucket = {}
    BY <2>1, <2>2, <1>1, WindowEnds, <1>3, <1>4 DEF AddToDigest, InBucket
  <2>3. CASE bucket # {}
    <3>1. queue' = [i \in DOMAIN queue |-> f(i)]
      BY <2>1, <2>3 DEF AddToDigest, InBucket
    <3>2. ASSUME NEW i \in DOMAIN queue PROVE f(i) \in Item
      <4>1. queue[i] \in Item
        BY <1>1
      <4> QED
        BY <1>1, <4>1, ItemTypes
    <3>3. DOMAIN queue = 1 .. Len(queue)
      BY <1>1
    <3> HIDE DEF f
    <3>4. queue' \in Seq(Item) /\ DOMAIN queue' = DOMAIN queue /\ \A i \in DOMAIN queue : queue'[i] = f(i)
      BY <1>1, <3>1, <3>2, <3>3
    <3> QED
      BY <1>4, <2>3, <3>4 DEF Extends, f
  <2> QED
    BY <2>2, <2>3
<1>5. CASE started.routes = routes /\ r \notin Digest
  BY <1>5, <1>1, <1>3 DEF Materialize, Routes, AddJob, Leaves
<1> QED
  BY <1>2, <1>4, <1>5

-----------------------------------------------------------------------------
\* Every step keeps the types.
LEMMA TypeStep == TypeInv /\ RowInv /\ [Next]_vars => TypeInv'
<1> SUFFICES ASSUME TypeInv, RowInv, [Next]_vars PROVE TypeInv'
  OBVIOUS
<1> USE DEF eventVars, tickVars
<1>d. result # "none" => due # {}
  BY DEF RowInv
<1>1. ASSUME Clock PROVE TypeInv'
  BY <1>1 DEF Clock, TypeInv, NoTick, NewEvents
<1>2. ASSUME NEW e \in Events, Raise(e) PROVE TypeInv'
  BY <1>2 DEF Raise, TypeInv, NoTick, NewEvents
<1>3. ASSUME SaveRule PROVE TypeInv'
  BY <1>3, SaveRuleDoes DEF SaveRule, TypeInv
<1>4. ASSUME Crash PROVE TypeInv'
  <2>1. bound' \in [of : Scenarios, crashes : Nat]
    BY <1>4 DEF TypeInv, Crash
  <2> QED
    BY <1>4, <2>1 DEF Crash, TypeInv, NoTick
<1>5. ASSUME Tick PROVE TypeInv'
  BY <1>5 DEF Tick, TypeInv, NoTick, NewEvents
<1>6. ASSUME NEW r \in Routes, Materialize(r) PROVE TypeInv'
  BY <1>6, MaterializeDoes DEF Leaves, Adds, Extends, TypeInv, Materialize
<1>7. ASSUME MarkProcessed PROVE TypeInv'
  BY <1>7, FirstIsFirst DEF MarkProcessed, TypeInv
<1>8. ASSUME ListJobs PROVE TypeInv'
  BY <1>8 DEF ListJobs, TypeInv, Due, NoTick
<1>9. ASSUME ListDigests PROVE TypeInv'
  BY <1>9 DEF ListDigests, TypeInv, Due, NoTick
<1>10. ASSUME EndTick PROVE TypeInv'
  BY <1>10 DEF EndTick, TypeInv, NoTick, NewEvents
<1>11. ASSUME MarkSending PROVE TypeInv'
  BY <1>11, <1>d, MarkSendingDoes DEF OneRow, MarkSending, TypeInv
<1>12. ASSUME Misconfigured PROVE TypeInv'
  BY <1>12 DEF Misconfigured, TypeInv, NoTick, NewEvents
<1>13. ASSUME SendSucceeds PROVE TypeInv'
  BY <1>13, <1>d, SendSucceedsDoes DEF OneRow, SendSucceeds, TypeInv
<1>14. ASSUME SendFails PROVE TypeInv'
  BY <1>14, <1>d, SendFailsDoes DEF OneRow, SendFails, TypeInv
<1>15. ASSUME Record PROVE TypeInv'
  BY <1>15, <1>d, RecordDoes DEF OneRow, Record, TypeInv
<1>16. CASE UNCHANGED vars
  BY <1>16 DEF vars, TypeInv
<1> QED
  BY <1>1, <1>2, <1>3, <1>4, <1>5, <1>6, <1>7, <1>8, <1>9, <1>10, <1>11, <1>12, <1>13, <1>14, <1>15, <1>16
     DEF Next, EventStep, ListStep, SendStep, ServerStep

\* Every step keeps the bounds.
LEMMA BoundsStep == TypeInv /\ RowInv /\ Bounds /\ [Next]_vars => Bounds'
<1> SUFFICES ASSUME TypeInv, RowInv, Bounds, [Next]_vars PROVE Bounds'
  OBVIOUS
<1> USE DEF eventVars, tickVars
<1>d. result # "none" => due # {}
  BY DEF RowInv
<1>t. /\ now \in Nat /\ routes \in Nat /\ started.now \in Nat /\ started.routes \in Nat
      /\ bound.of.time \in Nat /\ bound.of.crashes \in Nat /\ bound.crashes \in Nat
      /\ bound.of.edits \in Nat
  BY AlertAssumption DEF TypeInv
<1>c. created \in [Events -> Nat] /\ bound \in [of : Scenarios, crashes : Nat]
  BY DEF TypeInv
<1>i. \A i \in DOMAIN queue : queue[i] \in Item
  BY DEF TypeInv
<1>1. ASSUME Clock PROVE Bounds'
  BY <1>1, <1>t, <1>c DEF Clock, Bounds, NoTick
<1>2. ASSUME NEW e \in Events, Raise(e) PROVE Bounds'
  BY <1>2, <1>t, <1>c DEF Raise, Bounds, NoTick
<1>3. ASSUME SaveRule PROVE Bounds'
  <2>1. \A i \in DOMAIN queue' : queue'[i].of \in Nat /\ queue'[i].of <= routes
    BY <1>3, <1>i, SaveRuleDoes DEF Bounds, Item
  <2> QED
    BY <1>3, <1>t, <2>1 DEF SaveRule, Bounds
<1>4. ASSUME Crash PROVE Bounds'
  BY <1>4, <1>t, <1>c DEF Crash, Bounds, NoTick
<1>5. ASSUME Tick PROVE Bounds'
  BY <1>5, <1>t, <1>c DEF Tick, Bounds, NoTick
<1>6. ASSUME NEW r \in Routes, Materialize(r) PROVE Bounds'
  <2>1. \A i \in DOMAIN queue' : queue'[i].of <= routes
    <3>1. CASE queue' = queue
      BY <3>1 DEF Bounds
    <3>2. ASSUME NEW c \in Nat, Adds(r, c) PROVE \A i \in DOMAIN queue' : queue'[i].of <= routes
      BY <1>t, <3>2 DEF Adds, NewItem, Bounds
    <3>3. CASE Extends(r)
      BY <1>i, <3>3 DEF Extends, Bounds, Item
    <3> QED
      BY <1>6, <3>1, <3>2, <3>3, MaterializeDoes DEF Leaves
  <2> QED
    BY <1>6, <2>1 DEF Materialize, Bounds
<1>7. ASSUME MarkProcessed PROVE Bounds'
  BY <1>7, <1>t, <1>c DEF MarkProcessed, Bounds, NoTick
<1>8. ASSUME ListJobs PROVE Bounds'
  BY <1>8, <1>t, <1>c DEF ListJobs, Bounds, NoTick
<1>9. ASSUME ListDigests PROVE Bounds'
  BY <1>9, <1>t, <1>c DEF ListDigests, Bounds, NoTick
<1>10. ASSUME EndTick PROVE Bounds'
  BY <1>10, <1>t, <1>c DEF EndTick, Bounds, NoTick
<1>11. ASSUME MarkSending PROVE Bounds'
  BY <1>11, <1>d, RowType, MarkSendingDoes DEF MarkSending, OneRow, Bounds, Item
<1>12. ASSUME Misconfigured PROVE Bounds'
  BY <1>12, <1>t, <1>c DEF Misconfigured, Bounds, NoTick
<1>13. ASSUME SendSucceeds PROVE Bounds'
  BY <1>13, <1>d, RowType, SendSucceedsDoes DEF SendSucceeds, OneRow, Bounds, Item
<1>14. ASSUME SendFails PROVE Bounds'
  BY <1>14, <1>d, RowType, SendFailsDoes DEF SendFails, OneRow, Bounds, Item
<1>15. ASSUME Record PROVE Bounds'
  BY <1>15, <1>d, RowType, RecordDoes DEF Record, OneRow, Bounds, Item
<1>16. CASE UNCHANGED vars
  BY <1>16 DEF vars, Bounds
<1> QED
  BY <1>1, <1>2, <1>3, <1>4, <1>5, <1>6, <1>7, <1>8, <1>9, <1>10, <1>11, <1>12, <1>13, <1>14, <1>15, <1>16
     DEF Next, EventStep, ListStep, SendStep, ServerStep

-----------------------------------------------------------------------------
RowsAreSound ==
    /\ \A i \in DOMAIN queue : RowOf(i)
    /\ \A i \in due : i # Row \/ result = "none" => Listed(i)
    /\ result # "none" => due # {} /\ AtHand(Row)

\* The rows stay sound while they are left alone and the clock goes on.
LEMMA RowsKept ==
    ASSUME TypeInv, RowInv, queue' = queue, due' = due, result' = result,
           now' \in Nat, now <= now',
           phase' = "events" => (phase = "events" /\ started' = started) \/ started'.now = now
    PROVE  RowsAreSound'
<1>1. Row' = Row
  BY DEF Row, Older, Key
<1>t. now \in Nat
  BY DEF TypeInv
<1>2. ASSUME NEW i \in DOMAIN queue PROVE RowOf(i)'
  <2>1. queue[i] \in Item /\ RowOf(i)
    BY DEF TypeInv, RowInv
  <2>2. queue[i].closes \in Nat /\ queue[i].due \in Nat
    BY <2>1 DEF Item
  <2> QED
    BY <2>1, <2>2, <1>t DEF RowOf
<1>3. ASSUME NEW i \in due, i # Row \/ result = "none" PROVE Listed(i)'
  <2>1. queue[i] \in Item /\ Listed(i)
    BY <1>3 DEF TypeInv, RowInv
  <2>2. queue[i].due \in Nat
    BY <2>1 DEF Item
  <2> QED
    BY <2>1, <2>2, <1>t DEF Listed
<1>4. result # "none" => due # {} /\ AtHand(Row)
  BY DEF RowInv
<1> QED
  BY <1>1, <1>2, <1>3, <1>4 DEF RowsAreSound, AtHand

\* Every step keeps the rows sound.
LEMMA RowStep == TypeInv /\ RowInv /\ [Next]_vars => RowInv'
<1> SUFFICES ASSUME TypeInv, RowInv, [Next]_vars PROVE RowInv'
  OBVIOUS
<1> USE DEF eventVars, tickVars
<1>r. \A i \in DOMAIN queue : RowOf(i)
  BY DEF RowInv
<1>l. \A i \in due : i # Row \/ result = "none" => Listed(i)
  BY DEF RowInv
<1>h. result # "none" => due # {} /\ AtHand(Row)
  BY DEF RowInv
<1>p. /\ due # {} => phase \in {"jobs", "digests"}
      /\ todo # {} => phase = "events"
      /\ \A e \in todo : status[e] = "new"
      /\ result # "none" => due # {}
  BY DEF RowInv
<1>i. \A i \in DOMAIN queue : queue[i] \in Item
  BY DEF TypeInv
<1>t. now \in Nat
  BY DEF TypeInv
<1>m. MaxAttempts \in Nat \ {0}
  BY AlertAssumption
<1>1. ASSUME Clock PROVE RowInv'
  BY <1>1, <1>t, RowsKept, <1>p DEF Clock, vars, NewEvents, TypeInv, RowInv, RowsAreSound
<1>2. ASSUME NEW e \in Events, Raise(e) PROVE RowInv'
  BY <1>2, <1>t, RowsKept, <1>p DEF Raise, NewEvents, TypeInv, RowInv, RowsAreSound
<1>3. ASSUME SaveRule PROVE RowInv'
  <2>1. now' = now /\ due' = due /\ result' = result /\ phase' = phase /\ todo' = todo /\ status' = status
        /\ started' = started
    BY <1>3 DEF SaveRule
  <2>2. \A i \in DOMAIN queue :
           /\ queue'[i].sends = queue[i].sends /\ queue'[i].attempts = queue[i].attempts
           /\ queue'[i].escalations = queue[i].escalations /\ queue'[i].status = "deleted"
           /\ queue'[i].due = queue[i].due /\ queue'[i].closes = queue[i].closes
           /\ queue'[i].route = queue[i].route
    BY <1>3, <1>i, SaveRuleDoes DEF Item
  <2>3. DOMAIN queue' = DOMAIN queue /\ due \subseteq DOMAIN queue
    BY <1>3, SaveRuleDoes DEF TypeInv
  <2>4. due # {} => Row' = Row /\ Row \in DOMAIN queue
    BY <2>1, <2>2, <2>3, RowKept, RowType
  <2>5. \A i \in DOMAIN queue' : RowOf(i)'
    BY <2>1, <2>2, <2>3, <1>r DEF RowOf, Waiting
  <2>6. \A i \in due' : i # Row' \/ result' = "none" => Listed(i)'
    BY <2>1, <2>2, <2>3, <2>4, <1>l DEF Listed
  <2>7. result' # "none" => due' # {} /\ AtHand(Row)'
    BY <2>1, <2>2, <2>4, <1>h DEF AtHand
  <2> QED
    BY <2>1, <2>5, <2>6, <2>7, <1>p DEF RowInv
<1>4. ASSUME Crash PROVE RowInv'
  BY <1>4, <1>r DEF Crash, RowOf, RowInv
<1>5. ASSUME Tick PROVE RowInv'
  BY <1>5, <1>t, RowsKept, <1>p DEF Tick, vars, NewEvents, TypeInv, RowInv, RowsAreSound
<1>6. ASSUME NEW r \in Routes, Materialize(r) PROVE RowInv'
  <2>1. due = {} /\ result = "none" /\ phase = "events"
    BY <1>6, <1>p DEF Materialize
  <2>2. now' = now /\ due' = {} /\ result' = "none" /\ phase' = "events" /\ todo' = todo /\ status' = status
        /\ started' = started
    BY <1>6, <2>1 DEF Materialize
  <2>3. \A i \in DOMAIN queue' : RowOf(i)'
    <3>1. CASE queue' = queue
      BY <2>1, <2>2, <3>1, <1>r DEF RowOf
    <3>2. ASSUME NEW c \in Nat, Adds(r, c), NEW i \in DOMAIN queue' PROVE RowOf(i)'
      BY <2>1, <2>2, <3>2, <1>r, <1>m DEF Adds, RowOf, NewItem
    <3>3. ASSUME Extends(r), NEW i \in DOMAIN queue' PROVE RowOf(i)'
      <4>1. queue[i] \in Item /\ RowOf(i)
        BY <3>3, <1>i, <1>r DEF Extends
      <4>2. /\ queue'[i].sends = queue[i].sends /\ queue'[i].attempts = queue[i].attempts
            /\ queue'[i].escalations = queue[i].escalations /\ queue'[i].status = queue[i].status
            /\ queue'[i].due = queue[i].due /\ queue'[i].closes = queue[i].closes
        BY <3>3, <4>1 DEF Extends, Item
      <4> QED
        BY <2>1, <2>2, <4>1, <4>2 DEF RowOf
    <3> QED
      BY <1>6, <3>1, <3>2, <3>3, MaterializeDoes DEF Leaves
  <2> QED
    BY <2>1, <2>2, <2>3, <1>p DEF RowInv
<1>7. ASSUME MarkProcessed PROVE RowInv'
  BY <1>7, <1>t, RowsKept, <1>p DEF MarkProcessed, vars, TypeInv, RowInv, RowsAreSound
<1>8. ASSUME ListJobs PROVE RowInv'
  <2>1. due = {} /\ result = "none"
    BY <1>8, <1>p DEF ListJobs
  <2>2. queue' = queue /\ now' = now /\ result' = "none" /\ phase' = "jobs" /\ due' = Due(Immediate)
        /\ todo' = {}
    BY <1>8, <1>p, <2>1 DEF ListJobs
  <2>3. \A i \in due' : Listed(i)'
    <3> SUFFICES ASSUME NEW i \in Due(Immediate) PROVE Listed(i)
      BY <2>2 DEF Listed
    <3>1. IsDue(i) /\ i \in DOMAIN queue
      BY DEF Due
    <3>2. queue[i] \in Item /\ RowOf(i)
      BY <3>1, <1>i, <1>r
    <3> QED
      BY <3>1, <3>2 DEF IsDue, Listed, RowOf, Item
  <2>4. \A i \in DOMAIN queue' : RowOf(i)'
    BY <2>2, <1>r DEF RowOf
  <2> QED
    BY <2>2, <2>3, <2>4 DEF RowInv
<1>9. ASSUME ListDigests PROVE RowInv'
  <2>1. due = {} /\ result = "none"
    BY <1>9, <1>p DEF ListDigests
  <2>2. queue' = queue /\ now' = now /\ result' = "none" /\ phase' = "digests" /\ due' = Due(Digest)
        /\ todo' = {}
    BY <1>9, <1>p, <2>1 DEF ListDigests
  <2>3. \A i \in due' : Listed(i)'
    <3> SUFFICES ASSUME NEW i \in Due(Digest) PROVE Listed(i)
      BY <2>2 DEF Listed
    <3>1. IsDue(i) /\ i \in DOMAIN queue
      BY DEF Due
    <3>2. queue[i] \in Item /\ RowOf(i)
      BY <3>1, <1>i, <1>r
    <3> QED
      BY <3>1, <3>2 DEF IsDue, Listed, RowOf, Item
  <2>4. \A i \in DOMAIN queue' : RowOf(i)'
    BY <2>2, <1>r DEF RowOf
  <2> QED
    BY <2>2, <2>3, <2>4 DEF RowInv
<1>10. ASSUME EndTick PROVE RowInv'
  BY <1>10, <1>t, RowsKept, <1>p DEF EndTick, vars, NewEvents, TypeInv, RowInv, RowsAreSound
<1>11. ASSUME MarkSending PROVE RowInv'
  <2>1. now' = now /\ due' = due /\ phase' = phase /\ todo' = todo /\ status' = status
        /\ started' = started /\ due # {} /\ phase # "events"
    BY <1>11, <1>p, <1>h DEF MarkSending
  <2>2. Row \in DOMAIN queue /\ queue[Row] \in Item /\ RowOf(Row)
    BY <2>1, RowType, <1>r
  <2>3. DOMAIN queue' = DOMAIN queue /\ \A j \in DOMAIN queue : j # Row => queue'[j] = queue[j]
    BY <1>11, <2>1, MarkSendingDoes DEF OneRow
  <2>4. /\ queue'[Row].sends = queue[Row].sends /\ queue'[Row].attempts = queue[Row].attempts + 1
        /\ queue'[Row].escalations = queue[Row].escalations
        /\ queue'[Row].status \in {"sending", "deleted"}
        /\ queue'[Row].due = queue[Row].due /\ queue'[Row].closes = queue[Row].closes
        /\ queue'[Row].route = queue[Row].route
    BY <1>11, <2>2, MarkSendingDoes DEF OneRow, Item, Updated
  <2>5. Row' = Row
    BY <2>1, <2>3, <2>4, RowKept DEF TypeInv
  <2>6. RowOf(Row)' /\ AtHand(Row)'
    <3>1. Row \in due /\ result = "none" /\ result' = "sending"
      BY <1>11, RowIsFirst DEF MarkSending
    <3>2. Listed(Row)
      BY <3>1, <1>l
    <3>3. queue[Row].closes <= now
      BY <2>2, <3>2, <1>t DEF RowOf, Listed, Item
    <3>4. queue[Row].sends \in Nat /\ queue[Row].attempts \in Nat /\ queue[Row].escalations = 0
      BY <2>2, <3>2 DEF Item, Listed
    <3>5. queue[Row].sends <= queue[Row].attempts /\ queue[Row].attempts < MaxAttempts
      BY <2>2, <3>2 DEF RowOf, Listed
    <3> QED
      BY <1>m, <2>1, <2>4, <2>5, <3>1, <3>3, <3>4, <3>5 DEF RowOf, AtHand, Waiting
  <2>7. \A i \in DOMAIN queue' : RowOf(i)'
    <3> SUFFICES ASSUME NEW i \in DOMAIN queue', i # Row PROVE RowOf(i)'
      BY <2>5, <2>6 DEF RowOf
    <3> QED
      BY <2>1, <2>3, <1>r DEF RowOf
  <2>8. \A i \in due' : i # Row' \/ result' = "none" => Listed(i)'
    <3> SUFFICES ASSUME NEW i \in due, i # Row PROVE Listed(i)'
      BY <1>11, <2>1, <2>5 DEF MarkSending
    <3> QED
      BY <2>1, <2>3, <1>l DEF Listed, TypeInv
  <2> QED
    BY <1>11, <2>1, <2>6, <2>7, <2>8, <1>p DEF RowInv
<1>12. ASSUME Misconfigured PROVE RowInv'
  <2>1. now' = now /\ due' = due /\ phase' = phase /\ todo' = todo /\ status' = status
        /\ started' = started /\ queue' = queue /\ result = "sending" /\ result' = "failed"
    BY <1>12 DEF Misconfigured
  <2>2. Row' = Row
    BY <2>1 DEF Row, Older, Key
  <2> QED
    BY <2>1, <2>2, <1>r, <1>l, <1>h, <1>p DEF RowInv, RowOf, Listed, AtHand
<1>13. ASSUME SendSucceeds PROVE RowInv'
  <2>1. now' = now /\ due' = due /\ phase' = phase /\ todo' = todo /\ status' = status
        /\ started' = started /\ due # {} /\ phase # "events"
    BY <1>13, <1>p, <1>h DEF SendSucceeds
  <2>2. Row \in DOMAIN queue /\ queue[Row] \in Item /\ RowOf(Row)
    BY <2>1, RowType, <1>r
  <2>3. DOMAIN queue' = DOMAIN queue /\ \A j \in DOMAIN queue : j # Row => queue'[j] = queue[j]
    BY <1>13, <2>1, SendSucceedsDoes DEF OneRow
  <2>4. /\ queue'[Row].sends = queue[Row].sends + 1 /\ queue'[Row].attempts = queue[Row].attempts
        /\ queue'[Row].escalations = queue[Row].escalations
        /\ queue'[Row].status = queue[Row].status
        /\ queue'[Row].due = queue[Row].due /\ queue'[Row].closes = queue[Row].closes
        /\ queue'[Row].route = queue[Row].route
    BY <1>13, <2>1, <2>2, SendSucceedsDoes DEF OneRow, Item
  <2>5. Row' = Row
    BY <2>1, <2>3, <2>4, RowKept DEF TypeInv
  <2>6. RowOf(Row)' /\ AtHand(Row)'
    BY <1>13, <1>h, <2>2, <1>m, <2>1, <2>4, <2>5 DEF SendSucceeds, Item, RowOf, AtHand
  <2>7. \A i \in DOMAIN queue' : RowOf(i)'
    <3> SUFFICES ASSUME NEW i \in DOMAIN queue', i # Row PROVE RowOf(i)'
      BY <2>5, <2>6 DEF RowOf
    <3> QED
      BY <2>1, <2>3, <1>r DEF RowOf
  <2>8. \A i \in due' : i # Row' \/ result' = "none" => Listed(i)'
    <3> SUFFICES ASSUME NEW i \in due, i # Row PROVE Listed(i)'
      BY <1>13, <2>1, <2>5 DEF SendSucceeds
    <3> QED
      BY <2>1, <2>3, <1>l DEF Listed, TypeInv
  <2> QED
    BY <1>13, <2>1, <2>6, <2>7, <2>8, <1>p DEF RowInv
<1>14. ASSUME SendFails PROVE RowInv'
  <2>1. now' = now /\ due' = due /\ phase' = phase /\ todo' = todo /\ status' = status
        /\ started' = started /\ due # {} /\ phase # "events"
    BY <1>14, <1>p, <1>h DEF SendFails
  <2>2. Row \in DOMAIN queue /\ queue[Row] \in Item /\ RowOf(Row)
    BY <2>1, RowType, <1>r
  <2>3. DOMAIN queue' = DOMAIN queue /\ \A j \in DOMAIN queue : j # Row => queue'[j] = queue[j]
    BY <1>14, <2>1, SendFailsDoes DEF OneRow
  <2> DEFINE n == Escalation(queue[Row].attempts)
  <2>n. n \in {0, 1} /\ (n = 1 => queue[Row].attempts >= MaxAttempts)
    BY <1>14, <2>1, SendFailsDoes
  <2>4. /\ queue'[Row].sends = queue[Row].sends + 1 /\ queue'[Row].attempts = queue[Row].attempts
        /\ queue'[Row].escalations = queue[Row].escalations + n
        /\ queue'[Row].status = queue[Row].status
        /\ queue'[Row].due = queue[Row].due /\ queue'[Row].closes = queue[Row].closes
        /\ queue'[Row].route = queue[Row].route
    BY <1>14, <2>1, <2>2, SendFailsDoes DEF OneRow, Item
  <2>5. Row' = Row
    BY <2>1, <2>3, <2>4, RowKept DEF TypeInv
  <2>6. RowOf(Row)' /\ AtHand(Row)'
    <3>1. /\ result = "sending" /\ AtHand(Row)
          /\ result' = IF queue[Row].attempts >= MaxAttempts THEN "failed" ELSE "retry"
      BY <1>14, <1>h DEF SendFails
    <3>2. queue[Row].sends \in Nat /\ queue[Row].attempts \in Nat /\ queue[Row].escalations = 0
      BY <2>2, <3>1 DEF Item, AtHand
    <3> HIDE DEF n
    <3> QED
      BY <1>m, <2>1, <2>2, <2>n, <2>4, <2>5, <3>1, <3>2 DEF RowOf, AtHand, Waiting
  <2>7. \A i \in DOMAIN queue' : RowOf(i)'
    <3> SUFFICES ASSUME NEW i \in DOMAIN queue', i # Row PROVE RowOf(i)'
      BY <2>5, <2>6 DEF RowOf
    <3> QED
      BY <2>1, <2>3, <1>r DEF RowOf
  <2>8. \A i \in due' : i # Row' \/ result' = "none" => Listed(i)'
    <3> SUFFICES ASSUME NEW i \in due, i # Row PROVE Listed(i)'
      BY <1>14, <2>1, <2>5 DEF SendFails
    <3> QED
      BY <2>1, <2>3, <1>l DEF Listed, TypeInv
  <2> QED
    BY <1>14, <2>1, <2>6, <2>7, <2>8, <1>p DEF RowInv
<1>15. ASSUME Record PROVE RowInv'
  <2>1. now' = now /\ due' = due \ {Row} /\ phase' = phase /\ todo' = todo /\ status' = status
        /\ started' = started /\ due # {} /\ phase # "events" /\ result' = "none" /\ AtHand(Row)
    BY <1>15, <1>p, <1>h DEF Record
  <2>2. Row \in DOMAIN queue /\ queue[Row] \in Item /\ RowOf(Row)
    BY <2>1, RowType, <1>r
  <2>3. DOMAIN queue' = DOMAIN queue /\ \A j \in DOMAIN queue : j # Row => queue'[j] = queue[j]
    BY <1>15, <2>1, RecordDoes DEF OneRow
  <2>4. /\ queue'[Row].sends = queue[Row].sends /\ queue'[Row].attempts = queue[Row].attempts
        /\ queue'[Row].escalations = queue[Row].escalations
        /\ queue'[Row].closes = queue[Row].closes
    BY <1>15, <2>1, <2>2, RecordDoes DEF OneRow, Item
  <2>5. queue[Row].escalations = 1 => queue'[Row].status \notin Waiting
    BY <2>1, <1>15, RecordDoes, <2>2 DEF AtHand, OneRow, Item, Updated, Waiting, Record
  <2>6. \A i \in DOMAIN queue' : RowOf(i)'
    <3> SUFFICES ASSUME NEW i \in DOMAIN queue' PROVE RowOf(i)'
      OBVIOUS
    <3>1. CASE i = Row
      BY <1>t, <1>m, <2>1, <2>2, <2>4, <2>5, <3>1 DEF RowOf, AtHand, Item
    <3>2. CASE i # Row
      BY <2>1, <2>3, <3>2, <1>r DEF RowOf
    <3> QED
      BY <3>1, <3>2
  <2>7. \A i \in due' : Listed(i)'
    <3> SUFFICES ASSUME NEW i \in due, i # Row PROVE Listed(i)'
      BY <2>1
    <3> QED
      BY <2>1, <2>3, <1>l DEF Listed, TypeInv
  <2> QED
    BY <2>1, <2>6, <2>7, <1>p DEF RowInv
<1>16. CASE UNCHANGED vars
  BY <1>16, <1>t, RowsKept, <1>p DEF vars, NewEvents, TypeInv, RowInv, RowsAreSound
<1> QED
  BY <1>1, <1>2, <1>3, <1>4, <1>5, <1>6, <1>7, <1>8, <1>9, <1>10, <1>11, <1>12, <1>13, <1>14, <1>15, <1>16
     DEF Next, EventStep, ListStep, SendStep, ServerStep

-----------------------------------------------------------------------------
\* The rows keep what identifies them, and their events.
Kept ==
    /\ DOMAIN queue' = DOMAIN queue
    /\ \A i \in DOMAIN queue :
          /\ queue'[i].route = queue[i].route /\ queue'[i].of = queue[i].of
          /\ queue'[i].closes = queue[i].closes /\ queue'[i].events = queue[i].events

\* Only a route that takes an event adds a row or adds to one.
LEMMA OnlyMaterializeAdds ==
    ASSUME TypeInv, RowInv, [Next]_vars, \A r \in Routes : ~Materialize(r)
    PROVE  Kept
<1>m. \A r \in Routes : ~Materialize(r)
  OBVIOUS
<1>d. result # "none" => due # {}
  BY DEF RowInv
<1>i. \A i \in DOMAIN queue : queue[i] \in Item
  BY DEF TypeInv
<1>1. ASSUME Clock PROVE Kept
  BY <1>1 DEF Clock, Kept
<1>2. ASSUME NEW e \in Events, Raise(e) PROVE Kept
  BY <1>2 DEF Raise, Kept
<1>3. ASSUME SaveRule PROVE Kept
  BY <1>3, <1>i, SaveRuleDoes DEF Kept, Item
<1>4. ASSUME Crash PROVE Kept
  BY <1>4 DEF Crash, Kept
<1>5. ASSUME Tick PROVE Kept
  BY <1>5 DEF Tick, Kept
<1>6. ASSUME NEW r \in Routes, Materialize(r) PROVE Kept
  BY <1>6, <1>m
<1>7. ASSUME MarkProcessed PROVE Kept
  BY <1>7 DEF MarkProcessed, Kept
<1>8. ASSUME ListJobs PROVE Kept
  BY <1>8 DEF ListJobs, Kept
<1>9. ASSUME ListDigests PROVE Kept
  BY <1>9 DEF ListDigests, Kept
<1>10. ASSUME EndTick PROVE Kept
  BY <1>10 DEF EndTick, Kept
<1>11. ASSUME MarkSending PROVE Kept
  BY <1>11, <1>d, RowType, MarkSendingDoes DEF MarkSending, OneRow, Kept, Item
<1>12. ASSUME Misconfigured PROVE Kept
  BY <1>12 DEF Misconfigured, Kept
<1>13. ASSUME SendSucceeds PROVE Kept
  BY <1>13, <1>d, RowType, SendSucceedsDoes DEF SendSucceeds, OneRow, Kept, Item
<1>14. ASSUME SendFails PROVE Kept
  BY <1>14, <1>d, RowType, SendFailsDoes DEF SendFails, OneRow, Kept, Item
<1>15. ASSUME Record PROVE Kept
  BY <1>15, <1>d, RowType, RecordDoes DEF Record, OneRow, Kept, Item
<1>16. CASE UNCHANGED vars
  BY <1>16 DEF vars, Kept
<1> QED
  BY <1>1, <1>2, <1>3, <1>4, <1>5, <1>6, <1>7, <1>8, <1>9, <1>10, <1>11, <1>12, <1>13, <1>14, <1>15, <1>16
     DEF Next, EventStep, ListStep, SendStep, ServerStep

\* A row that is extended keeps all but its events.
LEMMA ExtendsKeeps ==
    ASSUME TypeInv, NEW r \in Routes, Extends(r), NEW i \in DOMAIN queue
    PROVE  /\ queue'[i].route = queue[i].route /\ queue'[i].of = queue[i].of
           /\ queue'[i].closes = queue[i].closes /\ queue'[i].status = queue[i].status
           /\ queue'[i].due = queue[i].due
           /\ queue'[i].events = IF InBucket(i, r) THEN queue[i].events \cup {First}
                                                   ELSE queue[i].events
<1>1. queue[i] \in Item
  BY DEF TypeInv
<1> QED
  BY <1>1 DEF Extends, Item

\* What a new row is.
LEMMA NewItemIs ==
    ASSUME NEW r, NEW c, NEW i, Adds(r, c), i = Len(queue) + 1
    PROVE  /\ queue'[i].route = r /\ queue'[i].of = started.routes
           /\ queue'[i].closes = c /\ queue'[i].events = {First} /\ queue'[i].status = "queued"
BY DEF Adds, NewItem

\* A digest keeps one row for a window.
LEMMA BucketStep == TypeInv /\ RowInv /\ Buckets /\ [Next]_vars => Buckets'
<1> SUFFICES ASSUME TypeInv, RowInv, Buckets, [Next]_vars PROVE Buckets'
  OBVIOUS
<1>1. CASE Kept
  BY <1>1 DEF Kept, Buckets
<1>2. ASSUME NEW r \in Routes, Materialize(r) PROVE Buckets'
  <2>1. CASE queue' = queue
    BY <2>1 DEF Buckets
  <2>2. ASSUME NEW c \in Nat, Adds(r, c) PROVE Buckets'
    <3> DEFINE n == Len(queue) + 1
    <3>1. /\ queue'[n].route = r /\ queue'[n].of = started.routes /\ queue'[n].closes = c
          /\ DOMAIN queue' = DOMAIN queue \cup {n}
          /\ \A i \in DOMAIN queue : queue'[i] = queue[i]
          /\ r \in Digest => \A i \in DOMAIN queue : ~InBucket(i, r)
          /\ r \in Digest => c = BucketEnd
      BY <2>2, NewItemIs DEF Adds
    <3> HIDE DEF n
    <3>2. \A i \in DOMAIN queue :
             ~(queue'[i].route = r /\ r \in Digest /\ queue'[i].of = started.routes /\ queue'[i].closes = c)
      BY <3>1 DEF InBucket
    <3> QED
      BY <3>1, <3>2 DEF Buckets
  <2>3. CASE Extends(r)
    <3>1. DOMAIN queue' = DOMAIN queue
      BY <2>3 DEF Extends
    <3> QED
      BY <2>3, <3>1, ExtendsKeeps DEF Buckets
  <2> QED
    BY <1>2, <2>1, <2>2, <2>3, MaterializeDoes DEF Leaves
<1> QED
  BY <1>1, <1>2, OnlyMaterializeAdds

-----------------------------------------------------------------------------
\* A route that has taken an event keeps it.
LEMMA TookStays ==
    ASSUME TypeInv, RowInv, [Next]_vars, NEW e, NEW r, Took(e, r)
    PROVE  Took(e, r)'
<1>1. bound'.of = bound.of
  <2>1. bound \in [of : Scenarios, crashes : Nat]
    BY DEF TypeInv
  <2>2. bound' = bound \/ bound' = [bound EXCEPT !.crashes = @ + 1]
    BY DEF Next, EventStep, ListStep, SendStep, ServerStep, Tick, Materialize, MarkProcessed, ListJobs,
           ListDigests, EndTick, MarkSending, Misconfigured, SendSucceeds, SendFails, Record, Clock, Raise,
           SaveRule, Crash, vars
  <2> QED
    BY <2>1, <2>2
<1>2. CASE Kept
  BY <1>1, <1>2 DEF Kept, Took
<1>3. ASSUME NEW q \in Routes, Materialize(q) PROVE Took(e, r)'
  BY <1>1, ExtendsKeeps, <1>3, MaterializeDoes DEF Took, Adds, Extends, Leaves
<1> QED
  BY <1>2, <1>3, OnlyMaterializeAdds

\* A route that is matched with the event takes it.
LEMMA MaterializeTakes ==
    ASSUME TypeInv, Bounds, NEW r \in Routes, Materialize(r), routes = 0
    PROVE  Took(First, r)'
<1>1. started.routes \in Nat /\ started.routes <= 0 /\ bound' = bound /\ First' = First
  BY DEF TypeInv, Bounds, Materialize, First
<1>2. CASE Leaves(r)
  BY <1>1, <1>2 DEF Leaves, Suppressed, HasRecentDispatch, Took
<1>3. ASSUME NEW c \in Nat, Adds(r, c) PROVE Took(First, r)'
  BY <1>3, NewItemIs, <1>1 DEF Adds, Took
<1>4. CASE Extends(r)
  <2>1. PICK i \in DOMAIN queue : InBucket(i, r)
    BY <1>4 DEF Extends
  <2>2. i \in DOMAIN queue' /\ queue'[i].route = r /\ First \in queue'[i].events
    BY <1>4, <2>1, ExtendsKeeps DEF Extends, InBucket
  <2> QED
    BY <1>1, <2>2 DEF Took
<1> QED
  BY <1>2, <1>3, <1>4, MaterializeDoes

\* No event is lost by its routes.
LEMMA TakenStep == TypeInv /\ RowInv /\ Bounds /\ Taken /\ [Next]_vars => Taken'
<1> SUFFICES ASSUME TypeInv, RowInv, Bounds, Taken, [Next]_vars PROVE Taken'
  OBVIOUS
<1> USE DEF eventVars, tickVars
<1>t. routes \in Nat /\ status \in [Events -> {"none", "new", "processed"}]
  BY DEF TypeInv
<1>p. todo # {} => phase = "events"
  BY DEF RowInv
<1>k. \A e, r : Took(e, r) => Took(e, r)'
  BY TookStays
<1>s. routes = 0 =>
        /\ \A e \in Events, r \in Routes : status[e] = "processed" => Took(e, r)
        /\ todo # {} => \A r \in Routes \ left : Took(First, r)
  BY DEF Taken
<1>1. ASSUME Clock PROVE Taken'
  BY <1>1, <1>t, <1>p, <1>k, <1>s DEF Clock, vars, First, Taken
<1>2. ASSUME NEW e \in Events, Raise(e) PROVE Taken'
  BY <1>2, <1>t, <1>p, <1>k, <1>s DEF Raise, vars, First, Taken
<1>3. ASSUME SaveRule PROVE Taken'
  BY <1>3, <1>t DEF SaveRule, Taken
<1>4. ASSUME Crash PROVE Taken'
  BY <1>4, <1>t, <1>p, <1>k, <1>s DEF Crash, vars, First, Taken
<1>5. ASSUME Tick PROVE Taken'
  BY <1>5, <1>k, <1>s DEF Tick, Taken
<1>6. ASSUME NEW r \in Routes, Materialize(r) PROVE Taken'
  BY <1>6, MaterializeTakes, <1>k, <1>s DEF Materialize, First, Taken
<1>7. ASSUME MarkProcessed PROVE Taken'
  BY <1>7, <1>t, <1>k, <1>s DEF MarkProcessed, Taken
<1>8. ASSUME ListJobs PROVE Taken'
  BY <1>8, <1>t, <1>p, <1>k, <1>s DEF ListJobs, vars, First, Taken
<1>9. ASSUME ListDigests PROVE Taken'
  BY <1>9, <1>t, <1>p, <1>k, <1>s DEF ListDigests, vars, First, Taken
<1>10. ASSUME EndTick PROVE Taken'
  BY <1>10, <1>t, <1>p, <1>k, <1>s DEF EndTick, vars, First, Taken
<1>11. ASSUME MarkSending PROVE Taken'
  BY <1>11, <1>t, <1>p, <1>k, <1>s DEF MarkSending, vars, First, Taken
<1>12. ASSUME Misconfigured PROVE Taken'
  BY <1>12, <1>t, <1>p, <1>k, <1>s DEF Misconfigured, vars, First, Taken
<1>13. ASSUME SendSucceeds PROVE Taken'
  BY <1>13, <1>t, <1>p, <1>k, <1>s DEF SendSucceeds, vars, First, Taken
<1>14. ASSUME SendFails PROVE Taken'
  BY <1>14, <1>t, <1>p, <1>k, <1>s DEF SendFails, vars, First, Taken
<1>15. ASSUME Record PROVE Taken'
  BY <1>15, <1>t, <1>p, <1>k, <1>s DEF Record, vars, First, Taken
<1>16. CASE UNCHANGED vars
  BY <1>16, <1>t, <1>p, <1>k, <1>s DEF vars, First, Taken
<1> QED
  BY <1>1, <1>2, <1>3, <1>4, <1>5, <1>6, <1>7, <1>8, <1>9, <1>10, <1>11, <1>12, <1>13, <1>14, <1>15, <1>16
     DEF Next, EventStep, ListStep, SendStep, ServerStep

-----------------------------------------------------------------------------
\* Without a crash no row but the one at hand is in sending.
LEMMA SendingStep ==
    TypeInv /\ RowInv /\ NoOther /\ [Next]_vars /\ bound'.crashes = 0 => NoOther'
<1> SUFFICES ASSUME TypeInv, RowInv, NoOther, [Next]_vars, bound'.crashes = 0 PROVE NoOther'
  OBVIOUS
<1> USE DEF eventVars, tickVars
<1>s. NoOther
  OBVIOUS
<1>p. (due # {} => phase \in {"jobs", "digests"}) /\ (result # "none" => due # {})
  BY DEF RowInv
<1>i. \A i \in DOMAIN queue : queue[i] \in Item
  BY DEF TypeInv
<1>1. ASSUME Clock PROVE NoOther'
  BY <1>1, <1>s DEF Clock, vars, Row, Older, Key, NoOther
<1>2. ASSUME NEW e \in Events, Raise(e) PROVE NoOther'
  BY <1>2, <1>s DEF Raise, vars, Row, Older, Key, NoOther
<1>3. ASSUME SaveRule PROVE NoOther'
  <2>1. DOMAIN queue' = DOMAIN queue /\ \A i \in DOMAIN queue : queue'[i].status = "deleted"
    BY <1>3, <1>i, SaveRuleDoes DEF Item
  <2> QED
    BY <2>1 DEF NoOther
<1>4. ASSUME Crash PROVE NoOther'
  BY <1>4 DEF TypeInv, Crash
<1>5. ASSUME Tick PROVE NoOther'
  BY <1>5, <1>p, <1>s DEF Tick, NoOther
<1>6. ASSUME NEW r \in Routes, Materialize(r) PROVE NoOther'
  <2>1. due = {}
    BY <1>6, <1>p DEF Materialize
  <2>2. \A i \in DOMAIN queue : queue[i].status # "sending"
    BY <2>1, <1>s DEF NoOther
  <2>3. CASE queue' = queue
    BY <2>2, <2>3 DEF NoOther
  <2>4. ASSUME NEW c \in Nat, Adds(r, c) PROVE NoOther'
    BY <2>2, <2>4, NewItemIs DEF Adds, NoOther
  <2>5. CASE Extends(r)
    BY <2>5, <2>2, ExtendsKeeps DEF Extends, NoOther
  <2> QED
    BY <1>6, <2>3, <2>4, <2>5, MaterializeDoes DEF Leaves
<1>7. ASSUME MarkProcessed PROVE NoOther'
  BY <1>7, <1>s DEF MarkProcessed, vars, Row, Older, Key, NoOther
<1>8. ASSUME ListJobs PROVE NoOther'
  BY <1>8, <1>p, <1>s DEF ListJobs, NoOther
<1>9. ASSUME ListDigests PROVE NoOther'
  BY <1>9, <1>p, <1>s DEF ListDigests, NoOther
<1>10. ASSUME EndTick PROVE NoOther'
  BY <1>10, <1>p, <1>s DEF EndTick, NoOther
<1>11. ASSUME MarkSending PROVE NoOther'
  BY <1>11, <1>p, RowType, MarkSendingDoes, RowKept, <1>s DEF MarkSending, OneRow, Item, TypeInv,
     NoOther
<1>12. ASSUME Misconfigured PROVE NoOther'
  BY <1>12, <1>s DEF Misconfigured, vars, Row, Older, Key, NoOther
<1>13. ASSUME SendSucceeds PROVE NoOther'
  BY <1>13, <1>p, RowType, SendSucceedsDoes, RowKept, <1>s DEF SendSucceeds, OneRow, Item,
     TypeInv, NoOther
<1>14. ASSUME SendFails PROVE NoOther'
  BY <1>14, <1>p, RowType, SendFailsDoes, RowKept, <1>s DEF SendFails, OneRow, Item, TypeInv,
     NoOther
<1>15. ASSUME Record PROVE NoOther'
  BY <1>15, <1>p, RowType, RecordDoes, <1>s DEF Record, OneRow, Item, Updated, NoOther
<1>16. CASE UNCHANGED vars
  BY <1>16, <1>s DEF vars, Row, Older, Key, NoOther
<1> QED
  BY <1>1, <1>2, <1>3, <1>4, <1>5, <1>6, <1>7, <1>8, <1>9, <1>10, <1>11, <1>12, <1>13, <1>14, <1>15, <1>16
     DEF Next, EventStep, ListStep, SendStep, ServerStep

-----------------------------------------------------------------------------
LEMMA KnownKept ==
    ASSUME TypeInv, Known, Kept, started' = started, left' = left, todo' = todo,
           \A e \in Events : status[e] = "processed" => status'[e] = "processed"
    PROVE  Known'
<1>1. First' = First
  BY DEF First
<1>2. ASSUME NEW i \in DOMAIN queue PROVE queue[i].events \subseteq Events
  <2>1. queue[i] \in Item
    BY DEF TypeInv
  <2> QED
    BY <2>1 DEF Item
<1> QED
  BY <1>1, <1>2 DEF Known, Kept

LEMMA MaterializeKnown ==
    ASSUME TypeInv, Known, NEW r \in Routes, Materialize(r)
    PROVE  Known'
<1>1. /\ todo' = todo /\ todo # {} /\ status' = status /\ started' = started
      /\ left' = left \ {r} /\ First' = First
  BY DEF Materialize, First, eventVars
<1>2. CASE queue' = queue
  BY <1>1, <1>2 DEF Known
<1>3. ASSUME NEW c \in Nat, Adds(r, c) PROVE Known'
  <2> DEFINE n == Len(queue) + 1
  <2>1. /\ queue'[n].route = r /\ queue'[n].of = started.routes /\ queue'[n].events = {First}
        /\ DOMAIN queue' = DOMAIN queue \cup {n} /\ \A i \in DOMAIN queue : queue'[i] = queue[i]
    BY <1>3, NewItemIs DEF Adds
  <2> HIDE DEF n
  <2> QED
    BY <1>1, <2>1 DEF Known
<1>4. CASE Extends(r)
  <2>1. DOMAIN queue' = DOMAIN queue
    BY <1>4 DEF Extends
  <2> SUFFICES ASSUME NEW i \in DOMAIN queue, NEW e \in queue'[i].events
               PROVE  \/ status[e] = "processed"
                      \/ e = First /\ (queue[i].of = started.routes => queue[i].route \notin left \ {r})
    BY <1>1, <1>4, <2>1, ExtendsKeeps DEF Known
  <2>2. CASE e \in queue[i].events
    BY <2>2 DEF Known
  <2>3. CASE e \notin queue[i].events
    BY <1>4, <2>3, ExtendsKeeps DEF InBucket
  <2> QED
    BY <2>2, <2>3
<1> QED
  BY <1>2, <1>3, <1>4, MaterializeDoes DEF Leaves

\* Without a crash a row holds nothing but what is processed or at hand.
LEMMA KnownStep ==
    TypeInv /\ RowInv /\ Known /\ [Next]_vars /\ bound'.crashes = 0 => Known'
<1> SUFFICES ASSUME TypeInv, RowInv, Known, [Next]_vars, bound'.crashes = 0 PROVE Known'
  OBVIOUS
<1>m. SUFFICES ASSUME \A r \in Routes : ~Materialize(r) PROVE Known'
  BY MaterializeKnown
<1>k. Kept
  BY <1>m, OnlyMaterializeAdds
<1>t. status \in [Events -> {"none", "new", "processed"}]
  BY DEF TypeInv
<1>p. todo # {} => phase = "events"
  BY DEF RowInv
<1>1. ASSUME Clock PROVE Known'
  BY <1>1, <1>t, <1>k, KnownKept DEF Clock, vars, eventVars, tickVars
<1>2. ASSUME NEW e \in Events, Raise(e) PROVE Known'
  BY <1>2, <1>t, <1>k, KnownKept DEF Raise, vars, eventVars, tickVars
<1>3. ASSUME SaveRule PROVE Known'
  BY <1>3, <1>t, <1>k, KnownKept DEF SaveRule, vars, eventVars, tickVars
<1>4. ASSUME Crash PROVE Known'
  BY <1>4 DEF TypeInv, Crash
<1>5. ASSUME Tick PROVE Known'
  BY <1>5, <1>p DEF Tick, eventVars, tickVars, Known
<1>6. ASSUME NEW r \in Routes, Materialize(r) PROVE Known'
  BY <1>6, <1>m
<1>7. ASSUME MarkProcessed PROVE Known'
  <2>1. queue' = queue /\ First \in Events
    BY <1>7, FirstIsFirst DEF MarkProcessed, TypeInv
  <2>2. \A e \in Events : status[e] = "processed" \/ e = First => status'[e] = "processed"
    BY <1>7, <1>t DEF MarkProcessed
  <2>3. ASSUME NEW i \in DOMAIN queue PROVE queue[i].events \subseteq Events
    <3>1. queue[i] \in Item
      BY DEF TypeInv
    <3> QED
      BY <3>1 DEF Item
  <2> QED
    BY <2>1, <2>2, <2>3 DEF Known
<1>8. ASSUME ListJobs PROVE Known'
  BY <1>8, <1>p DEF ListJobs, eventVars, tickVars, Known
<1>9. ASSUME ListDigests PROVE Known'
  BY <1>9, <1>t, <1>k, KnownKept DEF ListDigests, vars, eventVars, tickVars
<1>10. ASSUME EndTick PROVE Known'
  BY <1>10, <1>t, <1>k, KnownKept DEF EndTick, vars, eventVars, tickVars
<1>11. ASSUME MarkSending PROVE Known'
  BY <1>11, <1>t, <1>k, KnownKept DEF MarkSending, vars, eventVars, tickVars
<1>12. ASSUME Misconfigured PROVE Known'
  BY <1>12, <1>t, <1>k, KnownKept DEF Misconfigured, vars, eventVars, tickVars
<1>13. ASSUME SendSucceeds PROVE Known'
  BY <1>13, <1>t, <1>k, KnownKept DEF SendSucceeds, vars, eventVars, tickVars
<1>14. ASSUME SendFails PROVE Known'
  BY <1>14, <1>t, <1>k, KnownKept DEF SendFails, vars, eventVars, tickVars
<1>15. ASSUME Record PROVE Known'
  BY <1>15, <1>t, <1>k, KnownKept DEF Record, vars, eventVars, tickVars
<1>16. CASE UNCHANGED vars
  BY <1>16, <1>t, <1>k, KnownKept DEF vars, eventVars, tickVars
<1> QED
  BY <1>1, <1>2, <1>3, <1>4, <1>5, <1>6, <1>7, <1>8, <1>9, <1>10, <1>11, <1>12, <1>13, <1>14, <1>15, <1>16
     DEF Next, EventStep, ListStep, SendStep, ServerStep

\* Without a crash an event is added once to the rows of a route.
LEMMA OnceStep ==
    ASSUME TypeInv, RowInv, Buckets, Known, Once, [Next]_vars
    PROVE  Once'
<1>1. CASE Kept
  BY <1>1 DEF Kept, Once
<1>2. ASSUME NEW r \in Routes, Materialize(r) PROVE Once'
  <2>1. /\ todo # {} /\ r \in left /\ First \in Events /\ status[First] = "new"
    BY <1>2, FirstIsFirst DEF Materialize, RowInv, TypeInv
  <2>2. \A i \in DOMAIN queue : queue[i].route = r /\ queue[i].of = started.routes => First \notin queue[i].events
    BY <2>1 DEF Known
  <2>3. CASE queue' = queue
    BY <2>3 DEF Once
  <2>4. ASSUME NEW c \in Nat, Adds(r, c) PROVE Once'
    <3> DEFINE n == Len(queue) + 1
    <3>1. /\ queue'[n].route = r /\ queue'[n].of = started.routes /\ queue'[n].events = {First}
          /\ DOMAIN queue' = DOMAIN queue \cup {n} /\ \A i \in DOMAIN queue : queue'[i] = queue[i]
      BY <2>4, NewItemIs DEF Adds
    <3> HIDE DEF n
    <3> QED
      BY <2>2, <3>1 DEF Once
  <2>5. CASE Extends(r)
    <3>1. DOMAIN queue' = DOMAIN queue
      BY <2>5 DEF Extends
    <3> SUFFICES ASSUME NEW i \in DOMAIN queue, NEW j \in DOMAIN queue, i # j,
                        queue'[i].route = queue'[j].route, queue'[i].of = queue'[j].of
                 PROVE  queue'[i].events \cap queue'[j].events = {}
      BY <3>1 DEF Once
    <3>2. queue[i].route = queue[j].route /\ queue[i].of = queue[j].of
      BY <2>5, ExtendsKeeps
    <3>3. queue[i].events \cap queue[j].events = {}
      BY <3>2 DEF Once
    <3>4. ~(InBucket(i, r) /\ InBucket(j, r))
      BY <2>5 DEF Buckets, InBucket, Extends
    <3>5. CASE InBucket(i, r)
      BY <2>5, <3>4, <3>5, ExtendsKeeps, <2>2, <3>2, <3>3 DEF InBucket
    <3>6. CASE InBucket(j, r)
      BY <2>5, <3>4, <3>6, ExtendsKeeps, <2>2, <3>2, <3>3 DEF InBucket
    <3>7. CASE ~InBucket(i, r) /\ ~InBucket(j, r)
      BY <2>5, <3>7, ExtendsKeeps, <3>3
    <3> QED
      BY <3>5, <3>6, <3>7
  <2> QED
    BY <1>2, <2>3, <2>4, <2>5, MaterializeDoes DEF Leaves
<1> QED
  BY <1>1, <1>2, OnlyMaterializeAdds

\* A crash counts, so that there was none before a step either.
LEMMA FreshStep == TypeInv /\ RowInv /\ Buckets /\ Fresh /\ [Next]_vars => Fresh'
<1> SUFFICES ASSUME TypeInv, RowInv, Buckets, Fresh, [Next]_vars, bound'.crashes = 0
             PROVE  Once' /\ NoOther' /\ Known'
  BY DEF Fresh
<1>1. bound.crashes = 0
  <2>1. bound \in [of : Scenarios, crashes : Nat]
    BY DEF TypeInv
  <2>2. bound' = bound \/ bound' = [bound EXCEPT !.crashes = @ + 1]
    BY DEF Next, EventStep, ListStep, SendStep, ServerStep, Tick, Materialize, MarkProcessed, ListJobs,
           ListDigests, EndTick, MarkSending, Misconfigured, SendSucceeds, SendFails, Record, Clock, Raise,
           SaveRule, Crash, vars
  <2>3. bound.crashes \in Nat /\ (bound' = bound \/ bound'.crashes = bound.crashes + 1)
    BY <2>1, <2>2
  <2> QED
    BY <2>3
<1>2. Once /\ NoOther /\ Known
  BY <1>1 DEF Fresh
<1> QED
  BY <1>2, OnceStep, SendingStep, KnownStep

-----------------------------------------------------------------------------
LEMMA InitInv == Init => IInv
<1> SUFFICES ASSUME Init PROVE IInv
  OBVIOUS
<1>1. PICK sc \in Scenarios : bound = [of |-> sc, crashes |-> 0]
  BY DEF Init
<1>2. sc.time \in Nat /\ sc.edits \in Nat /\ sc.crashes \in Nat
  BY AlertAssumption
<1>3. queue = <<>> /\ DOMAIN queue = {} /\ queue \in Seq(Item)
  BY DEF Init
<1>4. TypeInv
  BY <1>1, <1>3 DEF Init, TypeInv, NoTick
<1>5. Bounds
  BY <1>1, <1>2, <1>3 DEF Init, Bounds, NoTick
<1>6. RowInv /\ Buckets /\ Taken
  BY <1>3 DEF Init, RowInv, Buckets, Taken
<1>7. Fresh
  BY <1>3 DEF Fresh, Once, NoOther, Known
<1> QED
  BY <1>4, <1>5, <1>6, <1>7 DEF IInv

LEMMA InvHolds == Spec => []IInv
<1>1. IInv /\ [Next]_vars => IInv'
  <2> SUFFICES ASSUME IInv, [Next]_vars PROVE IInv'
    OBVIOUS
  <2> USE DEF IInv
  <2>1. TypeInv' /\ Bounds' /\ RowInv'
    BY TypeStep, BoundsStep, RowStep
  <2>2. Buckets' /\ Taken' /\ Fresh'
    BY BucketStep, TakenStep, FreshStep
  <2> QED
    BY <2>1, <2>2
<1> QED
  BY <1>1, InitInv, PTL DEF Spec

\* What TypeOK says beyond the types: the bounds.
LEMMA InvTypes == IInv => TypeOK
<1> SUFFICES ASSUME TypeInv, Bounds, RowInv PROVE TypeOK
  BY DEF IInv
<1>t. /\ now \in Nat /\ routes \in Nat /\ started.now \in Nat /\ started.routes \in Nat
      /\ bound.of.time \in Nat /\ bound.of.crashes \in Nat /\ bound.crashes \in Nat
      /\ bound.of.edits \in Nat
  BY AlertAssumption DEF TypeInv
<1>1. now \in 0..bound.of.time /\ routes \in 0..bound.of.edits /\ bound.crashes \in 0..bound.of.crashes
  BY <1>t DEF Bounds
<1>2. created \in [Events -> 0..bound.of.time]
  BY <1>t DEF TypeInv, Bounds
<1>3. started \in [now : 0..bound.of.time, routes : 0..bound.of.edits]
  BY <1>t DEF Bounds, TypeInv
<1>4. queue \in Seq(Items)
  <2>1. ASSUME NEW i \in DOMAIN queue PROVE queue[i] \in Items
    <3>1. queue[i] \in Item /\ RowOf(i) /\ queue[i].of <= routes
      BY DEF TypeInv, RowInv, Bounds
    <3>2. queue[i].of \in 0..bound.of.edits
      BY <1>t, <3>1 DEF Bounds, Item
    <3>3. queue[i].attempts \in 0..MaxAttempts
      BY <3>1, AlertAssumption DEF RowOf, Item
    <3> QED
      BY <3>1, <3>2, <3>3 DEF Item, Items
  <2>2. queue \in Seq(Item)
    BY DEF TypeInv
  <2> QED
    BY <2>1, <2>2
<1> QED
  BY <1>1, <1>2, <1>3, <1>4 DEF TypeInv, TypeOK

\* A row is sent once an attempt and escalated once.
LEMMA InvSends == IInv => SendsBounded
<1> SUFFICES ASSUME TypeInv, RowInv, NEW i \in DOMAIN queue
             PROVE  /\ queue[i].sends <= MaxAttempts
                    /\ queue[i].escalations <= 1
                    /\ queue[i].escalations = 1 => queue[i].status \notin Waiting
  BY DEF IInv, SendsBounded
<1>1. queue[i] \in Item /\ RowOf(i)
  BY DEF TypeInv, RowInv
<1> QED
  BY <1>1, AlertAssumption DEF RowOf, Item

\* For any number of events, routes and attempts, and whenever the process ends or the
\* rule is saved: an event that is marked processed is with each of its routes, no event
\* is with a route twice, one row is being sent at a time, and none more often than its
\* limit (the queue of dispatcher.go).
THEOREM QueueIsSound == Spec => []QueueInv
<1>1. IInv => QueueInv
  <2> SUFFICES ASSUME IInv PROVE QueueInv
    OBVIOUS
  <2>1. TypeOK /\ SendsBounded
    BY InvTypes, InvSends
  <2>2. ProcessedIsQueued
    BY DEF IInv, Taken, Took, ProcessedIsQueued
  <2>3. OncePerEvent
    BY DEF IInv, Fresh, Once, OncePerEvent
  <2>4. SendingIsCurrent
    BY DEF IInv, Fresh, NoOther, SendingIsCurrent
  <2> QED
    BY <2>1, <2>2, <2>3, <2>4 DEF QueueInv
<1> QED
  BY <1>1, InvHolds, PTL

\* A digest that was sent or tried takes no further event, though its row stays the one
\* of its window: its window had ended, and the events go to the window of their tick
\* (UpsertAlertRouteDigest).
THEOREM DigestsAreClosed == Spec => DigestClosed
<1>1. IInv /\ [Next]_vars
        => \A i \in DOMAIN queue : queue[i].attempts > 0 => queue'[i].events = queue[i].events
  <2> SUFFICES ASSUME IInv, [Next]_vars, NEW i \in DOMAIN queue, queue[i].attempts > 0
               PROVE  queue'[i].events = queue[i].events
    OBVIOUS
  <2> USE DEF IInv
  <2>1. CASE Kept
    BY <2>1 DEF Kept
  <2>2. ASSUME NEW r \in Routes, Materialize(r) PROVE queue'[i].events = queue[i].events
    <3>1. CASE queue' = queue
      BY <3>1
    <3>2. ASSUME NEW c \in Nat, Adds(r, c) PROVE queue'[i].events = queue[i].events
      BY <3>2 DEF Adds
    <3>3. CASE Extends(r)
      <4>1. queue[i].closes <= started.now
        BY <2>2 DEF RowInv, RowOf, Materialize
      <4>2. started.now \in Nat /\ BucketEnd \in Nat /\ BucketEnd > started.now
        BY WindowEnds DEF TypeInv
      <4>3. ~InBucket(i, r)
        BY <4>1, <4>2 DEF InBucket
      <4> QED
        BY <3>3, <4>3, ExtendsKeeps
    <3> QED
      BY <2>2, <3>1, <3>2, <3>3, MaterializeDoes DEF Leaves
  <2> QED
    BY <2>1, <2>2, OnlyMaterializeAdds
<1> QED
  BY <1>1, InvHolds, PTL DEF Spec, DigestClosed
=============================================================================
