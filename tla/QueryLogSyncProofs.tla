--------------------------- MODULE QueryLogSyncProofs ---------------------------
(***************************************************************************)
(* The query log for any scenario: any number of queries, syncs, requests  *)
(* and edits, any limit of a batch, and any number of failures and         *)
(* restarts.                                                               *)
(*                                                                         *)
(* The invariants, each relative to those before it:                       *)
(*                                                                         *)
(*   TypeInv    the types of the fields;                                   *)
(*   DataInv    what is read stays in the range of what it was read from:  *)
(*              logs only grow, incidents are only appended;               *)
(*   LockInv    only the full sync under way is behind activeSyncs;        *)
(*   CaughtUp   a sync carries everything up to its new watermark, either  *)
(*              recorded already or still in its hands: NothingSkipped;    *)
(*   OnceInv    a batch holds what nobody has evaluated: ViolationOnce;    *)
(*   OneInv     a closed incident means that the edit is over:             *)
(*              OneOpenIncident;                                           *)
(*   CountsViolations is inductive itself, once sums are understood.       *)
(***************************************************************************)
EXTENDS QueryLogSync, FiniteSetTheorems, WellFoundedInduction, TLAPS

Filing == {"find", "count", "create"}
Past == {"policies", "evaluate", "end"} \cup Filing
Ats == {"idle", "enter", "begin", "mark", "fetch", "insert", "done"} \cup Past

Work == [at : Ats, locks : BOOLEAN, start : Nat, from : Nat, rows : SUBSET Queries,
         new : Nat, err : BOOLEAN, incident : Nat]
Incident == [status : Statuses, count : Nat \ {0}, seen : Nat]
Edit == [at : {"idle", "write", "done"}, incident : Nat, status : Statuses]

TypeInv ==
    /\ now \in Nat \ {0}
    /\ ended \in [Queries -> Nat]
    /\ log \in SUBSET Queries
    /\ harvested \in SUBSET Queries
    /\ mark \in Nat
    /\ active \in BOOLEAN
    /\ work \in [Procs -> Work]
    /\ violations \in [Queries \cup Blocked -> Nat]
    /\ incidents \in Seq(Incident)
    /\ edit \in [Edits -> Edit]
    /\ bound \in [of : Scenarios, faults : Nat, crashes : Nat]

DataOf(p) ==
    /\ work[p].rows \subseteq log
    /\ work[p].at \notin {"insert", "policies", "evaluate"} \cup Filing => work[p].rows = {}
    /\ work[p].at = "insert" => work[p].rows # {}
    /\ p \notin Syncs => work[p].rows = {}
    /\ work[p].start <= now /\ work[p].from <= now /\ work[p].new <= now
    /\ work[p].incident <= Len(incidents)
    /\ work[p].at = "count" => work[p].incident > 0

DataInv ==
    /\ now <= bound.of.time
    /\ mark <= now
    /\ harvested \subseteq log
    /\ \A q \in Queries : ended[q] <= now
    /\ \A q \in log : ended[q] > 0
    /\ \A p \in Procs : DataOf(p)
    /\ \A e \in Edits : edit[e].at = "write" => edit[e].incident \in 1 .. Len(incidents)

Taking == bound.of.fulls \cup bound.of.singles \cup bound.of.blocked \cup bound.of.manuals

LockOf(p) ==
    /\ work[p].locks => p \in Fulls
    /\ work[p].at \in {"idle", "enter"} => ~work[p].locks
    /\ work[p].at = "enter" => p \in Fulls
    /\ p \in Fulls /\ work[p].at \notin {"idle", "enter"} => work[p].locks
    /\ p \in Syncs => work[p].at # "done"
    /\ p \notin Syncs => work[p].at \in {"idle", "done"} \cup Filing
    /\ work[p].at # "idle" => p \in Taking

LockInv ==
    /\ active = (\E p \in Procs : work[p].locks)
    /\ \A p, r \in Procs : work[p].locks /\ work[r].locks => p = r
    /\ \A p \in Procs : LockOf(p)

\* A nonempty set of naturals with a bound has a greatest element.
LEMMA Greatest ==
    ASSUME NEW n \in Nat, NEW S \in SUBSET (0 .. n), S # {}
    PROVE  \E x \in S : \A y \in S : x >= y
<1> DEFINE R == {ss \in Nat \X Nat : ss[1] < ss[2]}
           T == {n - x : x \in S}
<1>1. IsWellFoundedOn(R, Nat)
  BY NatLessThanWellFounded DEF OpToRel
<1>2. T \subseteq Nat /\ T # {}
  <2>1. \A x \in S : n - x \in Nat
    OBVIOUS
  <2> QED
    BY <2>1
<1>3. PICK t \in T : \A u \in T : ~ (<<u, t>> \in R)
  <2> HIDE DEF R, T
  <2> QED
    BY <1>1, <1>2, WFMin
<1>4. PICK x \in S : t = n - x
  OBVIOUS
<1>5. ASSUME NEW y \in S PROVE x >= y
  <2>1. n - y \in T /\ n - y \in Nat /\ t \in Nat
    BY <1>2
  <2>2. ~ (n - y < t)
    BY <1>3, <2>1
  <2> QED
    BY <1>4, <2>2
<1> QED
  BY <1>5

\* What the code keeps of a batch as the new watermark: the latest of its times.
LEMMA LatestIsLast ==
    ASSUME TypeInv, DataInv, NEW rows \in SUBSET Queries, rows # {}
    PROVE  /\ \E x \in rows : Latest(rows) = ended[x]
           /\ \A y \in rows : ended[y] <= Latest(rows)
           /\ Latest(rows) \in Nat /\ Latest(rows) <= now
<1> DEFINE S == {ended[q] : q \in rows}
<1>1. S \in SUBSET (0 .. now) /\ S # {} /\ now \in Nat
  BY DEF TypeInv, DataInv
<1>2. \E x \in S : \A y \in S : x >= y
  <2> HIDE DEF S
  <2> QED
    BY <1>1, Greatest
<1>3. Latest(rows) \in S /\ \A y \in S : Latest(rows) >= y
  <2> HIDE DEF S
  <2>1. Max(S) \in S /\ \A y \in S : Max(S) >= y
    BY <1>2 DEF Max
  <2> QED
    BY <2>1 DEF Latest, S
<1>4. \A y \in rows : ended[y] \in S
  OBVIOUS
<1> HIDE DEF S
<1>5. \A y \in rows : ended[y] <= Latest(rows)
  BY <1>1, <1>3, <1>4
<1> QED
  BY <1>1, <1>3, <1>5 DEF S


\* The places of a sync or request.
LEMMA Places ==
    \A a \in {"idle", "enter", "begin", "mark", "fetch", "insert", "policies", "evaluate",
              "find", "count", "create", "end", "done"} : a \in Ats
BY DEF Ats, Past, Filing

\* An incident counts an occurrence.
LEMMA OneMore ==
    ASSUME NEW x \in Incident, NEW t \in Nat
    PROVE  [x EXCEPT !.count = @ + 1, !.seen = t] \in Incident
<1>1. x.count + 1 \in Nat \ {0}
  BY DEF Incident
<1>2. \A c \in Nat \ {0} : [x EXCEPT !.count = c, !.seen = t] \in Incident
  BY DEF Incident
<1> QED
  BY <1>1, <1>2

\* One incident is changed, and stays one.
LEMMA IncidentKept ==
    ASSUME incidents \in Seq(Incident), NEW i \in 1 .. Len(incidents), NEW x \in Incident
    PROVE  [incidents EXCEPT ![i] = x] \in Seq(Incident)
OBVIOUS

\* A fault is counted.
LEMMA FaultKeeps ==
    ASSUME bound \in [of : Scenarios, faults : Nat, crashes : Nat], Fault
    PROVE  /\ bound' \in [of : Scenarios, faults : Nat, crashes : Nat]
           /\ bound'.of = bound.of /\ bound'.crashes = bound.crashes /\ bound'.faults > bound.faults
BY DEF Fault

\* Every step keeps the types.
LEMMA TypeStep == TypeInv /\ DataInv /\ [Next]_vars => TypeInv'
<1> SUFFICES ASSUME TypeInv, DataInv, [Next]_vars PROVE TypeInv'
  OBVIOUS
<1>n. now \in Nat \ {0} /\ mark \in Nat
  BY DEF TypeInv
<1>l. log \in SUBSET Queries
  BY DEF TypeInv
<1>w. work \in [Procs -> Work]
  BY DEF TypeInv
<1>i. incidents \in Seq(Incident)
  BY DEF TypeInv
<1>e. edit \in [Edits -> Edit]
  BY DEF TypeInv
<1>b. bound \in [of : Scenarios, faults : Nat, crashes : Nat]
  BY DEF TypeInv
<1>s. Syncs \subseteq Procs
  BY DEF Procs
<1>q. bound.of.queries \subseteq Queries /\ bound.of.edits \subseteq Edits
  BY <1>b, QueryLogAssumption
<1>1. ASSUME Elapse PROVE TypeInv'
  BY <1>1 DEF Elapse, TypeInv, clickhouse, found
<1>2. ASSUME Flush PROVE TypeInv'
  BY <1>2 DEF Flush, TypeInv, clickhouse, found
<1>3. ASSUME NEW q \in bound.of.queries, Finish(q) PROVE TypeInv'
  BY <1>3, <1>q DEF Finish, TypeInv, clickhouse, found
<1>4. ASSUME NEW p \in Syncs, Trigger(p) PROVE TypeInv'
  <2>1. work' \in [Procs -> Work]
    BY <1>4, <1>w, <1>s, <1>n, Places DEF Trigger, At, Go, Work
  <2> QED
    BY <1>4, <1>b, <2>1 DEF Trigger, TypeInv, clickhouse, found
<1>5. ASSUME NEW p \in Syncs, Enter(p) PROVE TypeInv'
  <2>1. work' \in [Procs -> Work]
    BY <1>5, <1>w, <1>s, <1>n, Places DEF Enter, At, Go, Work
  <2> QED
    BY <1>5, <1>b, <2>1 DEF Enter, TypeInv, clickhouse, found
<1>6. ASSUME NEW p \in Syncs, Begin(p) PROVE TypeInv'
  <2>1. work' \in [Procs -> Work]
    BY <1>6, <1>w, <1>s, <1>n, Places DEF Begin, At, Work
  <2> QED
    BY <1>6, <1>b, <2>1 DEF Begin, TypeInv, clickhouse, found
<1>7. ASSUME NEW p \in Syncs, ReadMark(p) PROVE TypeInv'
  <2>1. work' \in [Procs -> Work]
    BY <1>7, <1>w, <1>s, <1>n, Places DEF ReadMark, At, Work
  <2> QED
    BY <1>7, <1>b, <2>1, FaultKeeps DEF ReadMark, TypeInv, clickhouse, found
<1>8. ASSUME NEW p \in Syncs, Fetch(p) PROVE TypeInv'
  <2>1. PICK rows \in SUBSET Queries :
          work' = IF rows = {} THEN [work EXCEPT ![p].at = "end", ![p].new = work[p].from]
                  ELSE [work EXCEPT ![p].at = "insert", ![p].rows = rows]
    BY <1>8, <1>l DEF Fetch, Batches
  <2>2. work' \in [Procs -> Work]
    BY <2>1, <1>w, <1>s, Places DEF Work
  <2> QED
    BY <1>8, <2>2 DEF Fetch, TypeInv, clickhouse, found
<1>9. ASSUME NEW p \in Syncs, FetchFails(p) PROVE TypeInv'
  <2>1. work' \in [Procs -> Work]
    BY <1>9, <1>w, <1>s, <1>n, Places DEF FetchFails, At, Fail, Work
  <2> QED
    BY <1>9, <1>b, <2>1, FaultKeeps DEF FetchFails, Fail, TypeInv, clickhouse, found
<1>10. ASSUME NEW p \in Syncs, InsertQueryLogBatch(p) PROVE TypeInv'
  <2>1. work[p].rows \in SUBSET Queries
    BY <1>w, <1>s DEF Work
  <2>2. Latest(work[p].rows) \in Nat
    BY <1>10, <2>1, LatestIsLast DEF InsertQueryLogBatch, At, DataInv, DataOf, Procs
  <2>3. work' \in [Procs -> Work]
    BY <1>10, <1>w, <1>s, <2>2, Places DEF InsertQueryLogBatch, Work
  <2> QED
    BY <1>10, <2>1, <2>3 DEF InsertQueryLogBatch, TypeInv, clickhouse, found
<1>11. ASSUME NEW p \in Syncs, InsertFails(p) PROVE TypeInv'
  <2>1. work' \in [Procs -> Work]
    BY <1>11, <1>w, <1>s, <1>n, Places DEF InsertFails, At, Fail, Work
  <2> QED
    BY <1>11, <1>b, <2>1, FaultKeeps DEF InsertFails, Fail, TypeInv, clickhouse, found
<1>12. ASSUME NEW p \in Syncs, GetPolicies(p) PROVE TypeInv'
  <2>1. work' \in [Procs -> Work]
    BY <1>12, <1>w, <1>s, <1>n, Places DEF GetPolicies, At, Go, Work
  <2> QED
    BY <1>12, <1>b, <2>1, FaultKeeps DEF GetPolicies, TypeInv, clickhouse, found
<1>13. ASSUME NEW p \in Syncs, Evaluate(p) PROVE TypeInv'
  <2>1. work' \in [Procs -> Work]
    BY <1>13, <1>w, <1>s, <1>n, Places DEF Evaluate, At, Work
  <2> QED
    BY <1>13, <1>b, <2>1, FaultKeeps DEF Evaluate, TypeInv, clickhouse, found
<1>14. ASSUME NEW p \in Syncs, Evaluated(p) PROVE TypeInv'
  <2>1. work' \in [Procs -> Work]
    BY <1>14, <1>w, <1>s, <1>n, Places DEF Evaluated, At, Go, Work
  <2> QED
    BY <1>14, <1>b, <2>1 DEF Evaluated, TypeInv, clickhouse, found
<1>15. ASSUME NEW p \in Syncs, End(p) PROVE TypeInv'
  <2>1. work' \in [Procs -> Work]
    BY <1>15, <1>w, <1>s, <1>n, Places DEF End, NoWork, Work
  <2>2. mark' \in Nat
    BY <1>15, <1>w, <1>s, <1>n DEF End, Work
  <2> QED
    BY <1>15, <1>b, <2>1, <2>2, FaultKeeps DEF End, TypeInv, clickhouse, found
<1>16. ASSUME NEW p \in Procs, BlockQuery(p) PROVE TypeInv'
  <2>1. work' \in [Procs -> Work]
    BY <1>16, <1>w, <1>s, <1>n, Places DEF BlockQuery, At, Go, Work
  <2> QED
    BY <1>16, <1>b, <2>1, FaultKeeps DEF BlockQuery, TypeInv, clickhouse, found
<1>17. ASSUME NEW p \in Procs, CreateIncidentFromViolation(p) PROVE TypeInv'
  <2>1. work' \in [Procs -> Work]
    BY <1>17, <1>w, <1>s, <1>n, Places DEF CreateIncidentFromViolation, At, Go, Work
  <2> QED
    BY <1>17, <1>b, <2>1 DEF CreateIncidentFromViolation, TypeInv, clickhouse, found
<1>18. ASSUME NEW p \in Procs, FindIncident(p) PROVE TypeInv'
  <2>1. ASSUME NEW i \in LastSeen PROVE i \in Nat
    BY <2>1, <1>i DEF LastSeen, Open
  <2>2. work' \in [Procs -> Work]
    BY <1>18, <1>w, <2>1, Places DEF FindIncident, Return, Go, Work
  <2> QED
    BY <1>18, <1>b, <2>2, FaultKeeps DEF FindIncident, TypeInv, clickhouse, found
<1>19. ASSUME NEW p \in Procs, CountOccurrence(p) PROVE TypeInv'
  <2>1. work' \in [Procs -> Work]
    BY <1>19, <1>w, <1>s, <1>n, Places DEF CountOccurrence, Return, Go, Work
  <2>2. incidents' \in Seq(Incident)
    <3>1. work[p].incident \in 1 .. Len(incidents)
      BY <1>19, <1>w DEF CountOccurrence, At, DataInv, DataOf, Work
    <3>0. incidents[work[p].incident] \in Incident
      BY <1>i, <3>1
    <3> DEFINE x == [incidents[work[p].incident] EXCEPT !.count = @ + 1, !.seen = now]
    <3>2. x \in Incident
      BY <1>n, <3>0, OneMore
    <3>3. CASE incidents' = [incidents EXCEPT ![work[p].incident] = x]
      BY <1>i, <3>1, <3>2, <3>3, IncidentKept
    <3> QED
      BY <1>19, <1>i, <3>3 DEF CountOccurrence
  <2> QED
    BY <1>19, <1>b, <2>1, <2>2, FaultKeeps DEF CountOccurrence, TypeInv, clickhouse, found
<1>20. ASSUME NEW p \in Procs, CreateIncident(p) PROVE TypeInv'
  <2>1. work' \in [Procs -> Work]
    BY <1>20, <1>w, <1>s, <1>n, Places DEF CreateIncident, Return, Go, Work
  <2>2. incidents' \in Seq(Incident)
    <3> DEFINE x == [status |-> "open", count |-> 1, seen |-> now]
    <3>1. x \in Incident
      BY <1>n DEF Incident, Statuses, OpenStatuses
    <3>2. Append(incidents, x) \in Seq(Incident)
      <4> HIDE DEF x
      <4> QED
        BY <1>i, <3>1
    <3> QED
      BY <1>20, <1>i, <3>2 DEF CreateIncident
  <2> QED
    BY <1>20, <1>b, <2>1, <2>2, FaultKeeps DEF CreateIncident, TypeInv, clickhouse, found
<1>21. ASSUME NEW e \in bound.of.edits, ReadIncident(e) PROVE TypeInv'
  <2>1. edit' \in [Edits -> Edit]
    <3>1. PICK i \in DOMAIN incidents, want \in bound.of.wanted :
            edit' = [edit EXCEPT ![e] = [at |-> "write", incident |-> i,
                        status |-> IF want = Keep THEN incidents[i].status ELSE want]]
      BY <1>21 DEF ReadIncident
    <3>2. i \in Nat /\ incidents[i].status \in Statuses
      <4>1. i \in Nat /\ incidents[i] \in Incident
        BY <1>i, <3>1
      <4> QED
        BY <4>1 DEF Incident
    <3>3. want = Keep \/ want \in Statuses
      BY <1>b, <3>1, QueryLogAssumption
    <3> QED
      BY <1>e, <3>1, <3>2, <3>3 DEF Edit
  <2> QED
    BY <1>21, <1>b, <2>1 DEF ReadIncident, TypeInv, clickhouse, found
<1>22. ASSUME NEW e \in bound.of.edits, WriteIncident(e) PROVE TypeInv'
  <2>1. incidents' \in Seq(Incident)
    <3>1. edit[e].incident \in 1 .. Len(incidents) /\ edit[e].status \in Statuses
      BY <1>22, <1>e, <1>q DEF WriteIncident, DataInv, Edit
    <3>0. incidents[edit[e].incident] \in Incident
      BY <1>i, <3>1
    <3> DEFINE x == [incidents[edit[e].incident] EXCEPT !.status = edit[e].status]
    <3>2. x \in Incident
      BY <1>n, <3>0, <3>1 DEF Incident
    <3>3. CASE incidents' = [incidents EXCEPT ![edit[e].incident] = x]
      BY <1>i, <3>1, <3>2, <3>3, IncidentKept
    <3> QED
      BY <1>22, <1>i, <3>3 DEF WriteIncident
  <2>2. edit' \in [Edits -> Edit]
    BY <1>22, <1>e, <1>q DEF WriteIncident, Edit, NoEdit, Statuses, OpenStatuses
  <2> QED
    BY <1>22, <1>b, <2>1, <2>2, FaultKeeps DEF WriteIncident, TypeInv, clickhouse, found
<1>23. ASSUME Crash PROVE TypeInv'
  <2>1. work' \in [Procs -> Work]
    BY <1>23, <1>w, <1>s, <1>n, Places DEF Crash, NoWork, At, Work
  <2>2. edit' \in [Edits -> Edit]
    BY <1>23, <1>e, <1>q DEF Crash, Edit, NoEdit, Statuses, OpenStatuses
  <2>3. bound' \in [of : Scenarios, faults : Nat, crashes : Nat]
    BY <1>23, <1>b DEF Crash
  <2> QED
    BY <1>23, <1>b, <2>1, <2>2, <2>3 DEF Crash, TypeInv, clickhouse, found
<1>24. CASE UNCHANGED vars
  BY <1>24 DEF TypeInv, vars, clickhouse, found
<1> QED
  BY <1>1, <1>2, <1>3, <1>4, <1>5, <1>6, <1>7, <1>8, <1>9, <1>10, <1>11, <1>12, <1>13, <1>14,
     <1>15, <1>16, <1>17, <1>18, <1>19, <1>20, <1>21, <1>22, <1>23, <1>24
     DEF Next, Harvest, Upsert, Procs


(* What each step makes of the variables of its process, with its guard; it leaves *)
(* those of the others alone.                                                      *)
Alone(p) == \A r \in Procs \ {p} : work'[r] = work[r]

\* Trigger: the guard and the effect.
LEMMA TriggerDoes ==
    ASSUME work \in [Procs -> Work], NEW p \in Procs, Trigger(p)
    PROVE  /\ Alone(p)
           /\ work[p].at = "idle" /\
              \/ p \in Fulls /\ work'[p] = [work[p] EXCEPT !.at = "enter"]
              \/ p \notin Fulls /\ work'[p] = [work[p] EXCEPT !.at = "begin"]
BY DEF Alone, Trigger, At, Go, Work

\* Enter: the guard and the effect.
LEMMA EnterDoes ==
    ASSUME work \in [Procs -> Work], NEW p \in Procs, Enter(p)
    PROVE  /\ Alone(p)
           /\ work[p].at = "enter" /\
              \/ work'[p] = [work[p] EXCEPT !.at = "idle"]
              \/ work'[p] = [work[p] EXCEPT !.at = "begin", !.locks = TRUE]
BY DEF Alone, Enter, At, Go, Work

\* Begin: the guard and the effect.
LEMMA BeginDoes ==
    ASSUME work \in [Procs -> Work], NEW p \in Procs, Begin(p)
    PROVE  /\ Alone(p)
           /\ work[p].at = "begin"
              /\ work'[p] = [work[p] EXCEPT !.at = "mark", !.start = now]
BY DEF Alone, Begin, At, Work

\* ReadMark: the guard and the effect.
LEMMA ReadMarkDoes ==
    ASSUME work \in [Procs -> Work], NEW p \in Procs, ReadMark(p)
    PROVE  /\ Alone(p)
           /\ work[p].at = "mark" /\
              \/ work'[p] = [work[p] EXCEPT !.at = "fetch", !.from = mark]
              \/ work'[p] = [work[p] EXCEPT !.at = "fetch", !.from = 0]
BY DEF Alone, ReadMark, At, Work

\* Fetch: the guard and the effect.
LEMMA FetchDoes ==
    ASSUME work \in [Procs -> Work], NEW p \in Procs, Fetch(p)
    PROVE  /\ Alone(p)
           /\ work[p].at = "fetch" /\ \E rows \in Batches(work[p].from) :
              \/ rows = {} /\ work'[p] = [work[p] EXCEPT !.at = "end", !.new = work[p].from]
              \/ rows # {} /\ work'[p] = [work[p] EXCEPT !.at = "insert", !.rows = rows]
BY DEF Alone, Fetch, At, Work

\* FetchFails: the guard and the effect.
LEMMA FetchFailsDoes ==
    ASSUME work \in [Procs -> Work], NEW p \in Procs, FetchFails(p)
    PROVE  /\ Alone(p)
           /\ work[p].at = "fetch"
              /\ work'[p] = [work[p] EXCEPT !.at = "end", !.err = TRUE, !.rows = {}]
BY DEF Alone, FetchFails, At, Fail, Work

\* InsertQueryLogBatch: the guard and the effect.
LEMMA InsertQueryLogBatchDoes ==
    ASSUME work \in [Procs -> Work], NEW p \in Procs, InsertQueryLogBatch(p)
    PROVE  /\ Alone(p)
           /\ work[p].at = "insert"
              /\ work'[p] = [work[p] EXCEPT !.at = "policies", !.new = Latest(work[p].rows)]
BY DEF Alone, InsertQueryLogBatch, At, Work

\* InsertFails: the guard and the effect.
LEMMA InsertFailsDoes ==
    ASSUME work \in [Procs -> Work], NEW p \in Procs, InsertFails(p)
    PROVE  /\ Alone(p)
           /\ work[p].at = "insert"
              /\ work'[p] = [work[p] EXCEPT !.at = "end", !.err = TRUE, !.rows = {}]
BY DEF Alone, InsertFails, At, Fail, Work

\* GetPolicies: the guard and the effect.
LEMMA GetPoliciesDoes ==
    ASSUME work \in [Procs -> Work], NEW p \in Procs, GetPolicies(p)
    PROVE  /\ Alone(p)
           /\ work[p].at = "policies" /\
              \/ work'[p] = [work[p] EXCEPT !.at = "evaluate"]
              \/ work'[p] = [work[p] EXCEPT !.at = "end", !.rows = {}]
BY DEF Alone, GetPolicies, At, Go, Work

\* Evaluate: the guard and the effect.
LEMMA EvaluateDoes ==
    ASSUME work \in [Procs -> Work], NEW p \in Procs, Evaluate(p)
    PROVE  /\ Alone(p)
           /\ work[p].at = "evaluate" /\ \E q \in Earliest(work[p].rows) :
              \/ q \in bound.of.violating /\ violations' = [violations EXCEPT ![q] = @ + 1]
                 /\ bound' = bound /\ work'[p] = [work[p] EXCEPT !.at = "find", !.rows = @ \ {q}]
              \/ (q \in bound.of.violating => Fault) /\ violations' = violations
                 /\ work'[p] = [work[p] EXCEPT !.rows = @ \ {q}]
BY DEF Alone, Evaluate, At, Work

\* Evaluated: the guard and the effect.
LEMMA EvaluatedDoes ==
    ASSUME work \in [Procs -> Work], NEW p \in Procs, Evaluated(p)
    PROVE  /\ Alone(p)
           /\ work[p].at = "evaluate" /\ work[p].rows = {}
              /\ work'[p] = [work[p] EXCEPT !.at = "end"]
BY DEF Alone, Evaluated, At, Go, Work

\* End: the guard and the effect.
LEMMA EndDoes ==
    ASSUME work \in [Procs -> Work], NEW p \in Procs, End(p)
    PROVE  /\ Alone(p)
           /\ work[p].at = "end" /\ work'[p] = NoWork
BY DEF Alone, End, At, Work

\* BlockQuery: the guard and the effect.
LEMMA BlockQueryDoes ==
    ASSUME work \in [Procs -> Work], NEW p \in Procs, BlockQuery(p)
    PROVE  /\ Alone(p)
           /\ work[p].at = "idle" /\
              \/ work'[p] = [work[p] EXCEPT !.at = "find"]
              \/ work'[p] = [work[p] EXCEPT !.at = "done"]
BY DEF Alone, BlockQuery, At, Go, Work

\* CreateIncidentFromViolation: the guard and the effect.
LEMMA CreateIncidentFromViolationDoes ==
    ASSUME work \in [Procs -> Work], NEW p \in Procs, CreateIncidentFromViolation(p)
    PROVE  /\ Alone(p)
           /\ work[p].at = "idle"
              /\ work'[p] = [work[p] EXCEPT !.at = "find"]
BY DEF Alone, CreateIncidentFromViolation, At, Go, Work

\* FindIncident: the guard and the effect.
LEMMA FindIncidentDoes ==
    ASSUME work \in [Procs -> Work], NEW p \in Procs, FindIncident(p)
    PROVE  /\ Alone(p)
           /\ work[p].at = "find" /\
              \/ Open = {} /\ work'[p] = [work[p] EXCEPT !.at = "create", !.incident = 0]
              \/ \E i \in Open : work'[p] = [work[p] EXCEPT !.at = "count", !.incident = i]
              \/ p \in Syncs /\ work'[p] = [work[p] EXCEPT !.at = "evaluate"]
              \/ p \notin Syncs /\ work'[p] = [work[p] EXCEPT !.at = "done"]
BY DEF Alone, FindIncident, At, Return, Go, LastSeen, Work

\* CountOccurrence: the guard and the effect.
LEMMA CountOccurrenceDoes ==
    ASSUME work \in [Procs -> Work], NEW p \in Procs, CountOccurrence(p)
    PROVE  /\ Alone(p)
           /\ work[p].at = "count" /\
              \/ p \in Syncs /\ work'[p] = [work[p] EXCEPT !.at = "evaluate"]
              \/ p \notin Syncs /\ work'[p] = [work[p] EXCEPT !.at = "done"]
BY DEF Alone, CountOccurrence, At, Return, Go, Work

\* CreateIncident: the guard and the effect.
LEMMA CreateIncidentDoes ==
    ASSUME work \in [Procs -> Work], NEW p \in Procs, CreateIncident(p)
    PROVE  /\ Alone(p)
           /\ work[p].at = "create" /\
              \/ p \in Syncs /\ work'[p] = [work[p] EXCEPT !.at = "evaluate"]
              \/ p \notin Syncs /\ work'[p] = [work[p] EXCEPT !.at = "done"]
BY DEF Alone, CreateIncident, At, Return, Go, Work


(* What a process holds stays in range as long as it does not touch it. *)
LEMMA DataOfKept ==
    ASSUME TypeInv, TypeInv', NEW r \in Procs, DataOf(r), work'[r] = work[r], log \subseteq log',
           now <= now', Len(incidents) <= Len(incidents')
    PROVE  DataOf(r)'
BY DEF TypeInv, Work, DataOf

(* A step of one process, which keeps its own range. *)
LEMMA OnlyOne ==
    ASSUME TypeInv, TypeInv', DataInv, NEW p \in Procs, Alone(p), DataOf(p)',
           now' = now, ended' = ended, log' = log, edit' = edit, bound'.of = bound.of,
           Len(incidents') >= Len(incidents), harvested' \subseteq log, mark' <= now
    PROVE  DataInv'
BY DataOfKept DEF DataInv, TypeInv, Alone

\* Every step keeps the ranges.
LEMMA DataStep == TypeInv /\ TypeInv' /\ DataInv /\ [Next]_vars => DataInv'
<1> SUFFICES ASSUME TypeInv, TypeInv', DataInv, [Next]_vars PROVE DataInv'
  OBVIOUS
<1> USE DEF found, clickhouse, At, Work, Filing, Go, Fault, DataOf
<1>i2. Len(incidents) \in Nat /\ Len(incidents') \in Nat
  BY DEF TypeInv
<1>m. mark <= now
  BY DEF DataInv
<1>n. now \in Nat \ {0} /\ mark \in Nat
  BY DEF TypeInv
<1>l. log \in SUBSET Queries /\ harvested \in SUBSET Queries /\ ended \in [Queries -> Nat]
  BY DEF TypeInv
<1>w. work \in [Procs -> Work]
  BY DEF TypeInv
<1>i. incidents \in Seq(Incident)
  BY DEF TypeInv
<1>e. edit \in [Edits -> Edit]
  BY DEF TypeInv
<1>b. bound \in [of : Scenarios, faults : Nat, crashes : Nat]
  BY DEF TypeInv
<1>s. Syncs \subseteq Procs
  BY DEF Procs
<1>q. bound.of.queries \subseteq Queries /\ bound.of.edits \subseteq Edits
  BY <1>b, QueryLogAssumption
<1>1. ASSUME Elapse PROVE DataInv'
  <2>1. UNCHANGED <<ended, log, harvested, mark, active, work, incidents, edit, bound>>
        /\ now < bound.of.time /\ now' = now + 1 /\ bound.of.time \in Nat
    BY <1>1, <1>b, QueryLogAssumption DEF Elapse
  <2>2. ASSUME NEW r \in Procs PROVE DataOf(r)'
    BY <1>n, <1>i2, <2>1, DataOfKept DEF DataInv
  <2> QED
    BY <1>n, <1>l, <2>1, <2>2 DEF DataInv
<1>2. ASSUME Flush PROVE DataInv'
  <2>1. UNCHANGED <<now, ended, harvested, mark, active, work, incidents, edit, bound>>
        /\ log' = Queries \ EndsAt(0)
    BY <1>2 DEF Flush
  <2>3. log \subseteq log' /\ \A x \in log' : ended[x] > 0
    BY <1>l, <2>1 DEF DataInv, EndsAt
  <2>2. ASSUME NEW r \in Procs PROVE DataOf(r)'
    BY <1>n, <1>i2, <2>1, <2>3, DataOfKept DEF DataInv
  <2> QED
    BY <1>n, <1>l, <2>1, <2>2, <2>3 DEF DataInv
<1>3. ASSUME NEW q \in bound.of.queries, Finish(q) PROVE DataInv'
  BY <1>3, <1>n, <1>l, <1>w, <1>s, <1>i, <1>q, <1>e, <1>b DEF Finish, DataInv
<1>4. ASSUME NEW p \in Syncs, Trigger(p) PROVE DataInv'
  <2>1. now' = now /\ ended' = ended /\ log' = log /\ edit' = edit /\ bound'.of = bound.of
    BY <1>4, <1>b DEF Trigger
  <2>2. Len(incidents') >= Len(incidents) /\ harvested' \subseteq log /\ mark' <= now
    BY <1>4, <1>i, <1>n, <1>w, <1>s DEF Trigger, DataInv
  <2>4. DataOf(p) /\ work[p] \in Work
    BY <1>s, <1>w DEF DataInv
  <2>3. work[p].at = "idle" /\
              \/ p \in Fulls /\ work'[p] = [work[p] EXCEPT !.at = "enter"]
              \/ p \notin Fulls /\ work'[p] = [work[p] EXCEPT !.at = "begin"]
    BY <1>4, <1>w, <1>s, TriggerDoes
  <2>5. DataOf(p)'
    <3>1. CASE p \in Fulls /\ work'[p] = [work[p] EXCEPT !.at = "enter"]
      BY <1>n, <1>i2, <1>m, <2>1, <2>2, <2>3, <2>4, <3>1
    <3>2. CASE p \notin Fulls /\ work'[p] = [work[p] EXCEPT !.at = "begin"]
      BY <1>n, <1>i2, <1>m, <2>1, <2>2, <2>3, <2>4, <3>2
    <3> QED
      BY <2>3, <3>1, <3>2
  <2> QED
    BY <1>4, <1>w, <2>1, <2>2, <2>5, <1>s, TriggerDoes, OnlyOne
<1>5. ASSUME NEW p \in Syncs, Enter(p) PROVE DataInv'
  <2>1. now' = now /\ ended' = ended /\ log' = log /\ edit' = edit /\ bound'.of = bound.of
    BY <1>5, <1>b DEF Enter
  <2>2. Len(incidents') >= Len(incidents) /\ harvested' \subseteq log /\ mark' <= now
    BY <1>5, <1>i, <1>n, <1>w, <1>s DEF Enter, DataInv
  <2>4. DataOf(p) /\ work[p] \in Work
    BY <1>s, <1>w DEF DataInv
  <2>3. work[p].at = "enter" /\
              \/ work'[p] = [work[p] EXCEPT !.at = "idle"]
              \/ work'[p] = [work[p] EXCEPT !.at = "begin", !.locks = TRUE]
    BY <1>5, <1>w, <1>s, EnterDoes
  <2>5. DataOf(p)'
    <3>1. CASE work'[p] = [work[p] EXCEPT !.at = "idle"]
      BY <1>n, <1>i2, <1>m, <2>1, <2>2, <2>3, <2>4, <3>1
    <3>2. CASE work'[p] = [work[p] EXCEPT !.at = "begin", !.locks = TRUE]
      BY <1>n, <1>i2, <1>m, <2>1, <2>2, <2>3, <2>4, <3>2
    <3> QED
      BY <2>3, <3>1, <3>2
  <2> QED
    BY <1>5, <1>w, <2>1, <2>2, <2>5, <1>s, EnterDoes, OnlyOne
<1>6. ASSUME NEW p \in Syncs, Begin(p) PROVE DataInv'
  <2>1. now' = now /\ ended' = ended /\ log' = log /\ edit' = edit /\ bound'.of = bound.of
    BY <1>6, <1>b DEF Begin
  <2>2. Len(incidents') >= Len(incidents) /\ harvested' \subseteq log /\ mark' <= now
    BY <1>6, <1>i, <1>n, <1>w, <1>s DEF Begin, DataInv
  <2>4. DataOf(p) /\ work[p] \in Work
    BY <1>s, <1>w DEF DataInv
  <2>3. work[p].at = "begin"
              /\ work'[p] = [work[p] EXCEPT !.at = "mark", !.start = now]
    BY <1>6, <1>w, <1>s, BeginDoes
  <2>5. DataOf(p)'
    BY <1>n, <1>i2, <1>m, <2>1, <2>2, <2>3, <2>4, <1>n
  <2> QED
    BY <1>6, <1>w, <2>1, <2>2, <2>5, <1>s, BeginDoes, OnlyOne
<1>7. ASSUME NEW p \in Syncs, ReadMark(p) PROVE DataInv'
  <2>1. now' = now /\ ended' = ended /\ log' = log /\ edit' = edit /\ bound'.of = bound.of
    BY <1>7, <1>b DEF ReadMark
  <2>2. Len(incidents') >= Len(incidents) /\ harvested' \subseteq log /\ mark' <= now
    BY <1>7, <1>i, <1>n, <1>w, <1>s DEF ReadMark, DataInv
  <2>4. DataOf(p) /\ work[p] \in Work
    BY <1>s, <1>w DEF DataInv
  <2>3. work[p].at = "mark" /\
              \/ work'[p] = [work[p] EXCEPT !.at = "fetch", !.from = mark]
              \/ work'[p] = [work[p] EXCEPT !.at = "fetch", !.from = 0]
    BY <1>7, <1>w, <1>s, ReadMarkDoes
  <2>5. DataOf(p)'
    <3>1. CASE work'[p] = [work[p] EXCEPT !.at = "fetch", !.from = mark]
      BY <1>n, <1>i2, <1>m, <2>1, <2>2, <2>3, <2>4, <3>1
    <3>2. CASE work'[p] = [work[p] EXCEPT !.at = "fetch", !.from = 0]
      BY <1>n, <1>i2, <1>m, <2>1, <2>2, <2>3, <2>4, <3>2
    <3> QED
      BY <2>3, <3>1, <3>2
  <2> QED
    BY <1>7, <1>w, <2>1, <2>2, <2>5, <1>s, ReadMarkDoes, OnlyOne
<1>8. ASSUME NEW p \in Syncs, Fetch(p) PROVE DataInv'
  <2>1. now' = now /\ ended' = ended /\ log' = log /\ edit' = edit /\ bound'.of = bound.of
    BY <1>8, <1>b DEF Fetch
  <2>2. Len(incidents') >= Len(incidents) /\ harvested' \subseteq log /\ mark' <= now
    BY <1>8, <1>i, <1>n, <1>w, <1>s DEF Fetch, DataInv
  <2>4. DataOf(p) /\ work[p] \in Work
    BY <1>s, <1>w DEF DataInv
  <2>3. work[p].at = "fetch" /\ \E rows \in Batches(work[p].from) :
              \/ rows = {} /\ work'[p] = [work[p] EXCEPT !.at = "end", !.new = work[p].from]
              \/ rows # {} /\ work'[p] = [work[p] EXCEPT !.at = "insert", !.rows = rows]
    BY <1>8, <1>w, <1>s, FetchDoes
  <2>6. PICK rows \in Batches(work[p].from) :
              \/ rows = {} /\ work'[p] = [work[p] EXCEPT !.at = "end", !.new = work[p].from]
              \/ rows # {} /\ work'[p] = [work[p] EXCEPT !.at = "insert", !.rows = rows]
    BY <2>3
  <2>5. DataOf(p)'
    <3>1. CASE rows = {} /\ work'[p] = [work[p] EXCEPT !.at = "end", !.new = work[p].from]
      BY <1>n, <1>i2, <1>m, <2>1, <2>2, <2>3, <2>6, <2>4, <3>1, <1>l DEF Batches
    <3>2. CASE rows # {} /\ work'[p] = [work[p] EXCEPT !.at = "insert", !.rows = rows]
      BY <1>n, <1>i2, <1>m, <2>1, <2>2, <2>3, <2>6, <2>4, <3>2, <1>l DEF Batches
    <3> QED
      BY <2>3, <2>6, <3>1, <3>2
  <2> QED
    BY <1>8, <1>w, <2>1, <2>2, <2>5, <1>s, FetchDoes, OnlyOne
<1>9. ASSUME NEW p \in Syncs, FetchFails(p) PROVE DataInv'
  <2>1. now' = now /\ ended' = ended /\ log' = log /\ edit' = edit /\ bound'.of = bound.of
    BY <1>9, <1>b DEF FetchFails, Fail
  <2>2. Len(incidents') >= Len(incidents) /\ harvested' \subseteq log /\ mark' <= now
    BY <1>9, <1>i, <1>n, <1>w, <1>s DEF FetchFails, Fail, DataInv
  <2>4. DataOf(p) /\ work[p] \in Work
    BY <1>s, <1>w DEF DataInv
  <2>3. work[p].at = "fetch"
              /\ work'[p] = [work[p] EXCEPT !.at = "end", !.err = TRUE, !.rows = {}]
    BY <1>9, <1>w, <1>s, FetchFailsDoes
  <2>5. DataOf(p)'
    BY <1>n, <1>i2, <1>m, <2>1, <2>2, <2>3, <2>4
  <2> QED
    BY <1>9, <1>w, <2>1, <2>2, <2>5, <1>s, FetchFailsDoes, OnlyOne
<1>10. ASSUME NEW p \in Syncs, InsertQueryLogBatch(p) PROVE DataInv'
  <2>1. now' = now /\ ended' = ended /\ log' = log /\ edit' = edit /\ bound'.of = bound.of
    BY <1>10, <1>b DEF InsertQueryLogBatch
  <2>2. Len(incidents') >= Len(incidents) /\ harvested' \subseteq log /\ mark' <= now
    BY <1>10, <1>i, <1>n, <1>w, <1>s DEF InsertQueryLogBatch, DataInv
  <2>4. DataOf(p) /\ work[p] \in Work
    BY <1>s, <1>w DEF DataInv
  <2>3. work[p].at = "insert"
              /\ work'[p] = [work[p] EXCEPT !.at = "policies", !.new = Latest(work[p].rows)]
    BY <1>10, <1>w, <1>s, InsertQueryLogBatchDoes
  <2>6. Latest(work[p].rows) <= now
    BY <1>10, <1>w, <1>s, <2>4, LatestIsLast, InsertQueryLogBatchDoes
  <2>5. DataOf(p)'
    BY <1>n, <1>i2, <1>m, <2>1, <2>2, <2>3, <2>4, <2>6
  <2> QED
    BY <1>10, <1>w, <2>1, <2>2, <2>5, <1>s, InsertQueryLogBatchDoes, OnlyOne
<1>11. ASSUME NEW p \in Syncs, InsertFails(p) PROVE DataInv'
  <2>1. now' = now /\ ended' = ended /\ log' = log /\ edit' = edit /\ bound'.of = bound.of
    BY <1>11, <1>b DEF InsertFails, Fail
  <2>2. Len(incidents') >= Len(incidents) /\ harvested' \subseteq log /\ mark' <= now
    BY <1>11, <1>i, <1>n, <1>w, <1>s DEF InsertFails, Fail, DataInv
  <2>4. DataOf(p) /\ work[p] \in Work
    BY <1>s, <1>w DEF DataInv
  <2>3. work[p].at = "insert"
              /\ work'[p] = [work[p] EXCEPT !.at = "end", !.err = TRUE, !.rows = {}]
    BY <1>11, <1>w, <1>s, InsertFailsDoes
  <2>5. DataOf(p)'
    BY <1>n, <1>i2, <1>m, <2>1, <2>2, <2>3, <2>4
  <2> QED
    BY <1>11, <1>w, <2>1, <2>2, <2>5, <1>s, InsertFailsDoes, OnlyOne
<1>12. ASSUME NEW p \in Syncs, GetPolicies(p) PROVE DataInv'
  <2>1. now' = now /\ ended' = ended /\ log' = log /\ edit' = edit /\ bound'.of = bound.of
    BY <1>12, <1>b DEF GetPolicies
  <2>2. Len(incidents') >= Len(incidents) /\ harvested' \subseteq log /\ mark' <= now
    BY <1>12, <1>i, <1>n, <1>w, <1>s DEF GetPolicies, DataInv
  <2>4. DataOf(p) /\ work[p] \in Work
    BY <1>s, <1>w DEF DataInv
  <2>3. work[p].at = "policies" /\
              \/ work'[p] = [work[p] EXCEPT !.at = "evaluate"]
              \/ work'[p] = [work[p] EXCEPT !.at = "end", !.rows = {}]
    BY <1>12, <1>w, <1>s, GetPoliciesDoes
  <2>5. DataOf(p)'
    <3>1. CASE work'[p] = [work[p] EXCEPT !.at = "evaluate"]
      BY <1>n, <1>i2, <1>m, <2>1, <2>2, <2>3, <2>4, <3>1
    <3>2. CASE work'[p] = [work[p] EXCEPT !.at = "end", !.rows = {}]
      BY <1>n, <1>i2, <1>m, <2>1, <2>2, <2>3, <2>4, <3>2
    <3> QED
      BY <2>3, <3>1, <3>2
  <2> QED
    BY <1>12, <1>w, <2>1, <2>2, <2>5, <1>s, GetPoliciesDoes, OnlyOne
<1>13. ASSUME NEW p \in Syncs, Evaluate(p) PROVE DataInv'
  <2>1. now' = now /\ ended' = ended /\ log' = log /\ edit' = edit /\ bound'.of = bound.of
    BY <1>13, <1>b DEF Evaluate
  <2>2. Len(incidents') >= Len(incidents) /\ harvested' \subseteq log /\ mark' <= now
    BY <1>13, <1>i, <1>n, <1>w, <1>s DEF Evaluate, DataInv
  <2>4. DataOf(p) /\ work[p] \in Work
    BY <1>s, <1>w DEF DataInv
  <2>3. work[p].at = "evaluate" /\ \E q \in Earliest(work[p].rows) :
              \/ q \in bound.of.violating /\ violations' = [violations EXCEPT ![q] = @ + 1]
                 /\ bound' = bound /\ work'[p] = [work[p] EXCEPT !.at = "find", !.rows = @ \ {q}]
              \/ (q \in bound.of.violating => Fault) /\ violations' = violations
                 /\ work'[p] = [work[p] EXCEPT !.rows = @ \ {q}]
    BY <1>13, <1>w, <1>s, EvaluateDoes
  <2>6. PICK q \in Earliest(work[p].rows) :
              \/ q \in bound.of.violating /\ violations' = [violations EXCEPT ![q] = @ + 1]
                 /\ bound' = bound /\ work'[p] = [work[p] EXCEPT !.at = "find", !.rows = @ \ {q}]
              \/ (q \in bound.of.violating => Fault) /\ violations' = violations
                 /\ work'[p] = [work[p] EXCEPT !.rows = @ \ {q}]
    BY <2>3
  <2>5. DataOf(p)'
    <3>1. CASE work'[p] = [work[p] EXCEPT !.at = "find", !.rows = @ \ {q}]
      BY <1>n, <1>i2, <1>m, <2>1, <2>2, <2>3, <2>6, <2>4, <3>1
    <3>2. CASE work'[p] = [work[p] EXCEPT !.rows = @ \ {q}]
      BY <1>n, <1>i2, <1>m, <2>1, <2>2, <2>3, <2>6, <2>4, <3>2
    <3> QED
      BY <2>3, <2>6, <3>1, <3>2
  <2> QED
    BY <1>13, <1>w, <2>1, <2>2, <2>5, <1>s, EvaluateDoes, OnlyOne
<1>14. ASSUME NEW p \in Syncs, Evaluated(p) PROVE DataInv'
  <2>1. now' = now /\ ended' = ended /\ log' = log /\ edit' = edit /\ bound'.of = bound.of
    BY <1>14, <1>b DEF Evaluated
  <2>2. Len(incidents') >= Len(incidents) /\ harvested' \subseteq log /\ mark' <= now
    BY <1>14, <1>i, <1>n, <1>w, <1>s DEF Evaluated, DataInv
  <2>4. DataOf(p) /\ work[p] \in Work
    BY <1>s, <1>w DEF DataInv
  <2>3. work[p].at = "evaluate" /\ work[p].rows = {}
              /\ work'[p] = [work[p] EXCEPT !.at = "end"]
    BY <1>14, <1>w, <1>s, EvaluatedDoes
  <2>5. DataOf(p)'
    BY <1>n, <1>i2, <1>m, <2>1, <2>2, <2>3, <2>4
  <2> QED
    BY <1>14, <1>w, <2>1, <2>2, <2>5, <1>s, EvaluatedDoes, OnlyOne
<1>15. ASSUME NEW p \in Syncs, End(p) PROVE DataInv'
  <2>1. now' = now /\ ended' = ended /\ log' = log /\ edit' = edit /\ bound'.of = bound.of
    BY <1>15, <1>b DEF End
  <2>2. Len(incidents') >= Len(incidents) /\ harvested' \subseteq log /\ mark' <= now
    BY <1>15, <1>i, <1>n, <1>w, <1>s DEF End, DataInv
  <2>4. DataOf(p) /\ work[p] \in Work
    BY <1>s, <1>w DEF DataInv
  <2>3. work[p].at = "end" /\ work'[p] = NoWork
    BY <1>15, <1>w, <1>s, EndDoes
  <2>5. DataOf(p)'
    BY <1>n, <1>i2, <1>m, <2>1, <2>2, <2>3, <2>4 DEF NoWork
  <2> QED
    BY <1>15, <1>w, <2>1, <2>2, <2>5, <1>s, EndDoes, OnlyOne
<1>16. ASSUME NEW p \in Procs, BlockQuery(p) PROVE DataInv'
  <2>1. now' = now /\ ended' = ended /\ log' = log /\ edit' = edit /\ bound'.of = bound.of
    BY <1>16, <1>b DEF BlockQuery
  <2>2. Len(incidents') >= Len(incidents) /\ harvested' \subseteq log /\ mark' <= now
    BY <1>16, <1>i, <1>n, <1>w, <1>s DEF BlockQuery, DataInv
  <2>4. DataOf(p) /\ work[p] \in Work
    BY <1>s, <1>w DEF DataInv
  <2>3. work[p].at = "idle" /\
              \/ work'[p] = [work[p] EXCEPT !.at = "find"]
              \/ work'[p] = [work[p] EXCEPT !.at = "done"]
    BY <1>16, <1>w, <1>s, BlockQueryDoes
  <2>5. DataOf(p)'
    <3>1. CASE work'[p] = [work[p] EXCEPT !.at = "find"]
      BY <1>n, <1>i2, <1>m, <2>1, <2>2, <2>3, <2>4, <3>1
    <3>2. CASE work'[p] = [work[p] EXCEPT !.at = "done"]
      BY <1>n, <1>i2, <1>m, <2>1, <2>2, <2>3, <2>4, <3>2
    <3> QED
      BY <2>3, <3>1, <3>2
  <2> QED
    BY <1>16, <1>w, <2>1, <2>2, <2>5, <1>s, BlockQueryDoes, OnlyOne
<1>17. ASSUME NEW p \in Procs, CreateIncidentFromViolation(p) PROVE DataInv'
  <2>1. now' = now /\ ended' = ended /\ log' = log /\ edit' = edit /\ bound'.of = bound.of
    BY <1>17, <1>b DEF CreateIncidentFromViolation
  <2>2. Len(incidents') >= Len(incidents) /\ harvested' \subseteq log /\ mark' <= now
    BY <1>17, <1>i, <1>n, <1>w, <1>s DEF CreateIncidentFromViolation, DataInv
  <2>4. DataOf(p) /\ work[p] \in Work
    BY <1>s, <1>w DEF DataInv
  <2>3. work[p].at = "idle"
              /\ work'[p] = [work[p] EXCEPT !.at = "find"]
    BY <1>17, <1>w, <1>s, CreateIncidentFromViolationDoes
  <2>5. DataOf(p)'
    BY <1>n, <1>i2, <1>m, <2>1, <2>2, <2>3, <2>4
  <2> QED
    BY <1>17, <1>w, <2>1, <2>2, <2>5, <1>s, CreateIncidentFromViolationDoes, OnlyOne
<1>18. ASSUME NEW p \in Procs, FindIncident(p) PROVE DataInv'
  <2>1. now' = now /\ ended' = ended /\ log' = log /\ edit' = edit /\ bound'.of = bound.of
    BY <1>18, <1>b DEF FindIncident, Return
  <2>2. Len(incidents') >= Len(incidents) /\ harvested' \subseteq log /\ mark' <= now
    BY <1>18, <1>i, <1>n, <1>w, <1>s DEF FindIncident, Return, DataInv
  <2>4. DataOf(p) /\ work[p] \in Work
    BY <1>s, <1>w DEF DataInv
  <2>3. work[p].at = "find" /\
              \/ Open = {} /\ work'[p] = [work[p] EXCEPT !.at = "create", !.incident = 0]
              \/ \E i \in Open : work'[p] = [work[p] EXCEPT !.at = "count", !.incident = i]
              \/ p \in Syncs /\ work'[p] = [work[p] EXCEPT !.at = "evaluate"]
              \/ p \notin Syncs /\ work'[p] = [work[p] EXCEPT !.at = "done"]
    BY <1>18, <1>w, <1>s, FindIncidentDoes
  <2>6. work[p].at = "find"
    BY <2>3
  <2>5. DataOf(p)'
    <3>1. CASE work'[p] = [work[p] EXCEPT !.at = "create", !.incident = 0]
      BY <1>n, <1>i2, <1>m, <2>1, <2>2, <2>6, <2>4, <3>1
    <3>2. ASSUME NEW i \in 1 .. Len(incidents), work'[p] = [work[p] EXCEPT !.at = "count", !.incident = i] PROVE DataOf(p)'
      BY <1>n, <1>i2, <1>m, <2>1, <2>2, <2>6, <2>4, <3>2
    <3>3. CASE p \in Syncs /\ work'[p] = [work[p] EXCEPT !.at = "evaluate"]
      BY <1>n, <1>i2, <1>m, <2>1, <2>2, <2>6, <2>4, <3>3
    <3>4. CASE p \notin Syncs /\ work'[p] = [work[p] EXCEPT !.at = "done"]
      BY <1>n, <1>i2, <1>m, <2>1, <2>2, <2>6, <2>4, <3>4
    <3>5. Open \subseteq 1 .. Len(incidents)
      BY <1>i DEF Open
    <3> QED
      BY <2>3, <3>5, <3>1, <3>2, <3>3, <3>4
  <2> QED
    BY <1>18, <1>w, <2>1, <2>2, <2>5, <1>s, FindIncidentDoes, OnlyOne
<1>19. ASSUME NEW p \in Procs, CountOccurrence(p) PROVE DataInv'
  <2>1. now' = now /\ ended' = ended /\ log' = log /\ edit' = edit /\ bound'.of = bound.of
    BY <1>19, <1>b DEF CountOccurrence, Return
  <2>2. Len(incidents') >= Len(incidents) /\ harvested' \subseteq log /\ mark' <= now
    BY <1>19, <1>i, <1>n, <1>w, <1>s DEF CountOccurrence, Return, DataInv
  <2>4. DataOf(p) /\ work[p] \in Work
    BY <1>s, <1>w DEF DataInv
  <2>3. work[p].at = "count" /\
              \/ p \in Syncs /\ work'[p] = [work[p] EXCEPT !.at = "evaluate"]
              \/ p \notin Syncs /\ work'[p] = [work[p] EXCEPT !.at = "done"]
    BY <1>19, <1>w, <1>s, CountOccurrenceDoes
  <2>5. DataOf(p)'
    <3>1. CASE p \in Syncs /\ work'[p] = [work[p] EXCEPT !.at = "evaluate"]
      BY <1>n, <1>i2, <1>m, <2>1, <2>2, <2>3, <2>4, <3>1
    <3>2. CASE p \notin Syncs /\ work'[p] = [work[p] EXCEPT !.at = "done"]
      BY <1>n, <1>i2, <1>m, <2>1, <2>2, <2>3, <2>4, <3>2
    <3> QED
      BY <2>3, <3>1, <3>2
  <2> QED
    BY <1>19, <1>w, <2>1, <2>2, <2>5, <1>s, CountOccurrenceDoes, OnlyOne
<1>20. ASSUME NEW p \in Procs, CreateIncident(p) PROVE DataInv'
  <2>1. now' = now /\ ended' = ended /\ log' = log /\ edit' = edit /\ bound'.of = bound.of
    BY <1>20, <1>b DEF CreateIncident, Return
  <2>2. Len(incidents') >= Len(incidents) /\ harvested' \subseteq log /\ mark' <= now
    BY <1>20, <1>i, <1>n, <1>w, <1>s DEF CreateIncident, Return, DataInv
  <2>4. DataOf(p) /\ work[p] \in Work
    BY <1>s, <1>w DEF DataInv
  <2>3. work[p].at = "create" /\
              \/ p \in Syncs /\ work'[p] = [work[p] EXCEPT !.at = "evaluate"]
              \/ p \notin Syncs /\ work'[p] = [work[p] EXCEPT !.at = "done"]
    BY <1>20, <1>w, <1>s, CreateIncidentDoes
  <2>5. DataOf(p)'
    <3>1. CASE p \in Syncs /\ work'[p] = [work[p] EXCEPT !.at = "evaluate"]
      BY <1>n, <1>i2, <1>m, <2>1, <2>2, <2>3, <2>4, <3>1
    <3>2. CASE p \notin Syncs /\ work'[p] = [work[p] EXCEPT !.at = "done"]
      BY <1>n, <1>i2, <1>m, <2>1, <2>2, <2>3, <2>4, <3>2
    <3> QED
      BY <2>3, <3>1, <3>2
  <2> QED
    BY <1>20, <1>w, <2>1, <2>2, <2>5, <1>s, CreateIncidentDoes, OnlyOne
<1>21. ASSUME NEW e \in bound.of.edits, ReadIncident(e) PROVE DataInv'
  BY <1>21, <1>n, <1>l, <1>w, <1>s, <1>i, <1>q, <1>e, <1>b DEF ReadIncident, DataInv
<1>22. ASSUME NEW e \in bound.of.edits, WriteIncident(e) PROVE DataInv'
  <2>1. UNCHANGED <<now, ended, log, harvested, mark, work>> /\ bound'.of = bound.of
    BY <1>22, <1>b DEF WriteIncident
  <2>2. Len(incidents') = Len(incidents)
    BY <1>22, <1>i DEF WriteIncident
  <2>3. ASSUME NEW r \in Procs PROVE DataOf(r)'
    BY <1>n, <1>i2, <2>1, <2>2, DataOfKept DEF DataInv
  <2>4. \A x \in Edits : edit'[x].at = "write" => edit'[x] = edit[x]
    BY <1>22, <1>e, <1>q DEF WriteIncident, NoEdit
  <2> QED
    BY <1>n, <1>l, <2>1, <2>2, <2>3, <2>4 DEF DataInv
<1>23. ASSUME Crash PROVE DataInv'
  <2>1. UNCHANGED <<now, ended, log, harvested, mark, incidents>> /\ bound'.of = bound.of
    BY <1>23, <1>b DEF Crash
  <2>2. ASSUME NEW r \in Procs PROVE DataOf(r)'
    <3>1. work'[r] = NoWork \/ work'[r] = [NoWork EXCEPT !.at = "done"]
      BY <1>23 DEF Crash
    <3>2. /\ work'[r].rows = {} /\ work'[r].at \in {"idle", "done"}
          /\ work'[r].start = 0 /\ work'[r].from = 0 /\ work'[r].new = 0 /\ work'[r].incident = 0
      BY <3>1 DEF NoWork
    <3> QED
      BY <1>n, <1>i2, <2>1, <3>2
  <2>3. \A e \in Edits : edit'[e].at # "write"
    BY <1>23, <1>e DEF Crash, NoEdit
  <2> QED
    BY <1>n, <1>l, <2>1, <2>2, <2>3 DEF DataInv
<1>24. CASE UNCHANGED vars
  BY <1>24 DEF vars, DataInv
<1> QED
  BY <1>1, <1>2, <1>3, <1>4, <1>5, <1>6, <1>7, <1>8, <1>9, <1>10, <1>11, <1>12, <1>13, <1>14,
     <1>15, <1>16, <1>17, <1>18, <1>19, <1>20, <1>21, <1>22, <1>23, <1>24
     DEF Next, Harvest, Upsert, Procs

(* A step of one process that keeps, takes or gives back the lock. *)
LEMMA LocksKept ==
    ASSUME LockInv, NEW p \in Procs, Alone(p), LockOf(p)', bound'.of = bound.of,
           \/ active' = active /\ work'[p].locks = work[p].locks
           \/ ~active /\ active' = TRUE /\ work'[p].locks = TRUE
           \/ active' = (active /\ ~work[p].locks) /\ ~work'[p].locks
    PROVE  LockInv'
BY DEF LockInv, LockOf, Taking, Alone

\* Every step keeps the lock.
LEMMA LockStep == TypeInv /\ LockInv /\ [Next]_vars => LockInv'
<1> SUFFICES ASSUME TypeInv, LockInv, [Next]_vars PROVE LockInv'
  OBVIOUS
<1> USE DEF At, Work, Filing, Go, Fault, LockOf, Taking
<1>r. \A sc \in Scenarios : sc.blocked \cap Syncs = {} /\ sc.manuals \cap Syncs = {}
  BY QueryLogAssumption
<1>a. active \in BOOLEAN
  BY DEF TypeInv
<1>n. now \in Nat \ {0} /\ mark \in Nat
  BY DEF TypeInv
<1>l. log \in SUBSET Queries /\ harvested \in SUBSET Queries /\ ended \in [Queries -> Nat]
  BY DEF TypeInv
<1>w. work \in [Procs -> Work]
  BY DEF TypeInv
<1>i. incidents \in Seq(Incident)
  BY DEF TypeInv
<1>e. edit \in [Edits -> Edit]
  BY DEF TypeInv
<1>b. bound \in [of : Scenarios, faults : Nat, crashes : Nat]
  BY DEF TypeInv
<1>s. Syncs \subseteq Procs
  BY DEF Procs
<1>q. bound.of.queries \subseteq Queries /\ bound.of.edits \subseteq Edits
  BY <1>b, QueryLogAssumption
<1>1. ASSUME Elapse PROVE LockInv'
  <2>1. work' = work /\ active' = active /\ bound'.of = bound.of
    BY <1>1, <1>b DEF Elapse
  <2> QED
    BY <2>1 DEF LockInv
<1>2. ASSUME Flush PROVE LockInv'
  <2>1. work' = work /\ active' = active /\ bound'.of = bound.of
    BY <1>2, <1>b DEF Flush
  <2> QED
    BY <2>1 DEF LockInv
<1>3. ASSUME NEW q \in bound.of.queries, Finish(q) PROVE LockInv'
  <2>1. work' = work /\ active' = active /\ bound'.of = bound.of
    BY <1>3, <1>b DEF Finish
  <2> QED
    BY <2>1 DEF LockInv
<1>4. ASSUME NEW p \in Syncs, Trigger(p) PROVE LockInv'
  <2>1. active' = active /\ bound'.of = bound.of
    BY <1>4, <1>b DEF Trigger
  <2>2. p \in Syncs \cap Taking
    BY <1>4 DEF Trigger
  <2>4. LockOf(p) /\ work[p] \in Work
    BY <1>s, <1>w DEF LockInv
  <2>3. work[p].at = "idle" /\
              \/ p \in Fulls /\ work'[p] = [work[p] EXCEPT !.at = "enter"]
              \/ p \notin Fulls /\ work'[p] = [work[p] EXCEPT !.at = "begin"]
    BY <1>4, <1>w, <1>s, TriggerDoes
  <2>5. LockOf(p)' /\ work'[p].locks = work[p].locks
    <3>1. CASE p \in Fulls /\ work'[p] = [work[p] EXCEPT !.at = "enter"]
      BY <1>s, <2>1, <2>2, <2>4, <2>3, <3>1 DEF Syncs
    <3>2. CASE p \notin Fulls /\ work'[p] = [work[p] EXCEPT !.at = "begin"]
      BY <1>s, <2>1, <2>2, <2>4, <2>3, <3>2 DEF Syncs
    <3> QED
      BY <2>3, <3>1, <3>2
  <2> QED
    BY <1>4, <1>w, <1>s, <2>1, <2>5, TriggerDoes, LocksKept
<1>5. ASSUME NEW p \in Syncs, Enter(p) PROVE LockInv'
  <2>4. LockOf(p) /\ work[p] \in Work
    BY <1>s, <1>w DEF LockInv
  <2>1. bound' = bound /\ Alone(p) /\ work[p].at = "enter"
    BY <1>5, <1>w, <1>s, EnterDoes DEF Enter
  <2>2. CASE active
    <3>1. active' = active /\ work'[p] = [work[p] EXCEPT !.at = "idle"]
      BY <1>5, <1>w, <1>s, <2>2 DEF Enter
    <3>2. LockOf(p)' /\ work'[p].locks = work[p].locks
      BY <1>s, <2>1, <2>4, <3>1
    <3> QED
      BY <1>s, <2>1, <3>1, <3>2, LocksKept
  <2>3. CASE ~active
    <3>1. active' = TRUE /\ work'[p] = [work[p] EXCEPT !.at = "begin", !.locks = TRUE]
      BY <1>5, <1>w, <1>s, <2>3 DEF Enter
    <3>2. LockOf(p)' /\ work'[p].locks = TRUE
      BY <1>s, <2>1, <2>4, <3>1
    <3> QED
      BY <1>s, <2>1, <2>3, <3>1, <3>2, LocksKept
  <2> QED
    BY <1>a, <2>2, <2>3
<1>6. ASSUME NEW p \in Syncs, Begin(p) PROVE LockInv'
  <2>1. active' = active /\ bound'.of = bound.of
    BY <1>6, <1>b DEF Begin
  <2>2. p \in Syncs
    BY <1>6
  <2>4. LockOf(p) /\ work[p] \in Work
    BY <1>s, <1>w DEF LockInv
  <2>3. work[p].at = "begin"
              /\ work'[p] = [work[p] EXCEPT !.at = "mark", !.start = now]
    BY <1>6, <1>w, <1>s, BeginDoes
  <2>5. LockOf(p)' /\ work'[p].locks = work[p].locks
    BY <1>s, <2>1, <2>2, <2>4, <2>3
  <2> QED
    BY <1>6, <1>w, <1>s, <2>1, <2>5, BeginDoes, LocksKept
<1>7. ASSUME NEW p \in Syncs, ReadMark(p) PROVE LockInv'
  <2>1. active' = active /\ bound'.of = bound.of
    BY <1>7, <1>b DEF ReadMark
  <2>2. p \in Syncs
    BY <1>7
  <2>4. LockOf(p) /\ work[p] \in Work
    BY <1>s, <1>w DEF LockInv
  <2>3. work[p].at = "mark" /\
              \/ work'[p] = [work[p] EXCEPT !.at = "fetch", !.from = mark]
              \/ work'[p] = [work[p] EXCEPT !.at = "fetch", !.from = 0]
    BY <1>7, <1>w, <1>s, ReadMarkDoes
  <2>5. LockOf(p)' /\ work'[p].locks = work[p].locks
    <3>1. CASE work'[p] = [work[p] EXCEPT !.at = "fetch", !.from = mark]
      BY <1>s, <2>1, <2>2, <2>4, <2>3, <3>1
    <3>2. CASE work'[p] = [work[p] EXCEPT !.at = "fetch", !.from = 0]
      BY <1>s, <2>1, <2>2, <2>4, <2>3, <3>2
    <3> QED
      BY <2>3, <3>1, <3>2
  <2> QED
    BY <1>7, <1>w, <1>s, <2>1, <2>5, ReadMarkDoes, LocksKept
<1>8. ASSUME NEW p \in Syncs, Fetch(p) PROVE LockInv'
  <2>1. active' = active /\ bound'.of = bound.of
    BY <1>8, <1>b DEF Fetch
  <2>2. p \in Syncs
    BY <1>8
  <2>4. LockOf(p) /\ work[p] \in Work
    BY <1>s, <1>w DEF LockInv
  <2>3. work[p].at = "fetch" /\ \E rows \in Batches(work[p].from) :
              \/ rows = {} /\ work'[p] = [work[p] EXCEPT !.at = "end", !.new = work[p].from]
              \/ rows # {} /\ work'[p] = [work[p] EXCEPT !.at = "insert", !.rows = rows]
    BY <1>8, <1>w, <1>s, FetchDoes
  <2>6. PICK rows \in Batches(work[p].from) :
              \/ rows = {} /\ work'[p] = [work[p] EXCEPT !.at = "end", !.new = work[p].from]
              \/ rows # {} /\ work'[p] = [work[p] EXCEPT !.at = "insert", !.rows = rows]
    BY <2>3
  <2>5. LockOf(p)' /\ work'[p].locks = work[p].locks
    <3>1. CASE rows = {} /\ work'[p] = [work[p] EXCEPT !.at = "end", !.new = work[p].from]
      BY <1>s, <2>1, <2>2, <2>4, <2>3, <2>6, <3>1
    <3>2. CASE rows # {} /\ work'[p] = [work[p] EXCEPT !.at = "insert", !.rows = rows]
      BY <1>s, <2>1, <2>2, <2>4, <2>3, <2>6, <3>2
    <3> QED
      BY <2>3, <2>6, <3>1, <3>2
  <2> QED
    BY <1>8, <1>w, <1>s, <2>1, <2>5, FetchDoes, LocksKept
<1>9. ASSUME NEW p \in Syncs, FetchFails(p) PROVE LockInv'
  <2>1. active' = active /\ bound'.of = bound.of
    BY <1>9, <1>b DEF FetchFails, Fail
  <2>2. p \in Syncs
    BY <1>9
  <2>4. LockOf(p) /\ work[p] \in Work
    BY <1>s, <1>w DEF LockInv
  <2>3. work[p].at = "fetch"
              /\ work'[p] = [work[p] EXCEPT !.at = "end", !.err = TRUE, !.rows = {}]
    BY <1>9, <1>w, <1>s, FetchFailsDoes
  <2>5. LockOf(p)' /\ work'[p].locks = work[p].locks
    BY <1>s, <2>1, <2>2, <2>4, <2>3
  <2> QED
    BY <1>9, <1>w, <1>s, <2>1, <2>5, FetchFailsDoes, LocksKept
<1>10. ASSUME NEW p \in Syncs, InsertQueryLogBatch(p) PROVE LockInv'
  <2>1. active' = active /\ bound'.of = bound.of
    BY <1>10, <1>b DEF InsertQueryLogBatch
  <2>2. p \in Syncs
    BY <1>10
  <2>4. LockOf(p) /\ work[p] \in Work
    BY <1>s, <1>w DEF LockInv
  <2>3. work[p].at = "insert"
              /\ work'[p] = [work[p] EXCEPT !.at = "policies", !.new = Latest(work[p].rows)]
    BY <1>10, <1>w, <1>s, InsertQueryLogBatchDoes
  <2>5. LockOf(p)' /\ work'[p].locks = work[p].locks
    BY <1>s, <2>1, <2>2, <2>4, <2>3
  <2> QED
    BY <1>10, <1>w, <1>s, <2>1, <2>5, InsertQueryLogBatchDoes, LocksKept
<1>11. ASSUME NEW p \in Syncs, InsertFails(p) PROVE LockInv'
  <2>1. active' = active /\ bound'.of = bound.of
    BY <1>11, <1>b DEF InsertFails, Fail
  <2>2. p \in Syncs
    BY <1>11
  <2>4. LockOf(p) /\ work[p] \in Work
    BY <1>s, <1>w DEF LockInv
  <2>3. work[p].at = "insert"
              /\ work'[p] = [work[p] EXCEPT !.at = "end", !.err = TRUE, !.rows = {}]
    BY <1>11, <1>w, <1>s, InsertFailsDoes
  <2>5. LockOf(p)' /\ work'[p].locks = work[p].locks
    BY <1>s, <2>1, <2>2, <2>4, <2>3
  <2> QED
    BY <1>11, <1>w, <1>s, <2>1, <2>5, InsertFailsDoes, LocksKept
<1>12. ASSUME NEW p \in Syncs, GetPolicies(p) PROVE LockInv'
  <2>1. active' = active /\ bound'.of = bound.of
    BY <1>12, <1>b DEF GetPolicies
  <2>2. p \in Syncs
    BY <1>12
  <2>4. LockOf(p) /\ work[p] \in Work
    BY <1>s, <1>w DEF LockInv
  <2>3. work[p].at = "policies" /\
              \/ work'[p] = [work[p] EXCEPT !.at = "evaluate"]
              \/ work'[p] = [work[p] EXCEPT !.at = "end", !.rows = {}]
    BY <1>12, <1>w, <1>s, GetPoliciesDoes
  <2>5. LockOf(p)' /\ work'[p].locks = work[p].locks
    <3>1. CASE work'[p] = [work[p] EXCEPT !.at = "evaluate"]
      BY <1>s, <2>1, <2>2, <2>4, <2>3, <3>1
    <3>2. CASE work'[p] = [work[p] EXCEPT !.at = "end", !.rows = {}]
      BY <1>s, <2>1, <2>2, <2>4, <2>3, <3>2
    <3> QED
      BY <2>3, <3>1, <3>2
  <2> QED
    BY <1>12, <1>w, <1>s, <2>1, <2>5, GetPoliciesDoes, LocksKept
<1>13. ASSUME NEW p \in Syncs, Evaluate(p) PROVE LockInv'
  <2>1. active' = active /\ bound'.of = bound.of
    BY <1>13, <1>b DEF Evaluate
  <2>2. p \in Syncs
    BY <1>13
  <2>4. LockOf(p) /\ work[p] \in Work
    BY <1>s, <1>w DEF LockInv
  <2>3. work[p].at = "evaluate" /\ \E q \in Earliest(work[p].rows) :
              \/ q \in bound.of.violating /\ violations' = [violations EXCEPT ![q] = @ + 1]
                 /\ bound' = bound /\ work'[p] = [work[p] EXCEPT !.at = "find", !.rows = @ \ {q}]
              \/ (q \in bound.of.violating => Fault) /\ violations' = violations
                 /\ work'[p] = [work[p] EXCEPT !.rows = @ \ {q}]
    BY <1>13, <1>w, <1>s, EvaluateDoes
  <2>6. PICK q \in Earliest(work[p].rows) :
              \/ q \in bound.of.violating /\ violations' = [violations EXCEPT ![q] = @ + 1]
                 /\ bound' = bound /\ work'[p] = [work[p] EXCEPT !.at = "find", !.rows = @ \ {q}]
              \/ (q \in bound.of.violating => Fault) /\ violations' = violations
                 /\ work'[p] = [work[p] EXCEPT !.rows = @ \ {q}]
    BY <2>3
  <2>5. LockOf(p)' /\ work'[p].locks = work[p].locks
    <3>1. CASE work'[p] = [work[p] EXCEPT !.at = "find", !.rows = @ \ {q}]
      BY <1>s, <2>1, <2>2, <2>4, <2>3, <2>6, <3>1
    <3>2. CASE work'[p] = [work[p] EXCEPT !.rows = @ \ {q}]
      BY <1>s, <2>1, <2>2, <2>4, <2>3, <2>6, <3>2
    <3> QED
      BY <2>3, <2>6, <3>1, <3>2
  <2> QED
    BY <1>13, <1>w, <1>s, <2>1, <2>5, EvaluateDoes, LocksKept
<1>14. ASSUME NEW p \in Syncs, Evaluated(p) PROVE LockInv'
  <2>1. active' = active /\ bound'.of = bound.of
    BY <1>14, <1>b DEF Evaluated
  <2>2. p \in Syncs
    BY <1>14
  <2>4. LockOf(p) /\ work[p] \in Work
    BY <1>s, <1>w DEF LockInv
  <2>3. work[p].at = "evaluate" /\ work[p].rows = {}
              /\ work'[p] = [work[p] EXCEPT !.at = "end"]
    BY <1>14, <1>w, <1>s, EvaluatedDoes
  <2>5. LockOf(p)' /\ work'[p].locks = work[p].locks
    BY <1>s, <2>1, <2>2, <2>4, <2>3
  <2> QED
    BY <1>14, <1>w, <1>s, <2>1, <2>5, EvaluatedDoes, LocksKept
<1>15. ASSUME NEW p \in Syncs, End(p) PROVE LockInv'
  <2>1. Alone(p) /\ work[p].at = "end" /\ work'[p] = NoWork
    BY <1>15, <1>w, <1>s, EndDoes
  <2>2. active' = (active /\ ~work[p].locks) /\ bound'.of = bound.of
    BY <1>15, <1>b DEF End
  <2>3. LockOf(p)' /\ ~work'[p].locks
    BY <1>s, <1>15, <2>1 DEF NoWork
  <2> QED
    BY <1>s, <2>1, <2>2, <2>3, LocksKept
<1>16. ASSUME NEW p \in Procs, BlockQuery(p) PROVE LockInv'
  <2>1. active' = active /\ bound'.of = bound.of
    BY <1>16, <1>b DEF BlockQuery
  <2>2. p \notin Syncs /\ p \in Taking
    BY <1>16, <1>r, <1>b DEF BlockQuery
  <2>4. LockOf(p) /\ work[p] \in Work
    BY <1>s, <1>w DEF LockInv
  <2>3. work[p].at = "idle" /\
              \/ work'[p] = [work[p] EXCEPT !.at = "find"]
              \/ work'[p] = [work[p] EXCEPT !.at = "done"]
    BY <1>16, <1>w, <1>s, BlockQueryDoes
  <2>5. LockOf(p)' /\ work'[p].locks = work[p].locks
    <3>1. CASE work'[p] = [work[p] EXCEPT !.at = "find"]
      BY <1>s, <2>1, <2>2, <2>4, <2>3, <3>1 DEF Syncs
    <3>2. CASE work'[p] = [work[p] EXCEPT !.at = "done"]
      BY <1>s, <2>1, <2>2, <2>4, <2>3, <3>2 DEF Syncs
    <3> QED
      BY <2>3, <3>1, <3>2
  <2> QED
    BY <1>16, <1>w, <1>s, <2>1, <2>5, BlockQueryDoes, LocksKept
<1>17. ASSUME NEW p \in Procs, CreateIncidentFromViolation(p) PROVE LockInv'
  <2>1. active' = active /\ bound'.of = bound.of
    BY <1>17, <1>b DEF CreateIncidentFromViolation
  <2>2. p \notin Syncs /\ p \in Taking
    BY <1>17, <1>r, <1>b DEF CreateIncidentFromViolation
  <2>4. LockOf(p) /\ work[p] \in Work
    BY <1>s, <1>w DEF LockInv
  <2>3. work[p].at = "idle"
              /\ work'[p] = [work[p] EXCEPT !.at = "find"]
    BY <1>17, <1>w, <1>s, CreateIncidentFromViolationDoes
  <2>5. LockOf(p)' /\ work'[p].locks = work[p].locks
    BY <1>s, <2>1, <2>2, <2>4, <2>3 DEF Syncs
  <2> QED
    BY <1>17, <1>w, <1>s, <2>1, <2>5, CreateIncidentFromViolationDoes, LocksKept
<1>18. ASSUME NEW p \in Procs, FindIncident(p) PROVE LockInv'
  <2>1. active' = active /\ bound'.of = bound.of
    BY <1>18, <1>b DEF FindIncident, Return
  <2>2. p \in Procs
    BY <1>18
  <2>4. LockOf(p) /\ work[p] \in Work
    BY <1>s, <1>w DEF LockInv
  <2>3. work[p].at = "find" /\
              \/ Open = {} /\ work'[p] = [work[p] EXCEPT !.at = "create", !.incident = 0]
              \/ \E i \in Open : work'[p] = [work[p] EXCEPT !.at = "count", !.incident = i]
              \/ p \in Syncs /\ work'[p] = [work[p] EXCEPT !.at = "evaluate"]
              \/ p \notin Syncs /\ work'[p] = [work[p] EXCEPT !.at = "done"]
    BY <1>18, <1>w, <1>s, FindIncidentDoes
  <2>8. work[p].at = "find"
    BY <2>3
  <2>5. LockOf(p)' /\ work'[p].locks = work[p].locks
    <3>1. CASE work'[p] = [work[p] EXCEPT !.at = "create", !.incident = 0]
      BY <1>s, <2>1, <2>2, <2>4, <2>8, <3>1
    <3>2. ASSUME NEW i \in Open, work'[p] = [work[p] EXCEPT !.at = "count", !.incident = i] PROVE LockOf(p)' /\ work'[p].locks = work[p].locks
      BY <1>s, <2>1, <2>2, <2>4, <2>8, <3>2
    <3>3. CASE p \in Syncs /\ work'[p] = [work[p] EXCEPT !.at = "evaluate"]
      BY <1>s, <2>1, <2>2, <2>4, <2>8, <3>3
    <3>4. CASE p \notin Syncs /\ work'[p] = [work[p] EXCEPT !.at = "done"]
      BY <1>s, <2>1, <2>2, <2>4, <2>8, <3>4
    <3> QED
      BY <2>3, <3>1, <3>2, <3>3, <3>4
  <2> QED
    BY <1>18, <1>w, <1>s, <2>1, <2>5, FindIncidentDoes, LocksKept
<1>19. ASSUME NEW p \in Procs, CountOccurrence(p) PROVE LockInv'
  <2>1. active' = active /\ bound'.of = bound.of
    BY <1>19, <1>b DEF CountOccurrence, Return
  <2>2. p \in Procs
    BY <1>19
  <2>4. LockOf(p) /\ work[p] \in Work
    BY <1>s, <1>w DEF LockInv
  <2>3. work[p].at = "count" /\
              \/ p \in Syncs /\ work'[p] = [work[p] EXCEPT !.at = "evaluate"]
              \/ p \notin Syncs /\ work'[p] = [work[p] EXCEPT !.at = "done"]
    BY <1>19, <1>w, <1>s, CountOccurrenceDoes
  <2>5. LockOf(p)' /\ work'[p].locks = work[p].locks
    <3>1. CASE p \in Syncs /\ work'[p] = [work[p] EXCEPT !.at = "evaluate"]
      BY <1>s, <2>1, <2>2, <2>4, <2>3, <3>1
    <3>2. CASE p \notin Syncs /\ work'[p] = [work[p] EXCEPT !.at = "done"]
      BY <1>s, <2>1, <2>2, <2>4, <2>3, <3>2
    <3> QED
      BY <2>3, <3>1, <3>2
  <2> QED
    BY <1>19, <1>w, <1>s, <2>1, <2>5, CountOccurrenceDoes, LocksKept
<1>20. ASSUME NEW p \in Procs, CreateIncident(p) PROVE LockInv'
  <2>1. active' = active /\ bound'.of = bound.of
    BY <1>20, <1>b DEF CreateIncident, Return
  <2>2. p \in Procs
    BY <1>20
  <2>4. LockOf(p) /\ work[p] \in Work
    BY <1>s, <1>w DEF LockInv
  <2>3. work[p].at = "create" /\
              \/ p \in Syncs /\ work'[p] = [work[p] EXCEPT !.at = "evaluate"]
              \/ p \notin Syncs /\ work'[p] = [work[p] EXCEPT !.at = "done"]
    BY <1>20, <1>w, <1>s, CreateIncidentDoes
  <2>5. LockOf(p)' /\ work'[p].locks = work[p].locks
    <3>1. CASE p \in Syncs /\ work'[p] = [work[p] EXCEPT !.at = "evaluate"]
      BY <1>s, <2>1, <2>2, <2>4, <2>3, <3>1
    <3>2. CASE p \notin Syncs /\ work'[p] = [work[p] EXCEPT !.at = "done"]
      BY <1>s, <2>1, <2>2, <2>4, <2>3, <3>2
    <3> QED
      BY <2>3, <3>1, <3>2
  <2> QED
    BY <1>20, <1>w, <1>s, <2>1, <2>5, CreateIncidentDoes, LocksKept
<1>21. ASSUME NEW e \in bound.of.edits, ReadIncident(e) PROVE LockInv'
  <2>1. work' = work /\ active' = active /\ bound'.of = bound.of
    BY <1>21, <1>b DEF ReadIncident
  <2> QED
    BY <2>1 DEF LockInv
<1>22. ASSUME NEW e \in bound.of.edits, WriteIncident(e) PROVE LockInv'
  <2>1. work' = work /\ active' = active /\ bound'.of = bound.of
    BY <1>22, <1>b DEF WriteIncident
  <2> QED
    BY <2>1 DEF LockInv
<1>23. ASSUME Crash PROVE LockInv'
  <2>1. active' = FALSE /\ bound'.of = bound.of
    BY <1>23, <1>b DEF Crash
  <2>2. ASSUME NEW r \in Procs PROVE LockOf(r)' /\ ~work'[r].locks
    BY <1>23, <2>1 DEF Crash, NoWork, LockInv, Syncs
  <2> QED
    BY <2>1, <2>2 DEF LockInv
<1>24. CASE UNCHANGED vars
  BY <1>24 DEF vars, LockInv
<1> QED
  BY <1>1, <1>2, <1>3, <1>4, <1>5, <1>6, <1>7, <1>8, <1>9, <1>10, <1>11, <1>12, <1>13, <1>14,
     <1>15, <1>16, <1>17, <1>18, <1>19, <1>20, <1>21, <1>22, <1>23, <1>24
     DEF Next, Harvest, Upsert, Procs

(* While it is orderly, everything behind the watermark, and behind the new    *)
(* watermark of a sync, is recorded or among the rows the sync still evaluates. *)
Recorded(q) == q \in harvested /\ (q \in bound.of.violating => violations[q] > 0)
Reached(t) == t = 0 \/ \E q \in log : ended[q] = t
Settled(t) == \A q \in log : ended[q] <= t => Recorded(q)

CaughtBy(p) ==
    /\ ~work[p].err
    /\ work[p].at = "fetch" => Reached(work[p].from) /\ Settled(work[p].from)
    /\ work[p].at = "insert" =>
          \A q \in log, x \in work[p].rows :
             ended[q] <= ended[x] => q \in work[p].rows \/ Recorded(q)
    /\ work[p].at \in Past =>
          /\ Reached(work[p].new) /\ work[p].rows \subseteq harvested
          /\ \A q \in log : ended[q] <= work[p].new => q \in work[p].rows \/ Recorded(q)

CaughtUp ==
    Orderly =>
       /\ log = {q \in Queries : ended[q] > 0}
       /\ \A q, r \in log : ended[q] = ended[r] => q = r
       /\ Reached(mark) /\ Settled(mark)
       /\ \A p \in Syncs : CaughtBy(p)

\* Nothing fails in a step after which everything was orderly.
LEMMA NoFault ==
    ASSUME TypeInv, Orderly'
    PROVE  ~Fault
BY FaultKeeps DEF TypeInv, Orderly

(* A step of one process keeps what the others carry. *)
LEMMA CaughtAlone ==
    ASSUME TypeInv, Orderly, CaughtUp, NEW p \in Procs, Alone(p), p \in Syncs => CaughtBy(p)',
           bound' = bound, log' = log, ended' = ended,
           \A q \in Queries : Recorded(q) => Recorded(q)',
           mark' = mark \/ (Reached(mark)' /\ Settled(mark)'),
           harvested \subseteq harvested'
    PROVE  CaughtUp'
<1>l. log \in SUBSET Queries
  BY DEF TypeInv
<1>1. ASSUME NEW r \in Syncs, r # p PROVE CaughtBy(r)'
  <2>1. CaughtBy(r) /\ work'[r] = work[r]
    BY <1>1 DEF CaughtUp, Alone, Procs
  <2> QED
    BY <1>l, <2>1 DEF CaughtBy, Reached, Settled
<1>2. Reached(mark)' /\ Settled(mark)'
  <2>1. CASE mark' = mark
    BY <1>l, <2>1 DEF CaughtUp, Reached, Settled
  <2> QED
    BY <2>1
<1> QED
  BY <1>1, <1>2 DEF CaughtUp

\* Every step keeps what is caught up.
LEMMA CaughtStep == TypeInv /\ DataInv /\ CaughtUp /\ [Next]_vars => CaughtUp'
<1> SUFFICES ASSUME TypeInv, DataInv, CaughtUp, [Next]_vars, Orderly' PROVE CaughtUp'
  BY DEF CaughtUp
<1> USE DEF found, clickhouse, At, Work, Filing, Go, Past, CaughtBy
<1>v. violations \in [Queries \cup Blocked -> Nat]
  BY DEF TypeInv
<1>r. \A sc \in Scenarios : sc.blocked \cap Syncs = {} /\ sc.manuals \cap Syncs = {}
  BY QueryLogAssumption
<1>h. harvested \in SUBSET Queries
  BY DEF TypeInv
<1>n. now \in Nat \ {0} /\ mark \in Nat
  BY DEF TypeInv
<1>l. log \in SUBSET Queries /\ harvested \in SUBSET Queries /\ ended \in [Queries -> Nat]
  BY DEF TypeInv
<1>w. work \in [Procs -> Work]
  BY DEF TypeInv
<1>i. incidents \in Seq(Incident)
  BY DEF TypeInv
<1>e. edit \in [Edits -> Edit]
  BY DEF TypeInv
<1>b. bound \in [of : Scenarios, faults : Nat, crashes : Nat]
  BY DEF TypeInv
<1>s. Syncs \subseteq Procs
  BY DEF Procs
<1>q. bound.of.queries \subseteq Queries /\ bound.of.edits \subseteq Edits
  BY <1>b, QueryLogAssumption
<1>1. ASSUME Elapse PROVE CaughtUp'
  BY <1>1 DEF Elapse, CaughtUp, Orderly, Reached, Settled, Recorded
<1>2. ASSUME Flush PROVE CaughtUp'
  <2>1. log' = Queries \ EndsAt(0) /\ log' # log /\ bound' = bound
    BY <1>2 DEF Flush
  <2>2. log = {q \in Queries : ended[q] > 0}
    BY <2>1 DEF CaughtUp, Orderly
  <2> QED
    BY <1>l, <2>1, <2>2 DEF EndsAt
<1>3. ASSUME NEW q \in bound.of.queries, Finish(q) PROVE CaughtUp'
  <2>1. UNCHANGED <<now, bound, harvested, mark, work, violations>>
    BY <1>3 DEF Finish
  <2>2. Orderly /\ bound.of.prompt /\ bound.of.perSecond = 1
    BY <2>1 DEF Orderly
  <2>3. q \in Queries /\ ended[q] = 0 /\ ended' = [ended EXCEPT ![q] = now]
        /\ log' = log \cup {q}
    BY <1>3, <1>q, <2>2 DEF Finish
  <2>4. \A x \in Queries : ended[x] # now
    BY FS_Subset, QueryLogAssumption, <1>3, <2>2, FS_CardinalityType, FS_EmptySet DEF EndsAt,
       Finish
  <2>5. \A x \in log : ended[x] < now /\ ended'[x] = ended[x] /\ x # q
    BY <1>l, <1>n, <2>2, <2>3, <2>4 DEF DataInv, CaughtUp
  <2>6. ended'[q] = now /\ \A x \in Queries : ended'[x] \in Nat
    BY <1>l, <1>n, <2>3
  <2>7. \A x \in Queries : Recorded(x)' = Recorded(x)
    BY <2>1 DEF Recorded
  <2>8. ASSUME NEW t \in Nat, Reached(t) PROVE t < now
    BY <1>n, <2>5, <2>8 DEF Reached
  <2>9. ASSUME NEW r \in Syncs PROVE CaughtBy(r)'
    <3>1. CaughtBy(r) /\ work'[r] = work[r] /\ work[r] \in Work /\ work[r].rows \subseteq log
      BY <1>w, <1>s, <2>1, <2>2 DEF CaughtUp, DataInv, DataOf
    <3>2. work[r].from \in Nat /\ work[r].new \in Nat
      BY <3>1
    <3>3. CASE work[r].at = "fetch"
      <4>1. Reached(work[r].from) /\ Settled(work[r].from) /\ ~work[r].err
        BY <3>1, <3>3
      <4>2. work[r].from < now
        BY <2>8, <3>2, <4>1
      <4> QED
        BY <1>n, <1>l, <2>3, <2>5, <2>6, <2>7, <3>1, <3>2, <3>3, <4>1, <4>2 DEF Reached, Settled
    <3>4. CASE work[r].at = "insert"
      BY <1>n, <1>l, <2>3, <2>5, <2>6, <2>7, <3>1, <3>4
    <3>5. CASE work[r].at \in Past
      <4>1. Reached(work[r].new) /\ ~work[r].err /\ work[r].rows \subseteq harvested
            /\ \A x \in log : ended[x] <= work[r].new => x \in work[r].rows \/ Recorded(x)
        BY <3>1, <3>5
      <4>2. work[r].new < now
        BY <2>8, <3>2, <4>1
      <4> QED
        BY <1>n, <1>l, <2>1, <2>3, <2>5, <2>6, <2>7, <3>1, <3>2, <3>5, <4>1, <4>2 DEF Reached
    <3> QED
      BY <3>1, <3>3, <3>4, <3>5
  <2>10. Reached(mark) /\ Settled(mark) /\ mark < now
    BY <1>n, <2>2, <2>8 DEF CaughtUp
  <2>11. Reached(mark)' /\ Settled(mark)'
    BY <1>n, <1>l, <2>1, <2>3, <2>5, <2>6, <2>7, <2>10 DEF Reached, Settled
  <2>12. \A x, y \in log' : ended'[x] = ended'[y] => x = y
    BY <1>n, <1>l, <2>2, <2>3, <2>5, <2>6 DEF CaughtUp
  <2>13. log' = {x \in Queries : ended'[x] > 0}
    BY <1>n, <1>l, <2>2, <2>3 DEF CaughtUp
  <2> QED
    BY <2>9, <2>11, <2>12, <2>13 DEF CaughtUp
<1>4. ASSUME NEW p \in Syncs, Trigger(p) PROVE CaughtUp'
  <2>1. bound' = bound /\ log' = log /\ ended' = ended /\ mark' = mark
    BY <1>4, NoFault DEF Trigger
  <2>2. harvested' = harvested /\ violations' = violations
    BY <1>4, <1>v, <1>s, <1>h DEF Trigger
  <2>4. Orderly /\ DataOf(p) /\ (p \in Syncs => CaughtBy(p)) /\ work[p] \in Work
    BY <1>s, <1>w, <2>1 DEF Orderly, CaughtUp, DataInv
  <2>3. work[p].at = "idle" /\
              \/ p \in Fulls /\ work'[p] = [work[p] EXCEPT !.at = "enter"]
              \/ p \notin Fulls /\ work'[p] = [work[p] EXCEPT !.at = "begin"]
    BY <1>4, <1>w, <1>s, TriggerDoes
  <2>7. \A q \in Queries : Recorded(q) => Recorded(q)'
    BY <1>v, <2>1, <2>2 DEF Recorded
  <2>5. p \in Syncs => CaughtBy(p)'
    <3>1. CASE p \in Fulls /\ work'[p] = [work[p] EXCEPT !.at = "enter"]
      BY <1>s, <1>l, <2>1, <2>2, <2>4, <2>7, <2>3, <3>1 DEF Reached, Settled
    <3>2. CASE p \notin Fulls /\ work'[p] = [work[p] EXCEPT !.at = "begin"]
      BY <1>s, <1>l, <2>1, <2>2, <2>4, <2>7, <2>3, <3>2 DEF Reached, Settled
    <3> QED
      BY <2>3, <3>1, <3>2
  <2> QED
    BY <1>4, <1>w, <1>s, <1>l, <2>1, <2>4, <2>2, <2>5, <2>7, TriggerDoes, CaughtAlone
<1>5. ASSUME NEW p \in Syncs, Enter(p) PROVE CaughtUp'
  <2>1. bound' = bound /\ log' = log /\ ended' = ended /\ mark' = mark
    BY <1>5, NoFault DEF Enter
  <2>2. harvested' = harvested /\ violations' = violations
    BY <1>5, <1>v, <1>s, <1>h DEF Enter
  <2>4. Orderly /\ DataOf(p) /\ (p \in Syncs => CaughtBy(p)) /\ work[p] \in Work
    BY <1>s, <1>w, <2>1 DEF Orderly, CaughtUp, DataInv
  <2>3. work[p].at = "enter" /\
              \/ work'[p] = [work[p] EXCEPT !.at = "idle"]
              \/ work'[p] = [work[p] EXCEPT !.at = "begin", !.locks = TRUE]
    BY <1>5, <1>w, <1>s, EnterDoes
  <2>7. \A q \in Queries : Recorded(q) => Recorded(q)'
    BY <1>v, <2>1, <2>2 DEF Recorded
  <2>5. p \in Syncs => CaughtBy(p)'
    <3>1. CASE work'[p] = [work[p] EXCEPT !.at = "idle"]
      BY <1>s, <1>l, <2>1, <2>2, <2>4, <2>7, <2>3, <3>1 DEF Reached, Settled
    <3>2. CASE work'[p] = [work[p] EXCEPT !.at = "begin", !.locks = TRUE]
      BY <1>s, <1>l, <2>1, <2>2, <2>4, <2>7, <2>3, <3>2 DEF Reached, Settled
    <3> QED
      BY <2>3, <3>1, <3>2
  <2> QED
    BY <1>5, <1>w, <1>s, <1>l, <2>1, <2>4, <2>2, <2>5, <2>7, EnterDoes, CaughtAlone
<1>6. ASSUME NEW p \in Syncs, Begin(p) PROVE CaughtUp'
  <2>1. bound' = bound /\ log' = log /\ ended' = ended /\ mark' = mark
    BY <1>6, NoFault DEF Begin
  <2>2. harvested' = harvested /\ violations' = violations
    BY <1>6, <1>v, <1>s, <1>h DEF Begin
  <2>4. Orderly /\ DataOf(p) /\ (p \in Syncs => CaughtBy(p)) /\ work[p] \in Work
    BY <1>s, <1>w, <2>1 DEF Orderly, CaughtUp, DataInv
  <2>3. work[p].at = "begin"
              /\ work'[p] = [work[p] EXCEPT !.at = "mark", !.start = now]
    BY <1>6, <1>w, <1>s, BeginDoes
  <2>7. \A q \in Queries : Recorded(q) => Recorded(q)'
    BY <1>v, <2>1, <2>2 DEF Recorded
  <2>5. p \in Syncs => CaughtBy(p)'
    BY <1>s, <1>l, <2>1, <2>2, <2>4, <2>7, <2>3 DEF Reached, Settled
  <2> QED
    BY <1>6, <1>w, <1>s, <1>l, <2>1, <2>4, <2>2, <2>5, <2>7, BeginDoes, CaughtAlone
<1>7. ASSUME NEW p \in Syncs, ReadMark(p) PROVE CaughtUp'
  <2>1. bound' = bound /\ log' = log /\ ended' = ended /\ mark' = mark
    BY <1>7, NoFault DEF ReadMark
  <2>2. harvested' = harvested /\ violations' = violations
    BY <1>7, <1>v, <1>s, <1>h DEF ReadMark
  <2>4. Orderly /\ DataOf(p) /\ (p \in Syncs => CaughtBy(p)) /\ work[p] \in Work
    BY <1>s, <1>w, <2>1 DEF Orderly, CaughtUp, DataInv
  <2>3. work[p].at = "mark" /\
              \/ work'[p] = [work[p] EXCEPT !.at = "fetch", !.from = mark]
              \/ work'[p] = [work[p] EXCEPT !.at = "fetch", !.from = 0]
    BY <1>7, <1>w, <1>s, ReadMarkDoes
  <2>7. \A q \in Queries : Recorded(q) => Recorded(q)'
    BY <1>v, <2>1, <2>2 DEF Recorded
  <2>9. Reached(mark) /\ Settled(mark) /\ work'[p] = [work[p] EXCEPT !.at = "fetch", !.from = mark]
    BY <1>7, <1>w, <1>s, <2>4, NoFault DEF ReadMark, CaughtUp
  <2>5. CaughtBy(p)'
    <3>1. ~work[p].err /\ mark \in Nat
      BY <1>s, <1>n, <2>4
    <3>2. work'[p].at = "fetch" /\ work'[p].from = mark /\ ~work'[p].err
      BY <2>4, <2>9, <3>1
    <3> QED
      BY <1>l, <2>1, <2>7, <2>9, <3>2 DEF Reached, Settled
  <2> QED
    BY <1>7, <1>w, <1>s, <1>l, <2>1, <2>4, <2>2, <2>5, <2>7, ReadMarkDoes, CaughtAlone
<1>8. ASSUME NEW p \in Syncs, Fetch(p) PROVE CaughtUp'
  <2>1. bound' = bound /\ log' = log /\ ended' = ended /\ mark' = mark
    BY <1>8, NoFault DEF Fetch
  <2>2. harvested' = harvested /\ violations' = violations
    BY <1>8, <1>v, <1>s, <1>h DEF Fetch
  <2>4. Orderly /\ DataOf(p) /\ (p \in Syncs => CaughtBy(p)) /\ work[p] \in Work
    BY <1>s, <1>w, <2>1 DEF Orderly, CaughtUp, DataInv
  <2>3. work[p].at = "fetch" /\ \E rows \in Batches(work[p].from) :
              \/ rows = {} /\ work'[p] = [work[p] EXCEPT !.at = "end", !.new = work[p].from]
              \/ rows # {} /\ work'[p] = [work[p] EXCEPT !.at = "insert", !.rows = rows]
    BY <1>8, <1>w, <1>s, FetchDoes
  <2>7. \A q \in Queries : Recorded(q) => Recorded(q)'
    BY <1>v, <2>1, <2>2 DEF Recorded
  <2>5. CaughtBy(p)'
    <3>1. PICK rows \in Batches(work[p].from) :
            \/ rows = {} /\ work'[p] = [work[p] EXCEPT !.at = "end", !.new = work[p].from]
            \/ rows # {} /\ work'[p] = [work[p] EXCEPT !.at = "insert", !.rows = rows]
      BY <2>3
    <3>2. /\ rows \subseteq log
          /\ \A q \in log : ended[q] > work[p].from /\ q \notin rows
                => \A x \in rows : ended[x] <= ended[q]
      BY DEF Batches
    <3>3. /\ \A q \in log : ended[q] <= work[p].from => Recorded(q)
          /\ work[p].from = 0 \/ \E q \in log : ended[q] = work[p].from
          /\ ~work[p].err /\ work[p].from \in Nat
      BY <2>3, <2>4 DEF Reached, Settled
    <3>4. \A q \in log, x \in rows : ended[q] <= ended[x] => q \in rows \/ Recorded(q)
      BY <1>l, <2>4, <3>2, <3>3 DEF CaughtUp
    <3>5. CASE work'[p] = [work[p] EXCEPT !.at = "end", !.new = work[p].from]
      <4>1. work'[p].at = "end" /\ work'[p].new = work[p].from /\ ~work'[p].err
            /\ work'[p].rows = {}
        BY <2>3, <2>4, <3>3, <3>5 DEF DataOf
      <4> QED
        BY <1>l, <2>1, <2>7, <3>3, <4>1 DEF Reached, Settled
    <3>6. CASE work'[p] = [work[p] EXCEPT !.at = "insert", !.rows = rows]
      <4>1. work'[p].at = "insert" /\ work'[p].rows = rows /\ ~work'[p].err
        BY <2>4, <3>3, <3>6
      <4> QED
        BY <1>l, <2>1, <2>7, <3>4, <4>1
    <3> QED
      BY <3>1, <3>5, <3>6
  <2> QED
    BY <1>8, <1>w, <1>s, <1>l, <2>1, <2>4, <2>2, <2>5, <2>7, FetchDoes, CaughtAlone
<1>9. ASSUME NEW p \in Syncs, FetchFails(p) PROVE CaughtUp'
  BY <1>9, NoFault DEF FetchFails, Fail
<1>10. ASSUME NEW p \in Syncs, InsertQueryLogBatch(p) PROVE CaughtUp'
  <2>1. bound' = bound /\ log' = log /\ ended' = ended /\ mark' = mark
    BY <1>10, NoFault DEF InsertQueryLogBatch
  <2>2. harvested' = harvested \cup work[p].rows /\ violations' = violations
    BY <1>10, <1>v, <1>s, <1>h DEF InsertQueryLogBatch
  <2>4. Orderly /\ DataOf(p) /\ (p \in Syncs => CaughtBy(p)) /\ work[p] \in Work
    BY <1>s, <1>w, <2>1 DEF Orderly, CaughtUp, DataInv
  <2>3. work[p].at = "insert"
              /\ work'[p] = [work[p] EXCEPT !.at = "policies", !.new = Latest(work[p].rows)]
    BY <1>10, <1>w, <1>s, InsertQueryLogBatchDoes
  <2>7. \A q \in Queries : Recorded(q) => Recorded(q)'
    BY <1>v, <2>1, <2>2 DEF Recorded
  <2>5. CaughtBy(p)'
    <3>1. work[p].rows # {} /\ work[p].rows \subseteq log /\ ~work[p].err
          /\ \A q \in log, x \in work[p].rows :
                ended[q] <= ended[x] => q \in work[p].rows \/ Recorded(q)
      BY <2>3, <2>4 DEF DataOf
    <3>2. PICK x \in work[p].rows : ended[x] = Latest(work[p].rows)
      BY <1>l, <3>1, LatestIsLast
    <3>3. work'[p].at = "policies" /\ work'[p].new = ended[x] /\ ~work'[p].err
          /\ work'[p].rows = work[p].rows
      BY <2>3, <2>4, <3>1, <3>2
    <3> QED
      BY <1>l, <2>1, <2>2, <2>7, <3>1, <3>3 DEF Reached
  <2> QED
    BY <1>10, <1>w, <1>s, <1>l, <2>1, <2>4, <2>2, <2>5, <2>7, InsertQueryLogBatchDoes, CaughtAlone
<1>11. ASSUME NEW p \in Syncs, InsertFails(p) PROVE CaughtUp'
  BY <1>11, NoFault DEF InsertFails, Fail
<1>12. ASSUME NEW p \in Syncs, GetPolicies(p) PROVE CaughtUp'
  <2>1. bound' = bound /\ log' = log /\ ended' = ended /\ mark' = mark
    BY <1>12, NoFault DEF GetPolicies
  <2>2. harvested' = harvested /\ violations' = violations
    BY <1>12, <1>v, <1>s, <1>h DEF GetPolicies
  <2>4. Orderly /\ DataOf(p) /\ (p \in Syncs => CaughtBy(p)) /\ work[p] \in Work
    BY <1>s, <1>w, <2>1 DEF Orderly, CaughtUp, DataInv
  <2>3. work[p].at = "policies" /\
              \/ work'[p] = [work[p] EXCEPT !.at = "evaluate"]
              \/ work'[p] = [work[p] EXCEPT !.at = "end", !.rows = {}]
    BY <1>12, <1>w, <1>s, GetPoliciesDoes
  <2>7. \A q \in Queries : Recorded(q) => Recorded(q)'
    BY <1>v, <2>1, <2>2 DEF Recorded
  <2>9. work'[p] = [work[p] EXCEPT !.at = "evaluate"]
    BY <1>12, <1>w, <1>s, NoFault DEF GetPolicies
  <2>5. CaughtBy(p)'
    BY <1>s, <1>l, <2>1, <2>2, <2>3, <2>4, <2>7, <2>9 DEF Reached
  <2> QED
    BY <1>12, <1>w, <1>s, <1>l, <2>1, <2>4, <2>2, <2>5, <2>7, GetPoliciesDoes, CaughtAlone
<1>13. ASSUME NEW p \in Syncs, Evaluate(p) PROVE CaughtUp'
  <2>1. bound' = bound /\ log' = log /\ ended' = ended /\ mark' = mark
    BY <1>13, NoFault DEF Evaluate
  <2>2. harvested' = harvested /\ \A q \in Queries : violations[q] > 0 => violations'[q] > 0
    BY <1>13, <1>v, <1>w, <1>s DEF Evaluate, Earliest
  <2>4. Orderly /\ DataOf(p) /\ (p \in Syncs => CaughtBy(p)) /\ work[p] \in Work
    BY <1>s, <1>w, <2>1 DEF Orderly, CaughtUp, DataInv
  <2>3. work[p].at = "evaluate" /\ \E q \in Earliest(work[p].rows) :
              \/ q \in bound.of.violating /\ violations' = [violations EXCEPT ![q] = @ + 1]
                 /\ bound' = bound /\ work'[p] = [work[p] EXCEPT !.at = "find", !.rows = @ \ {q}]
              \/ (q \in bound.of.violating => Fault) /\ violations' = violations
                 /\ work'[p] = [work[p] EXCEPT !.rows = @ \ {q}]
    BY <1>13, <1>w, <1>s, EvaluateDoes
  <2>7. \A q \in Queries : Recorded(q) => Recorded(q)'
    BY <1>v, <2>1, <2>2 DEF Recorded
  <2>5. CaughtBy(p)'
    <3>1. PICK q \in Earliest(work[p].rows) :
              \/ q \in bound.of.violating /\ violations' = [violations EXCEPT ![q] = @ + 1]
                 /\ bound' = bound /\ work'[p] = [work[p] EXCEPT !.at = "find", !.rows = @ \ {q}]
              \/ (q \in bound.of.violating => Fault) /\ violations' = violations
                 /\ work'[p] = [work[p] EXCEPT !.rows = @ \ {q}]
      BY <2>3
    <3>2. /\ q \in work[p].rows /\ work[p].rows \subseteq harvested /\ ~work[p].err
          /\ Reached(work[p].new)
          /\ \A x \in log : ended[x] <= work[p].new => x \in work[p].rows \/ Recorded(x)
      BY <1>s, <2>3, <2>4 DEF Earliest
    <3>3. q \in Queries /\ q \in harvested
      BY <1>h, <3>2
    <3>4. Recorded(q)'
      BY <1>v, <2>1, <2>2, <3>1, <3>3, NoFault DEF Recorded
    <3>5. work'[p].at \in {"find", "evaluate"} /\ work'[p].new = work[p].new /\ ~work'[p].err
          /\ work'[p].rows = work[p].rows \ {q}
      BY <2>4, <3>2, <2>3, <3>1
    <3> QED
      BY <1>l, <2>1, <2>2, <2>7, <3>2, <3>4, <3>5 DEF Reached
  <2> QED
    BY <1>13, <1>w, <1>s, <1>l, <2>1, <2>4, <2>2, <2>5, <2>7, EvaluateDoes, CaughtAlone
<1>14. ASSUME NEW p \in Syncs, Evaluated(p) PROVE CaughtUp'
  <2>1. bound' = bound /\ log' = log /\ ended' = ended /\ mark' = mark
    BY <1>14, NoFault DEF Evaluated
  <2>2. harvested' = harvested /\ violations' = violations
    BY <1>14, <1>v, <1>s, <1>h DEF Evaluated
  <2>4. Orderly /\ DataOf(p) /\ (p \in Syncs => CaughtBy(p)) /\ work[p] \in Work
    BY <1>s, <1>w, <2>1 DEF Orderly, CaughtUp, DataInv
  <2>3. work[p].at = "evaluate" /\ work[p].rows = {}
              /\ work'[p] = [work[p] EXCEPT !.at = "end"]
    BY <1>14, <1>w, <1>s, EvaluatedDoes
  <2>7. \A q \in Queries : Recorded(q) => Recorded(q)'
    BY <1>v, <2>1, <2>2 DEF Recorded
  <2>5. p \in Syncs => CaughtBy(p)'
    BY <1>s, <1>l, <2>1, <2>2, <2>4, <2>7, <2>3 DEF Reached, Settled
  <2> QED
    BY <1>14, <1>w, <1>s, <1>l, <2>1, <2>4, <2>2, <2>5, <2>7, EvaluatedDoes, CaughtAlone
<1>15. ASSUME NEW p \in Syncs, End(p) PROVE CaughtUp'
  <2>1. bound' = bound /\ log' = log /\ ended' = ended /\ (mark' = IF work[p].err THEN work[p].start ELSE work[p].new)
    BY <1>15, NoFault DEF End
  <2>2. harvested' = harvested /\ violations' = violations
    BY <1>15, <1>v, <1>s, <1>h DEF End
  <2>4. Orderly /\ DataOf(p) /\ (p \in Syncs => CaughtBy(p)) /\ work[p] \in Work
    BY <1>s, <1>w, <2>1 DEF Orderly, CaughtUp, DataInv
  <2>3. work[p].at = "end" /\ work'[p] = NoWork
    BY <1>15, <1>w, <1>s, EndDoes
  <2>7. \A q \in Queries : Recorded(q) => Recorded(q)'
    BY <1>v, <2>1, <2>2 DEF Recorded
  <2>5. CaughtBy(p)'
    BY <2>3 DEF NoWork
  <2>6. Reached(mark)' /\ Settled(mark)'
    <3>1. ~work[p].err /\ work[p].rows = {} /\ Reached(work[p].new)
          /\ \A x \in log : ended[x] <= work[p].new => x \in work[p].rows \/ Recorded(x)
      BY <1>s, <2>3, <2>4 DEF DataOf
    <3>2. mark' = work[p].new
      BY <2>1, <3>1
    <3> QED
      BY <1>l, <2>1, <2>7, <3>1, <3>2 DEF Reached, Settled
  <2> QED
    BY <1>15, <1>w, <1>s, <1>l, <2>1, <2>4, <2>2, <2>5, <2>7, <2>6, EndDoes, CaughtAlone
<1>16. ASSUME NEW p \in Procs, BlockQuery(p) PROVE CaughtUp'
  <2>1. bound' = bound /\ log' = log /\ ended' = ended /\ mark' = mark
    BY <1>16, NoFault DEF BlockQuery
  <2>2. harvested' = harvested /\ \A q \in Queries : violations[q] > 0 => violations'[q] > 0
    BY <1>16, <1>v, <1>s, <1>h DEF BlockQuery
  <2>4. Orderly /\ DataOf(p) /\ (p \in Syncs => CaughtBy(p)) /\ work[p] \in Work
    BY <1>s, <1>w, <2>1 DEF Orderly, CaughtUp, DataInv
  <2>3. work[p].at = "idle" /\
              \/ work'[p] = [work[p] EXCEPT !.at = "find"]
              \/ work'[p] = [work[p] EXCEPT !.at = "done"]
    BY <1>16, <1>w, <1>s, BlockQueryDoes
  <2>7. \A q \in Queries : Recorded(q) => Recorded(q)'
    BY <1>v, <2>1, <2>2 DEF Recorded
  <2>5. p \notin Syncs
    BY <1>16, <1>r, <1>b DEF BlockQuery
  <2> QED
    BY <1>16, <1>w, <1>s, <1>l, <2>1, <2>4, <2>2, <2>5, <2>7, BlockQueryDoes, CaughtAlone
<1>17. ASSUME NEW p \in Procs, CreateIncidentFromViolation(p) PROVE CaughtUp'
  <2>1. bound' = bound /\ log' = log /\ ended' = ended /\ mark' = mark
    BY <1>17, NoFault DEF CreateIncidentFromViolation
  <2>2. harvested' = harvested /\ violations' = violations
    BY <1>17, <1>v, <1>s, <1>h DEF CreateIncidentFromViolation
  <2>4. Orderly /\ DataOf(p) /\ (p \in Syncs => CaughtBy(p)) /\ work[p] \in Work
    BY <1>s, <1>w, <2>1 DEF Orderly, CaughtUp, DataInv
  <2>3. work[p].at = "idle"
              /\ work'[p] = [work[p] EXCEPT !.at = "find"]
    BY <1>17, <1>w, <1>s, CreateIncidentFromViolationDoes
  <2>7. \A q \in Queries : Recorded(q) => Recorded(q)'
    BY <1>v, <2>1, <2>2 DEF Recorded
  <2>5. p \notin Syncs
    BY <1>17, <1>r, <1>b DEF CreateIncidentFromViolation
  <2> QED
    BY <1>17, <1>w, <1>s, <1>l, <2>1, <2>4, <2>2, <2>5, <2>7, CreateIncidentFromViolationDoes, CaughtAlone
<1>18. ASSUME NEW p \in Procs, FindIncident(p) PROVE CaughtUp'
  <2>1. bound' = bound /\ log' = log /\ ended' = ended /\ mark' = mark
    BY <1>18, NoFault DEF FindIncident, Return
  <2>2. harvested' = harvested /\ violations' = violations
    BY <1>18, <1>v, <1>s, <1>h DEF FindIncident, Return
  <2>4. Orderly /\ DataOf(p) /\ (p \in Syncs => CaughtBy(p)) /\ work[p] \in Work
    BY <1>s, <1>w, <2>1 DEF Orderly, CaughtUp, DataInv
  <2>3. work[p].at = "find" /\
              \/ Open = {} /\ work'[p] = [work[p] EXCEPT !.at = "create", !.incident = 0]
              \/ \E i \in Open : work'[p] = [work[p] EXCEPT !.at = "count", !.incident = i]
              \/ p \in Syncs /\ work'[p] = [work[p] EXCEPT !.at = "evaluate"]
              \/ p \notin Syncs /\ work'[p] = [work[p] EXCEPT !.at = "done"]
    BY <1>18, <1>w, <1>s, FindIncidentDoes
  <2>7. \A q \in Queries : Recorded(q) => Recorded(q)'
    BY <1>v, <2>1, <2>2 DEF Recorded
  <2>8. work[p].at = "find"
    BY <2>3
  <2>5. p \in Syncs => CaughtBy(p)'
    <3>1. CASE work'[p] = [work[p] EXCEPT !.at = "create", !.incident = 0]
      BY <1>s, <1>l, <2>1, <2>2, <2>4, <2>7, <2>8, <3>1 DEF Reached, Settled
    <3>2. ASSUME NEW i \in Open, work'[p] = [work[p] EXCEPT !.at = "count", !.incident = i] PROVE p \in Syncs => CaughtBy(p)'
      BY <1>s, <1>l, <2>1, <2>2, <2>4, <2>7, <2>8, <3>2 DEF Reached, Settled
    <3>3. CASE p \in Syncs /\ work'[p] = [work[p] EXCEPT !.at = "evaluate"]
      BY <1>s, <1>l, <2>1, <2>2, <2>4, <2>7, <2>8, <3>3 DEF Reached, Settled
    <3>4. CASE p \notin Syncs /\ work'[p] = [work[p] EXCEPT !.at = "done"]
      BY <1>s, <1>l, <2>1, <2>2, <2>4, <2>7, <2>8, <3>4 DEF Reached, Settled
    <3> QED
      BY <2>3, <3>1, <3>2, <3>3, <3>4
  <2> QED
    BY <1>18, <1>w, <1>s, <1>l, <2>1, <2>4, <2>2, <2>5, <2>7, FindIncidentDoes, CaughtAlone
<1>19. ASSUME NEW p \in Procs, CountOccurrence(p) PROVE CaughtUp'
  <2>1. bound' = bound /\ log' = log /\ ended' = ended /\ mark' = mark
    BY <1>19, NoFault DEF CountOccurrence, Return
  <2>2. harvested' = harvested /\ violations' = violations
    BY <1>19, <1>v, <1>s, <1>h DEF CountOccurrence, Return
  <2>4. Orderly /\ DataOf(p) /\ (p \in Syncs => CaughtBy(p)) /\ work[p] \in Work
    BY <1>s, <1>w, <2>1 DEF Orderly, CaughtUp, DataInv
  <2>3. work[p].at = "count" /\
              \/ p \in Syncs /\ work'[p] = [work[p] EXCEPT !.at = "evaluate"]
              \/ p \notin Syncs /\ work'[p] = [work[p] EXCEPT !.at = "done"]
    BY <1>19, <1>w, <1>s, CountOccurrenceDoes
  <2>7. \A q \in Queries : Recorded(q) => Recorded(q)'
    BY <1>v, <2>1, <2>2 DEF Recorded
  <2>5. p \in Syncs => CaughtBy(p)'
    <3>1. CASE p \in Syncs /\ work'[p] = [work[p] EXCEPT !.at = "evaluate"]
      BY <1>s, <1>l, <2>1, <2>2, <2>4, <2>7, <2>3, <3>1 DEF Reached, Settled
    <3>2. CASE p \notin Syncs /\ work'[p] = [work[p] EXCEPT !.at = "done"]
      BY <1>s, <1>l, <2>1, <2>2, <2>4, <2>7, <2>3, <3>2 DEF Reached, Settled
    <3> QED
      BY <2>3, <3>1, <3>2
  <2> QED
    BY <1>19, <1>w, <1>s, <1>l, <2>1, <2>4, <2>2, <2>5, <2>7, CountOccurrenceDoes, CaughtAlone
<1>20. ASSUME NEW p \in Procs, CreateIncident(p) PROVE CaughtUp'
  <2>1. bound' = bound /\ log' = log /\ ended' = ended /\ mark' = mark
    BY <1>20, NoFault DEF CreateIncident, Return
  <2>2. harvested' = harvested /\ violations' = violations
    BY <1>20, <1>v, <1>s, <1>h DEF CreateIncident, Return
  <2>4. Orderly /\ DataOf(p) /\ (p \in Syncs => CaughtBy(p)) /\ work[p] \in Work
    BY <1>s, <1>w, <2>1 DEF Orderly, CaughtUp, DataInv
  <2>3. work[p].at = "create" /\
              \/ p \in Syncs /\ work'[p] = [work[p] EXCEPT !.at = "evaluate"]
              \/ p \notin Syncs /\ work'[p] = [work[p] EXCEPT !.at = "done"]
    BY <1>20, <1>w, <1>s, CreateIncidentDoes
  <2>7. \A q \in Queries : Recorded(q) => Recorded(q)'
    BY <1>v, <2>1, <2>2 DEF Recorded
  <2>5. p \in Syncs => CaughtBy(p)'
    <3>1. CASE p \in Syncs /\ work'[p] = [work[p] EXCEPT !.at = "evaluate"]
      BY <1>s, <1>l, <2>1, <2>2, <2>4, <2>7, <2>3, <3>1 DEF Reached, Settled
    <3>2. CASE p \notin Syncs /\ work'[p] = [work[p] EXCEPT !.at = "done"]
      BY <1>s, <1>l, <2>1, <2>2, <2>4, <2>7, <2>3, <3>2 DEF Reached, Settled
    <3> QED
      BY <2>3, <3>1, <3>2
  <2> QED
    BY <1>20, <1>w, <1>s, <1>l, <2>1, <2>4, <2>2, <2>5, <2>7, CreateIncidentDoes, CaughtAlone
<1>21. ASSUME NEW e \in bound.of.edits, ReadIncident(e) PROVE CaughtUp'
  <2>1. UNCHANGED <<bound, log, ended, harvested, mark, work, violations>>
    BY <1>21, NoFault DEF ReadIncident
  <2> QED
    BY <2>1 DEF CaughtUp, Orderly, Reached, Settled, Recorded
<1>22. ASSUME NEW e \in bound.of.edits, WriteIncident(e) PROVE CaughtUp'
  <2>1. UNCHANGED <<bound, log, ended, harvested, mark, work, violations>>
    BY <1>22, NoFault DEF WriteIncident
  <2> QED
    BY <2>1 DEF CaughtUp, Orderly, Reached, Settled, Recorded
<1>23. ASSUME Crash PROVE CaughtUp'
  <2>1. UNCHANGED <<log, ended, harvested, mark, violations>>
        /\ bound'.of = bound.of /\ bound'.faults = bound.faults
    BY <1>23, <1>b DEF Crash
  <2>2. ASSUME NEW r \in Syncs PROVE work'[r] = NoWork
    BY <1>23, <1>s DEF Crash
  <2>3. \A r \in Syncs : CaughtBy(r)'
    BY <2>2 DEF NoWork
  <2> QED
    BY <2>1, <2>3 DEF CaughtUp, Orderly, Reached, Settled, Recorded
<1>24. CASE UNCHANGED vars
  BY <1>24 DEF vars, CaughtUp, Orderly, Reached, Settled, Recorded
<1> QED
  BY <1>1, <1>2, <1>3, <1>4, <1>5, <1>6, <1>7, <1>8, <1>9, <1>10, <1>11, <1>12, <1>13, <1>14,
     <1>15, <1>16, <1>17, <1>18, <1>19, <1>20, <1>21, <1>22, <1>23, <1>24
     DEF Next, Harvest, Upsert, Procs

(* When one sync at a time goes on from where the last one ended, everything   *)
(* with a violation is behind the watermark, or behind the new one of the sync *)
(* under way, whose rows have none yet.                                        *)
OneByOne == bound.of.singles = {} /\ bound.faults = 0 /\ bound.crashes = 0

OnceOf(p) ==
    /\ ~work[p].err
    /\ work[p].at \in {"fetch", "insert"} \cup Past => work[p].from = mark
    /\ work[p].at = "insert" => \A q \in work[p].rows : ended[q] > mark
    /\ work[p].at \in Past =>
          /\ work[p].new >= mark
          /\ \A q \in work[p].rows :
                ended[q] > mark /\ ended[q] <= work[p].new /\ violations[q] = 0

OnceInv ==
    OneByOne =>
       /\ \A q \in Queries : violations[q] <= 1
       /\ \A q \in Queries : violations[q] > 0 =>
             /\ ended[q] > 0
             /\ \/ ended[q] <= mark
                \/ \E p \in Syncs : work[p].at \in Past /\ ended[q] <= work[p].new
       /\ \A p \in Syncs : OnceOf(p)

Covers(p) == p \in Syncs /\ work[p].at \in Past => work'[p].at \in Past /\ work'[p].new = work[p].new

LEMMA NoFaultNow ==
    ASSUME TypeInv, OneByOne'
    PROVE  ~Fault
BY FaultKeeps DEF TypeInv, OneByOne

\* A sync that went in holds the lock.
LEMMA Busy ==
    ASSUME TypeInv, LockInv, bound.of.singles = {}, NEW p \in Syncs,
           work[p].at \notin {"idle", "enter"}
    PROVE  work[p].locks
BY QueryLogAssumption DEF TypeInv, LockInv, LockOf, Procs, Taking, Syncs

(* A step of one process that leaves the violations and the watermark. *)
LEMMA OnceAlone ==
    ASSUME TypeInv, OneByOne, OnceInv, NEW p \in Procs, Alone(p), p \in Syncs => OnceOf(p)',
           Covers(p), bound' = bound, ended' = ended, mark' = mark,
           \A q \in Queries : violations'[q] = violations[q],
           \A r \in Procs : work[r].rows \subseteq Queries
    PROVE  OnceInv'
<1>1. ASSUME NEW r \in Syncs PROVE OnceOf(r)'
  BY DEF OnceInv, Alone, OnceOf, Procs
<1>2. ASSUME NEW r \in Syncs, work[r].at \in Past
      PROVE  work'[r].at \in Past /\ work'[r].new = work[r].new
  BY <1>2 DEF Covers, Alone, Procs
<1> QED
  BY <1>1, <1>2 DEF OnceInv

\* Every step records what it evaluates for the first time.
LEMMA OnceStep == TypeInv /\ DataInv /\ LockInv /\ OnceInv /\ [Next]_vars => OnceInv'
<1> SUFFICES ASSUME TypeInv, DataInv, LockInv, OnceInv, [Next]_vars, OneByOne' PROVE OnceInv'
  BY DEF OnceInv
<1> USE DEF found, clickhouse, At, Work, Filing, Go, Past, OnceOf
<1>v. violations \in [Queries \cup Blocked -> Nat]
  BY DEF TypeInv
<1>r. /\ Queries \cap Blocked = {}
      /\ \A sc \in Scenarios : /\ sc.blocked \cap Syncs = {} /\ sc.manuals \cap Syncs = {}
                               /\ sc.blocked \subseteq Blocked
  BY QueryLogAssumption
<1>n. now \in Nat \ {0} /\ mark \in Nat
  BY DEF TypeInv
<1>l. log \in SUBSET Queries /\ harvested \in SUBSET Queries /\ ended \in [Queries -> Nat]
  BY DEF TypeInv
<1>w. work \in [Procs -> Work]
  BY DEF TypeInv
<1>i. incidents \in Seq(Incident)
  BY DEF TypeInv
<1>e. edit \in [Edits -> Edit]
  BY DEF TypeInv
<1>b. bound \in [of : Scenarios, faults : Nat, crashes : Nat]
  BY DEF TypeInv
<1>s. Syncs \subseteq Procs
  BY DEF Procs
<1>d. \A r \in Procs : work[r].rows \subseteq Queries
  BY <1>l DEF DataInv, DataOf
<1>q. bound.of.queries \subseteq Queries /\ bound.of.edits \subseteq Edits
  BY <1>b, QueryLogAssumption
<1>1. ASSUME Elapse PROVE OnceInv'
  BY <1>1, NoFaultNow DEF Elapse, OnceInv, OneByOne
<1>2. ASSUME Flush PROVE OnceInv'
  BY <1>2, NoFaultNow DEF Flush, OnceInv, OneByOne
<1>3. ASSUME NEW q \in bound.of.queries, Finish(q) PROVE OnceInv'
  <2>1. UNCHANGED <<bound, mark, work, violations>> /\ q \in Queries /\ ended[q] = 0
        /\ ended' = [ended EXCEPT ![q] = now]
    BY <1>3, <1>q DEF Finish
  <2>2. \A x \in Queries : x = q \/ ended'[x] = ended[x]
    BY <1>l, <2>1
  <2>3. OneByOne
    BY <2>1 DEF OneByOne
  <2>4. ~ (violations[q] > 0)
    BY <2>1, <2>3 DEF OnceInv, OneByOne
  <2>5. ASSUME NEW r \in Syncs PROVE OnceOf(r)'
    <3>1. \A x \in work[r].rows : x \in Queries /\ ended'[x] = ended[x]
      BY <1>l, <1>s, <2>1, <2>2 DEF DataInv, DataOf
    <3> QED
      BY <2>1, <2>3, <3>1 DEF OnceInv, OneByOne
  <2> QED
    BY <2>1, <2>2, <2>3, <2>4, <2>5 DEF OnceInv, OneByOne
<1>4. ASSUME NEW p \in Syncs, Trigger(p) PROVE OnceInv'
  <2>1. bound' = bound /\ ended' = ended /\ mark' = mark
    BY <1>4, NoFaultNow DEF Trigger
  <2>2. violations' = violations
    BY <1>4, <1>v, <1>r, <1>b DEF Trigger
  <2>4. OneByOne /\ DataOf(p) /\ (p \in Syncs => OnceOf(p)) /\ work[p] \in Work
    BY <1>s, <1>w, <2>1 DEF OneByOne, OnceInv, DataInv
  <2>3. work[p].at = "idle" /\
              \/ p \in Fulls /\ work'[p] = [work[p] EXCEPT !.at = "enter"]
              \/ p \notin Fulls /\ work'[p] = [work[p] EXCEPT !.at = "begin"]
    BY <1>4, <1>w, <1>s, TriggerDoes
  <2>5. (p \in Syncs => OnceOf(p)') /\ Covers(p)
    <3>1. CASE p \in Fulls /\ work'[p] = [work[p] EXCEPT !.at = "enter"]
      BY <1>s, <1>l, <1>n, <2>1, <2>2, <2>4, <2>3, <3>1 DEF Covers
    <3>2. CASE p \notin Fulls /\ work'[p] = [work[p] EXCEPT !.at = "begin"]
      BY <1>s, <1>l, <1>n, <2>1, <2>2, <2>4, <2>3, <3>2 DEF Covers
    <3> QED
      BY <2>3, <3>1, <3>2
  <2> QED
    BY <1>4, <1>w, <1>s, <1>v, <2>1, <2>2, <2>4, <2>5, TriggerDoes, OnceAlone, <1>d
<1>5. ASSUME NEW p \in Syncs, Enter(p) PROVE OnceInv'
  <2>1. bound' = bound /\ ended' = ended /\ mark' = mark
    BY <1>5, NoFaultNow DEF Enter
  <2>2. violations' = violations
    BY <1>5, <1>v, <1>r, <1>b DEF Enter
  <2>4. OneByOne /\ DataOf(p) /\ (p \in Syncs => OnceOf(p)) /\ work[p] \in Work
    BY <1>s, <1>w, <2>1 DEF OneByOne, OnceInv, DataInv
  <2>3. work[p].at = "enter" /\
              \/ work'[p] = [work[p] EXCEPT !.at = "idle"]
              \/ work'[p] = [work[p] EXCEPT !.at = "begin", !.locks = TRUE]
    BY <1>5, <1>w, <1>s, EnterDoes
  <2>5. (p \in Syncs => OnceOf(p)') /\ Covers(p)
    <3>1. CASE work'[p] = [work[p] EXCEPT !.at = "idle"]
      BY <1>s, <1>l, <1>n, <2>1, <2>2, <2>4, <2>3, <3>1 DEF Covers
    <3>2. CASE work'[p] = [work[p] EXCEPT !.at = "begin", !.locks = TRUE]
      BY <1>s, <1>l, <1>n, <2>1, <2>2, <2>4, <2>3, <3>2 DEF Covers
    <3> QED
      BY <2>3, <3>1, <3>2
  <2> QED
    BY <1>5, <1>w, <1>s, <1>v, <2>1, <2>2, <2>4, <2>5, EnterDoes, OnceAlone, <1>d
<1>6. ASSUME NEW p \in Syncs, Begin(p) PROVE OnceInv'
  <2>1. bound' = bound /\ ended' = ended /\ mark' = mark
    BY <1>6, NoFaultNow DEF Begin
  <2>2. violations' = violations
    BY <1>6, <1>v, <1>r, <1>b DEF Begin
  <2>4. OneByOne /\ DataOf(p) /\ (p \in Syncs => OnceOf(p)) /\ work[p] \in Work
    BY <1>s, <1>w, <2>1 DEF OneByOne, OnceInv, DataInv
  <2>3. work[p].at = "begin"
              /\ work'[p] = [work[p] EXCEPT !.at = "mark", !.start = now]
    BY <1>6, <1>w, <1>s, BeginDoes
  <2>5. (p \in Syncs => OnceOf(p)') /\ Covers(p)
    BY <1>s, <1>l, <1>n, <2>1, <2>2, <2>4, <2>3 DEF Covers
  <2> QED
    BY <1>6, <1>w, <1>s, <1>v, <2>1, <2>2, <2>4, <2>5, BeginDoes, OnceAlone, <1>d
<1>7. ASSUME NEW p \in Syncs, ReadMark(p) PROVE OnceInv'
  <2>1. bound' = bound /\ ended' = ended /\ mark' = mark
    BY <1>7, NoFaultNow DEF ReadMark
  <2>2. violations' = violations
    BY <1>7, <1>v, <1>r, <1>b DEF ReadMark
  <2>4. OneByOne /\ DataOf(p) /\ (p \in Syncs => OnceOf(p)) /\ work[p] \in Work
    BY <1>s, <1>w, <2>1 DEF OneByOne, OnceInv, DataInv
  <2>3. work[p].at = "mark" /\
              \/ work'[p] = [work[p] EXCEPT !.at = "fetch", !.from = mark]
              \/ work'[p] = [work[p] EXCEPT !.at = "fetch", !.from = 0]
    BY <1>7, <1>w, <1>s, ReadMarkDoes
  <2>9. work'[p] = [work[p] EXCEPT !.at = "fetch", !.from = mark]
    BY <1>7, <1>w, <1>s, NoFaultNow DEF ReadMark
  <2>5. OnceOf(p)' /\ Covers(p)
    BY <1>s, <1>n, <2>1, <2>3, <2>4, <2>9 DEF Covers
  <2> QED
    BY <1>7, <1>w, <1>s, <1>v, <2>1, <2>2, <2>4, <2>5, ReadMarkDoes, OnceAlone, <1>d
<1>8. ASSUME NEW p \in Syncs, Fetch(p) PROVE OnceInv'
  <2>1. bound' = bound /\ ended' = ended /\ mark' = mark
    BY <1>8, NoFaultNow DEF Fetch
  <2>2. violations' = violations
    BY <1>8, <1>v, <1>r, <1>b DEF Fetch
  <2>4. OneByOne /\ DataOf(p) /\ (p \in Syncs => OnceOf(p)) /\ work[p] \in Work
    BY <1>s, <1>w, <2>1 DEF OneByOne, OnceInv, DataInv
  <2>3. work[p].at = "fetch" /\ \E rows \in Batches(work[p].from) :
              \/ rows = {} /\ work'[p] = [work[p] EXCEPT !.at = "end", !.new = work[p].from]
              \/ rows # {} /\ work'[p] = [work[p] EXCEPT !.at = "insert", !.rows = rows]
    BY <1>8, <1>w, <1>s, FetchDoes
  <2>6. PICK rows \in Batches(work[p].from) :
              \/ rows = {} /\ work'[p] = [work[p] EXCEPT !.at = "end", !.new = work[p].from]
              \/ rows # {} /\ work'[p] = [work[p] EXCEPT !.at = "insert", !.rows = rows]
    BY <2>3
  <2>7. rows \subseteq Queries /\ \A q \in rows : ended[q] > work[p].from
    BY <1>l DEF Batches
  <2>8. ~work[p].err /\ work[p].from = mark /\ work[p].rows = {}
    BY <1>s, <2>3, <2>4 DEF DataOf
  <2>5. OnceOf(p)' /\ Covers(p)
    <3>1. CASE work'[p] = [work[p] EXCEPT !.at = "end", !.new = work[p].from]
      BY <1>n, <2>1, <2>3, <2>4, <2>8, <3>1 DEF Covers
    <3>2. CASE work'[p] = [work[p] EXCEPT !.at = "insert", !.rows = rows]
      BY <1>n, <2>1, <2>3, <2>4, <2>7, <2>8, <3>2 DEF Covers
    <3> QED
      BY <2>6, <3>1, <3>2
  <2> QED
    BY <1>8, <1>w, <1>s, <1>v, <2>1, <2>2, <2>4, <2>5, FetchDoes, OnceAlone, <1>d
<1>9. ASSUME NEW p \in Syncs, FetchFails(p) PROVE OnceInv'
  BY <1>9, NoFaultNow DEF FetchFails, Fail
<1>10. ASSUME NEW p \in Syncs, InsertQueryLogBatch(p) PROVE OnceInv'
  <2>1. bound' = bound /\ ended' = ended /\ mark' = mark
    BY <1>10, NoFaultNow DEF InsertQueryLogBatch
  <2>2. violations' = violations
    BY <1>10, <1>v, <1>r, <1>b DEF InsertQueryLogBatch
  <2>4. OneByOne /\ DataOf(p) /\ (p \in Syncs => OnceOf(p)) /\ work[p] \in Work
    BY <1>s, <1>w, <2>1 DEF OneByOne, OnceInv, DataInv
  <2>3. work[p].at = "insert"
              /\ work'[p] = [work[p] EXCEPT !.at = "policies", !.new = Latest(work[p].rows)]
    BY <1>10, <1>w, <1>s, InsertQueryLogBatchDoes
  <2>6. ~work[p].err /\ work[p].from = mark /\ work[p].rows # {} /\ work[p].rows \subseteq Queries
        /\ \A q \in work[p].rows : ended[q] > work[p].from
    BY <1>s, <1>l, <2>3, <2>4 DEF DataOf
  <2>7. /\ \E x \in work[p].rows : Latest(work[p].rows) = ended[x]
        /\ \A y \in work[p].rows : ended[y] <= Latest(work[p].rows)
        /\ Latest(work[p].rows) \in Nat
    BY <2>6, LatestIsLast
  <2>8. \A q \in work[p].rows : violations[q] = 0
    <3>1. ASSUME NEW q \in work[p].rows, violations[q] > 0 PROVE FALSE
      <4>1. ~ (ended[q] <= mark)
        BY <1>l, <1>n, <2>6, <3>1
      <4>2. PICK r \in Syncs : work[r].at \in Past
        BY <2>4, <2>6, <3>1, <4>1 DEF OnceInv, OneByOne
      <4>3. work[r].locks /\ work[p].locks
        BY <2>3, <2>4, <4>2, Busy DEF OneByOne
      <4> QED
        BY <1>s, <2>3, <4>2, <4>3 DEF LockInv
    <3> QED
      BY <1>v, <2>6, <3>1
  <2>5. OnceOf(p)' /\ Covers(p)
    <3>1. work'[p].at = "policies" /\ work'[p].new = Latest(work[p].rows) /\ ~work'[p].err
          /\ work'[p].rows = work[p].rows /\ work'[p].from = work[p].from
      BY <2>3, <2>4, <2>6
    <3>2. \A q \in work[p].rows : ended[q] \in Nat
      BY <1>l, <2>6
    <3>3. Latest(work[p].rows) >= work[p].from
      BY <1>n, <2>6, <2>7, <3>2
    <3> QED
      BY <1>n, <2>1, <2>2, <2>3, <2>6, <2>7, <2>8, <3>1, <3>3 DEF Covers
  <2> QED
    BY <1>10, <1>w, <1>s, <1>v, <2>1, <2>2, <2>4, <2>5, InsertQueryLogBatchDoes, OnceAlone, <1>d
<1>11. ASSUME NEW p \in Syncs, InsertFails(p) PROVE OnceInv'
  BY <1>11, NoFaultNow DEF InsertFails, Fail
<1>12. ASSUME NEW p \in Syncs, GetPolicies(p) PROVE OnceInv'
  <2>1. bound' = bound /\ ended' = ended /\ mark' = mark
    BY <1>12, NoFaultNow DEF GetPolicies
  <2>2. violations' = violations
    BY <1>12, <1>v, <1>r, <1>b DEF GetPolicies
  <2>4. OneByOne /\ DataOf(p) /\ (p \in Syncs => OnceOf(p)) /\ work[p] \in Work
    BY <1>s, <1>w, <2>1 DEF OneByOne, OnceInv, DataInv
  <2>3. work[p].at = "policies" /\
              \/ work'[p] = [work[p] EXCEPT !.at = "evaluate"]
              \/ work'[p] = [work[p] EXCEPT !.at = "end", !.rows = {}]
    BY <1>12, <1>w, <1>s, GetPoliciesDoes
  <2>9. work'[p] = [work[p] EXCEPT !.at = "evaluate"]
    BY <1>12, <1>w, <1>s, NoFaultNow DEF GetPolicies
  <2>5. OnceOf(p)' /\ Covers(p)
    BY <1>s, <1>n, <1>l, <2>1, <2>2, <2>3, <2>4, <2>9 DEF Covers
  <2> QED
    BY <1>12, <1>w, <1>s, <1>v, <2>1, <2>2, <2>4, <2>5, GetPoliciesDoes, OnceAlone, <1>d
<1>13. ASSUME NEW p \in Syncs, Evaluate(p) PROVE OnceInv'
  <2>1. bound' = bound /\ ended' = ended /\ mark' = mark
    BY <1>13, NoFaultNow DEF Evaluate
  <2>4. OneByOne /\ DataOf(p) /\ OnceOf(p) /\ work[p] \in Work /\ Alone(p) /\ OnceInv
    BY <1>13, <1>s, <1>w, <2>1, EvaluateDoes DEF OneByOne, OnceInv, DataInv
  <2>3. PICK q \in Earliest(work[p].rows) :
              \/ q \in bound.of.violating /\ violations' = [violations EXCEPT ![q] = @ + 1]
                 /\ bound' = bound /\ work'[p] = [work[p] EXCEPT !.at = "find", !.rows = @ \ {q}]
              \/ (q \in bound.of.violating => Fault) /\ violations' = violations
                 /\ work'[p] = [work[p] EXCEPT !.rows = @ \ {q}]
    BY <1>13, <1>w, <1>s, EvaluateDoes
  <2>5. work[p].at = "evaluate"
    BY <1>13 DEF Evaluate
  <2>6. /\ ~work[p].err /\ work[p].from = mark /\ work[p].new >= work[p].from
        /\ \A x \in work[p].rows : ended[x] > mark /\ ended[x] <= work[p].new /\ violations[x] = 0
        /\ work[p].rows \subseteq Queries
    BY <1>s, <1>l, <2>4, <2>5 DEF DataOf
  <2>7. q \in work[p].rows /\ q \in Queries
    BY <2>6 DEF Earliest
  <2>8. \A x \in Queries : violations'[x] = violations[x] \/ (x = q /\ violations'[x] = 1)
    BY <1>v, <2>3, <2>6, <2>7
  <2>9. work'[p].at \in {"find", "evaluate"} /\ work'[p].new = work[p].new /\ ~work'[p].err
        /\ work'[p].rows = work[p].rows \ {q} /\ work'[p].from = work[p].from
    BY <2>4, <2>6, <2>5, <2>3
  <2>10. \A r \in Syncs : OnceOf(r)'
    <3>1. ASSUME NEW r \in Syncs, r # p PROVE OnceOf(r)'
      <4>1. ~ (work[r].at \notin {"idle", "enter"})
        BY <1>s, <2>4, <2>5, <3>1, Busy DEF LockInv, OneByOne
      <4>2. work'[r] = work[r] /\ OnceOf(r)
        BY <1>s, <2>4, <3>1 DEF Alone, OnceInv, OneByOne
      <4> QED
        BY <4>1, <4>2
    <3>2. OnceOf(p)'
      BY <2>6, <2>8, <2>9, <2>1
    <3> QED
      BY <3>1, <3>2
  <2>11. ASSUME NEW x \in Queries, violations'[x] > 0
         PROVE  ended'[x] > 0 /\ (ended'[x] <= mark' \/ \E r \in Syncs :
                    work'[r].at \in Past /\ ended'[x] <= work'[r].new)
    <3>1. CASE x = q
      BY <1>l, <1>n, <2>1, <2>6, <2>7, <2>9, <3>1
    <3>2. CASE violations'[x] = violations[x]
      <4>1. ended[x] > 0 /\ (ended[x] <= mark \/ \E r \in Syncs :
                work[r].at \in Past /\ ended[x] <= work[r].new)
        BY <2>4, <2>11, <3>2 DEF OnceInv, OneByOne
      <4> QED
        BY <1>s, <2>1, <2>4, <2>9, <4>1 DEF Alone
    <3> QED
      BY <2>8, <3>1, <3>2
  <2>12. \A x \in Queries : violations'[x] <= 1
    BY <2>4, <2>8 DEF OnceInv, OneByOne
  <2> QED
    BY <2>10, <2>11, <2>12 DEF OnceInv
<1>14. ASSUME NEW p \in Syncs, Evaluated(p) PROVE OnceInv'
  <2>1. bound' = bound /\ ended' = ended /\ mark' = mark
    BY <1>14, NoFaultNow DEF Evaluated
  <2>2. violations' = violations
    BY <1>14, <1>v, <1>r, <1>b DEF Evaluated
  <2>4. OneByOne /\ DataOf(p) /\ (p \in Syncs => OnceOf(p)) /\ work[p] \in Work
    BY <1>s, <1>w, <2>1 DEF OneByOne, OnceInv, DataInv
  <2>3. work[p].at = "evaluate" /\ work[p].rows = {}
              /\ work'[p] = [work[p] EXCEPT !.at = "end"]
    BY <1>14, <1>w, <1>s, EvaluatedDoes
  <2>5. (p \in Syncs => OnceOf(p)') /\ Covers(p)
    BY <1>s, <1>l, <1>n, <2>1, <2>2, <2>4, <2>3 DEF Covers
  <2> QED
    BY <1>14, <1>w, <1>s, <1>v, <2>1, <2>2, <2>4, <2>5, EvaluatedDoes, OnceAlone, <1>d
<1>15. ASSUME NEW p \in Syncs, End(p) PROVE OnceInv'
  <2>1. bound' = bound /\ ended' = ended /\ violations' = violations
        /\ mark' = IF work[p].err THEN work[p].start ELSE work[p].new
    BY <1>15, NoFaultNow DEF End
  <2>4. OneByOne /\ OnceOf(p) /\ work[p] \in Work /\ OnceInv
    BY <1>s, <1>w, <2>1 DEF OneByOne, OnceInv
  <2>3. Alone(p) /\ work[p].at = "end" /\ work'[p] = NoWork
    BY <1>15, <1>w, <1>s, EndDoes
  <2>6. ~work[p].err /\ work[p].from = mark /\ work[p].new >= mark /\ work[p].new \in Nat
    BY <1>s, <2>4, <2>3
  <2>7. mark' = work[p].new
    BY <2>1, <2>6
  <2>5. ASSUME NEW r \in Syncs, r # p PROVE work'[r] = work[r] /\ work[r].at \in {"idle", "enter"}
    BY <1>s, <2>3, <2>4, <2>5, Busy DEF LockInv, OneByOne, Alone
  <2>10. ASSUME NEW r \in Syncs PROVE OnceOf(r)'
    BY <2>3, <2>4, <2>5 DEF NoWork, OnceInv, OneByOne
  <2>11. ASSUME NEW x \in Queries, violations[x] > 0
         PROVE  ended[x] > 0 /\ ended[x] <= mark'
    <3>1. ended[x] > 0 /\ (ended[x] <= mark \/ \E r \in Syncs :
                work[r].at \in Past /\ ended[x] <= work[r].new)
      BY <2>4, <2>11 DEF OnceInv, OneByOne
    <3>2. CASE ended[x] <= mark
      BY <1>l, <1>n, <2>6, <2>7, <3>1, <3>2
    <3>3. ASSUME NEW r \in Syncs, work[r].at \in Past, ended[x] <= work[r].new
          PROVE  ended[x] <= mark'
      BY <2>5, <2>7, <3>3
    <3> QED
      BY <3>1, <3>2, <3>3
  <2> QED
    BY <2>1, <2>4, <2>10, <2>11 DEF OnceInv, OneByOne
<1>16. ASSUME NEW p \in Procs, BlockQuery(p) PROVE OnceInv'
  <2>1. bound' = bound /\ ended' = ended /\ mark' = mark
    BY <1>16, NoFaultNow DEF BlockQuery
  <2>2. \A q \in Queries : violations'[q] = violations[q]
    BY <1>16, <1>v, <1>r, <1>b DEF BlockQuery
  <2>4. OneByOne /\ DataOf(p) /\ (p \in Syncs => OnceOf(p)) /\ work[p] \in Work
    BY <1>s, <1>w, <2>1 DEF OneByOne, OnceInv, DataInv
  <2>3. work[p].at = "idle" /\
              \/ work'[p] = [work[p] EXCEPT !.at = "find"]
              \/ work'[p] = [work[p] EXCEPT !.at = "done"]
    BY <1>16, <1>w, <1>s, BlockQueryDoes
  <2>6. p \notin Syncs
    BY <1>16, <1>r, <1>b DEF BlockQuery
  <2>5. (p \in Syncs => OnceOf(p)') /\ Covers(p)
    BY <2>3, <2>6 DEF Covers
  <2> QED
    BY <1>16, <1>w, <1>s, <1>v, <2>1, <2>2, <2>4, <2>5, BlockQueryDoes, OnceAlone, <1>d
<1>17. ASSUME NEW p \in Procs, CreateIncidentFromViolation(p) PROVE OnceInv'
  <2>1. bound' = bound /\ ended' = ended /\ mark' = mark
    BY <1>17, NoFaultNow DEF CreateIncidentFromViolation
  <2>2. violations' = violations
    BY <1>17, <1>v, <1>r, <1>b DEF CreateIncidentFromViolation
  <2>4. OneByOne /\ DataOf(p) /\ (p \in Syncs => OnceOf(p)) /\ work[p] \in Work
    BY <1>s, <1>w, <2>1 DEF OneByOne, OnceInv, DataInv
  <2>3. work[p].at = "idle"
              /\ work'[p] = [work[p] EXCEPT !.at = "find"]
    BY <1>17, <1>w, <1>s, CreateIncidentFromViolationDoes
  <2>6. p \notin Syncs
    BY <1>17, <1>r, <1>b DEF CreateIncidentFromViolation
  <2>5. (p \in Syncs => OnceOf(p)') /\ Covers(p)
    BY <2>3, <2>6 DEF Covers
  <2> QED
    BY <1>17, <1>w, <1>s, <1>v, <2>1, <2>2, <2>4, <2>5, CreateIncidentFromViolationDoes, OnceAlone, <1>d
<1>18. ASSUME NEW p \in Procs, FindIncident(p) PROVE OnceInv'
  <2>1. bound' = bound /\ ended' = ended /\ mark' = mark
    BY <1>18, NoFaultNow DEF FindIncident, Return
  <2>2. violations' = violations
    BY <1>18, <1>v, <1>r, <1>b DEF FindIncident, Return
  <2>4. OneByOne /\ DataOf(p) /\ (p \in Syncs => OnceOf(p)) /\ work[p] \in Work
    BY <1>s, <1>w, <2>1 DEF OneByOne, OnceInv, DataInv
  <2>3. work[p].at = "find" /\
              \/ Open = {} /\ work'[p] = [work[p] EXCEPT !.at = "create", !.incident = 0]
              \/ \E i \in Open : work'[p] = [work[p] EXCEPT !.at = "count", !.incident = i]
              \/ p \in Syncs /\ work'[p] = [work[p] EXCEPT !.at = "evaluate"]
              \/ p \notin Syncs /\ work'[p] = [work[p] EXCEPT !.at = "done"]
    BY <1>18, <1>w, <1>s, FindIncidentDoes
  <2>8. work[p].at = "find"
    BY <2>3
  <2>5. (p \in Syncs => OnceOf(p)') /\ Covers(p)
    <3>1. CASE work'[p] = [work[p] EXCEPT !.at = "create", !.incident = 0]
      BY <1>s, <1>l, <1>n, <2>1, <2>2, <2>4, <2>8, <3>1 DEF Covers
    <3>2. ASSUME NEW i \in Open, work'[p] = [work[p] EXCEPT !.at = "count", !.incident = i] PROVE (p \in Syncs => OnceOf(p)') /\ Covers(p)
      BY <1>s, <1>l, <1>n, <2>1, <2>2, <2>4, <2>8, <3>2 DEF Covers
    <3>3. CASE p \in Syncs /\ work'[p] = [work[p] EXCEPT !.at = "evaluate"]
      BY <1>s, <1>l, <1>n, <2>1, <2>2, <2>4, <2>8, <3>3 DEF Covers
    <3>4. CASE p \notin Syncs /\ work'[p] = [work[p] EXCEPT !.at = "done"]
      BY <1>s, <1>l, <1>n, <2>1, <2>2, <2>4, <2>8, <3>4 DEF Covers
    <3> QED
      BY <2>3, <3>1, <3>2, <3>3, <3>4
  <2> QED
    BY <1>18, <1>w, <1>s, <1>v, <2>1, <2>2, <2>4, <2>5, FindIncidentDoes, OnceAlone, <1>d
<1>19. ASSUME NEW p \in Procs, CountOccurrence(p) PROVE OnceInv'
  <2>1. bound' = bound /\ ended' = ended /\ mark' = mark
    BY <1>19, NoFaultNow DEF CountOccurrence, Return
  <2>2. violations' = violations
    BY <1>19, <1>v, <1>r, <1>b DEF CountOccurrence, Return
  <2>4. OneByOne /\ DataOf(p) /\ (p \in Syncs => OnceOf(p)) /\ work[p] \in Work
    BY <1>s, <1>w, <2>1 DEF OneByOne, OnceInv, DataInv
  <2>3. work[p].at = "count" /\
              \/ p \in Syncs /\ work'[p] = [work[p] EXCEPT !.at = "evaluate"]
              \/ p \notin Syncs /\ work'[p] = [work[p] EXCEPT !.at = "done"]
    BY <1>19, <1>w, <1>s, CountOccurrenceDoes
  <2>5. (p \in Syncs => OnceOf(p)') /\ Covers(p)
    <3>1. CASE p \in Syncs /\ work'[p] = [work[p] EXCEPT !.at = "evaluate"]
      BY <1>s, <1>l, <1>n, <2>1, <2>2, <2>4, <2>3, <3>1 DEF Covers
    <3>2. CASE p \notin Syncs /\ work'[p] = [work[p] EXCEPT !.at = "done"]
      BY <1>s, <1>l, <1>n, <2>1, <2>2, <2>4, <2>3, <3>2 DEF Covers
    <3> QED
      BY <2>3, <3>1, <3>2
  <2> QED
    BY <1>19, <1>w, <1>s, <1>v, <2>1, <2>2, <2>4, <2>5, CountOccurrenceDoes, OnceAlone, <1>d
<1>20. ASSUME NEW p \in Procs, CreateIncident(p) PROVE OnceInv'
  <2>1. bound' = bound /\ ended' = ended /\ mark' = mark
    BY <1>20, NoFaultNow DEF CreateIncident, Return
  <2>2. violations' = violations
    BY <1>20, <1>v, <1>r, <1>b DEF CreateIncident, Return
  <2>4. OneByOne /\ DataOf(p) /\ (p \in Syncs => OnceOf(p)) /\ work[p] \in Work
    BY <1>s, <1>w, <2>1 DEF OneByOne, OnceInv, DataInv
  <2>3. work[p].at = "create" /\
              \/ p \in Syncs /\ work'[p] = [work[p] EXCEPT !.at = "evaluate"]
              \/ p \notin Syncs /\ work'[p] = [work[p] EXCEPT !.at = "done"]
    BY <1>20, <1>w, <1>s, CreateIncidentDoes
  <2>5. (p \in Syncs => OnceOf(p)') /\ Covers(p)
    <3>1. CASE p \in Syncs /\ work'[p] = [work[p] EXCEPT !.at = "evaluate"]
      BY <1>s, <1>l, <1>n, <2>1, <2>2, <2>4, <2>3, <3>1 DEF Covers
    <3>2. CASE p \notin Syncs /\ work'[p] = [work[p] EXCEPT !.at = "done"]
      BY <1>s, <1>l, <1>n, <2>1, <2>2, <2>4, <2>3, <3>2 DEF Covers
    <3> QED
      BY <2>3, <3>1, <3>2
  <2> QED
    BY <1>20, <1>w, <1>s, <1>v, <2>1, <2>2, <2>4, <2>5, CreateIncidentDoes, OnceAlone, <1>d
<1>21. ASSUME NEW e \in bound.of.edits, ReadIncident(e) PROVE OnceInv'
  BY <1>21, NoFaultNow DEF ReadIncident, OnceInv, OneByOne
<1>22. ASSUME NEW e \in bound.of.edits, WriteIncident(e) PROVE OnceInv'
  BY <1>22, NoFaultNow DEF WriteIncident, OnceInv, OneByOne
<1>23. ASSUME Crash PROVE OnceInv'
  BY <1>23, <1>b DEF Crash, OneByOne
<1>24. CASE UNCHANGED vars
  BY <1>24 DEF vars, OnceInv, OneByOne
<1> QED
  BY <1>1, <1>2, <1>3, <1>4, <1>5, <1>6, <1>7, <1>8, <1>9, <1>10, <1>11, <1>12, <1>13, <1>14,
     <1>15, <1>16, <1>17, <1>18, <1>19, <1>20, <1>21, <1>22, <1>23, <1>24
     DEF Next, Harvest, Upsert, Procs

(* With one writer at a time and one edit, an incident is closed only by that  *)
(* edit: until it is over there is nothing it could open again.                *)
Solo ==
    /\ bound.of.singles \cup bound.of.blocked \cup bound.of.manuals = {}
    /\ Cardinality(bound.of.edits) <= 1

OneInv ==
    Solo =>
       /\ \A i, j \in Open : i = j
       /\ \A e \in Edits : edit[e].at # "idle" => e \in bound.of.edits
       /\ (\A e \in Edits : edit[e].at # "done") => Open = DOMAIN incidents
       /\ \A p \in Procs : work[p].at = "create" => Open = {}

\* Of one edit there are no two.
LEMMA OneEdit ==
    ASSUME TypeInv, Solo, NEW x \in bound.of.edits, NEW y \in bound.of.edits
    PROVE  x = y
<1>1. bound.of.edits \subseteq Edits
  BY QueryLogAssumption DEF TypeInv
<1>2. IsFiniteSet(bound.of.edits)
  BY <1>1, FS_Subset, QueryLogAssumption
<1>3. Cardinality(bound.of.edits) = 1
  BY <1>2, FS_CardinalityType, FS_EmptySet DEF Solo
<1> QED
  BY <1>2, <1>3, FS_Singleton

\* Whoever looks at the incidents holds the lock.
LEMMA SoloBusy ==
    ASSUME TypeInv, LockInv, Solo, NEW p \in Procs, work[p].at = "create"
    PROVE  work[p].locks
BY QueryLogAssumption DEF TypeInv, LockInv, LockOf, Taking, Solo

(* A step of one process that leaves the incidents. *)
LEMMA OneKept ==
    ASSUME OneInv, NEW p \in Procs, Alone(p), work'[p].at = "create" => Open = {},
           incidents' = incidents, edit' = edit, bound'.of = bound.of
    PROVE  OneInv'
BY DEF Open, Alone, OneInv, Solo

\* Every step keeps it.
LEMMA OneStep == TypeInv /\ DataInv /\ LockInv /\ OneInv /\ [Next]_vars => OneInv'
<1> SUFFICES ASSUME TypeInv, DataInv, LockInv, OneInv, [Next]_vars, Solo' PROVE OneInv'
  BY DEF OneInv
<1>n. now \in Nat \ {0} /\ mark \in Nat
  BY DEF TypeInv
<1>l. log \in SUBSET Queries /\ harvested \in SUBSET Queries /\ ended \in [Queries -> Nat]
  BY DEF TypeInv
<1>w. work \in [Procs -> Work]
  BY DEF TypeInv
<1>i. incidents \in Seq(Incident)
  BY DEF TypeInv
<1>e. edit \in [Edits -> Edit]
  BY DEF TypeInv
<1>b. bound \in [of : Scenarios, faults : Nat, crashes : Nat]
  BY DEF TypeInv
<1>s. Syncs \subseteq Procs
  BY DEF Procs
<1>q. bound.of.queries \subseteq Queries /\ bound.of.edits \subseteq Edits
  BY <1>b, QueryLogAssumption
<1>1. ASSUME Elapse PROVE OneInv'
  BY <1>1 DEF Elapse, found, OneInv, Solo, Open
<1>2. ASSUME Flush PROVE OneInv'
  BY <1>2 DEF Flush, found, OneInv, Solo, Open
<1>3. ASSUME NEW q \in bound.of.queries, Finish(q) PROVE OneInv'
  BY <1>3 DEF Finish, found, OneInv, Solo, Open
<1>4. ASSUME NEW p \in Syncs, Trigger(p) PROVE OneInv'
  <2>1. incidents' = incidents /\ edit' = edit /\ bound'.of = bound.of
    BY <1>4, <1>b DEF Trigger, At, Go, clickhouse, found
  <2>4. work[p] \in Work
    BY <1>s, <1>w
  <2>3. work[p].at = "idle" /\
              \/ p \in Fulls /\ work'[p] = [work[p] EXCEPT !.at = "enter"]
              \/ p \notin Fulls /\ work'[p] = [work[p] EXCEPT !.at = "begin"]
    BY <1>4, <1>w, <1>s, TriggerDoes
  <2>5. work'[p].at # "create"
    BY <2>4, <2>3 DEF Work
  <2> QED
    BY <1>4, <1>w, <1>s, <2>1, <2>5, TriggerDoes, OneKept
<1>5. ASSUME NEW p \in Syncs, Enter(p) PROVE OneInv'
  <2>1. incidents' = incidents /\ edit' = edit /\ bound'.of = bound.of
    BY <1>5, <1>b DEF Enter, At, Go, clickhouse, found
  <2>4. work[p] \in Work
    BY <1>s, <1>w
  <2>3. work[p].at = "enter" /\
              \/ work'[p] = [work[p] EXCEPT !.at = "idle"]
              \/ work'[p] = [work[p] EXCEPT !.at = "begin", !.locks = TRUE]
    BY <1>5, <1>w, <1>s, EnterDoes
  <2>5. work'[p].at # "create"
    BY <2>4, <2>3 DEF Work
  <2> QED
    BY <1>5, <1>w, <1>s, <2>1, <2>5, EnterDoes, OneKept
<1>6. ASSUME NEW p \in Syncs, Begin(p) PROVE OneInv'
  <2>1. incidents' = incidents /\ edit' = edit /\ bound'.of = bound.of
    BY <1>6, <1>b DEF Begin, At, clickhouse, found
  <2>4. work[p] \in Work
    BY <1>s, <1>w
  <2>3. work[p].at = "begin"
              /\ work'[p] = [work[p] EXCEPT !.at = "mark", !.start = now]
    BY <1>6, <1>w, <1>s, BeginDoes
  <2>5. work'[p].at # "create"
    BY <2>4, <2>3 DEF Work
  <2> QED
    BY <1>6, <1>w, <1>s, <2>1, <2>5, BeginDoes, OneKept
<1>7. ASSUME NEW p \in Syncs, ReadMark(p) PROVE OneInv'
  <2>1. incidents' = incidents /\ edit' = edit /\ bound'.of = bound.of
    BY <1>7, <1>b DEF ReadMark, At, Fault, clickhouse, found
  <2>4. work[p] \in Work
    BY <1>s, <1>w
  <2>3. work[p].at = "mark" /\
              \/ work'[p] = [work[p] EXCEPT !.at = "fetch", !.from = mark]
              \/ work'[p] = [work[p] EXCEPT !.at = "fetch", !.from = 0]
    BY <1>7, <1>w, <1>s, ReadMarkDoes
  <2>5. work'[p].at # "create"
    BY <2>4, <2>3 DEF Work
  <2> QED
    BY <1>7, <1>w, <1>s, <2>1, <2>5, ReadMarkDoes, OneKept
<1>8. ASSUME NEW p \in Syncs, Fetch(p) PROVE OneInv'
  <2>1. incidents' = incidents /\ edit' = edit /\ bound'.of = bound.of
    BY <1>8, <1>b DEF Fetch, At, clickhouse, found
  <2>4. work[p] \in Work
    BY <1>s, <1>w
  <2>3. work[p].at = "fetch" /\ \E rows \in Batches(work[p].from) :
              \/ rows = {} /\ work'[p] = [work[p] EXCEPT !.at = "end", !.new = work[p].from]
              \/ rows # {} /\ work'[p] = [work[p] EXCEPT !.at = "insert", !.rows = rows]
    BY <1>8, <1>w, <1>s, FetchDoes
  <2>6. PICK rows \in Batches(work[p].from) :
              \/ rows = {} /\ work'[p] = [work[p] EXCEPT !.at = "end", !.new = work[p].from]
              \/ rows # {} /\ work'[p] = [work[p] EXCEPT !.at = "insert", !.rows = rows]
    BY <2>3
  <2>5. work'[p].at # "create"
    BY <2>4, <2>3, <2>6 DEF Work
  <2> QED
    BY <1>8, <1>w, <1>s, <2>1, <2>5, FetchDoes, OneKept
<1>9. ASSUME NEW p \in Syncs, FetchFails(p) PROVE OneInv'
  <2>1. incidents' = incidents /\ edit' = edit /\ bound'.of = bound.of
    BY <1>9, <1>b DEF FetchFails, At, Fail, Fault, clickhouse, found
  <2>4. work[p] \in Work
    BY <1>s, <1>w
  <2>3. work[p].at = "fetch"
              /\ work'[p] = [work[p] EXCEPT !.at = "end", !.err = TRUE, !.rows = {}]
    BY <1>9, <1>w, <1>s, FetchFailsDoes
  <2>5. work'[p].at # "create"
    BY <2>4, <2>3 DEF Work
  <2> QED
    BY <1>9, <1>w, <1>s, <2>1, <2>5, FetchFailsDoes, OneKept
<1>10. ASSUME NEW p \in Syncs, InsertQueryLogBatch(p) PROVE OneInv'
  <2>1. incidents' = incidents /\ edit' = edit /\ bound'.of = bound.of
    BY <1>10, <1>b DEF InsertQueryLogBatch, At, clickhouse, found
  <2>4. work[p] \in Work
    BY <1>s, <1>w
  <2>3. work[p].at = "insert"
              /\ work'[p] = [work[p] EXCEPT !.at = "policies", !.new = Latest(work[p].rows)]
    BY <1>10, <1>w, <1>s, InsertQueryLogBatchDoes
  <2>5. work'[p].at # "create"
    BY <2>4, <2>3 DEF Work
  <2> QED
    BY <1>10, <1>w, <1>s, <2>1, <2>5, InsertQueryLogBatchDoes, OneKept
<1>11. ASSUME NEW p \in Syncs, InsertFails(p) PROVE OneInv'
  <2>1. incidents' = incidents /\ edit' = edit /\ bound'.of = bound.of
    BY <1>11, <1>b DEF InsertFails, At, Fail, Fault, clickhouse, found
  <2>4. work[p] \in Work
    BY <1>s, <1>w
  <2>3. work[p].at = "insert"
              /\ work'[p] = [work[p] EXCEPT !.at = "end", !.err = TRUE, !.rows = {}]
    BY <1>11, <1>w, <1>s, InsertFailsDoes
  <2>5. work'[p].at # "create"
    BY <2>4, <2>3 DEF Work
  <2> QED
    BY <1>11, <1>w, <1>s, <2>1, <2>5, InsertFailsDoes, OneKept
<1>12. ASSUME NEW p \in Syncs, GetPolicies(p) PROVE OneInv'
  <2>1. incidents' = incidents /\ edit' = edit /\ bound'.of = bound.of
    BY <1>12, <1>b DEF GetPolicies, At, Go, Fault, clickhouse, found
  <2>4. work[p] \in Work
    BY <1>s, <1>w
  <2>3. work[p].at = "policies" /\
              \/ work'[p] = [work[p] EXCEPT !.at = "evaluate"]
              \/ work'[p] = [work[p] EXCEPT !.at = "end", !.rows = {}]
    BY <1>12, <1>w, <1>s, GetPoliciesDoes
  <2>5. work'[p].at # "create"
    BY <2>4, <2>3 DEF Work
  <2> QED
    BY <1>12, <1>w, <1>s, <2>1, <2>5, GetPoliciesDoes, OneKept
<1>13. ASSUME NEW p \in Syncs, Evaluate(p) PROVE OneInv'
  <2>1. incidents' = incidents /\ edit' = edit /\ bound'.of = bound.of
    BY <1>13, <1>b DEF Evaluate, At, Fault, clickhouse, found
  <2>4. work[p] \in Work
    BY <1>s, <1>w
  <2>3. work[p].at = "evaluate" /\ \E q \in Earliest(work[p].rows) :
              \/ q \in bound.of.violating /\ violations' = [violations EXCEPT ![q] = @ + 1]
                 /\ bound' = bound /\ work'[p] = [work[p] EXCEPT !.at = "find", !.rows = @ \ {q}]
              \/ (q \in bound.of.violating => Fault) /\ violations' = violations
                 /\ work'[p] = [work[p] EXCEPT !.rows = @ \ {q}]
    BY <1>13, <1>w, <1>s, EvaluateDoes
  <2>6. PICK q \in Earliest(work[p].rows) :
              \/ q \in bound.of.violating /\ violations' = [violations EXCEPT ![q] = @ + 1]
                 /\ bound' = bound /\ work'[p] = [work[p] EXCEPT !.at = "find", !.rows = @ \ {q}]
              \/ (q \in bound.of.violating => Fault) /\ violations' = violations
                 /\ work'[p] = [work[p] EXCEPT !.rows = @ \ {q}]
    BY <2>3
  <2>5. work'[p].at # "create"
    BY <2>4, <2>3, <2>6 DEF Work
  <2> QED
    BY <1>13, <1>w, <1>s, <2>1, <2>5, EvaluateDoes, OneKept
<1>14. ASSUME NEW p \in Syncs, Evaluated(p) PROVE OneInv'
  <2>1. incidents' = incidents /\ edit' = edit /\ bound'.of = bound.of
    BY <1>14, <1>b DEF Evaluated, At, Go, clickhouse, found
  <2>4. work[p] \in Work
    BY <1>s, <1>w
  <2>3. work[p].at = "evaluate" /\ work[p].rows = {}
              /\ work'[p] = [work[p] EXCEPT !.at = "end"]
    BY <1>14, <1>w, <1>s, EvaluatedDoes
  <2>5. work'[p].at # "create"
    BY <2>4, <2>3 DEF Work
  <2> QED
    BY <1>14, <1>w, <1>s, <2>1, <2>5, EvaluatedDoes, OneKept
<1>15. ASSUME NEW p \in Syncs, End(p) PROVE OneInv'
  <2>1. incidents' = incidents /\ edit' = edit /\ bound'.of = bound.of
    BY <1>15, <1>b DEF End, At, Fault, clickhouse, found
  <2>4. work[p] \in Work
    BY <1>s, <1>w
  <2>3. work[p].at = "end" /\ work'[p] = NoWork
    BY <1>15, <1>w, <1>s, EndDoes
  <2>5. work'[p].at # "create"
    BY <2>3 DEF NoWork
  <2> QED
    BY <1>15, <1>w, <1>s, <2>1, <2>5, EndDoes, OneKept
<1>16. ASSUME NEW p \in Procs, BlockQuery(p) PROVE OneInv'
  <2>1. incidents' = incidents /\ edit' = edit /\ bound'.of = bound.of
    BY <1>16, <1>b DEF BlockQuery, At, Go, Fault, clickhouse, found
  <2>4. work[p] \in Work
    BY <1>s, <1>w
  <2>3. work[p].at = "idle" /\
              \/ work'[p] = [work[p] EXCEPT !.at = "find"]
              \/ work'[p] = [work[p] EXCEPT !.at = "done"]
    BY <1>16, <1>w, <1>s, BlockQueryDoes
  <2>5. work'[p].at # "create"
    BY <2>4, <2>3 DEF Work
  <2> QED
    BY <1>16, <1>w, <1>s, <2>1, <2>5, BlockQueryDoes, OneKept
<1>17. ASSUME NEW p \in Procs, CreateIncidentFromViolation(p) PROVE OneInv'
  <2>1. incidents' = incidents /\ edit' = edit /\ bound'.of = bound.of
    BY <1>17, <1>b DEF CreateIncidentFromViolation, At, Go, clickhouse, found
  <2>4. work[p] \in Work
    BY <1>s, <1>w
  <2>3. work[p].at = "idle"
              /\ work'[p] = [work[p] EXCEPT !.at = "find"]
    BY <1>17, <1>w, <1>s, CreateIncidentFromViolationDoes
  <2>5. work'[p].at # "create"
    BY <2>4, <2>3 DEF Work
  <2> QED
    BY <1>17, <1>w, <1>s, <2>1, <2>5, CreateIncidentFromViolationDoes, OneKept
<1>18. ASSUME NEW p \in Procs, FindIncident(p) PROVE OneInv'
  <2>1. incidents' = incidents /\ edit' = edit /\ bound'.of = bound.of
    BY <1>18, <1>b DEF FindIncident, At, Return, Go, Fault, clickhouse, found
  <2>4. work[p] \in Work
    BY <1>s, <1>w
  <2>3. work[p].at = "find" /\
              \/ Open = {} /\ work'[p] = [work[p] EXCEPT !.at = "create", !.incident = 0]
              \/ \E i \in Open : work'[p] = [work[p] EXCEPT !.at = "count", !.incident = i]
              \/ p \in Syncs /\ work'[p] = [work[p] EXCEPT !.at = "evaluate"]
              \/ p \notin Syncs /\ work'[p] = [work[p] EXCEPT !.at = "done"]
    BY <1>18, <1>w, <1>s, FindIncidentDoes
  <2>5. work'[p].at = "create" => Open = {}
    BY <2>4, <2>3 DEF Work
  <2> QED
    BY <1>18, <1>w, <1>s, <2>1, <2>5, FindIncidentDoes, OneKept
<1>19. ASSUME NEW p \in Procs, CountOccurrence(p) PROVE OneInv'
  <2>1. edit' = edit /\ bound'.of = bound.of
    BY <1>19, <1>b DEF CountOccurrence, Fault
  <2>2. Open' = Open /\ DOMAIN incidents' = DOMAIN incidents
    <3>1. work[p].incident \in 1 .. Len(incidents)
      BY <1>19, <1>w DEF CountOccurrence, At, DataInv, DataOf, Work
    <3>2. \A i \in DOMAIN incidents : incidents[i] \in Incident
      BY <1>i
    <3> DEFINE x == [incidents[work[p].incident] EXCEPT !.count = @ + 1, !.seen = now]
    <3>3. x.status = incidents[work[p].incident].status
      BY <1>i, <3>1, <3>2 DEF Incident
    <3>4. CASE incidents' = [incidents EXCEPT ![work[p].incident] = x]
      <4> HIDE DEF x
      <4>1. DOMAIN incidents' = DOMAIN incidents
            /\ \A i \in DOMAIN incidents : incidents'[i].status = incidents[i].status
        BY <1>i, <3>1, <3>3, <3>4
      <4> QED
        BY <4>1 DEF Open
    <3>5. CASE incidents' = incidents
      BY <3>5 DEF Open
    <3> QED
      BY <1>19, <3>4, <3>5 DEF CountOccurrence
  <2>3. work'[p].at # "create" /\ Alone(p)
    <3>1. work'[p] = [work[p] EXCEPT !.at = "evaluate"] \/ work'[p] = [work[p] EXCEPT !.at = "done"]
      BY <1>19, <1>w, CountOccurrenceDoes
    <3>2. work[p] \in Work
      BY <1>w
    <3>3. ASSUME work'[p] = [work[p] EXCEPT !.at = "evaluate"] PROVE work'[p].at # "create"
      BY <3>2, <3>3 DEF Work
    <3>4. ASSUME work'[p] = [work[p] EXCEPT !.at = "done"] PROVE work'[p].at # "create"
      BY <3>2, <3>4 DEF Work
    <3> QED
      BY <1>19, <1>w, <3>1, <3>3, <3>4, CountOccurrenceDoes
  <2> QED
    BY <2>1, <2>2, <2>3 DEF OneInv, Solo, Alone
<1>20. ASSUME NEW p \in Procs, CreateIncident(p) PROVE OneInv'
  <2>1. edit' = edit /\ bound'.of = bound.of /\ work[p].at = "create" /\ Alone(p)
    BY <1>20, <1>b, <1>w, CreateIncidentDoes DEF CreateIncident, Fault
  <2>2. Open = {} /\ Solo
    BY <2>1 DEF OneInv, Solo
  <2>3. \A r \in Procs : work'[r].at # "create"
    <3>1. work'[p] = [work[p] EXCEPT !.at = "evaluate"] \/ work'[p] = [work[p] EXCEPT !.at = "done"]
      BY <1>20, <1>w, CreateIncidentDoes
    <3>2. work[p] \in Work
      BY <1>w
    <3>3. ASSUME work'[p] = [work[p] EXCEPT !.at = "evaluate"] PROVE work'[p].at # "create"
      BY <3>2, <3>3 DEF Work
    <3>4. ASSUME work'[p] = [work[p] EXCEPT !.at = "done"] PROVE work'[p].at # "create"
      BY <3>2, <3>4 DEF Work
    <3>5. ASSUME NEW r \in Procs, r # p PROVE work[r].at # "create"
      BY <2>1, <2>2, <3>5, SoloBusy DEF LockInv
    <3> QED
      BY <2>1, <3>1, <3>3, <3>4, <3>5 DEF Alone
  <2> DEFINE x == [status |-> "open", count |-> 1, seen |-> now]
  <2>4. x \in Incident /\ x.status \in OpenStatuses
    BY <1>n DEF Incident, Statuses, OpenStatuses
  <2>5. CASE incidents' = Append(incidents, x)
    <3> HIDE DEF x
    <3>1. /\ DOMAIN incidents' = DOMAIN incidents \cup {Len(incidents) + 1}
          /\ incidents'[Len(incidents) + 1] = x
          /\ \A i \in DOMAIN incidents : incidents'[i] = incidents[i]
      BY <1>i, <2>4, <2>5
    <3>2. Open' = {Len(incidents) + 1}
      BY <2>2, <2>4, <3>1 DEF Open
    <3>3. ASSUME \A e \in Edits : edit[e].at # "done" PROVE DOMAIN incidents' = Open'
      BY <2>2, <3>1, <3>2, <3>3 DEF OneInv
    <3> QED
      BY <2>1, <2>3, <3>2, <3>3 DEF OneInv, Solo
  <2>6. CASE incidents' = incidents
    BY <2>6, <2>1, <2>2, <2>3 DEF Open, OneInv, Solo
  <2> QED
    BY <1>20, <2>5, <2>6 DEF CreateIncident
<1>21. ASSUME NEW e \in bound.of.edits, ReadIncident(e) PROVE OneInv'
  <2>1. incidents' = incidents /\ work' = work /\ bound' = bound
    BY <1>21 DEF ReadIncident, found
  <2>2. edit[e].at = "idle" /\ edit'[e].at = "write" /\ \A x \in Edits \ {e} : edit'[x] = edit[x]
    BY <1>21, <1>e, <1>q DEF ReadIncident
  <2>3. Open' = Open
    BY <2>1 DEF Open
  <2> QED
    BY <1>q, <2>1, <2>2, <2>3 DEF OneInv, Solo
<1>22. ASSUME NEW e \in bound.of.edits, WriteIncident(e) PROVE OneInv'
  <2>1. work' = work /\ bound'.of = bound.of /\ edit[e].at = "write"
    BY <1>22, <1>b DEF WriteIncident, Fault
  <2>2. edit'[e].at = "done" /\ \A x \in Edits \ {e} : edit'[x] = edit[x]
    BY <1>22, <1>e, <1>q DEF WriteIncident, NoEdit
  <2>3. ASSUME Solo PROVE Open' \subseteq Open
    <3>1. ASSUME NEW x \in Edits PROVE edit[x].at # "done"
      <4>1. x # e => x \notin bound.of.edits
        BY <1>q, <2>3, OneEdit
      <4> QED
        BY <1>q, <2>1, <2>3, <4>1 DEF OneInv
    <3>2. Open = DOMAIN incidents
      BY <2>3, <3>1 DEF OneInv
    <3>3. DOMAIN incidents' = DOMAIN incidents
      BY <1>22, <1>i DEF WriteIncident
    <3> QED
      BY <3>2, <3>3 DEF Open
  <2> QED
    BY <1>q, <2>1, <2>2, <2>3 DEF OneInv, Solo
<1>23. ASSUME Crash PROVE OneInv'
  <2>1. incidents' = incidents /\ bound'.of = bound.of
    BY <1>23, <1>b DEF Crash, found
  <2>2. ASSUME NEW r \in Procs PROVE work'[r].at # "create"
    BY <1>23 DEF Crash, NoWork
  <2>3. \A e \in Edits : \/ edit[e].at = "idle" /\ edit'[e].at = "idle"
                         \/ edit[e].at # "idle" /\ edit'[e].at = "done"
    <3>1. ASSUME NEW e \in Edits, edit[e].at = "idle" PROVE edit'[e].at = "idle"
      BY <1>23, <3>1 DEF Crash, NoEdit
    <3>2. ASSUME NEW e \in Edits, edit[e].at # "idle" PROVE edit'[e].at = "done"
      BY <1>23, <3>2 DEF Crash, NoEdit
    <3> QED
      BY <3>1, <3>2
  <2>4. Open' = Open
    BY <2>1 DEF Open
  <2> QED
    BY <2>1, <2>2, <2>3, <2>4 DEF OneInv, Solo
<1>24. CASE UNCHANGED vars
  BY <1>24 DEF vars, OneInv, Solo, Open, clickhouse, found
<1> QED
  BY <1>1, <1>2, <1>3, <1>4, <1>5, <1>6, <1>7, <1>8, <1>9, <1>10, <1>11, <1>12, <1>13, <1>14,
     <1>15, <1>16, <1>17, <1>18, <1>19, <1>20, <1>21, <1>22, <1>23, <1>24
     DEF Next, Harvest, Upsert, Procs

-----------------------------------------------------------------------------
(* Sums of the values of a function, as SumFunction adds them up: one member of *)
(* the domain after the other, whichever CHOOSE takes.                          *)

\* What holds at 0 and is kept by each step up to n holds up to n.
LEMMA StepByStep ==
    ASSUME NEW n \in Nat, NEW P \in SUBSET Nat, 0 \in P, \A i \in 1 .. n : i - 1 \in P => i \in P
    PROVE  \A i \in 0 .. n : i \in P
<1> SUFFICES ASSUME {i \in 0 .. n : i \notin P} # {} PROVE FALSE
  OBVIOUS
<1> DEFINE R == {ss \in Nat \X Nat : ss[1] < ss[2]}
           S == {i \in 0 .. n : i \notin P}
<1>1. PICK i \in S : \A j \in S : ~ (<<j, i>> \in R)
  <2>1. IsWellFoundedOn(R, Nat)
    BY NatLessThanWellFounded DEF OpToRel
  <2>2. S \subseteq Nat /\ S # {}
    OBVIOUS
  <2> HIDE DEF R, S
  <2> QED BY <2>1, <2>2, WFMin
<1>2. i \in 1 .. n /\ i - 1 \in 0 .. n
  OBVIOUS
<1>3. i - 1 \in P
  <2>1. <<i - 1, i>> \in Nat \X Nat /\ i - 1 < i
    BY <1>2
  <2>2. <<i - 1, i>> \in R
    BY <2>1
  <2>3. i - 1 \notin S
    <3> HIDE DEF R
    <3> QED BY <1>1, <2>2
  <2> QED BY <1>2, <2>3
<1> QED
  BY <1>2, <1>3

Pick(T) == CHOOSE x \in T : TRUE

\* F is the sum of f over each subset of S.
Sums(F, f, S) ==
    /\ F \in [SUBSET S -> Nat] /\ F[{}] = 0
    /\ \A T \in SUBSET S : T # {} => F[T] = f[Pick(T)] + F[T \ {Pick(T)}]

Same(f, g, S) == \A x \in S : f[x] = g[x]

\* There is such an F, for all sets of up to k members first, ...
LEMMA SumsExist ==
    ASSUME NEW S, IsFiniteSet(S), NEW f \in [S -> Nat]
    PROVE  \E F : Sums(F, f, S)
<1> DEFINE Upto(k) == \E F \in [SUBSET S -> Nat] : \A T \in SUBSET S :
                          Cardinality(T) <= k =>
                             F[T] = IF T = {} THEN 0 ELSE f[Pick(T)] + F[T \ {Pick(T)}]
           n == Cardinality(S)
           P == {k \in 0 .. n : Upto(k)}
<1>1. n \in Nat /\ \A T \in SUBSET S : IsFiniteSet(T) /\ Cardinality(T) \in Nat /\ Cardinality(T) <= n
  BY FS_Subset, FS_CardinalityType
<1>2. \A T \in SUBSET S : T # {} =>
         /\ Pick(T) \in T /\ T \ {Pick(T)} \in SUBSET S
         /\ Cardinality(T \ {Pick(T)}) = Cardinality(T) - 1
  <2> SUFFICES ASSUME NEW T \in SUBSET S, T # {}
               PROVE  Pick(T) \in T /\ Cardinality(T \ {Pick(T)}) = Cardinality(T) - 1
    OBVIOUS
  <2>1. Pick(T) \in T
    BY DEF Pick
  <2> QED BY <1>1, <2>1, FS_RemoveElement
<1>3. 0 \in P
  <2> DEFINE F == [T \in SUBSET S |-> 0]
  <2>1. \A T \in SUBSET S : Cardinality(T) <= 0 => T = {}
    BY <1>1, FS_EmptySet
  <2>2. F \in [SUBSET S -> Nat]
    OBVIOUS
  <2>3. \A T \in SUBSET S : Cardinality(T) <= 0 =>
           F[T] = IF T = {} THEN 0 ELSE f[Pick(T)] + F[T \ {Pick(T)}]
    BY <2>1
  <2> HIDE DEF F
  <2>4. Upto(0)
    BY <2>2, <2>3
  <2> QED BY <1>1, <2>4
<1>4. ASSUME NEW k \in 1 .. n, k - 1 \in P PROVE k \in P
  <2>1. PICK F \in [SUBSET S -> Nat] : \A T \in SUBSET S :
           Cardinality(T) <= k - 1 => F[T] = IF T = {} THEN 0 ELSE f[Pick(T)] + F[T \ {Pick(T)}]
    BY <1>4
  <2> DEFINE G == [T \in SUBSET S |-> IF T = {} THEN 0 ELSE f[Pick(T)] + F[T \ {Pick(T)}]]
  <2>2. G \in [SUBSET S -> Nat]
    <3>1. \A T \in SUBSET S : T # {} => f[Pick(T)] \in Nat /\ F[T \ {Pick(T)}] \in Nat
      BY <1>2
    <3> QED BY <3>1
  <2>3. \A T \in SUBSET S : Cardinality(T) <= k - 1 => G[T] = F[T]
    BY <2>1
  <2>4. ASSUME NEW T \in SUBSET S, Cardinality(T) <= k
        PROVE  G[T] = IF T = {} THEN 0 ELSE f[Pick(T)] + G[T \ {Pick(T)}]
    <3>1. CASE T = {}
      BY <3>1
    <3>2. CASE T # {}
      <4>1. T \ {Pick(T)} \in SUBSET S /\ Cardinality(T \ {Pick(T)}) <= k - 1
        BY <1>1, <1>2, <2>4, <3>2
      <4>2. G[T \ {Pick(T)}] = F[T \ {Pick(T)}]
        BY <2>3, <4>1
      <4>3. G[T] = f[Pick(T)] + F[T \ {Pick(T)}]
        BY <3>2
      <4> QED BY <3>2, <4>2, <4>3
    <3> QED BY <3>1, <3>2
  <2> HIDE DEF G
  <2>5. Upto(k)
    <3>1. G \in [SUBSET S -> Nat]
      BY <2>2
    <3> WITNESS G \in [SUBSET S -> Nat]
    <3> QED BY <2>4
  <2> HIDE DEF Upto
  <2> QED BY <1>1, <1>4, <2>5
<1>5. n \in P
  <2>1. P \in SUBSET Nat /\ n \in 0 .. n
    BY <1>1
  <2> HIDE DEF P, n
  <2> QED BY <1>1, <1>3, <1>4, <2>1, StepByStep
<1>6. PICK F \in [SUBSET S -> Nat] : \A T \in SUBSET S :
         F[T] = IF T = {} THEN 0 ELSE f[Pick(T)] + F[T \ {Pick(T)}]
  BY <1>1, <1>5
<1> QED
  BY <1>6 DEF Sums

\* ... and SumFunction is its value for the domain.
LEMMA SumIsOne ==
    ASSUME NEW S, IsFiniteSet(S), NEW f \in [S -> Nat]
    PROVE  \E F : Sums(F, f, S) /\ SumFunction(f) = F[S]
<1> DEFINE body(F) == [T \in SUBSET S |->
              IF T = {} THEN 0 ELSE LET x == CHOOSE y \in T : TRUE IN f[x] + F[T \ {x}]]
           F == CHOOSE F : F = body(F)
<1>1. \E G : G = body(G)
  <2>1. PICK G : Sums(G, f, S)
    BY SumsExist
  <2>2. G = [T \in SUBSET S |-> IF T = {} THEN 0 ELSE f[Pick(T)] + G[T \ {Pick(T)}]]
    BY <2>1 DEF Sums
  <2> QED BY <2>2 DEF Pick
<1>2. F = body(F)
  <2> HIDE DEF body
  <2> QED BY <1>1
<1>3. SumFunction(f) = F[S]
  BY DEF SumFunction, SumFunctionOnSet, FoldFunctionOnSet, MapThenFoldSet
<1> HIDE DEF F
<1>4. \A T \in SUBSET S : F[T] = IF T = {} THEN 0 ELSE f[Pick(T)] + F[T \ {Pick(T)}]
  BY <1>2 DEF Pick
<1>5. PICK G : Sums(G, f, S)
  BY SumsExist
<1> DEFINE n == Cardinality(S)
           P == {k \in 0 .. n : \A T \in SUBSET S : Cardinality(T) <= k => F[T] = G[T]}
<1>6. n \in Nat /\ \A T \in SUBSET S : IsFiniteSet(T) /\ Cardinality(T) \in Nat /\ Cardinality(T) <= n
  BY FS_Subset, FS_CardinalityType
<1>7. \A T \in SUBSET S : T # {} =>
         T \ {Pick(T)} \in SUBSET S /\ Cardinality(T \ {Pick(T)}) = Cardinality(T) - 1
  <2> SUFFICES ASSUME NEW T \in SUBSET S, T # {}
               PROVE  Cardinality(T \ {Pick(T)}) = Cardinality(T) - 1
    OBVIOUS
  <2>1. Pick(T) \in T
    BY DEF Pick
  <2> QED BY <1>6, <2>1, FS_RemoveElement
<1>8. 0 \in P
  <2>1. \A T \in SUBSET S : Cardinality(T) <= 0 => T = {}
    BY <1>6, FS_EmptySet
  <2>2. F[{}] = 0 /\ G[{}] = 0
    BY <1>4, <1>5 DEF Sums
  <2> QED BY <1>6, <2>1, <2>2
<1>9. ASSUME NEW k \in 1 .. n, k - 1 \in P PROVE k \in P
  <2>1. ASSUME NEW T \in SUBSET S, Cardinality(T) <= k PROVE F[T] = G[T]
    <3>1. CASE T = {}
      BY <1>4, <1>5, <3>1 DEF Sums
    <3>2. CASE T # {}
      <4>1. F[T \ {Pick(T)}] = G[T \ {Pick(T)}]
        BY <1>6, <1>7, <1>9, <2>1, <3>2
      <4> QED BY <1>4, <1>5, <3>2, <4>1 DEF Sums
    <3> QED BY <3>1, <3>2
  <2> QED BY <1>9, <2>1
<1>10. n \in P
  <2>1. P \in SUBSET Nat /\ n \in 0 .. n
    BY <1>6
  <2> HIDE DEF P, n
  <2> QED BY <1>6, <1>8, <1>9, <2>1, StepByStep
<1>11. F[S] = G[S]
  BY <1>6, <1>10
<1> QED
  BY <1>3, <1>5, <1>11

\* Any member of a set may be taken first: the sum does not depend on the choice.
LEMMA SumTakes ==
    ASSUME NEW S, IsFiniteSet(S), NEW f \in [S -> Nat], NEW F, Sums(F, f, S),
           NEW T \in SUBSET S, NEW x \in T
    PROVE  F[T] = f[x] + F[T \ {x}]
<1> DEFINE n == Cardinality(S)
           Takes(U) == \A y \in U : F[U] = f[y] + F[U \ {y}]
           P == {k \in 0 .. n : \A U \in SUBSET S : Cardinality(U) <= k => Takes(U)}
<1>1. n \in Nat /\ \A U \in SUBSET S : IsFiniteSet(U) /\ Cardinality(U) \in Nat /\ Cardinality(U) <= n
  BY FS_Subset, FS_CardinalityType
<1>2. \A U \in SUBSET S : \A y \in U : Cardinality(U \ {y}) = Cardinality(U) - 1
  BY <1>1, FS_RemoveElement
<1>3. 0 \in P
  BY <1>1, FS_EmptySet
<1>4. ASSUME NEW k \in 1 .. n, k - 1 \in P PROVE k \in P
  <2>1. ASSUME NEW U \in SUBSET S, Cardinality(U) <= k, NEW y \in U
        PROVE  F[U] = f[y] + F[U \ {y}]
    <3> DEFINE z == Pick(U)
    <3>1. z \in U
      BY DEF Pick
    <3>2. F[U] = f[z] + F[U \ {z}]
      BY DEF Sums
    <3> HIDE DEF z
    <3>3. CASE y = z
      BY <3>2, <3>3
    <3>4. CASE y # z
      <4>1. U \ {z} \in SUBSET S /\ U \ {y} \in SUBSET S /\ y \in U \ {z} /\ z \in U \ {y}
        BY <3>1, <3>4
      <4>2. Cardinality(U \ {z}) <= k - 1 /\ Cardinality(U \ {y}) <= k - 1
        BY <1>1, <1>2, <2>1, <3>1
      <4>3. Takes(U \ {z}) /\ Takes(U \ {y})
        BY <1>4, <4>1, <4>2
      <4>4. (U \ {z}) \ {y} = (U \ {y}) \ {z}
        OBVIOUS
      <4>5. /\ F[U \ {z}] = f[y] + F[(U \ {y}) \ {z}]
            /\ F[U \ {y}] = f[z] + F[(U \ {y}) \ {z}]
        BY <4>1, <4>3, <4>4
      <4>6. f[y] \in Nat /\ f[z] \in Nat /\ F[(U \ {y}) \ {z}] \in Nat
        BY <3>1 DEF Sums
      <4> QED BY <3>2, <4>5, <4>6
    <3> QED BY <3>3, <3>4
  <2> QED BY <1>4, <2>1
<1>5. n \in P
  <2>1. P \in SUBSET Nat /\ n \in 0 .. n
    BY <1>1
  <2> HIDE DEF P, n
  <2> QED BY <1>1, <1>3, <1>4, <2>1, StepByStep
<1> QED
  BY <1>1, <1>5

\* Functions that agree on a set have the same sum over it, whatever their domains.
LEMMA SumsAgree ==
    ASSUME NEW S, IsFiniteSet(S), NEW f \in [S -> Nat], NEW F, Sums(F, f, S),
           NEW R, IsFiniteSet(R), NEW g \in [R -> Nat], NEW G, Sums(G, g, R),
           NEW T \in SUBSET (S \cap R), Same(f, g, T)
    PROVE  F[T] = G[T]
<1> DEFINE n == Cardinality(T)
           P == {k \in 0 .. n : \A U \in SUBSET T : Cardinality(U) <= k => F[U] = G[U]}
<1>0. IsFiniteSet(T)
  BY FS_Subset
<1>1. n \in Nat /\ \A U \in SUBSET T : IsFiniteSet(U) /\ Cardinality(U) \in Nat /\ Cardinality(U) <= n
  BY <1>0, FS_Subset, FS_CardinalityType
<1>2. \A U \in SUBSET T : U # {} =>
         Pick(U) \in U /\ U \ {Pick(U)} \in SUBSET T /\ Cardinality(U \ {Pick(U)}) = Cardinality(U) - 1
  <2> SUFFICES ASSUME NEW U \in SUBSET T, U # {}
               PROVE  Pick(U) \in U /\ Cardinality(U \ {Pick(U)}) = Cardinality(U) - 1
    OBVIOUS
  <2>1. Pick(U) \in U
    BY DEF Pick
  <2> QED BY <1>1, <2>1, FS_RemoveElement
<1>3. 0 \in P
  <2>1. \A U \in SUBSET T : Cardinality(U) <= 0 => U = {}
    BY <1>1, FS_EmptySet
  <2>2. F[{}] = G[{}]
    BY DEF Sums
  <2> QED BY <1>1, <2>1, <2>2
<1>4. ASSUME NEW k \in 1 .. n, k - 1 \in P PROVE k \in P
  <2>1. ASSUME NEW U \in SUBSET T, Cardinality(U) <= k PROVE F[U] = G[U]
    <3>1. CASE U = {}
      BY <3>1 DEF Sums
    <3>2. CASE U # {}
      <4>1. F[U \ {Pick(U)}] = G[U \ {Pick(U)}] /\ f[Pick(U)] = g[Pick(U)]
        BY <1>1, <1>2, <1>4, <2>1, <3>2 DEF Same
      <4>2. U \in SUBSET S /\ U \in SUBSET R
        OBVIOUS
      <4>3. F[U] = f[Pick(U)] + F[U \ {Pick(U)}]
        BY <3>2, <4>2 DEF Sums
      <4>4. G[U] = g[Pick(U)] + G[U \ {Pick(U)}]
        BY <3>2, <4>2 DEF Sums
      <4> QED BY <4>1, <4>3, <4>4
    <3> QED BY <3>1, <3>2
  <2> QED BY <1>4, <2>1
<1>5. n \in P
  <2>1. P \in SUBSET Nat /\ n \in 0 .. n
    BY <1>1
  <2> HIDE DEF P, n
  <2> QED BY <1>1, <1>3, <1>4, <2>1, StepByStep
<1> QED
  BY <1>1, <1>5

\* What the model does with sums: all values 0, ...
LEMMA SumOfNothing ==
    ASSUME NEW S, IsFiniteSet(S), NEW f \in [S -> Nat], \A x \in S : f[x] = 0
    PROVE  SumFunction(f) = 0
<1>1. PICK F : Sums(F, f, S) /\ SumFunction(f) = F[S]
  BY SumIsOne
<1> DEFINE Z == [T \in SUBSET S |-> 0]
<1>2. Sums(Z, f, S)
  BY DEF Sums, Pick
<1> HIDE DEF Z
<1>3. F[S] = Z[S]
  BY <1>1, <1>2, SumsAgree DEF Same
<1> QED BY <1>1, <1>3 DEF Z

\* ... a value that changes, ...
LEMMA SumChanges ==
    ASSUME NEW S, IsFiniteSet(S), NEW f \in [S -> Nat], NEW g \in [S -> Nat], NEW x \in S,
           Same(f, g, S \ {x})
    PROVE  /\ SumFunction(f) \in Nat /\ SumFunction(g) \in Nat
           /\ SumFunction(g) = SumFunction(f) + g[x] - f[x]
<1>1. PICK F : Sums(F, f, S) /\ SumFunction(f) = F[S]
  BY SumIsOne
<1>2. PICK G : Sums(G, g, S) /\ SumFunction(g) = G[S]
  BY SumIsOne
<1>3. F[S \ {x}] = G[S \ {x}]
  BY <1>1, <1>2, SumsAgree
<1>0. S \in SUBSET S /\ x \in S
  OBVIOUS
<1>4. F[S] = f[x] + F[S \ {x}]
  BY <1>0, <1>1, SumTakes
<1>5. G[S] = g[x] + G[S \ {x}]
  <2>1. IsFiniteSet(S) /\ g \in [S -> Nat] /\ Sums(G, g, S)
    BY <1>2
  <2> QED BY ONLY <1>0, <2>1, SumTakes
<1>6. F[S] \in Nat /\ F[S \ {x}] \in Nat /\ G[S] \in Nat /\ f[x] \in Nat /\ g[x] \in Nat
  BY <1>1, <1>2 DEF Sums
<1> QED BY <1>1, <1>2, <1>3, <1>4, <1>5, <1>6

\* ... and a member that is new.
LEMMA SumGrows ==
    ASSUME NEW S, IsFiniteSet(S), NEW f \in [S -> Nat], NEW x, x \notin S,
           NEW g \in [S \cup {x} -> Nat], Same(f, g, S)
    PROVE  SumFunction(f) \in Nat /\ SumFunction(g) = SumFunction(f) + g[x]
<1>1. PICK F : Sums(F, f, S) /\ SumFunction(f) = F[S]
  BY SumIsOne
<1>2. IsFiniteSet(S \cup {x})
  BY FS_AddElement
<1>3. PICK G : Sums(G, g, S \cup {x}) /\ SumFunction(g) = G[S \cup {x}]
  BY <1>2, SumIsOne
<1>4. F[S] = G[S]
  BY <1>1, <1>2, <1>3, SumsAgree
<1>5. (S \cup {x}) \ {x} = S /\ x \in S \cup {x} /\ S \cup {x} \in SUBSET (S \cup {x})
  OBVIOUS
<1>6. G[S \cup {x}] = g[x] + G[(S \cup {x}) \ {x}]
  BY <1>2, <1>3, <1>5, SumTakes
<1>7. F[S] \in Nat /\ g[x] \in Nat
  BY <1>1 DEF Sums
<1>8. G[S \cup {x}] = g[x] + G[S]
  BY <1>5, <1>6
<1>9. SumFunction(f) \in Nat
  BY <1>1, <1>7
<1>10. SumFunction(g) = g[x] + SumFunction(f)
  BY <1>1, <1>3, <1>4, <1>8
<1> QED BY <1>7, <1>9, <1>10

-----------------------------------------------------------------------------
(* CountsViolations by its four numbers. *)

Counts(inc) == [i \in DOMAIN inc |-> inc[i].count]
Pending(w) == {p \in Procs : w[p].at \in Filing}
Asking(w) == {p \in Manuals : w[p].at # "idle"}

Counted == SumFunction(Counts(incidents)) + Cardinality(Pending(work))
Due == SumFunction(violations) + Cardinality(Asking(work))

LEMMA CountsBy ==
    CountsViolations <=>
       Counted <= Due /\ (bound.faults = 0 /\ bound.crashes = 0 => Counted = Due)
BY DEF CountsViolations, Counted, Due, Counts, Pending, Asking, Filing, At

LEMMA FiniteSets ==
    /\ \A w : /\ IsFiniteSet(Pending(w)) /\ Cardinality(Pending(w)) \in Nat
              /\ IsFiniteSet(Asking(w)) /\ Cardinality(Asking(w)) \in Nat
    /\ IsFiniteSet(Queries \cup Blocked)
<1>1. IsFiniteSet(Procs) /\ IsFiniteSet(Queries)
  BY QueryLogAssumption
<1>2. \A w : Pending(w) \in SUBSET Procs /\ Asking(w) \in SUBSET Procs
  BY DEF Pending, Asking, Procs
<1>3. IsFiniteSet(Blocked)
  BY <1>1, FS_Subset DEF Procs
<1>4. IsFiniteSet(Queries \cup Blocked)
  BY ONLY <1>1, <1>3, FS_Union
<1>5. \A w : IsFiniteSet(Pending(w)) /\ IsFiniteSet(Asking(w))
  BY <1>1, <1>2, FS_Subset
<1> QED
  BY <1>4, <1>5, FS_CardinalityType

LEMMA SumIsNatural ==
    ASSUME NEW S, IsFiniteSet(S), NEW f \in [S -> Nat] PROVE SumFunction(f) \in Nat
<1>1. PICK F : Sums(F, f, S) /\ SumFunction(f) = F[S]
  BY SumIsOne
<1> QED BY <1>1 DEF Sums

LEMMA CountsType ==
    ASSUME NEW inc \in Seq(Incident)
    PROVE  /\ Counts(inc) \in [1 .. Len(inc) -> Nat] /\ IsFiniteSet(1 .. Len(inc))
           /\ SumFunction(Counts(inc)) \in Nat
<1>1. Len(inc) \in Nat /\ DOMAIN inc = 1 .. Len(inc)
  OBVIOUS
<1>2. Counts(inc) \in [1 .. Len(inc) -> Nat]
  <2>1. \A i \in 1 .. Len(inc) : inc[i].count \in Nat
    <3>1. \A i \in 1 .. Len(inc) : inc[i] \in Incident
      OBVIOUS
    <3> QED BY <3>1 DEF Incident
  <2> QED BY <1>1, <2>1 DEF Counts
<1>3. IsFiniteSet(1 .. Len(inc))
  BY <1>1, FS_Interval
<1> QED
  BY <1>2, <1>3, SumIsNatural

\* A step that adds as much to both sides, or one that fails and takes from the first.
LEMMA BalanceKept ==
    ASSUME TypeInv, TypeInv', CountsViolations,
           bound'.faults >= bound.faults, bound'.crashes >= bound.crashes,
           \/ \E d \in Nat : Counted' = Counted + d /\ Due' = Due + d
           \/ /\ bound'.faults > 0 \/ bound'.crashes > 0
              /\ Counted' <= Counted /\ Due' >= Due
    PROVE  CountsViolations'
<1>1. bound.faults \in Nat /\ bound.crashes \in Nat /\ bound'.faults \in Nat /\ bound'.crashes \in Nat
  BY DEF TypeInv
<1>2. Counted \in Nat /\ Due \in Nat
  <2>1. SumFunction(Counts(incidents)) \in Nat
    BY CountsType DEF TypeInv
  <2>2. SumFunction(violations) \in Nat
    BY FiniteSets, SumIsNatural DEF TypeInv
  <2> QED BY <2>1, <2>2, FiniteSets DEF Counted, Due
<1>3. Counted' \in Nat /\ Due' \in Nat
  <2>1. SumFunction(Counts(incidents')) \in Nat
    BY CountsType DEF TypeInv
  <2>2. SumFunction(violations') \in Nat
    BY FiniteSets, SumIsNatural DEF TypeInv
  <2> QED BY <2>1, <2>2, FiniteSets DEF Counted, Due
<1>4. Counted <= Due /\ (bound.faults = 0 /\ bound.crashes = 0 => Counted = Due)
  BY CountsBy
<1>5. Counted' <= Due' /\ (bound'.faults = 0 /\ bound'.crashes = 0 => Counted' = Due')
  BY <1>1, <1>2, <1>3, <1>4
<1>6. CountsViolations' <=>
        Counted' <= Due' /\ (bound'.faults = 0 /\ bound'.crashes = 0 => Counted' = Due')
  BY DEF CountsViolations, Counted, Due, Counts, Pending, Asking, Filing, At
<1> QED
  BY <1>5, <1>6

(* What a step of one process makes of the two sets. *)
LEMMA PendingBy ==
    ASSUME NEW p \in Procs, Alone(p)
    PROVE  Cardinality(Pending(work')) =
              Cardinality(Pending(work))
                 + (IF work'[p].at \in Filing THEN 1 ELSE 0) - (IF work[p].at \in Filing THEN 1 ELSE 0)
<1> DEFINE Rest == {r \in Procs \ {p} : work[r].at \in Filing}
<1>1. IsFiniteSet(Rest) /\ p \notin Rest /\ Cardinality(Rest) \in Nat
  BY QueryLogAssumption, FS_Subset, FS_CardinalityType
<1>2. Pending(work) = IF work[p].at \in Filing THEN Rest \cup {p} ELSE Rest
  BY DEF Pending
<1>3. Pending(work') = IF work'[p].at \in Filing THEN Rest \cup {p} ELSE Rest
  BY DEF Pending, Alone
<1>4. Cardinality(Rest \cup {p}) = Cardinality(Rest) + 1
  <2> HIDE DEF Rest
  <2> QED BY <1>1, FS_AddElement
<1> HIDE DEF Rest
<1>5. Cardinality(Pending(work)) = Cardinality(Rest) + IF work[p].at \in Filing THEN 1 ELSE 0
  BY <1>1, <1>2, <1>4
<1>6. Cardinality(Pending(work')) = Cardinality(Rest) + IF work'[p].at \in Filing THEN 1 ELSE 0
  BY <1>1, <1>3, <1>4
<1> QED
  BY <1>1, <1>5, <1>6

LEMMA AskingBy ==
    ASSUME NEW p \in Procs, Alone(p)
    PROVE  /\ (p \in Manuals => (work[p].at = "idle" <=> work'[p].at = "idle")) =>
                 Asking(work') = Asking(work)
           /\ p \in Manuals /\ work[p].at = "idle" /\ work'[p].at # "idle" =>
                 Cardinality(Asking(work')) = Cardinality(Asking(work)) + 1
<1>1. Manuals \subseteq Procs
  BY DEF Procs
<1>2. ASSUME p \in Manuals => (work[p].at = "idle" <=> work'[p].at = "idle")
      PROVE  Asking(work') = Asking(work)
  BY <1>1, <1>2 DEF Asking, Alone
<1>3. ASSUME p \in Manuals, work[p].at = "idle", work'[p].at # "idle"
      PROVE  Cardinality(Asking(work')) = Cardinality(Asking(work)) + 1
  <2>1. Asking(work') = Asking(work) \cup {p} /\ p \notin Asking(work)
    BY <1>1, <1>3 DEF Asking, Alone
  <2> QED BY <2>1, FiniteSets, FS_AddElement
<1> QED
  BY <1>2, <1>3

\* One process records, files or gives up; what the others do stays as it is.
LEMMA MoveKeeps ==
    ASSUME TypeInv, TypeInv', CountsViolations, NEW p \in Procs, Alone(p),
           NEW o \in Nat, SumFunction(Counts(incidents')) = SumFunction(Counts(incidents)) + o,
           NEW v \in Nat, SumFunction(violations') = SumFunction(violations) + v,
           NEW before \in 0 .. 1, before = (IF work[p].at \in Filing THEN 1 ELSE 0),
           NEW after \in 0 .. 1, after = (IF work'[p].at \in Filing THEN 1 ELSE 0),
           NEW a \in Nat, Cardinality(Asking(work')) = Cardinality(Asking(work)) + a,
           \/ bound' = bound /\ o + after - before = v + a
           \/ Fault /\ o + after - before <= v + a /\ o + after - before <= 0
    PROVE  CountsViolations'
<1>1. /\ SumFunction(Counts(incidents)) \in Nat /\ SumFunction(violations) \in Nat
  BY CountsType, FiniteSets, SumIsNatural DEF TypeInv
<1>2. /\ Cardinality(Pending(work)) \in Nat /\ Cardinality(Asking(work)) \in Nat
  BY FiniteSets
<1>3. Cardinality(Pending(work')) = Cardinality(Pending(work)) + after - before
  BY PendingBy
<1>4. Counted' = Counted + (o + after - before)
  BY <1>1, <1>2, <1>3 DEF Counted
<1>5. Due' = Due + (v + a)
  BY <1>1, <1>2 DEF Due
<1>6. Counted \in Nat /\ Due \in Nat
  BY <1>1, <1>2 DEF Counted, Due
<1>7. bound.faults \in Nat /\ bound.crashes \in Nat
  BY DEF TypeInv
<1>8. CASE bound' = bound /\ o + after - before = v + a
  <2>1. \E d \in Nat : Counted' = Counted + d /\ Due' = Due + d
    BY <1>4, <1>5, <1>8
  <2> QED BY <1>7, <1>8, <2>1, BalanceKept
<1>9. CASE Fault /\ o + after - before <= v + a /\ o + after - before <= 0
  <2>1. bound'.faults > bound.faults /\ bound'.crashes = bound.crashes
    BY <1>9, FaultKeeps DEF TypeInv
  <2>2. Counted' <= Counted /\ Due' >= Due
    BY <1>4, <1>5, <1>6, <1>9
  <2>3. bound'.faults \in Nat /\ bound'.faults > 0 /\ bound'.faults >= bound.faults
        /\ bound'.crashes >= bound.crashes
    BY <1>7, <2>1 DEF TypeInv
  <2> QED BY <2>2, <2>3, BalanceKept
<1> QED
  BY <1>8, <1>9

LEMMA BalanceStays ==
    ASSUME TypeInv, TypeInv', CountsViolations, Counted' = Counted, Due' = Due,
           bound'.faults >= bound.faults, bound'.crashes >= bound.crashes
    PROVE  CountsViolations'
<1>1. Counted = Counted + 0 /\ Due = Due + 0
  <2>1. SumFunction(Counts(incidents)) \in Nat
    BY CountsType DEF TypeInv
  <2>2. SumFunction(violations) \in Nat
    BY FiniteSets, SumIsNatural DEF TypeInv
  <2>3. Cardinality(Pending(work)) \in Nat /\ Cardinality(Asking(work)) \in Nat
    BY FiniteSets
  <2> QED BY <2>1, <2>2, <2>3 DEF Counted, Due
<1>2. \E d \in Nat : Counted' = Counted + d /\ Due' = Due + d
  BY <1>1
<1> QED
  BY <1>2, BalanceKept

\* A step that neither records nor files, and stays where it was in that respect.
LEMMA QuietKeeps ==
    ASSUME TypeInv, TypeInv', CountsViolations, NEW p \in Procs, Alone(p),
           incidents' = incidents, violations' = violations,
           work'[p].at \in Filing <=> work[p].at \in Filing,
           p \in Manuals => (work[p].at = "idle" <=> work'[p].at = "idle"),
           bound' = bound \/ Fault
    PROVE  CountsViolations'
<1>1. /\ SumFunction(Counts(incidents)) \in Nat /\ SumFunction(violations) \in Nat
      /\ Cardinality(Asking(work)) \in Nat
  BY CountsType, FiniteSets, SumIsNatural DEF TypeInv
<1>2. /\ SumFunction(Counts(incidents')) = SumFunction(Counts(incidents)) + 0
      /\ SumFunction(violations') = SumFunction(violations) + 0
  BY <1>1
<1>3. Cardinality(Asking(work')) = Cardinality(Asking(work)) + 0
  BY <1>1, AskingBy
<1> DEFINE b == IF work[p].at \in Filing THEN 1 ELSE 0
           c == IF work'[p].at \in Filing THEN 1 ELSE 0
<1>4. b \in 0 .. 1 /\ c \in 0 .. 1 /\ b = c
  OBVIOUS
<1>5. 0 \in Nat /\ 0 + c - b = 0 + 0
  BY <1>4
<1> HIDE DEF b, c
<1>6. b = (IF work[p].at \in Filing THEN 1 ELSE 0) /\ c = (IF work'[p].at \in Filing THEN 1 ELSE 0)
  BY DEF b, c
<1> QED
  BY <1>2, <1>3, <1>4, <1>5, <1>6, MoveKeeps

\* The statement that would have filed or looked for the incident fails.
LEMMA FailureKeeps ==
    ASSUME TypeInv, TypeInv', CountsViolations, NEW p \in Procs, Alone(p), Fault,
           incidents' = incidents, violations' = violations, work[p].at # "idle",
           p \in Manuals => work'[p].at # "idle", work'[p].at \notin Filing
    PROVE  CountsViolations'
<1>1. /\ SumFunction(Counts(incidents)) \in Nat /\ SumFunction(violations) \in Nat
      /\ Cardinality(Asking(work)) \in Nat
  BY CountsType, FiniteSets, SumIsNatural DEF TypeInv
<1>2. /\ SumFunction(Counts(incidents')) = SumFunction(Counts(incidents)) + 0
      /\ SumFunction(violations') = SumFunction(violations) + 0
  BY <1>1
<1>3. Cardinality(Asking(work')) = Cardinality(Asking(work)) + 0
  BY <1>1, AskingBy
<1> DEFINE b == IF work[p].at \in Filing THEN 1 ELSE 0
<1>4. b \in 0 .. 1 /\ 0 = (IF work'[p].at \in Filing THEN 1 ELSE 0)
  OBVIOUS
<1>5. 0 \in Nat /\ 0 \in 0 .. 1 /\ 0 + 0 - b <= 0 + 0 /\ 0 + 0 - b <= 0
  BY <1>4
<1> HIDE DEF b
<1>6. b = (IF work[p].at \in Filing THEN 1 ELSE 0)
  BY DEF b
<1> QED
  BY <1>2, <1>3, <1>4, <1>5, <1>6, MoveKeeps

\* A violation is recorded by p, which then looks for its incident.
LEMMA RecordKeeps ==
    ASSUME TypeInv, TypeInv', CountsViolations, NEW p \in Procs, Alone(p), bound' = bound,
           NEW q \in Queries \cup Blocked, violations' = [violations EXCEPT ![q] = @ + 1],
           incidents' = incidents, work[p].at \notin Filing, work'[p].at = "find", p \notin Manuals
    PROVE  CountsViolations'
<1>1. /\ SumFunction(Counts(incidents)) \in Nat /\ Cardinality(Asking(work)) \in Nat
  BY CountsType, FiniteSets DEF TypeInv
<1>2. SumFunction(Counts(incidents')) = SumFunction(Counts(incidents)) + 0
  BY <1>1
<1>3. SumFunction(violations') = SumFunction(violations) + 1
  <2> DEFINE S == Queries \cup Blocked
  <2>1. /\ violations \in [S -> Nat] /\ violations' \in [S -> Nat] /\ q \in S
        /\ Same(violations, violations', S \ {q})
        /\ violations'[q] = violations[q] + 1
    BY DEF TypeInv, Same
  <2>0. IsFiniteSet(S)
    BY FiniteSets
  <2> DEFINE f == violations
             g == violations'
  <2> HIDE DEF S
  <2>2. SumFunction(f) \in Nat /\ SumFunction(g) = SumFunction(f) + g[q] - f[q]
    <3>1. /\ IsFiniteSet(S) /\ f \in [S -> Nat] /\ g \in [S -> Nat] /\ q \in S
          /\ Same(f, g, S \ {q})
      BY <2>0, <2>1
    <3> HIDE DEF f, g
    <3> QED BY ONLY <3>1, SumChanges
  <2>3. violations[q] \in Nat
    BY <2>1
  <2> QED BY <2>1, <2>2, <2>3
<1>4. Cardinality(Asking(work')) = Cardinality(Asking(work)) + 0
  BY <1>1, AskingBy
<1>5. 0 = (IF work[p].at \in Filing THEN 1 ELSE 0) /\ 1 = (IF work'[p].at \in Filing THEN 1 ELSE 0)
  BY DEF Filing
<1>6. 0 \in Nat /\ 1 \in Nat /\ 0 \in 0 .. 1 /\ 1 \in 0 .. 1 /\ 0 + 1 - 0 = 1 + 0
  OBVIOUS
<1> QED
  BY <1>2, <1>3, <1>4, <1>5, <1>6, MoveKeeps

\* A request asks for an incident.
LEMMA AskKeeps ==
    ASSUME TypeInv, TypeInv', CountsViolations, NEW p \in Manuals, Alone(p), bound' = bound,
           violations' = violations, incidents' = incidents,
           work[p].at = "idle", work'[p].at = "find"
    PROVE  CountsViolations'
<1>1. /\ SumFunction(Counts(incidents)) \in Nat /\ SumFunction(violations) \in Nat
  BY CountsType, FiniteSets, SumIsNatural DEF TypeInv
<1>2. /\ SumFunction(Counts(incidents')) = SumFunction(Counts(incidents)) + 0
      /\ SumFunction(violations') = SumFunction(violations) + 0
  BY <1>1
<1>3. Cardinality(Asking(work')) = Cardinality(Asking(work)) + 1
  BY AskingBy DEF Procs
<1>4. 0 = (IF work[p].at \in Filing THEN 1 ELSE 0) /\ 1 = (IF work'[p].at \in Filing THEN 1 ELSE 0)
  BY DEF Filing
<1>5. 0 \in Nat /\ 1 \in Nat /\ 0 \in 0 .. 1 /\ 1 \in 0 .. 1 /\ 0 + 1 - 0 = 0 + 1 /\ p \in Procs
  BY DEF Procs
<1> QED
  BY <1>2, <1>3, <1>4, <1>5, MoveKeeps

\* The occurrence is in an incident.
LEMMA FileKeeps ==
    ASSUME TypeInv, TypeInv', CountsViolations, NEW p \in Procs, Alone(p), bound' = bound,
           violations' = violations,
           SumFunction(Counts(incidents')) = SumFunction(Counts(incidents)) + 1,
           work[p].at \in Filing, work'[p].at \notin Filing, p \in Manuals => work'[p].at # "idle"
    PROVE  CountsViolations'
<1>1. SumFunction(violations) \in Nat /\ Cardinality(Asking(work)) \in Nat
  BY FiniteSets, SumIsNatural DEF TypeInv
<1>2. SumFunction(violations') = SumFunction(violations) + 0
  BY <1>1
<1>3. Cardinality(Asking(work')) = Cardinality(Asking(work)) + 0
  BY <1>1, AskingBy DEF Filing
<1>4. 1 = (IF work[p].at \in Filing THEN 1 ELSE 0) /\ 0 = (IF work'[p].at \in Filing THEN 1 ELSE 0)
  OBVIOUS
<1>5. 0 \in Nat /\ 1 \in Nat /\ 0 \in 0 .. 1 /\ 1 \in 0 .. 1 /\ 1 + 0 - 1 = 0 + 0
  OBVIOUS
<1> QED
  BY <1>2, <1>3, <1>4, <1>5, MoveKeeps

LEMMA OneMoreIsCounted ==
    ASSUME NEW inc \in Seq(Incident), NEW i \in 1 .. Len(inc), NEW t \in Nat
    PROVE  SumFunction(Counts([inc EXCEPT ![i].count = @ + 1, ![i].seen = t]))
              = SumFunction(Counts(inc)) + 1
<1> DEFINE x == [inc[i] EXCEPT !.count = @ + 1, !.seen = t]
           new == [inc EXCEPT ![i].count = @ + 1, ![i].seen = t]
<1>1. inc[i] \in Incident /\ Len(inc) \in Nat
  OBVIOUS
<1>2. x \in Incident /\ x.count = inc[i].count + 1 /\ inc[i].count \in Nat
  BY <1>1, OneMore DEF Incident
<1>3. new = [inc EXCEPT ![i] = x]
  BY <1>1
<1> HIDE DEF x, new
<1>4. /\ new \in Seq(Incident) /\ Len(new) = Len(inc) /\ new[i] = x
      /\ \A j \in 1 .. Len(inc) : j # i => new[j] = inc[j]
  BY <1>2, <1>3
<1>5. /\ Counts(inc) \in [1 .. Len(inc) -> Nat] /\ Counts(new) \in [1 .. Len(inc) -> Nat]
      /\ IsFiniteSet(1 .. Len(inc)) /\ SumFunction(Counts(inc)) \in Nat
  BY <1>4, CountsType
<1>6. /\ Counts(new)[i] = inc[i].count + 1 /\ Counts(inc)[i] = inc[i].count
      /\ Same(Counts(inc), Counts(new), (1 .. Len(inc)) \ {i})
  BY <1>1, <1>2, <1>4 DEF Counts, Same
<1>7. SumFunction(Counts(new)) = SumFunction(Counts(inc)) + Counts(new)[i] - Counts(inc)[i]
  BY <1>5, <1>6, SumChanges
<1>8. SumFunction(Counts(new)) = SumFunction(Counts(inc)) + 1
  BY <1>2, <1>5, <1>6, <1>7
<1> QED
  BY <1>8 DEF new

LEMMA NewIsCounted ==
    ASSUME NEW inc \in Seq(Incident), NEW x \in Incident, x.count = 1
    PROVE  SumFunction(Counts(Append(inc, x))) = SumFunction(Counts(inc)) + 1
<1> DEFINE new == Append(inc, x)
           n == Len(inc) + 1
<1>1. /\ new \in Seq(Incident) /\ Len(new) = n /\ new[n] = x /\ Len(inc) \in Nat
      /\ \A j \in 1 .. Len(inc) : new[j] = inc[j]
  OBVIOUS
<1> HIDE DEF new
<1>2. /\ Counts(inc) \in [1 .. Len(inc) -> Nat] /\ IsFiniteSet(1 .. Len(inc))
      /\ Counts(new) \in [1 .. Len(new) -> Nat] /\ SumFunction(Counts(inc)) \in Nat
  BY <1>1, CountsType
<1>3. 1 .. Len(new) = (1 .. Len(inc)) \cup {n} /\ n \notin 1 .. Len(inc)
  BY <1>1
<1>4. Counts(new) \in [(1 .. Len(inc)) \cup {n} -> Nat]
  BY <1>2, <1>3
<1>5. Counts(new)[n] = 1 /\ \A j \in 1 .. Len(inc) : Counts(new)[j] = Counts(inc)[j]
  BY <1>1 DEF Counts
<1> HIDE DEF n
<1>6. SumFunction(Counts(new)) = SumFunction(Counts(inc)) + Counts(new)[n]
  <2> DEFINE S == 1 .. Len(inc)
             f == Counts(inc)
             g == Counts(new)
  <2>1. IsFiniteSet(S) /\ f \in [S -> Nat] /\ n \notin S /\ g \in [S \cup {n} -> Nat]
        /\ Same(f, g, S)
    BY <1>2, <1>3, <1>4, <1>5 DEF Same
  <2> HIDE DEF S, f, g
  <2>2. SumFunction(g) = SumFunction(f) + g[n]
    BY ONLY <2>1, SumGrows
  <2> QED BY <2>2 DEF f, g
<1> QED
  BY <1>5, <1>6 DEF new

LEMMA StatusIsNotCounted ==
    ASSUME NEW inc \in Seq(Incident), NEW i \in 1 .. Len(inc), NEW s \in Statuses
    PROVE  Counts([inc EXCEPT ![i].status = s]) = Counts(inc)
<1> DEFINE new == [inc EXCEPT ![i].status = s]
<1>1. inc[i] \in Incident /\ DOMAIN new = DOMAIN inc
  OBVIOUS
<1>2. \A j \in DOMAIN inc : new[j].count = inc[j].count
  BY <1>1 DEF Incident
<1> HIDE DEF new
<1>3. Counts(new) = Counts(inc)
  BY <1>1, <1>2 DEF Counts
<1> QED
  BY <1>3 DEF new

\* Every step keeps the balance.
LEMMA CountStep ==
    TypeInv /\ TypeInv' /\ DataInv /\ LockInv /\ CountsViolations /\ [Next]_vars => CountsViolations'
<1> SUFFICES ASSUME TypeInv, TypeInv', DataInv, LockInv, CountsViolations, [Next]_vars
             PROVE  CountsViolations'
  OBVIOUS
<1>w. work \in [Procs -> Work] /\ work' \in [Procs -> Work]
  BY DEF TypeInv
<1>m. \A p \in Manuals : p \in Procs /\ p \notin Syncs /\ p \notin Blocked
  BY QueryLogAssumption DEF Procs
<1>s. Syncs \subseteq Procs /\ Fulls \subseteq Syncs
  BY DEF Procs, Syncs
<1>0. CASE UNCHANGED <<work, violations, incidents, bound>>
  BY <1>0 DEF CountsViolations, At
<1>1. CASE Elapse
  BY <1>0, <1>1 DEF Elapse, found
<1>2. CASE Flush
  BY <1>0, <1>2 DEF Flush, found
<1>3. ASSUME NEW q \in bound.of.queries, Finish(q) PROVE CountsViolations'
  BY <1>0, <1>3 DEF Finish, found
<1>4. ASSUME NEW p \in Syncs, Trigger(p) PROVE CountsViolations'
  <2>1. Alone(p) /\ work[p].at = "idle" /\ work'[p].at \in {"enter", "begin"}
    BY <1>4, <1>w, <1>s, TriggerDoes DEF Work
  <2> QED BY <1>4, <1>m, <1>s, <2>1, QuietKeeps DEF Trigger, found, Filing
<1>5. ASSUME NEW p \in Syncs, Enter(p) PROVE CountsViolations'
  <2>0. /\ Alone(p) /\ work[p].at = "enter" /\ work[p] \in Work
        /\ \/ work'[p] = [work[p] EXCEPT !.at = "idle"]
           \/ work'[p] = [work[p] EXCEPT !.at = "begin", !.locks = TRUE]
    BY <1>5, <1>w, <1>s, EnterDoes
  <2>1. Alone(p) /\ work[p].at = "enter" /\ work'[p].at \in {"idle", "begin"}
    BY <2>0 DEF Work
  <2> QED BY <1>5, <1>m, <1>s, <2>1, QuietKeeps DEF Enter, found, Filing
<1>6. ASSUME NEW p \in Syncs, Begin(p) PROVE CountsViolations'
  <2>0. /\ Alone(p) /\ work[p].at = "begin" /\ work[p] \in Work
        /\ work'[p] = [work[p] EXCEPT !.at = "mark", !.start = now]
    BY <1>6, <1>w, <1>s, BeginDoes
  <2>1. Alone(p) /\ work[p].at = "begin" /\ work'[p].at = "mark"
    BY <2>0 DEF Work
  <2> QED BY <1>6, <1>m, <1>s, <2>1, QuietKeeps DEF Begin, found, Filing
<1>7. ASSUME NEW p \in Syncs, ReadMark(p) PROVE CountsViolations'
  <2>0. /\ Alone(p) /\ work[p].at = "mark" /\ work[p] \in Work
        /\ \/ work'[p] = [work[p] EXCEPT !.at = "fetch", !.from = mark]
           \/ work'[p] = [work[p] EXCEPT !.at = "fetch", !.from = 0]
    BY <1>7, <1>w, <1>s, ReadMarkDoes
  <2>1. Alone(p) /\ work[p].at = "mark" /\ work'[p].at = "fetch"
    BY <2>0 DEF Work
  <2> QED BY <1>7, <1>m, <1>s, <2>1, QuietKeeps DEF ReadMark, found, Filing
<1>8. ASSUME NEW p \in Syncs, Fetch(p) PROVE CountsViolations'
  <2>0. /\ Alone(p) /\ work[p].at = "fetch" /\ work[p] \in Work
        /\ \/ work'[p] = [work[p] EXCEPT !.at = "end", !.new = work[p].from]
           \/ \E rows \in Batches(work[p].from) :
                 work'[p] = [work[p] EXCEPT !.at = "insert", !.rows = rows]
    BY <1>8, <1>w, <1>s, FetchDoes
  <2>1. Alone(p) /\ work[p].at = "fetch" /\ work'[p].at \in {"end", "insert"}
    BY <2>0 DEF Work
  <2> QED BY <1>8, <1>m, <1>s, <2>1, QuietKeeps DEF Fetch, found, Filing
<1>9. ASSUME NEW p \in Syncs, FetchFails(p) PROVE CountsViolations'
  <2>0. /\ Alone(p) /\ work[p].at = "fetch" /\ work[p] \in Work
        /\ work'[p] = [work[p] EXCEPT !.at = "end", !.err = TRUE, !.rows = {}]
    BY <1>9, <1>w, <1>s, FetchFailsDoes
  <2>1. Alone(p) /\ work[p].at = "fetch" /\ work'[p].at = "end"
    BY <2>0 DEF Work
  <2> QED BY <1>9, <1>m, <1>s, <2>1, QuietKeeps DEF FetchFails, Fail, found, Filing
<1>10. ASSUME NEW p \in Syncs, InsertQueryLogBatch(p) PROVE CountsViolations'
  <2>0. /\ Alone(p) /\ work[p].at = "insert" /\ work[p] \in Work
        /\ work'[p] = [work[p] EXCEPT !.at = "policies", !.new = Latest(work[p].rows)]
    BY <1>10, <1>w, <1>s, InsertQueryLogBatchDoes
  <2>1. Alone(p) /\ work[p].at = "insert" /\ work'[p].at = "policies"
    BY <2>0 DEF Work
  <2> QED BY <1>10, <1>m, <1>s, <2>1, QuietKeeps DEF InsertQueryLogBatch, found, Filing
<1>11. ASSUME NEW p \in Syncs, InsertFails(p) PROVE CountsViolations'
  <2>0. /\ Alone(p) /\ work[p].at = "insert" /\ work[p] \in Work
        /\ work'[p] = [work[p] EXCEPT !.at = "end", !.err = TRUE, !.rows = {}]
    BY <1>11, <1>w, <1>s, InsertFailsDoes
  <2>1. Alone(p) /\ work[p].at = "insert" /\ work'[p].at = "end"
    BY <2>0 DEF Work
  <2> QED BY <1>11, <1>m, <1>s, <2>1, QuietKeeps DEF InsertFails, Fail, found, Filing
<1>12. ASSUME NEW p \in Syncs, GetPolicies(p) PROVE CountsViolations'
  <2>0. /\ Alone(p) /\ work[p].at = "policies" /\ work[p] \in Work
        /\ \/ work'[p] = [work[p] EXCEPT !.at = "evaluate"]
           \/ work'[p] = [work[p] EXCEPT !.at = "end", !.rows = {}]
    BY <1>12, <1>w, <1>s, GetPoliciesDoes
  <2>1. Alone(p) /\ work[p].at = "policies" /\ work'[p].at \in {"evaluate", "end"}
    BY <2>0 DEF Work
  <2> QED BY <1>12, <1>m, <1>s, <2>1, QuietKeeps DEF GetPolicies, found, Filing
<1>13. ASSUME NEW p \in Syncs, Evaluate(p) PROVE CountsViolations'
  <2>1. Alone(p) /\ work[p].at = "evaluate" /\ p \in Procs /\ p \notin Manuals /\ incidents' = incidents
    BY <1>13, <1>w, <1>s, <1>m, EvaluateDoes DEF Evaluate
  <2>2. PICK q \in Earliest(work[p].rows) :
           \/ /\ violations' = [violations EXCEPT ![q] = @ + 1]
              /\ bound' = bound /\ work'[p] = [work[p] EXCEPT !.at = "find", !.rows = @ \ {q}]
           \/ /\ violations' = violations /\ (bound' = bound \/ Fault)
              /\ work'[p] = [work[p] EXCEPT !.rows = @ \ {q}]
    BY <1>13, <1>w, <1>s DEF Evaluate, Work
  <2>3. q \in Queries \cup Blocked
    BY <1>w, <1>s DEF Earliest, Work
  <2>4. CASE /\ violations' = [violations EXCEPT ![q] = @ + 1]
             /\ bound' = bound /\ work'[p] = [work[p] EXCEPT !.at = "find", !.rows = @ \ {q}]
    <3>1. work'[p].at = "find" /\ work[p].at \notin Filing
      BY <1>w, <2>1, <2>4 DEF Work, Filing
    <3> QED BY <2>1, <2>3, <2>4, <3>1, RecordKeeps
  <2>5. CASE /\ violations' = violations /\ (bound' = bound \/ Fault)
             /\ work'[p] = [work[p] EXCEPT !.rows = @ \ {q}]
    <3>1. work'[p].at = work[p].at
      BY <1>w, <2>1, <2>5 DEF Work
    <3> QED BY <2>1, <2>5, <3>1, QuietKeeps
  <2> QED BY <2>2, <2>4, <2>5
<1>14. ASSUME NEW p \in Syncs, Evaluated(p) PROVE CountsViolations'
  <2>1. Alone(p) /\ work[p].at = "evaluate" /\ work'[p].at = "end"
    BY <1>14, <1>w, <1>s, EvaluatedDoes DEF Work
  <2> QED BY <1>14, <1>m, <1>s, <2>1, QuietKeeps DEF Evaluated, found, Filing
<1>15. ASSUME NEW p \in Syncs, End(p) PROVE CountsViolations'
  <2>1. Alone(p) /\ work[p].at = "end" /\ work'[p].at = "idle"
    BY <1>15, <1>w, <1>s, EndDoes DEF Work, NoWork
  <2> QED BY <1>15, <1>m, <1>s, <2>1, QuietKeeps DEF End, found, Filing
<1>16. ASSUME NEW p \in Procs, BlockQuery(p) PROVE CountsViolations'
  <2>1. /\ Alone(p) /\ work[p].at = "idle" /\ p \in Blocked /\ p \notin Manuals /\ incidents' = incidents
    BY <1>16, <1>w, <1>m, BlockQueryDoes, QueryLogAssumption DEF BlockQuery, TypeInv
  <2>2. CASE /\ violations' = [violations EXCEPT ![p] = @ + 1] /\ Go(p, "find") /\ bound' = bound
    <3>1. work'[p].at = "find" /\ work[p].at \notin Filing
      BY <1>w, <2>1, <2>2 DEF Go, Work, Filing
    <3> QED BY <2>1, <2>2, <3>1, RecordKeeps
  <2>3. CASE Fault /\ Go(p, "done") /\ UNCHANGED violations
    <3>1. work'[p].at = "done"
      BY <1>w, <2>3 DEF Go, Work
    <3> QED BY <2>1, <2>3, <3>1, QuietKeeps DEF Filing
  <2> QED BY <1>16, <2>2, <2>3 DEF BlockQuery
<1>17. ASSUME NEW p \in Procs, CreateIncidentFromViolation(p) PROVE CountsViolations'
  <2>1. /\ Alone(p) /\ work[p].at = "idle" /\ work'[p].at = "find"
    BY <1>17, <1>w, CreateIncidentFromViolationDoes DEF Work
  <2>2. p \in Manuals /\ violations' = violations /\ incidents' = incidents /\ bound' = bound
    BY <1>17, QueryLogAssumption DEF CreateIncidentFromViolation, TypeInv, found
  <2> QED BY <2>1, <2>2, AskKeeps
<1>18. ASSUME NEW p \in Procs, FindIncident(p) PROVE CountsViolations'
  <2>1. /\ Alone(p) /\ work[p].at = "find" /\ violations' = violations /\ incidents' = incidents
    BY <1>18, <1>w, FindIncidentDoes DEF FindIncident, found
  <2>2. CASE bound' = bound /\ work'[p].at \in {"create", "count"}
    BY <2>1, <2>2, QuietKeeps DEF Filing
  <2>3. CASE Fault /\ Return(p)
    <3>1. work'[p].at = IF p \in Syncs THEN "evaluate" ELSE "done"
      BY <1>w, <2>3 DEF Return, Go, Work
    <3> QED BY <1>m, <2>1, <2>3, <3>1, FailureKeeps DEF Filing
  <2>4. \/ bound' = bound /\ work'[p].at \in {"create", "count"}
        \/ Fault /\ Return(p)
    BY <1>18, <1>w DEF FindIncident, Work
  <2> QED BY <2>2, <2>3, <2>4
<1>19. ASSUME NEW p \in Procs, CountOccurrence(p) PROVE CountsViolations'
  <2>1. /\ Alone(p) /\ work[p].at = "count" /\ violations' = violations
        /\ work'[p].at = IF p \in Syncs THEN "evaluate" ELSE "done"
    BY <1>19, <1>w, CountOccurrenceDoes DEF CountOccurrence, Work
  <2>2. CASE /\ incidents' = [incidents EXCEPT ![work[p].incident].count = @ + 1,
                                               ![work[p].incident].seen = now]
             /\ bound' = bound
    <3>1. work[p].incident \in 1 .. Len(incidents) /\ now \in Nat /\ incidents \in Seq(Incident)
      <4>1. DataOf(p) /\ work[p].incident \in Nat
        BY <1>w DEF DataInv, Work
      <4> QED BY <2>1, <4>1 DEF DataOf, TypeInv
    <3>2. SumFunction(Counts(incidents')) = SumFunction(Counts(incidents)) + 1
      BY <2>2, <3>1, OneMoreIsCounted
    <3> QED BY <1>m, <2>1, <2>2, <3>2, FileKeeps DEF Filing
  <2>3. CASE Fault /\ UNCHANGED incidents
    BY <1>m, <2>1, <2>3, FailureKeeps DEF Filing
  <2> QED BY <1>19, <2>2, <2>3 DEF CountOccurrence
<1>20. ASSUME NEW p \in Procs, CreateIncident(p) PROVE CountsViolations'
  <2>1. /\ Alone(p) /\ work[p].at = "create" /\ violations' = violations
        /\ work'[p].at = IF p \in Syncs THEN "evaluate" ELSE "done"
    BY <1>20, <1>w, CreateIncidentDoes DEF CreateIncident, Work
  <2>2. CASE /\ incidents' = Append(incidents, [status |-> "open", count |-> 1, seen |-> now])
             /\ bound' = bound
    <3>1. /\ [status |-> "open", count |-> 1, seen |-> now] \in Incident
          /\ incidents \in Seq(Incident)
      BY DEF Incident, Statuses, OpenStatuses, TypeInv
    <3>2. SumFunction(Counts(incidents')) = SumFunction(Counts(incidents)) + 1
      BY <2>2, <3>1, NewIsCounted
    <3> QED BY <1>m, <2>1, <2>2, <3>2, FileKeeps DEF Filing
  <2>3. CASE Fault /\ UNCHANGED incidents
    BY <1>m, <2>1, <2>3, FailureKeeps DEF Filing
  <2> QED BY <1>20, <2>2, <2>3 DEF CreateIncident
<1>21. ASSUME NEW e \in bound.of.edits, ReadIncident(e) PROVE CountsViolations'
  BY <1>0, <1>21 DEF ReadIncident, found
<1>22. ASSUME NEW e \in bound.of.edits, WriteIncident(e) PROVE CountsViolations'
  <2>1. work' = work /\ violations' = violations /\ (bound' = bound \/ Fault)
    BY <1>22 DEF WriteIncident
  <2>2. Counts(incidents') = Counts(incidents)
    BY QueryLogAssumption, <1>22, StatusIsNotCounted DEF TypeInv, WriteIncident, DataInv, Edit
  <2>3. Counted' = Counted /\ Due' = Due
    BY <2>1, <2>2 DEF Counted, Due
  <2>4. bound'.faults >= bound.faults /\ bound'.crashes >= bound.crashes
    <3>1. bound.faults \in Nat /\ bound.crashes \in Nat
      BY DEF TypeInv
    <3>2. CASE bound' = bound
      BY <3>1, <3>2
    <3>3. CASE Fault
      BY <3>3, FaultKeeps, <3>1 DEF TypeInv
    <3> QED BY <2>1, <3>2, <3>3
  <2> QED BY <2>3, <2>4, BalanceStays
<1>23. CASE Crash
  <2>1. /\ violations' = violations /\ incidents' = incidents
        /\ bound' = [bound EXCEPT !.crashes = @ + 1]
    BY <1>23 DEF Crash, found
  <2>2. \A p \in Procs : /\ work'[p].at \in {"idle", "done"}
                         /\ p \in Manuals => (work'[p].at = "idle" <=> work[p].at = "idle")
    BY <1>23, <1>m DEF Crash, NoWork, At
  <2>3. Pending(work') = {} /\ Asking(work') = Asking(work)
    BY <1>m, <2>2 DEF Pending, Asking, Filing
  <2>4. /\ SumFunction(Counts(incidents)) \in Nat /\ SumFunction(violations) \in Nat
        /\ Cardinality(Pending(work)) \in Nat /\ Cardinality(Pending(work')) = 0
        /\ Cardinality(Asking(work)) \in Nat
    BY CountsType, FiniteSets, SumIsNatural, <2>3, FS_EmptySet DEF TypeInv
  <2>5. Counted' <= Counted /\ Due' >= Due
    BY <2>1, <2>3, <2>4 DEF Counted, Due
  <2>6. bound'.crashes > 0 /\ bound'.crashes >= bound.crashes /\ bound'.faults >= bound.faults
    BY <2>1 DEF TypeInv
  <2> QED BY <2>5, <2>6, BalanceKept
<1>24. CASE UNCHANGED vars
  BY <1>0, <1>24 DEF vars, found
<1> QED
  BY <1>1, <1>2, <1>3, <1>4, <1>5, <1>6, <1>7, <1>8, <1>9, <1>10, <1>11, <1>12, <1>13, <1>14,
     <1>15, <1>16, <1>17, <1>18, <1>19, <1>20, <1>21, <1>22, <1>23, <1>24
     DEF Next, Harvest, Upsert

LEMMA CountInit == Init => CountsViolations
<1> SUFFICES ASSUME Init PROVE CountsViolations
  OBVIOUS
<1>1. incidents = <<>> /\ violations = [v \in Queries \cup Blocked |-> 0] /\ work = [p \in Procs |-> NoWork]
  BY DEF Init
<1>2. SumFunction(Counts(incidents)) = 0
  <2> DEFINE f == Counts(incidents)
  <2>1. f \in [{} -> Nat] /\ IsFiniteSet({}) /\ \A x \in {} : f[x] = 0
    BY <1>1, FS_EmptySet DEF Counts
  <2> HIDE DEF f
  <2>2. SumFunction(f) = 0
    BY ONLY <2>1, SumOfNothing
  <2> QED BY <2>2 DEF f
<1>3. SumFunction(violations) = 0
  <2> DEFINE f == violations
             S == Queries \cup Blocked
  <2>1. f \in [S -> Nat] /\ IsFiniteSet(S) /\ \A x \in S : f[x] = 0
    BY <1>1, FiniteSets
  <2> HIDE DEF f, S
  <2>2. SumFunction(f) = 0
    BY ONLY <2>1, SumOfNothing
  <2> QED BY <2>2 DEF f
<1>4. Pending(work) = {} /\ Asking(work) = {}
  BY <1>1 DEF NoWork, Pending, Asking, Filing, Procs
<1>5. Counted = 0 /\ Due = 0
  BY <1>2, <1>3, <1>4, FS_EmptySet DEF Counted, Due
<1> QED
  BY <1>5, CountsBy

-----------------------------------------------------------------------------
Inv == TypeInv /\ DataInv /\ LockInv /\ CaughtUp /\ OnceInv /\ OneInv /\ CountsViolations

LEMMA InitInv == Init => Inv
<1> SUFFICES ASSUME Init PROVE Inv
  OBVIOUS
<1>1. PICK sc \in Scenarios : bound = [of |-> sc, faults |-> 0, crashes |-> 0]
  BY DEF Init
<1>2. sc.time \in Nat \ {0} /\ bound.of = sc
  BY <1>1, QueryLogAssumption
<1>3. NoWork \in Work /\ NoEdit \in Edit
  BY Places DEF NoWork, NoEdit, Work, Edit, Statuses, OpenStatuses
<1>4. /\ now = 1 /\ ended = [q \in Queries |-> 0] /\ log = {} /\ harvested = {} /\ mark = 0
      /\ active = FALSE /\ violations = [v \in Queries \cup Blocked |-> 0] /\ incidents = <<>>
  BY DEF Init
<1>5. work = [p \in Procs |-> NoWork] /\ edit = [e \in Edits |-> NoEdit]
  BY DEF Init
<1>6. \A p \in Procs : /\ work[p].at = "idle" /\ ~work[p].locks /\ work[p].rows = {}
                       /\ work[p].start = 0 /\ work[p].from = 0 /\ work[p].new = 0
                       /\ work[p].incident = 0 /\ ~work[p].err
  BY <1>5 DEF NoWork
<1>7. \A e \in Edits : edit[e].at = "idle"
  BY <1>5 DEF NoEdit
<1>8. TypeInv
  <2>1. bound \in [of : Scenarios, faults : Nat, crashes : Nat]
    BY <1>1
  <2>2. work \in [Procs -> Work] /\ edit \in [Edits -> Edit]
    BY <1>3, <1>5
  <2>3. incidents \in Seq(Incident)
    BY <1>4
  <2>4. ended \in [Queries -> Nat] /\ violations \in [Queries \cup Blocked -> Nat]
    BY <1>4
  <2>5. /\ now \in Nat \ {0} /\ mark \in Nat /\ active \in BOOLEAN
        /\ log \in SUBSET Queries /\ harvested \in SUBSET Queries
    <3>1. now = 1 /\ mark = 0 /\ active = FALSE /\ log = {} /\ harvested = {}
      BY <1>4
    <3>2. now \in Nat \ {0} /\ mark \in Nat
      BY <3>1
    <3>3. active \in BOOLEAN
      BY <3>1
    <3>4. log \in SUBSET Queries /\ harvested \in SUBSET Queries
      BY <3>1
    <3> QED
      BY <3>2, <3>3, <3>4
  <2> QED
    BY <2>1, <2>2, <2>3, <2>4, <2>5 DEF TypeInv
<1>9. DataInv
  BY <1>2, <1>4, <1>6, <1>7 DEF DataInv, DataOf, Filing
<1>10. LockInv
  BY <1>4, <1>6 DEF LockInv, LockOf, Filing
<1>11. CaughtUp
  BY <1>4, <1>6 DEF CaughtUp, Reached, Settled, CaughtBy, Past, Filing, Procs
<1>12. OnceInv
  BY <1>4, <1>6 DEF OnceInv, OnceOf, Past, Filing, Procs
<1>13. OneInv
  BY <1>4, <1>6, <1>7 DEF OneInv, Open
<1> QED
  BY <1>8, <1>9, <1>10, <1>11, <1>12, <1>13, CountInit DEF Inv

LEMMA InvHolds == Spec => []Inv
<1>1. Inv /\ [Next]_vars => Inv'
  <2> SUFFICES ASSUME TypeInv, DataInv, LockInv, CaughtUp, OnceInv, OneInv,
                      CountsViolations, [Next]_vars
               PROVE  Inv'
    BY DEF Inv
  <2>1. TypeInv'
    BY TypeStep
  <2>2. DataInv'
    BY <2>1, DataStep
  <2> QED
    BY <2>1, <2>2, LockStep, CaughtStep, OnceStep, OneStep, CountStep DEF Inv
<1> QED
  BY <1>1, InitInv, PTL DEF Spec

\* The ranges and the lock: TypeOK in the words of the model.
LEMMA Ranges == TypeInv /\ DataInv /\ LockInv => TypeOK
<1> SUFFICES ASSUME TypeInv, DataInv, LockInv PROVE TypeOK
  OBVIOUS
<1>1. now \in Nat \ {0} /\ mark \in Nat /\ bound.of.time \in Nat
  BY QueryLogAssumption DEF TypeInv
<1>2. now \in 1 .. bound.of.time /\ mark \in 0 .. now
  BY <1>1 DEF DataInv
<1>3. ended \in [Queries -> 0 .. now]
  BY <1>1 DEF TypeInv, DataInv
<1>4. ASSUME NEW p \in Procs
      PROVE  work[p].rows \subseteq log /\ work[p].incident \in 0 .. Len(incidents)
  BY DEF DataInv, TypeInv, Work, DataOf
<1>5. ASSUME NEW i \in DOMAIN incidents
      PROVE  incidents[i].status \in Statuses /\ incidents[i].count \in Nat \ {0}
  <2>1. incidents[i] \in Incident
    BY <1>5 DEF TypeInv
  <2> QED
    BY <2>1 DEF Incident
<1>6. log \subseteq Queries /\ harvested \subseteq log /\ active = (\E p \in Procs : work[p].locks)
  BY DEF TypeInv, DataInv, LockInv
<1>7. \A v \in DOMAIN violations : violations[v] \in Nat
  BY DEF TypeInv
<1> QED
  BY <1>2, <1>3, <1>4, <1>5, <1>6, <1>7 DEF TypeOK

\* Every variable stays within its type, only the full sync under way is behind
\* activeSyncs, no query that ClickHouse shows is passed over behind the watermark as
\* long as nothing fails and the seconds are kept apart, and one sync at a time records
\* no violation twice.
THEOREM NothingIsPassedOver == Spec => []HarvestInv
<1>1. Inv => HarvestInv
  <2> SUFFICES ASSUME Inv PROVE HarvestInv
    OBVIOUS
  <2>1. TypeOK
    BY Ranges DEF Inv
  <2>2. NothingSkipped
    BY DEF Inv, NothingSkipped, CaughtUp, Settled, Recorded
  <2>3. ViolationOnce
    BY DEF Inv, ViolationOnce, OnceInv, OneByOne
  <2> QED
    BY <2>1, <2>2, <2>3 DEF HarvestInv
<1> QED
  BY <1>1, InvHolds, PTL

\* The violations of a dedupe key never have two open incidents, as long as one sync at
\* a time writes them and there is one edit: the look for an open incident and the write
\* that follows are two statements, and only the lock keeps them together.
THEOREM OneIncidentIsOpen == Spec => []OneOpenIncident
<1>1. Inv => OneOpenIncident
  <2> SUFFICES ASSUME Inv, Solo PROVE Cardinality(Open) <= 1
    BY DEF OneOpenIncident, Solo
  <2>1. \A i, j \in Open : i = j
    BY DEF Inv, OneInv
  <2>2. CASE Open = {}
    BY <2>2, FS_EmptySet
  <2>3. ASSUME NEW i \in Open PROVE Cardinality(Open) <= 1
    <3>1. Open = {i}
      BY <2>1, <2>3
    <3> QED
      BY <3>1, FS_Singleton
  <2> QED
    BY <2>2, <2>3
<1> QED
  BY <1>1, InvHolds, PTL

\* Violations and incidents agree: whatever was recorded, or asked for by a user, is counted
\* in an incident or about to be, and exactly so as long as nothing fails, whoever
\* writes the incidents at the same time; and the writers share the one that is open.
THEOREM IncidentsAgree == Spec => []IncidentInv
<1>1. Inv => CountsViolations
  BY DEF Inv
<1> QED
  BY <1>1, InvHolds, OneIncidentIsOpen, PTL DEF IncidentInv
=============================================================================
