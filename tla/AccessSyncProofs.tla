--------------------------- MODULE AccessSyncProofs ---------------------------
(***************************************************************************)
(* AccessInv and BlockedForCause for any users and roles of ClickHouse,    *)
(* any number of syncs, goroutines, administrators and queries, and any    *)
(* failures, changes and restarts.                                         *)
(*                                                                         *)
(* The copies of a sync without failures agree with ClickHouse table by    *)
(* table: a table is that of ClickHouse, or some sync has it in hand or    *)
(* still before it.  What a query may rely on is weaker and holds through  *)
(* failures: the rows by which ClickHouse gave a user a role all the time  *)
(* are in the copy, or in the hands of the one sync that holds the lock.   *)
(*                                                                         *)
(* The last part is about the workspace (BrainTools), whose tables the     *)
(* guarded users write.                                                    *)
(***************************************************************************)
EXTENDS AccessSync, FiniteSetTheorems, TLAPS

\* The tables and what their rows may be.
Names == {"users", "roles", "roleGrants", "grants"}
Universe == [users |-> Users, roles |-> Roles, roleGrants |-> Pairs, grants |-> Roles]
AllRows == Users \cup Roles \cup Pairs

Ats == {"idle", "enter", "begin", "fetch", "delete", "insert", "rebuild", "end", "done"}
SyncType == [at : Ats, locks : BOOLEAN, table : 1 .. 4, rows : SUBSET AllRows,
             err : BOOLEAN, clean : BOOLEAN]
LoopType == {"none", "idle", "tick", "last"}
CheckType == [at : {"idle", "state", "matrix", "allowed", "blocked", "uncertain", "none"},
              need : SUBSET Roles]

TablesOk == truth \in Rows /\ cache \in Rows /\ matrix \subseteq Pairs
StateOk ==
    state # Absent => state \in [status : {"running", "idle", "error"}, age : 0 .. StaleAfter + 1]
SyncsOk == active \in BOOLEAN /\ sync \in [Syncs -> SyncType] /\ loop \in [Loops -> LoopType]
ControlOk == setting \in BOOLEAN /\ running \in BOOLEAN /\ admin \in [Admins -> BOOLEAN \cup {Absent}]
GuardOk == policies \subseteq Roles /\ check \in [Queries -> CheckType]
BoundOk ==
    bound \in [of : Scenarios, changes : Nat, edits : Nat, faults : Nat, rows : Nat, crashes : Nat]
HistOk == hist \in [lack : [Syncs -> SUBSET Pairs], lacked : SUBSET Pairs, exact : BOOLEAN]
Shape == TablesOk /\ StateOk /\ SyncsOk /\ ControlOk /\ GuardOk /\ BoundOk /\ HistOk

\* What a sync has in hand fits where it is, and the goroutine of a sync is in its tick.
Fits(p) ==
    /\ sync[p].at \in {"idle", "enter", "begin", "done", "fetch"} => sync[p].rows = {}
    /\ sync[p].at \in {"idle", "enter", "begin", "done"} => sync[p].table = 1
    /\ sync[p].at \in {"idle", "enter", "done"} => ~sync[p].locks
    /\ bound.of.singles = {} /\ sync[p].at \notin {"idle", "enter", "done"} => sync[p].locks
    /\ sync[p].rows \subseteq Universe[Tables[sync[p].table]]
    /\ p \in Loops => (sync[p].at = "idle" <=> loop[p] \in {"none", "idle"})
FitInv == \A p \in Syncs : Fits(p)

\* One sync at most holds the lock.
LockInv ==
    /\ active = (\E p \in Syncs : sync[p].locks)
    /\ \A p, r \in Syncs : sync[p].locks /\ sync[r].locks => p = r

\* One goroutine at most is not told to stop, and it runs when running says so.
LoopInv ==
    /\ \A l, m \in Loops : loop[l] \in {"idle", "tick"} /\ loop[m] \in {"idle", "tick"} => l = m
    /\ running <=> \E l \in Loops : loop[l] \in {"idle", "tick"}

\* A single administrator applies what the setting says.
AdminInv ==
    /\ \A a \in Admins : admin[a] # Absent => a \in bound.of.admins
    /\ Cardinality(bound.of.admins) <= 1 =>
          /\ \A a \in Admins : admin[a] # Absent => admin[a] = setting
          /\ (\A a \in Admins : admin[a] = Absent) => running = setting

IsBusy(p) == sync[p].at \in {"fetch", "delete", "insert", "rebuild", "end"}

\* A sync will copy a table, from here on.
WillCopy(p, k) ==
    \/ sync[p].at \in {"fetch", "delete"} /\ sync[p].table <= k
    \/ sync[p].at = "insert" /\ sync[p].table < k

Copies(p, k) == sync[p].at = "insert" /\ sync[p].table = k

\* Without failures or changes each copy is that of ClickHouse, or a sync makes it so.
CopyInv(k) ==
    (\A p \in Syncs : ~WillCopy(p, k)) =>
        /\ cache[Tables[k]] \subseteq truth[Tables[k]]
        /\ \A row \in truth[Tables[k]] :
              row \in cache[Tables[k]] \/ \E p \in Syncs : Copies(p, k) /\ row \in sync[p].rows

ExactInv ==
    hist.exact =>
        /\ \A p \in Syncs : sync[p].at = "delete" => sync[p].rows = truth[Table(p)]
        /\ \A p \in Syncs : sync[p].at = "insert" => sync[p].rows \subseteq truth[Table(p)]
        /\ \A k \in 1 .. 4 : CopyInv(k)
        /\ matrix = Join(truth) \/ \E p \in Syncs : IsBusy(p) /\ sync[p].at # "end"

\* The row by which a table gives a role to a user: of the roles granted and of the grants.
RowOf(x, k) == IF k = 3 THEN x ELSE x[2]

\* A role that was never lacking is not lost in a copy, but for the rows in hand.
KeepInv(k) ==
    \A x \in Pairs \ hist.lacked :
        /\ RowOf(x, k) \in cache[Tables[k]] \/ \E p \in Syncs : Copies(p, k) /\ RowOf(x, k) \in sync[p].rows
        /\ \A p \in Syncs : sync[p].at = "delete" /\ sync[p].table = k => RowOf(x, k) \in sync[p].rows

\* What a sync without a failure has copied has every role that was not lacking since it began.
CleanInv(p, k) ==
    IsBusy(p) /\ sync[p].clean =>
        \A x \in Pairs \ hist.lack[p] :
            /\ sync[p].at = "delete" /\ sync[p].table = k => RowOf(x, k) \in sync[p].rows
            /\ sync[p].at = "insert" /\ sync[p].table = k =>
                  RowOf(x, k) \in cache[Tables[k]] \cup sync[p].rows
            /\ sync[p].table > k \/ sync[p].at \in {"rebuild", "end"} => RowOf(x, k) \in cache[Tables[k]]

LackInv ==
    /\ Lacking \subseteq hist.lacked
    /\ \A p \in Syncs : IsBusy(p) => Lacking \subseteq hist.lack[p]

CauseInv ==
    bound.of.singles = {} =>
        /\ \A k \in {3, 4} : KeepInv(k) /\ \A p \in Syncs : CleanInv(p, k)
        /\ Pairs \ hist.lacked \subseteq matrix
        /\ \A p \in Syncs : sync[p].at = "end" /\ sync[p].clean => Pairs \ hist.lack[p] \subseteq matrix

IInv == Shape /\ FitInv /\ LockInv /\ LoopInv /\ AdminInv /\ ExactInv /\ LackInv /\ CauseInv

LEMMA TableNames ==
    /\ Len(Tables) = 4
    /\ \A k \in 1 .. 4 : Tables[k] \in Names
    /\ \A k, l \in 1 .. 4 : Tables[k] = Tables[l] => k = l
    /\ Tables[3] = "roleGrants" /\ Tables[4] = "grants"
BY DEF Tables, Names

LEMMA RowsOf ==
    ASSUME NEW c \in Rows
    PROVE  \A t \in Names : c[t] \subseteq Universe[t]
BY DEF Rows, Names, Universe

\* One table is replaced.
Puts(c, d, t, S) == d \in Rows /\ d[t] = S /\ \A u \in Names : u # t => d[u] = c[u]

LEMMA RowsPut ==
    ASSUME NEW c \in Rows, NEW t \in Names, NEW S \in SUBSET Universe[t]
    PROVE  Puts(c, [c EXCEPT ![t] = S], t, S)
BY DEF Rows, Names, Universe, Puts

LEMMA JoinOf ==
    ASSUME NEW c \in Rows
    PROVE  /\ Join(c) \subseteq Pairs
           /\ \A x \in Pairs : x \in Join(c) <=> x \in c[Tables[3]] /\ x[2] \in c[Tables[4]]
BY DEF Rows, Join, Tables

\* The steps of a sync, by what they do to its local variables.
Keeps(p) == \A r \in Syncs : r # p => sync'[r] = sync[r]
Goes(p, from, to) == sync[p].at \in from /\ sync'[p].at \in to
Locals(p, rows) ==
    sync'[p].locks = sync[p].locks /\ sync'[p].table = sync[p].table /\ sync'[p].rows = rows
KeepsLocals(p) == Locals(p, sync[p].rows) /\ sync'[p].clean = sync[p].clean

\* It goes on with its next table, or with the matrix.
Advances(p) ==
    /\ sync'[p].locks = sync[p].locks /\ sync'[p].rows = sync[p].rows
    /\ \/ sync'[p].at = "fetch" /\ sync[p].table \in 1 .. 3 /\ sync'[p].table = sync[p].table + 1
       \/ sync'[p].at = "rebuild" /\ sync[p].table = 4 /\ sync'[p].table = 4

\* It is over, and so is the tick of its goroutine.
Left(p) ==
    /\ sync'[p] = [NoSync EXCEPT !.at = IF p \in Loops THEN "idle" ELSE "done"]
    /\ loop' = IF p \in Loops
               THEN [loop EXCEPT ![p] = IF loop[p] = "last" THEN "none" ELSE "idle"] ELSE loop

LEMMA LeaveDoes ==
    ASSUME sync \in [Syncs -> SyncType], loop \in [Loops -> LoopType], NEW p \in Syncs, Leave(p)
    PROVE  /\ Keeps(p) /\ sync' \in [Syncs -> SyncType] /\ loop' \in [Loops -> LoopType]
           /\ Left(p)
<1>1. Keeps(p) /\ Left(p)
  BY DEF Leave, Keeps, Left
<1>2. sync'[p] \in SyncType
  <2>1. \E at \in {"idle", "done"} :
           sync'[p] = [at |-> at, locks |-> FALSE, table |-> 1, rows |-> {}, err |-> FALSE, clean |-> TRUE]
    BY <1>1 DEF Left, NoSync
  <2> QED
    BY <2>1 DEF SyncType, Ats
<1>3. sync' \in [Syncs -> SyncType]
  BY <1>2 DEF Leave
<1>4. loop' \in [Loops -> LoopType]
  BY <1>1 DEF Left, LoopType
<1> QED
  BY <1>1, <1>3, <1>4

LEMMA EnterDoes ==
    ASSUME sync \in [Syncs -> SyncType], loop \in [Loops -> LoopType], NEW p \in Syncs, Enter(p)
    PROVE  /\ Keeps(p) /\ sync' \in [Syncs -> SyncType] /\ loop' \in [Loops -> LoopType]
           /\ sync[p].at = "enter"
           /\ \/ active /\ active' = active /\ Left(p)
              \/ /\ ~active /\ active' = TRUE /\ loop' = loop
                 /\ sync'[p].at = "begin" /\ sync'[p].locks /\ sync'[p].rows = sync[p].rows
                 /\ sync'[p].table = sync[p].table /\ sync'[p].clean = sync[p].clean
<1>1. CASE active
  BY <1>1, LeaveDoes DEF Enter, At
<1>2. CASE ~active
  <2>1. /\ sync' = [sync EXCEPT ![p].at = "begin", ![p].locks = TRUE]
        /\ active' = TRUE /\ loop' = loop /\ sync[p].at = "enter"
    BY <1>2 DEF Enter, At
  <2>2. sync[p] \in SyncType /\ sync'[p] = [sync[p] EXCEPT !.at = "begin", !.locks = TRUE]
    BY <2>1
  <2>3. /\ sync'[p] \in SyncType
        /\ sync'[p].at = "begin" /\ sync'[p].locks /\ sync'[p].rows = sync[p].rows
        /\ sync'[p].table = sync[p].table /\ sync'[p].clean = sync[p].clean
    BY <2>2 DEF SyncType, Ats
  <2> QED
    BY <1>2, <2>1, <2>3 DEF Keeps
<1> QED
  BY <1>1, <1>2

LEMMA BeginDoes ==
    ASSUME sync \in [Syncs -> SyncType], NEW p \in Syncs, Begin(p)
    PROVE  /\ Keeps(p) /\ sync' \in [Syncs -> SyncType]
           /\ Goes(p, {"begin"}, {"fetch"}) /\ KeepsLocals(p)
<1>1. sync[p].at = "begin" /\ sync' = [sync EXCEPT ![p].at = "fetch"]
  BY DEF Begin, At
<1>2. sync[p] \in SyncType /\ sync'[p] = [sync[p] EXCEPT !.at = "fetch"]
  BY <1>1
<1>4. /\ sync'[p] \in SyncType
      /\ Goes(p, {"begin"}, {"fetch"}) /\ KeepsLocals(p)
  BY <1>1, <1>2 DEF SyncType, Ats, Goes, KeepsLocals, Locals, Advances
<1> QED
  BY <1>1, <1>4 DEF Keeps

LEMMA FetchDoes ==
    ASSUME sync \in [Syncs -> SyncType], truth \in Rows, NEW p \in Syncs, Fetch(p)
    PROVE  /\ Keeps(p) /\ sync' \in [Syncs -> SyncType]
           /\ Goes(p, {"fetch"}, {"delete"})
           /\ sync'[p].locks = sync[p].locks /\ sync'[p].table = sync[p].table
           /\ sync'[p].rows = truth[Tables[sync[p].table]] /\ sync'[p].clean = sync[p].clean
<1>1. sync[p].at = "fetch" /\ sync' = [sync EXCEPT ![p].at = "delete", ![p].rows = truth[Table(p)]]
  BY DEF Fetch, At
<1>2. sync[p] \in SyncType /\ sync'[p] = [sync[p] EXCEPT !.at = "delete", !.rows = truth[Table(p)]]
  BY <1>1
<1>3. truth[Tables[sync[p].table]] \in SUBSET AllRows /\ Table(p) = Tables[sync[p].table]
  BY <1>2, TableNames, RowsOf DEF SyncType, Universe, AllRows, Names, Table
<1>4. /\ sync'[p] \in SyncType
      /\ Goes(p, {"fetch"}, {"delete"})
      /\ sync'[p].locks = sync[p].locks /\ sync'[p].table = sync[p].table
      /\ sync'[p].rows = truth[Tables[sync[p].table]] /\ sync'[p].clean = sync[p].clean
  BY <1>1, <1>2, <1>3 DEF SyncType, Ats, Goes, KeepsLocals, Locals, Advances
<1> QED
  BY <1>1, <1>4 DEF Keeps

LEMMA FetchFailsDoes ==
    ASSUME sync \in [Syncs -> SyncType], NEW p \in Syncs, FetchFails(p)
    PROVE  /\ Keeps(p) /\ sync' \in [Syncs -> SyncType]
           /\ sync[p].at = "fetch" /\ Advances(p) /\ ~sync'[p].clean
<1>1. sync[p].at = "fetch" /\ sync' = [sync EXCEPT ![p].at = NextTable(p), ![p].clean = FALSE, ![p].table = IF NextTable(p) = "fetch" THEN @ + 1 ELSE @]
  BY DEF FetchFails, At
<1>2. sync[p] \in SyncType /\ sync'[p] = [sync[p] EXCEPT !.at = NextTable(p), !.clean = FALSE, !.table = IF NextTable(p) = "fetch" THEN @ + 1 ELSE @]
  BY <1>1
<1>3. \/ NextTable(p) = "fetch" /\ sync[p].table \in 1 .. 3
      \/ NextTable(p) = "rebuild" /\ sync[p].table = 4
  BY <1>2, TableNames DEF SyncType, NextTable
<1>4. /\ sync'[p] \in SyncType
      /\ sync[p].at = "fetch" /\ Advances(p) /\ ~sync'[p].clean
  <2>1. CASE NextTable(p) = "fetch" /\ sync[p].table \in 1 .. 3
    BY <1>2, <2>1, <1>1 DEF SyncType, Ats, Advances
  <2>2. CASE NextTable(p) = "rebuild" /\ sync[p].table = 4
    BY <1>2, <2>2, <1>1 DEF SyncType, Ats, Advances
  <2> QED
    BY <1>3, <2>1, <2>2
<1> QED
  BY <1>1, <1>4 DEF Keeps

LEMMA DeleteDoes ==
    ASSUME sync \in [Syncs -> SyncType], NEW p \in Syncs, Delete(p)
    PROVE  /\ Keeps(p) /\ sync' \in [Syncs -> SyncType]
           /\ Goes(p, {"delete"}, {"insert"}) /\ KeepsLocals(p)
<1>1. sync[p].at = "delete" /\ sync' = [sync EXCEPT ![p].at = "insert"]
  BY DEF Delete, At
<1>2. sync[p] \in SyncType /\ sync'[p] = [sync[p] EXCEPT !.at = "insert"]
  BY <1>1
<1>4. /\ sync'[p] \in SyncType
      /\ Goes(p, {"delete"}, {"insert"}) /\ KeepsLocals(p)
  BY <1>1, <1>2 DEF SyncType, Ats, Goes, KeepsLocals, Locals, Advances
<1> QED
  BY <1>1, <1>4 DEF Keeps

LEMMA DeleteFailsDoes ==
    ASSUME sync \in [Syncs -> SyncType], NEW p \in Syncs, DeleteFails(p)
    PROVE  /\ Keeps(p) /\ sync' \in [Syncs -> SyncType]
           /\ Goes(p, {"delete"}, {"end"}) /\ Locals(p, sync[p].rows) /\ ~sync'[p].clean
<1>1. sync[p].at = "delete" /\ sync' = [sync EXCEPT ![p].at = "end", ![p].err = TRUE, ![p].clean = FALSE]
  BY DEF DeleteFails, At
<1>2. sync[p] \in SyncType /\ sync'[p] = [sync[p] EXCEPT !.at = "end", !.err = TRUE, !.clean = FALSE]
  BY <1>1
<1>4. /\ sync'[p] \in SyncType
      /\ Goes(p, {"delete"}, {"end"}) /\ Locals(p, sync[p].rows) /\ ~sync'[p].clean
  BY <1>1, <1>2 DEF SyncType, Ats, Goes, KeepsLocals, Locals, Advances
<1> QED
  BY <1>1, <1>4 DEF Keeps

LEMMA InsertDoes ==
    ASSUME sync \in [Syncs -> SyncType], NEW p \in Syncs, Insert(p)
    PROVE  /\ Keeps(p) /\ sync' \in [Syncs -> SyncType]
           /\ Goes(p, {"insert"}, {"insert"}) /\ sync'[p].clean = sync[p].clean
           /\ \E row \in sync[p].rows : Locals(p, sync[p].rows \ {row}) /\ cache' = [cache EXCEPT ![Table(p)] = @ \cup {row}]
<1>1. PICK row \in sync[p].rows : sync' = [sync EXCEPT ![p].rows = @ \ {row}] /\ cache' = [cache EXCEPT ![Table(p)] = @ \cup {row}]
  BY DEF Insert
<1>2. sync[p] \in SyncType /\ sync'[p] = [sync[p] EXCEPT !.rows = @ \ {row}] /\ sync[p].at = "insert"
  BY <1>1 DEF Insert, At
<1>3. /\ sync'[p] \in SyncType
      /\ Goes(p, {"insert"}, {"insert"}) /\ sync'[p].clean = sync[p].clean
      /\ Locals(p, sync[p].rows \ {row})
  BY <1>2 DEF SyncType, Ats, Goes, Locals
<1> QED
  BY <1>1, <1>3 DEF Keeps

LEMMA InsertFailsDoes ==
    ASSUME sync \in [Syncs -> SyncType], NEW p \in Syncs, InsertFails(p)
    PROVE  /\ Keeps(p) /\ sync' \in [Syncs -> SyncType]
           /\ Goes(p, {"insert"}, {"insert"}) /\ ~sync'[p].clean
           /\ \E row \in sync[p].rows : Locals(p, sync[p].rows \ {row})
<1>1. PICK row \in sync[p].rows : sync' = [sync EXCEPT ![p].rows = @ \ {row}, ![p].clean = FALSE]
  BY DEF InsertFails
<1>2. sync[p] \in SyncType /\ sync'[p] = [sync[p] EXCEPT !.rows = @ \ {row}, !.clean = FALSE] /\ sync[p].at = "insert"
  BY <1>1 DEF InsertFails, At
<1>3. /\ sync'[p] \in SyncType
      /\ Goes(p, {"insert"}, {"insert"}) /\ ~sync'[p].clean
      /\ Locals(p, sync[p].rows \ {row})
  <2>1. sync[p].rows \ {row} \in SUBSET AllRows
    BY <1>2 DEF SyncType
  <2>2. sync'[p] = [sync[p] EXCEPT !.rows = sync[p].rows \ {row}, !.clean = FALSE]
    BY <1>2
  <2> QED
    BY <1>2, <2>1, <2>2 DEF SyncType, Ats, Goes, Locals
<1> QED
  BY <1>1, <1>3 DEF Keeps

LEMMA InsertedDoes ==
    ASSUME sync \in [Syncs -> SyncType], NEW p \in Syncs, Inserted(p)
    PROVE  /\ Keeps(p) /\ sync' \in [Syncs -> SyncType]
           /\ sync[p].at = "insert" /\ Advances(p) /\ sync'[p].clean = sync[p].clean
<1>1. sync[p].at = "insert" /\ sync' = [sync EXCEPT ![p].at = NextTable(p), ![p].table = IF NextTable(p) = "fetch" THEN @ + 1 ELSE @]
  BY DEF Inserted, At
<1>2. sync[p] \in SyncType /\ sync'[p] = [sync[p] EXCEPT !.at = NextTable(p), !.table = IF NextTable(p) = "fetch" THEN @ + 1 ELSE @]
  BY <1>1
<1>3. \/ NextTable(p) = "fetch" /\ sync[p].table \in 1 .. 3
      \/ NextTable(p) = "rebuild" /\ sync[p].table = 4
  BY <1>2, TableNames DEF SyncType, NextTable
<1>4. /\ sync'[p] \in SyncType
      /\ sync[p].at = "insert" /\ Advances(p) /\ sync'[p].clean = sync[p].clean
  <2>1. CASE NextTable(p) = "fetch" /\ sync[p].table \in 1 .. 3
    BY <1>2, <2>1, <1>1 DEF SyncType, Ats, Advances
  <2>2. CASE NextTable(p) = "rebuild" /\ sync[p].table = 4
    BY <1>2, <2>2, <1>1 DEF SyncType, Ats, Advances
  <2> QED
    BY <1>3, <2>1, <2>2
<1> QED
  BY <1>1, <1>4 DEF Keeps

LEMMA RebuildDoes ==
    ASSUME sync \in [Syncs -> SyncType], NEW p \in Syncs, RebuildAccessMatrix(p)
    PROVE  /\ Keeps(p) /\ sync' \in [Syncs -> SyncType]
           /\ Goes(p, {"rebuild"}, {"end"}) /\ KeepsLocals(p)
<1>1. sync[p].at = "rebuild" /\ sync' = [sync EXCEPT ![p].at = "end"]
  BY DEF RebuildAccessMatrix, At
<1>2. sync[p] \in SyncType /\ sync'[p] = [sync[p] EXCEPT !.at = "end"]
  BY <1>1
<1>4. /\ sync'[p] \in SyncType
      /\ Goes(p, {"rebuild"}, {"end"}) /\ KeepsLocals(p)
  BY <1>1, <1>2 DEF SyncType, Ats, Goes, KeepsLocals, Locals, Advances
<1> QED
  BY <1>1, <1>4 DEF Keeps

LEMMA RebuildFailsDoes ==
    ASSUME sync \in [Syncs -> SyncType], NEW p \in Syncs, RebuildFails(p)
    PROVE  /\ Keeps(p) /\ sync' \in [Syncs -> SyncType]
           /\ Goes(p, {"rebuild"}, {"end"}) /\ Locals(p, sync[p].rows) /\ ~sync'[p].clean
<1>1. sync[p].at = "rebuild" /\ sync' = [sync EXCEPT ![p].at = "end", ![p].clean = FALSE]
  BY DEF RebuildFails, At
<1>2. sync[p] \in SyncType /\ sync'[p] = [sync[p] EXCEPT !.at = "end", !.clean = FALSE]
  BY <1>1
<1>4. /\ sync'[p] \in SyncType
      /\ Goes(p, {"rebuild"}, {"end"}) /\ Locals(p, sync[p].rows) /\ ~sync'[p].clean
  BY <1>1, <1>2 DEF SyncType, Ats, Goes, KeepsLocals, Locals, Advances
<1> QED
  BY <1>1, <1>4 DEF Keeps

LEMMA EndDoes ==
    ASSUME sync \in [Syncs -> SyncType], loop \in [Loops -> LoopType], NEW p \in Syncs, End(p)
    PROVE  /\ Keeps(p) /\ sync' \in [Syncs -> SyncType] /\ loop' \in [Loops -> LoopType]
           /\ Left(p) /\ sync[p].at = "end" /\ active' = (active /\ ~sync[p].locks)
BY LeaveDoes DEF End, At

\* What else a step may do: to the bounds and to what the properties remember.
LEMMA BoundDoes ==
    ASSUME BoundOk, Fault \/ RowFault \/ Change \/ Edit \/ bound' = [bound EXCEPT !.crashes = @ + 1]
    PROVE  BoundOk' /\ bound'.of = bound.of
BY DEF BoundOk, Fault, RowFault, Change, Edit

LEMMA HistFails ==
    ASSUME HistOk, hist' = [hist EXCEPT !.exact = FALSE]
    PROVE  HistOk' /\ hist'.lack = hist.lack /\ hist'.lacked = hist.lacked /\ ~hist'.exact
BY DEF HistOk

LEMMA HistLoses ==
    ASSUME HistOk, hist' = [hist EXCEPT !.exact = FALSE, !.lacked = Pairs]
    PROVE  HistOk' /\ hist'.lack = hist.lack /\ hist'.lacked = Pairs /\ ~hist'.exact
BY DEF HistOk

LEMMA LackingType == Lacking \in SUBSET Pairs
BY DEF Lacking

LEMMA HistBegins ==
    ASSUME HistOk, NEW p \in Syncs, NEW e \in BOOLEAN, NEW L \in SUBSET Pairs,
           hist' = [hist EXCEPT !.lack[p] = L, !.exact = e]
    PROVE  /\ HistOk' /\ hist'.lack[p] = L /\ hist'.lacked = hist.lacked /\ hist'.exact = e
           /\ \A r \in Syncs : r # p => hist'.lack[r] = hist.lack[r]
BY DEF HistOk

LEMMA HistEnds ==
    ASSUME HistOk, NEW p \in Syncs,
           hist' = IF sync[p].clean
                   THEN [hist EXCEPT !.lack[p] = {}, !.lacked = hist.lack[p]]
                   ELSE [hist EXCEPT !.lack[p] = {}]
    PROVE  /\ HistOk' /\ hist'.lack[p] = {} /\ hist'.exact = hist.exact
           /\ hist'.lacked = IF sync[p].clean THEN hist.lack[p] ELSE hist.lacked
           /\ \A r \in Syncs : r # p => hist'.lack[r] = hist.lack[r]
BY DEF HistOk

LEMMA StateDoes ==
    ASSUME AccessAssumption, StateOk, BoundOk, NEW status \in {"running", "idle", "error"},
           UpsertSyncState(status)
    PROVE  StateOk' /\ BoundOk' /\ bound'.of = bound.of
BY BoundDoes DEF AccessAssumption, StateOk, BoundOk, UpsertSyncState

LEMMA CacheDoes ==
    ASSUME TablesOk, NEW k \in 1 .. 4, NEW S \in SUBSET Universe[Tables[k]],
           cache' = [cache EXCEPT ![Tables[k]] = S]
    PROVE  /\ cache' \in Rows /\ cache'[Tables[k]] = S
           /\ \A l \in 1 .. 4 : l # k => cache'[Tables[l]] = cache[Tables[l]]
<1>1. Tables[k] \in Names /\ cache \in Rows
  BY TableNames DEF TablesOk
<1>2. Puts(cache, cache', Tables[k], S)
  BY <1>1, RowsPut
<1>3. \A l \in 1 .. 4 : l # k => Tables[l] \in Names /\ Tables[l] # Tables[k]
  BY TableNames
<1> QED
  BY <1>2, <1>3 DEF Puts

LEMMA InHand ==
    ASSUME Shape, FitInv, NEW p \in Syncs
    PROVE  /\ sync[p] \in SyncType /\ sync[p].table \in 1 .. 4 /\ Table(p) = Tables[sync[p].table]
           /\ sync[p].rows \subseteq Universe[Tables[sync[p].table]]
BY DEF Shape, SyncsOk, SyncType, FitInv, Fits, Table

LEMMA SyncShape == ASSUME AccessAssumption, Shape, FitInv, NEW p \in Syncs, Sync(p)
                   PROVE  Shape' /\ bound'.of = bound.of
<1> USE DEF Shape
<1>u. /\ UNCHANGED <<truth, cache, matrix>> => TablesOk'
      /\ UNCHANGED state => StateOk'
      /\ UNCHANGED <<active, sync, loop>> => SyncsOk'
      /\ UNCHANGED <<setting, running, admin>> => ControlOk'
      /\ UNCHANGED <<policies, check>> => GuardOk'
      /\ UNCHANGED bound => BoundOk' /\ bound'.of = bound.of
      /\ UNCHANGED hist => HistOk'
  BY DEF TablesOk, StateOk, SyncsOk, ControlOk, GuardOk, BoundOk, HistOk
<1> USE DEF store, control, guard
<1>1. CASE Enter(p)
  BY <1>1, EnterDoes, <1>u DEF SyncsOk, Enter
<1>2. CASE Begin(p)
  BY <1>2, BeginDoes, StateDoes, HistBegins, LackingType, <1>u DEF SyncsOk, Begin, HistOk
<1>3. CASE Fetch(p)
  BY <1>3, FetchDoes, <1>u DEF SyncsOk, Fetch, TablesOk
<1>4. CASE FetchFails(p)
  BY <1>4, FetchFailsDoes, BoundDoes, HistFails, <1>u DEF SyncsOk, FetchFails
<1>5. CASE Delete(p)
  <2>1. SyncsOk'
    BY <1>5, DeleteDoes DEF SyncsOk, Delete
  <2>2. TablesOk'
    BY <1>5, InHand, CacheDoes DEF Delete, TablesOk
  <2> QED
    BY <1>5, <1>u, <2>1, <2>2 DEF Delete
<1>6. CASE DeleteFails(p)
  BY <1>6, DeleteFailsDoes, BoundDoes, HistFails, <1>u DEF SyncsOk, DeleteFails
<1>7. CASE Insert(p)
  <2>1. SyncsOk'
    BY <1>7, InsertDoes DEF SyncsOk, Insert
  <2>2. TablesOk'
    <3>1. PICK row \in sync[p].rows : cache' = [cache EXCEPT ![Table(p)] = @ \cup {row}]
      BY <1>7, InsertDoes DEF SyncsOk
    <3>2. cache[Table(p)] \cup {row} \in SUBSET Universe[Table(p)] /\ sync[p].table \in 1 .. 4
          /\ Table(p) = Tables[sync[p].table]
      BY InHand, RowsOf, TableNames DEF TablesOk
    <3>3. cache' = [cache EXCEPT ![Tables[sync[p].table]] = cache[Table(p)] \cup {row}]
      BY <3>1, <3>2
    <3>4. cache' \in Rows
      BY <3>2, <3>3, CacheDoes
    <3> QED
      BY <1>7, <3>4 DEF Insert, TablesOk
  <2> QED
    BY <1>7, <1>u, <2>1, <2>2 DEF Insert
<1>8. CASE InsertFails(p)
  BY <1>8, InsertFailsDoes, BoundDoes, HistLoses, <1>u DEF SyncsOk, InsertFails
<1>9. CASE Inserted(p)
  BY <1>9, InsertedDoes, <1>u DEF SyncsOk, Inserted
<1>10. CASE RebuildAccessMatrix(p)
  BY <1>10, RebuildDoes, JoinOf, <1>u DEF SyncsOk, RebuildAccessMatrix, TablesOk
<1>11. CASE RebuildFails(p)
  BY <1>11, RebuildFailsDoes, BoundDoes, HistFails, <1>u DEF SyncsOk, RebuildFails
<1>12. CASE End(p)
  BY <1>12, EndDoes, StateDoes, HistEnds, <1>u DEF SyncsOk, SyncType, End
<1> QED
  BY <1>1, <1>2, <1>3, <1>4, <1>5, <1>6, <1>7, <1>8, <1>9, <1>10, <1>11, <1>12 DEF Sync

\* The other steps that move syncs.
LEMMA TriggerDoes ==
    ASSUME sync \in [Syncs -> SyncType], NEW p \in Syncs, Trigger(p)
    PROVE  /\ Keeps(p) /\ sync' \in [Syncs -> SyncType] /\ KeepsLocals(p)
           /\ sync[p].at = "idle" /\ sync'[p].at = IF p \in Singles THEN "begin" ELSE "enter"
<1>1. \E at \in {"begin", "enter"} :
         /\ sync' = [sync EXCEPT ![p].at = at] /\ sync[p].at = "idle"
         /\ at = IF p \in Singles THEN "begin" ELSE "enter"
  BY DEF Trigger, At
<1>2. PICK at \in {"begin", "enter"} :
         /\ sync' = [sync EXCEPT ![p].at = at] /\ sync[p].at = "idle"
         /\ at = IF p \in Singles THEN "begin" ELSE "enter"
  BY <1>1
<1>3. sync[p] \in SyncType /\ sync'[p] = [sync[p] EXCEPT !.at = at]
  BY <1>2
<1>4. sync'[p] \in SyncType /\ KeepsLocals(p) /\ sync'[p].at = at
  BY <1>3 DEF SyncType, Ats, KeepsLocals, Locals
<1> QED
  BY <1>2, <1>4 DEF Keeps

LEMMA TickDoes ==
    ASSUME sync \in [Syncs -> SyncType], loop \in [Loops -> LoopType], NEW l \in Loops, Tick(l)
    PROVE  /\ Keeps(l) /\ sync' \in [Syncs -> SyncType] /\ loop' \in [Loops -> LoopType]
           /\ KeepsLocals(l) /\ sync'[l].at = "enter"
           /\ loop[l] = "idle" /\ loop'[l] = "tick"
           /\ \A m \in Loops : m # l => loop'[m] = loop[m]
BY DEF Syncs, Tick, SyncType, Ats, KeepsLocals, Locals, LoopType, Keeps

\* What is left of a sync by the end of the process.
CutOff(p) ==
    /\ sync'[p].at = IF sync[p].at = "idle" \/ p \in Loops THEN "idle" ELSE "done"
    /\ ~sync'[p].locks /\ sync'[p].table = 1 /\ sync'[p].rows = {} /\ sync'[p].clean

LEMMA CrashDoes ==
    ASSUME AccessAssumption, sync \in [Syncs -> SyncType], BoundOk, Crash
    PROVE  /\ sync' \in [Syncs -> SyncType] /\ loop' \in [Loops -> LoopType] /\ active' = FALSE
           /\ \A p \in Syncs : CutOff(p)
           /\ running' = setting
           /\ \E first \in Loops : \A l \in Loops :
                 loop'[l] = IF setting /\ l = first THEN "idle" ELSE "none"
<1>0. bound.of.loops \subseteq Loops
  BY DEF AccessAssumption, BoundOk
<1>1. ASSUME NEW p \in Syncs
      PROVE  \E at \in {"idle", "done"} :
                /\ at = IF sync[p].at = "idle" \/ p \in Loops THEN "idle" ELSE "done"
                /\ sync'[p] = [at |-> at, locks |-> FALSE, table |-> 1, rows |-> {}, err |-> FALSE,
                               clean |-> TRUE]
  BY DEF Crash, NoSync, At
<1>2. \A p \in Syncs : sync'[p] \in SyncType /\ CutOff(p)
  <2> SUFFICES ASSUME NEW p \in Syncs PROVE sync'[p] \in SyncType /\ CutOff(p)
    OBVIOUS
  <2>1. PICK at \in {"idle", "done"} :
           /\ at = IF sync[p].at = "idle" \/ p \in Loops THEN "idle" ELSE "done"
           /\ sync'[p] = [at |-> at, locks |-> FALSE, table |-> 1, rows |-> {}, err |-> FALSE,
                          clean |-> TRUE]
    BY <1>1
  <2> QED
    BY <2>1 DEF SyncType, Ats, CutOff
<1>3. sync' \in [Syncs -> SyncType]
  BY <1>2 DEF Crash
<1>4. \E first \in Loops : loop' = [l \in Loops |-> IF setting /\ l = first THEN "idle" ELSE "none"]
  BY <1>0 DEF Crash
<1>5. loop' \in [Loops -> LoopType]
  BY <1>4 DEF LoopType
<1> QED
  BY <1>2, <1>3, <1>4, <1>5 DEF Crash

LEMMA HistChanges ==
    ASSUME HistOk, ChangeGrants
    PROVE  /\ HistOk' /\ ~hist'.exact /\ hist'.lacked = hist.lacked \cup Lacking'
           /\ \A p \in Syncs : hist'.lack[p] = IF p \in Busy THEN hist.lack[p] \cup Lacking' ELSE {}
<1>0. Lacking' \in SUBSET Pairs
  BY DEF Lacking
<1>1. /\ hist.lack \in [Syncs -> SUBSET Pairs] /\ hist.lacked \in SUBSET Pairs
      /\ hist = [lack |-> hist.lack, lacked |-> hist.lacked, exact |-> hist.exact]
  BY DEF HistOk
<1> DEFINE L == [p \in Syncs |-> IF p \in Busy THEN hist.lack[p] \cup Lacking' ELSE {}]
<1>2. hist' = [lack |-> L, lacked |-> hist.lacked \cup Lacking', exact |-> FALSE]
  BY <1>1 DEF ChangeGrants
<1>3. L \in [Syncs -> SUBSET Pairs]
  BY <1>0, <1>1
<1> QED
  BY <1>0, <1>1, <1>2, <1>3 DEF HistOk

\* The other steps, by what they leave alone.
LEMMA OtherShape ==
    ASSUME AccessAssumption, Shape, FitInv,
           \/ \E p \in Syncs : Trigger(p)
           \/ \E l \in Loops : Tick(l)
           \/ \E a \in bound.of.admins : SetGovernanceSyncEnabled(a) \/ Apply(a)
           \/ \E q \in bound.of.queries : Evaluate(q)
           \/ ChangeGrants \/ UpdatePolicy \/ Elapse \/ Crash
           \/ UNCHANGED vars
    PROVE  Shape' /\ bound'.of = bound.of
<1> USE DEF Shape
<1>u. /\ UNCHANGED <<truth, cache, matrix>> => TablesOk'
      /\ UNCHANGED state => StateOk'
      /\ UNCHANGED <<active, sync, loop>> => SyncsOk'
      /\ UNCHANGED <<setting, running, admin>> => ControlOk'
      /\ UNCHANGED <<policies, check>> => GuardOk'
      /\ UNCHANGED bound => BoundOk' /\ bound'.of = bound.of
      /\ UNCHANGED hist => HistOk'
  BY DEF TablesOk, StateOk, SyncsOk, ControlOk, GuardOk, BoundOk, HistOk
<1>of. /\ bound.of.admins \subseteq Admins /\ bound.of.queries \subseteq Queries
       /\ bound.of.loops \subseteq Loops
  BY DEF AccessAssumption, BoundOk
<1> USE DEF store, control, guard
<1>1. ASSUME NEW p \in Syncs, Trigger(p) PROVE Shape' /\ bound'.of = bound.of
  BY <1>1, TriggerDoes, <1>u DEF SyncsOk, Trigger
<1>2. ASSUME NEW l \in Loops, Tick(l) PROVE Shape' /\ bound'.of = bound.of
  BY <1>2, TickDoes, <1>u DEF SyncsOk, Tick
<1>3. ASSUME NEW a \in bound.of.admins, SetGovernanceSyncEnabled(a) PROVE Shape' /\ bound'.of = bound.of
  BY <1>3, <1>of, BoundDoes, <1>u DEF SetGovernanceSyncEnabled, ControlOk
<1>4. ASSUME NEW a \in bound.of.admins, Apply(a) PROVE Shape' /\ bound'.of = bound.of
  <2>1. running' \in BOOLEAN /\ loop' \in [Loops -> LoopType]
    <3>1. CASE admin[a] /\ running
      BY <1>4, <3>1 DEF Apply, StartBackground, ControlOk, SyncsOk
    <3>2. CASE admin[a] /\ ~running
      BY <1>4, <3>2 DEF Apply, StartBackground, SyncsOk, LoopType
    <3>3. CASE ~admin[a]
      BY <1>4, <3>3 DEF Apply, Stop, SyncsOk, LoopType
    <3> QED
      BY <3>1, <3>2, <3>3
  <2>2. ControlOk'
    BY <1>4, <1>of, <2>1 DEF Apply, ControlOk
  <2>3. SyncsOk'
    BY <1>4, <2>1 DEF Apply, SyncsOk
  <2> QED
    BY <1>4, <1>u, <2>2, <2>3 DEF Apply
<1>5. ASSUME NEW q \in bound.of.queries, Evaluate(q) PROVE Shape' /\ bound'.of = bound.of
  <2>1. q \in Queries
    BY <1>of
  <2>2. \E v \in CheckType : check' = [check EXCEPT ![q] = v]
    <3>1. check[q] \in CheckType /\ policies \subseteq Roles
      BY <2>1 DEF GuardOk
    <3>2. CASE ReadPolicies(q)
      BY <3>1, <3>2 DEF ReadPolicies, CheckType
    <3>3. ASSUME NEW at \in {"uncertain", "matrix", "allowed", "blocked"}, check' = [check EXCEPT ![q].at = at]
          PROVE  \E v \in CheckType : check' = [check EXCEPT ![q] = v]
      BY <3>1, <2>1, <3>3 DEF CheckType, GuardOk
    <3> QED
      BY <1>5, <3>2, <3>3 DEF Evaluate, ReadState, ReadMatrix
  <2>3. GuardOk'
    BY <1>5, <2>1, <2>2 DEF Evaluate, ReadPolicies, ReadState, ReadMatrix, GuardOk
  <2> QED
    BY <1>5, <1>u, <2>3 DEF Evaluate, ReadPolicies, ReadState, ReadMatrix
<1>6. CASE ChangeGrants
  BY <1>6, BoundDoes, HistChanges, <1>u DEF ChangeGrants, TablesOk
<1>7. CASE UpdatePolicy
  BY <1>7, BoundDoes, <1>u DEF UpdatePolicy, GuardOk
<1>8. CASE Elapse
  <2>0. StaleAfter \in Nat
    BY DEF AccessAssumption
  <2>1. StateOk'
    <3>1. CASE state = Absent
      BY <1>8, <3>1 DEF Elapse, StateOk
    <3>2. CASE state # Absent
      BY <1>8, <3>2, <2>0 DEF Elapse, StateOk, Older
    <3> QED
      BY <3>1, <3>2
  <2> QED
    BY <1>8, <1>u, <2>1 DEF Elapse
<1>9. CASE Crash
  <2>1. SyncsOk'
    BY <1>9, CrashDoes DEF Crash, SyncsOk, Shape
  <2>2. BoundOk' /\ bound'.of = bound.of
    BY <1>9, BoundDoes DEF Crash
  <2>3. HistOk'
    BY <1>9 DEF Crash, HistOk
  <2>4. ControlOk'
    BY <1>9 DEF Crash, ControlOk
  <2>5. GuardOk'
    BY <1>9 DEF GuardOk, CheckType, Crash
  <2> QED
    BY <1>9, <1>u, <2>1, <2>2, <2>3, <2>4, <2>5 DEF Crash
<1>10. CASE UNCHANGED vars
  BY <1>10, <1>u DEF vars
<1> QED
  BY <1>1, <1>2, <1>3, <1>4, <1>5, <1>6, <1>7, <1>8, <1>9, <1>10

----------------------------------------------------------------------------
(* The lock and the background goroutines.                                  *)

\* A sync that a step leaves alone still fits.
LEMMA FitOther ==
    ASSUME NEW r \in Syncs, Fits(r), sync'[r] = sync[r], bound'.of = bound.of,
           r \in Loops => (loop'[r] \in {"none", "idle"} <=> loop[r] \in {"none", "idle"})
    PROVE  Fits(r)'
BY DEF Fits

LEMMA SyncFit == ASSUME AccessAssumption, Shape, FitInv, NEW p \in Syncs, Sync(p), bound'.of = bound.of
                 PROVE  FitInv'
<1>s. /\ sync \in [Syncs -> SyncType] /\ loop \in [Loops -> LoopType]
      /\ truth \in Rows
  BY DEF Shape, SyncsOk, TablesOk
<1>p. Fits(p) /\ sync[p].table \in 1 .. 4
  BY InHand DEF FitInv
<1>k. Keeps(p) /\ (p \in Loops => \A r \in Loops : r # p => loop'[r] = loop[r]) /\ (p \notin Loops => loop' = loop)
  <2>1. CASE loop' = loop
    BY <1>s, <2>1, EnterDoes, BeginDoes, FetchDoes, FetchFailsDoes, DeleteDoes, DeleteFailsDoes,
       InsertDoes, InsertFailsDoes, InsertedDoes, RebuildDoes, RebuildFailsDoes, EndDoes DEF Sync
  <2>2. CASE Keeps(p) /\ Left(p)
    BY <1>s, <2>2 DEF Left
  <2>3. loop' = loop \/ (Keeps(p) /\ Left(p))
    <3> USE DEF control
    <3>1. CASE Enter(p)
      BY <1>s, <3>1, EnterDoes
    <3>2. CASE End(p)
      BY <1>s, <3>2, EndDoes
    <3> QED
      BY <3>1, <3>2 DEF Sync, Begin, Fetch, FetchFails, Delete, DeleteFails, Insert, InsertFails,
         Inserted, RebuildAccessMatrix, RebuildFails
  <2> QED
    BY <2>1, <2>2, <2>3
<1>o. \A r \in Syncs : r # p => Fits(r)'
  <2> SUFFICES ASSUME NEW r \in Syncs, r # p PROVE Fits(r)'
    OBVIOUS
  <2>1. sync'[r] = sync[r] /\ (r \in Loops => loop'[r] = loop[r])
    BY <1>k DEF Keeps
  <2> QED
    BY <2>1, FitOther DEF FitInv
<1> SUFFICES Fits(p)'
  BY <1>o DEF FitInv
<1>l. ASSUME Left(p) PROVE Fits(p)'
  BY <1>l, <1>s DEF Left, NoSync, Fits
\* It stays under way, and its goroutine with it.
<1>m. ASSUME loop' = loop, sync[p].at \notin {"idle", "done"}, sync'[p].at \notin {"idle", "enter", "done"},
             sync'[p].locks = sync[p].locks \/ sync'[p].locks,
             sync[p].at # "enter" \/ sync'[p].locks,
             sync'[p].at \in {"begin", "fetch"} => sync'[p].rows = {},
             sync'[p].at = "begin" => sync'[p].table = 1,
             sync'[p].rows \subseteq Universe[Tables[sync'[p].table]]
      PROVE  Fits(p)'
  BY <1>m, <1>p DEF Fits
<1> USE DEF control
<1>1. CASE Enter(p)
  BY <1>l, <1>1, <1>m, <1>p, <1>s, EnterDoes DEF Fits
<1>2. CASE Begin(p)
  BY <1>2, <1>s, BeginDoes, <1>m, <1>p DEF Begin, Goes, KeepsLocals, Locals, Fits
<1>3. CASE Fetch(p)
  <2>1. /\ Goes(p, {"fetch"}, {"delete"}) /\ sync'[p].locks = sync[p].locks
        /\ sync'[p].table = sync[p].table
        /\ sync'[p].rows = truth[Tables[sync[p].table]] /\ loop' = loop
    BY <1>3, <1>s, FetchDoes DEF Fetch
  <2>2. truth[Tables[sync[p].table]] \subseteq Universe[Tables[sync[p].table]]
    BY <1>p, <1>s, TableNames, RowsOf
  <2> QED
    BY <1>m, <1>p, <2>1, <2>2 DEF Goes
<1>4. CASE FetchFails(p)
  BY <1>4, <1>s, FetchFailsDoes, <1>p, <1>m DEF FetchFails, Fits, Advances
<1>5. CASE Delete(p)
  BY <1>5, <1>s, DeleteDoes, <1>m, <1>p DEF Delete, Goes, KeepsLocals, Locals, Fits
<1>6. CASE DeleteFails(p)
  BY <1>6, <1>s, DeleteFailsDoes, <1>m, <1>p DEF DeleteFails, Goes, Locals, Fits
<1>7. CASE Insert(p) \/ InsertFails(p)
  <2>1. /\ Goes(p, {"insert"}, {"insert"}) /\ loop' = loop
        /\ \E row \in sync[p].rows : Locals(p, sync[p].rows \ {row})
    BY <1>7, <1>s, InsertDoes, InsertFailsDoes DEF Insert, InsertFails
  <2> QED
    BY <1>m, <1>p, <2>1 DEF Goes, Locals, Fits
<1>9. CASE Inserted(p)
  BY <1>9, <1>s, InsertedDoes, <1>m DEF Inserted, Advances
<1>10. CASE RebuildAccessMatrix(p) \/ RebuildFails(p)
  BY <1>10, <1>s, RebuildDoes, RebuildFailsDoes, <1>m, <1>p DEF RebuildAccessMatrix, RebuildFails,
     KeepsLocals, Goes, Locals, Fits
<1>12. CASE End(p)
  BY <1>12, <1>l, <1>s, EndDoes
<1> QED
  BY <1>1, <1>2, <1>3, <1>4, <1>5, <1>6, <1>7, <1>9, <1>10, <1>12 DEF Sync

LEMMA OtherFit ==
    ASSUME AccessAssumption, Shape, FitInv, bound'.of = bound.of,
           \/ \E p \in Syncs : Trigger(p)
           \/ \E l \in Loops : Tick(l)
           \/ \E a \in bound.of.admins : SetGovernanceSyncEnabled(a) \/ Apply(a)
           \/ \E q \in bound.of.queries : Evaluate(q)
           \/ ChangeGrants \/ UpdatePolicy \/ Elapse \/ Crash
           \/ UNCHANGED vars
    PROVE  FitInv'
<1>s. sync \in [Syncs -> SyncType] /\ loop \in [Loops -> LoopType] /\ Loops \subseteq Syncs
  BY DEF Shape, SyncsOk, Syncs
<1>of. /\ bound.of \in Scenarios
       /\ bound.of.singles \subseteq Singles /\ bound.of.fulls \subseteq Fulls
  BY DEF AccessAssumption, Shape, BoundOk
<1>k. ASSUME sync' = sync,
             \A l \in Loops : loop'[l] \in {"none", "idle"} <=> loop[l] \in {"none", "idle"}
      PROVE  FitInv'
  BY <1>k, FitOther DEF FitInv
<1> USE DEF control
<1>1. ASSUME NEW p \in Syncs, Trigger(p) PROVE FitInv'
  <2>1. /\ p \in bound.of.singles \cup bound.of.fulls /\ loop' = loop
        /\ Keeps(p) /\ KeepsLocals(p)
        /\ sync[p].at = "idle" /\ sync'[p].at = IF p \in Singles THEN "begin" ELSE "enter"
    BY <1>1, <1>s, TriggerDoes DEF Trigger
  <2>2. p \notin Loops /\ (p \in Singles => bound.of.singles # {})
    BY <1>of, <2>1 DEF AccessAssumption
  <2>3. Fits(p)'
    BY <2>1, <2>2 DEF FitInv, Fits, KeepsLocals, Locals
  <2>4. \A r \in Syncs : r # p => Fits(r)'
    BY <2>1, FitOther DEF Keeps, FitInv
  <2> QED
    BY <2>3, <2>4 DEF FitInv
<1>2. ASSUME NEW p \in Loops, Tick(p) PROVE FitInv'
  <2>1. /\ Keeps(p) /\ KeepsLocals(p) /\ sync'[p].at = "enter"
        /\ loop[p] = "idle" /\ loop'[p] = "tick" /\ p \in Syncs
        /\ \A m \in Loops : m # p => loop'[m] = loop[m]
    BY <1>2, <1>s, TickDoes
  <2>2. Fits(p)'
    BY <2>1 DEF FitInv, Fits, KeepsLocals, Locals
  <2>3. \A r \in Syncs : r # p => Fits(r)'
    BY <2>1, FitOther DEF Keeps, FitInv
  <2> QED
    BY <2>2, <2>3 DEF FitInv
<1>3. ASSUME NEW a \in bound.of.admins, SetGovernanceSyncEnabled(a) PROVE FitInv'
  BY <1>3, <1>k DEF SetGovernanceSyncEnabled
<1>4. ASSUME NEW a \in bound.of.admins, Apply(a) PROVE FitInv'
  <2>1. \A l \in Loops : loop'[l] \in {"none", "idle"} <=> loop[l] \in {"none", "idle"}
    <3>1. CASE admin[a] /\ running
      BY <1>4, <3>1 DEF Apply, StartBackground
    <3>2. CASE admin[a] /\ ~running
      <4>1. PICK l \in bound.of.loops : loop[l] = "none" /\ loop' = [loop EXCEPT ![l] = "idle"]
        BY <1>4, <3>2 DEF Apply, StartBackground
      <4> QED
        BY <1>s, <4>1
    <3>3. CASE ~admin[a]
      BY <1>4, <1>s, <3>3 DEF Apply, Stop, LoopType
    <3> QED
      BY <3>1, <3>2, <3>3
  <2> QED
    BY <1>4, <1>k, <2>1 DEF Apply
<1>5. ASSUME NEW q \in bound.of.queries, Evaluate(q) PROVE FitInv'
  BY <1>5, <1>k DEF Evaluate, ReadPolicies, ReadState, ReadMatrix
<1>6. CASE ChangeGrants \/ UpdatePolicy \/ Elapse \/ UNCHANGED vars
  BY <1>6, <1>k DEF ChangeGrants, UpdatePolicy, Elapse, vars
<1>9. CASE Crash
  <2>1. /\ \A p \in Syncs : CutOff(p)
        /\ \A l \in Loops : loop'[l] \in {"none", "idle"}
    BY <1>9, <1>s, CrashDoes DEF Shape
  <2> QED
    BY <2>1 DEF FitInv, Fits, CutOff
<1> QED
  BY <1>1, <1>2, <1>3, <1>4, <1>5, <1>6, <1>9

\* The steps of a sync that is not over keep its lock.
LEMMA KeepsLock ==
    ASSUME AccessAssumption, Shape, NEW p \in Syncs, Sync(p), ~Enter(p), ~End(p)
    PROVE  /\ \A r \in Syncs : sync'[r].locks = sync[r].locks
           /\ active' = active /\ UNCHANGED <<loop, setting, running, admin>>
<1>s. /\ sync \in [Syncs -> SyncType] /\ loop \in [Loops -> LoopType]
      /\ truth \in Rows
  BY DEF Shape, SyncsOk, TablesOk
<1>1. Keeps(p) /\ sync'[p].locks = sync[p].locks
  BY <1>s, BeginDoes, FetchDoes, FetchFailsDoes, DeleteDoes, DeleteFailsDoes, InsertDoes,
     InsertFailsDoes, InsertedDoes, RebuildDoes, RebuildFailsDoes
     DEF Sync, KeepsLocals, Locals, Advances
<1>2. active' = active /\ UNCHANGED <<loop, setting, running, admin>>
  BY DEF Sync, Begin, Fetch, FetchFails, Delete, DeleteFails, Insert, InsertFails, Inserted,
     RebuildAccessMatrix, RebuildFails, control
<1> QED
  BY <1>1, <1>2 DEF Keeps

LEMMA LockKept ==
    ASSUME LockInv, active' = active, \A r \in Syncs : sync'[r].locks = sync[r].locks
    PROVE  LockInv'
BY DEF LockInv

LEMMA NextLock == ASSUME AccessAssumption, Shape, FitInv, LockInv, [Next]_vars PROVE LockInv'
<1>s. /\ sync \in [Syncs -> SyncType] /\ loop \in [Loops -> LoopType] /\ active \in BOOLEAN
  BY DEF Shape, SyncsOk
<1>1. ASSUME NEW p \in Syncs, Sync(p) PROVE LockInv'
  <2>1. CASE Enter(p)
    <3>1. /\ Keeps(p)
          /\ \/ active' = active /\ Left(p) /\ sync[p].at = "enter"
             \/ ~active /\ active' = TRUE /\ sync'[p].locks
      BY <1>s, <2>1, EnterDoes
    <3>2. CASE active' = active /\ Left(p) /\ sync[p].at = "enter"
      <4>1. ~sync'[p].locks /\ ~sync[p].locks
        BY <3>2 DEF Left, NoSync, FitInv, Fits
      <4>2. \A r \in Syncs : sync'[r].locks <=> sync[r].locks
        BY <3>1, <4>1 DEF Keeps
      <4> QED
        BY <3>2, <4>2 DEF LockInv
    <3>3. CASE ~active /\ active' = TRUE /\ sync'[p].locks
      BY <3>1, <3>3 DEF LockInv, Keeps
    <3> QED
      BY <3>1, <3>2, <3>3
  <2>2. CASE End(p)
    <3>0. Keeps(p) /\ Left(p) /\ active' = (active /\ ~sync[p].locks)
      BY <1>s, <2>2, EndDoes
    <3>1. ~sync'[p].locks
      BY <3>0 DEF Left, NoSync
    <3> QED
      BY <1>s, <3>0, <3>1 DEF LockInv, Keeps
  <2>3. CASE ~Enter(p) /\ ~End(p)
    BY <1>1, <2>3, KeepsLock, LockKept
  <2> QED
    BY <2>1, <2>2, <2>3
<1>2. ASSUME NEW p \in Syncs, Trigger(p) PROVE LockInv'
  BY <1>2, <1>s, TriggerDoes, LockKept DEF Trigger, KeepsLocals, Locals, Keeps
<1>3. ASSUME NEW l \in Loops, Tick(l) PROVE LockInv'
  BY <1>3, <1>s, TickDoes, LockKept DEF Tick, KeepsLocals, Locals, Keeps
<1>4. CASE Crash
  BY <1>4, <1>s, CrashDoes DEF Shape, LockInv, CutOff
<1>5. CASE active' = active /\ sync' = sync
  BY <1>5, LockKept
<1> QED
  BY <1>1, <1>2, <1>3, <1>4, <1>5 DEF Next, SetGovernanceSyncEnabled, Apply, Evaluate, ReadPolicies,
     ReadState, ReadMatrix, ChangeGrants, UpdatePolicy, Elapse, vars

LEMMA NextLoop == ASSUME AccessAssumption, Shape, FitInv, LoopInv, [Next]_vars PROVE LoopInv'
<1>s. /\ sync \in [Syncs -> SyncType] /\ loop \in [Loops -> LoopType]
      /\ setting \in BOOLEAN /\ running \in BOOLEAN /\ Loops \subseteq Syncs
  BY DEF Shape, SyncsOk, ControlOk, Syncs
<1>of. bound.of.loops \subseteq Loops
  BY DEF AccessAssumption, Shape, BoundOk
\* Steps that start and stop no goroutine.
<1>k. ASSUME running' = running,
             \A l \in Loops : loop'[l] \in {"idle", "tick"} <=> loop[l] \in {"idle", "tick"}
      PROVE  LoopInv'
  BY <1>k DEF LoopInv
<1>l. ASSUME NEW p \in Syncs, Left(p), running' = running, sync[p].at # "idle" PROVE LoopInv'
  <2>1. CASE p \in Loops
    BY <1>l, <1>s, <2>1, <1>k DEF FitInv, Fits, LoopType, Left
  <2>2. CASE p \notin Loops
    BY <1>k, <1>l, <2>2 DEF Left
  <2> QED
    BY <2>1, <2>2
<1>1. ASSUME NEW p \in Syncs, Sync(p) PROVE LoopInv'
  <2>1. CASE Enter(p)
    BY <1>s, <2>1, EnterDoes, <1>k, <1>l DEF Enter
  <2>2. CASE End(p)
    BY <1>s, <2>2, EndDoes, <1>l DEF End
  <2>3. CASE ~Enter(p) /\ ~End(p)
    BY <1>1, <1>k, <2>3, KeepsLock
  <2> QED
    BY <2>1, <2>2, <2>3
<1>2. ASSUME NEW l \in Loops, Tick(l) PROVE LoopInv'
  BY <1>2, <1>s, TickDoes, <1>k DEF Tick
<1>3. ASSUME NEW a \in bound.of.admins, Apply(a) PROVE LoopInv'
  <2>1. CASE admin[a] /\ running
    BY <1>3, <1>k, <2>1 DEF Apply, StartBackground
  <2>2. CASE admin[a] /\ ~running
    <3>1. PICK l \in bound.of.loops : loop[l] = "none" /\ loop' = [loop EXCEPT ![l] = "idle"]
      BY <1>3, <2>2 DEF Apply, StartBackground
    <3>2. running' = TRUE /\ l \in Loops
      BY <1>3, <1>of, <2>2 DEF Apply, StartBackground
    <3>3. \A m \in Loops : loop'[m] \in {"idle", "tick"} <=> m = l
      BY <1>s, <2>2, <3>1, <3>2 DEF LoopInv
    <3> QED
      BY <3>2, <3>3 DEF LoopInv
  <2>3. CASE ~admin[a]
    BY <1>3, <1>s, <2>3 DEF Apply, Stop, LoopType, LoopInv
  <2> QED
    BY <2>1, <2>2, <2>3
<1>4. CASE Crash
  <2>1. PICK first \in Loops : \A l \in Loops :
           loop'[l] = IF setting /\ l = first THEN "idle" ELSE "none"
    BY <1>4, <1>s, CrashDoes DEF Shape
  <2>2. running' = setting
    BY <1>4 DEF Crash
  <2>3. \A l \in Loops : loop'[l] \in {"idle", "tick"} <=> setting /\ l = first
    BY <2>1
  <2> QED
    BY <1>s, <2>2, <2>3 DEF LoopInv
<1>5. CASE loop' = loop /\ running' = running
  BY <1>5, <1>k
<1> QED
  BY <1>1, <1>2, <1>3, <1>4, <1>5 DEF Next, Trigger, SetGovernanceSyncEnabled, Evaluate, ReadPolicies,
     ReadState, ReadMatrix, ChangeGrants, UpdatePolicy, Elapse, vars, control

\* The members of a set with one member at most are the same.
LEMMA AtMostOne ==
    ASSUME NEW S, IsFiniteSet(S), Cardinality(S) <= 1, NEW a \in S, NEW b \in S
    PROVE  a = b
<1> SUFFICES ASSUME a # b PROVE FALSE
  OBVIOUS
<1>1. IsFiniteSet({a}) /\ Cardinality({a}) = 1
  BY FS_Singleton
<1>2. IsFiniteSet({a} \cup {b}) /\ Cardinality({a} \cup {b}) = 2
  <2>1. b \notin {a}
    OBVIOUS
  <2> QED
    BY <1>1, <2>1, FS_AddElement
<1>3. {a} \cup {b} \in SUBSET S
  OBVIOUS
<1>4. Cardinality({a} \cup {b}) <= Cardinality(S) /\ Cardinality(S) \in Nat
  BY <1>3, FS_Subset, FS_CardinalityType
<1> QED
  BY <1>2, <1>4

LEMMA NextAdmin == ASSUME AccessAssumption, Shape, AdminInv, [Next]_vars, bound'.of = bound.of PROVE AdminInv'
<1>s. /\ admin \in [Admins -> BOOLEAN \cup {Absent}] /\ Absent \notin BOOLEAN
      /\ setting \in BOOLEAN /\ running \in BOOLEAN
  BY DEF AccessAssumption, Shape, ControlOk
<1>of. bound.of.admins \subseteq Admins /\ IsFiniteSet(bound.of.admins)
  BY FS_Subset DEF AccessAssumption, Shape, BoundOk
<1>one. Cardinality(bound.of.admins) <= 1 => \A a, b \in bound.of.admins : a = b
  BY <1>of, AtMostOne
<1>1. ASSUME NEW a \in bound.of.admins, SetGovernanceSyncEnabled(a) PROVE AdminInv'
  <2>1. PICK on \in BOOLEAN : setting' = on /\ admin' = [admin EXCEPT ![a] = on]
    BY <1>1 DEF SetGovernanceSyncEnabled
  <2>2. a \in Admins /\ admin'[a] = on /\ \A b \in Admins : b # a => admin'[b] = admin[b]
    BY <1>of, <1>s, <2>1
  <2>3. \A b \in Admins : admin'[b] # Absent => b \in bound.of.admins
    BY <1>1, <2>2 DEF AdminInv
  <2>4. ASSUME Cardinality(bound.of.admins) <= 1
        PROVE  \A b \in Admins : admin'[b] # Absent => admin'[b] = setting'
    BY <1>one, <2>1, <2>2, <2>3, <2>4
  <2>5. admin'[a] # Absent
    BY <1>s, <2>2
  <2> QED
    BY <2>2, <2>3, <2>4, <2>5 DEF AdminInv
<1>2. ASSUME NEW a \in bound.of.admins, Apply(a) PROVE AdminInv'
  <2>1. /\ a \in Admins /\ admin[a] # Absent /\ admin'[a] = Absent /\ setting' = setting
        /\ \A b \in Admins : b # a => admin'[b] = admin[b]
    BY <1>2, <1>of, <1>s DEF Apply
  <2>2. admin[a] \in BOOLEAN /\ running' = admin[a]
    <3>1. admin[a] \in BOOLEAN
      BY <1>s, <2>1
    <3> QED
      BY <1>2, <1>s, <3>1 DEF Apply, StartBackground, Stop
  <2>3. \A b \in Admins : admin'[b] # Absent => b \in bound.of.admins /\ admin[b] # Absent /\ admin'[b] = admin[b]
    BY <2>1 DEF AdminInv
  <2>4. ASSUME Cardinality(bound.of.admins) <= 1
        PROVE  running' = setting' /\ \A b \in Admins : admin'[b] # Absent => admin'[b] = setting'
    BY <2>1, <2>2, <2>3, <2>4 DEF AdminInv
  <2> QED
    BY <2>3, <2>4 DEF AdminInv
<1>3. CASE Crash
  BY <1>3, <1>s DEF Crash, AdminInv
<1>4. CASE UNCHANGED <<admin, setting, running>>
  BY <1>4 DEF AdminInv
<1>5. ASSUME NEW p \in Syncs, Sync(p) PROVE UNCHANGED <<admin, setting, running>>
  BY <1>5, KeepsLock DEF Enter, End
<1> QED
  BY <1>1, <1>2, <1>3, <1>4, <1>5 DEF Next, Trigger, Tick, Evaluate, ReadPolicies,
     ReadState, ReadMatrix, ChangeGrants, UpdatePolicy, Elapse, vars, control

----------------------------------------------------------------------------
(* The matrix is that of ClickHouse when syncs without failures are over.   *)

LEMMA BusyIs == ASSUME Shape, NEW p \in Syncs PROVE p \in Busy <=> IsBusy(p)
BY DEF Shape, SyncsOk, SyncType, Ats, Busy, IsBusy

\* Where a sync has no table in hand and none to copy.
Away == {"idle", "enter", "begin", "done"}

LEMMA ExactKept ==
    ASSUME ExactInv, UNCHANGED <<truth, cache, matrix>>, hist'.exact => hist.exact,
           \A r \in Syncs : sync'[r] = sync[r] \/ (sync[r].at \in Away /\ sync'[r].at \in Away)
    PROVE  ExactInv'
<1> SUFFICES ASSUME hist'.exact PROVE ExactInv'
  BY DEF ExactInv
<1>1. \A r \in Syncs, k \in 1 .. 4 : /\ WillCopy(r, k)' <=> WillCopy(r, k)
                                     /\ Copies(r, k)' <=> Copies(r, k)
  BY DEF WillCopy, Copies, Away
<1>2. \A r \in Syncs : /\ sync'[r].at = sync[r].at \/ sync'[r].at \notin {"delete", "insert"}
                       /\ sync'[r].at \in {"delete", "insert"} => sync'[r] = sync[r]
                       /\ IsBusy(r) => sync'[r] = sync[r]
  BY DEF Away, IsBusy
<1>3. \A r \in Syncs : /\ sync'[r].at = "delete" => sync'[r].rows = truth[Table(r)'] 
                       /\ sync'[r].at = "insert" => sync'[r].rows \subseteq truth[Table(r)']
  BY <1>2 DEF ExactInv, Table
<1>4. ASSUME NEW k \in 1 .. 4 PROVE CopyInv(k)'
  BY <1>1 DEF ExactInv, Copies, Away, CopyInv
<1>5. (matrix = Join(truth) \/ \E p \in Syncs : IsBusy(p) /\ sync[p].at # "end")'
  BY <1>2 DEF ExactInv, IsBusy
<1> QED
  BY <1>1, <1>3, <1>4, <1>5 DEF ExactInv

LEMMA ExactBegin == ASSUME Shape, FitInv, ExactInv, NEW p \in Syncs, Begin(p) PROVE ExactInv'
<1>1. /\ Keeps(p) /\ sync'[p].at = "fetch" /\ sync'[p].table = 1 /\ UNCHANGED <<truth, cache, matrix>>
  <2>1. Keeps(p) /\ Goes(p, {"begin"}, {"fetch"}) /\ KeepsLocals(p)
    BY BeginDoes DEF Shape, SyncsOk
  <2>2. sync[p].table = 1
    BY <2>1 DEF Goes, FitInv, Fits
  <2> QED
    BY <2>1, <2>2 DEF Goes, KeepsLocals, Locals, Begin
<1>2. ~hist.exact => \A r \in Syncs : hist'.exact => ~IsBusy(r)
  BY BusyIs DEF Begin, Shape, HistOk
<1> SUFFICES ASSUME hist'.exact PROVE ExactInv'
  BY DEF ExactInv
<1>3. \A r \in Syncs : /\ sync'[r].at = "delete" => sync'[r].rows = truth[Table(r)']
                       /\ sync'[r].at = "insert" => sync'[r].rows \subseteq truth[Table(r)']
  BY <1>1, <1>2 DEF ExactInv, Table, Keeps, IsBusy
<1>4. \A k \in 1 .. 4 : WillCopy(p, k)'
  BY <1>1 DEF WillCopy
<1>5. (IsBusy(p) /\ sync[p].at # "end")'
  BY <1>1 DEF IsBusy
<1> QED
  BY <1>1, <1>3, <1>4, <1>5 DEF ExactInv, CopyInv

LEMMA ExactFetch == ASSUME Shape, FitInv, ExactInv, NEW p \in Syncs, Fetch(p) PROVE ExactInv'
<1>1. /\ Keeps(p) /\ Goes(p, {"fetch"}, {"delete"}) /\ sync'[p].table = sync[p].table
      /\ sync'[p].rows = truth[Tables[sync[p].table]]
      /\ UNCHANGED <<truth, cache, matrix, hist>>
  BY FetchDoes DEF Shape, SyncsOk, TablesOk, Fetch, store
<1> SUFFICES ASSUME hist.exact PROVE ExactInv'
  BY <1>1 DEF ExactInv
<1>2. \A r \in Syncs, k \in 1 .. 4 : WillCopy(r, k)' <=> WillCopy(r, k)
  BY <1>1 DEF WillCopy, Keeps, Goes
<1>3. \A r \in Syncs : /\ sync'[r].at = "delete" => sync'[r].rows = truth[Table(r)']
                       /\ sync'[r].at = "insert" => sync'[r].rows \subseteq truth[Table(r)']
  BY <1>1 DEF ExactInv, Table, Keeps, Goes
<1>4. ASSUME NEW k \in 1 .. 4 PROVE CopyInv(k)'
  BY <1>1, <1>2 DEF ExactInv, Copies, Keeps, Goes, CopyInv
<1>5. (IsBusy(p) /\ sync[p].at # "end")'
  BY <1>1 DEF IsBusy, Goes
<1> QED
  BY <1>1, <1>3, <1>4, <1>5 DEF ExactInv

LEMMA ExactDelete == ASSUME Shape, FitInv, ExactInv, NEW p \in Syncs, Delete(p) PROVE ExactInv'
<1>1. /\ Keeps(p) /\ Goes(p, {"delete"}, {"insert"}) /\ KeepsLocals(p)
      /\ UNCHANGED <<truth, matrix, hist>>
  BY DeleteDoes DEF Shape, SyncsOk, Delete
<1> SUFFICES ASSUME hist.exact PROVE ExactInv'
  BY <1>1 DEF ExactInv
<1> DEFINE t == sync[p].table
<1>2. t \in 1 .. 4 /\ Table(p) = Tables[t] /\ sync'[p].table = t /\ sync'[p].rows = sync[p].rows
  BY <1>1, InHand DEF KeepsLocals, Locals
<1>3. sync[p].rows = truth[Tables[t]]
  BY <1>1, <1>2 DEF ExactInv, Goes
<1>4. cache'[Tables[t]] = {} /\ \A k \in 1 .. 4 : k # t => cache'[Tables[k]] = cache[Tables[k]]
  BY <1>2, CacheDoes DEF Delete, Shape
<1>5. \A r \in Syncs : /\ sync'[r].at = "delete" => sync'[r].rows = truth[Table(r)']
                       /\ sync'[r].at = "insert" => sync'[r].rows \subseteq truth[Table(r)']
  BY <1>1, <1>2, <1>3 DEF ExactInv, Table, Keeps, Goes
<1>6. ASSUME NEW k \in 1 .. 4 PROVE CopyInv(k)'
  <2>1. CopyInv(k)
    BY DEF ExactInv
  <2>2. CASE k = t
    BY <1>1, <1>2, <2>2, <1>3, <1>4 DEF Copies, Goes, CopyInv
  <2>3. CASE k < t
    BY <1>1, <1>2, <2>3, <1>4, <2>1 DEF WillCopy, Goes, Keeps, Copies, CopyInv
  <2>4. CASE t < k
    BY <1>1, <1>2, <2>4 DEF WillCopy, Goes, CopyInv
  <2> QED
    BY <1>2, <2>2, <2>3, <2>4
<1>7. (IsBusy(p) /\ sync[p].at # "end")'
  BY <1>1 DEF IsBusy, Goes
<1> QED
  BY <1>1, <1>5, <1>6, <1>7 DEF ExactInv

LEMMA ExactInsert == ASSUME Shape, FitInv, ExactInv, NEW p \in Syncs, Insert(p) PROVE ExactInv'
<1>1. /\ Keeps(p) /\ Goes(p, {"insert"}, {"insert"})
      /\ UNCHANGED <<truth, matrix, hist>>
  BY InsertDoes DEF Shape, SyncsOk, Insert
<1>r. PICK row \in sync[p].rows : /\ Locals(p, sync[p].rows \ {row})
                                  /\ cache' = [cache EXCEPT ![Table(p)] = @ \cup {row}]
  BY InsertDoes DEF Shape, SyncsOk
<1> SUFFICES ASSUME hist.exact PROVE ExactInv'
  BY <1>1 DEF ExactInv
<1> DEFINE t == sync[p].table
<1>2. /\ t \in 1 .. 4 /\ Table(p) = Tables[t] /\ sync'[p].table = t
      /\ sync'[p].rows = sync[p].rows \ {row}
  BY <1>r, InHand DEF Locals
<1>3. sync[p].rows \subseteq truth[Tables[t]]
  BY <1>1, <1>2 DEF ExactInv, Goes
<1>4. /\ cache'[Tables[t]] = cache[Tables[t]] \cup {row}
      /\ \A k \in 1 .. 4 : k # t => cache'[Tables[k]] = cache[Tables[k]]
  <2>1. cache[Tables[t]] \cup {row} \in SUBSET Universe[Tables[t]]
    BY <1>2, InHand, RowsOf, TableNames DEF Shape, TablesOk
  <2>2. cache' = [cache EXCEPT ![Tables[t]] = cache[Tables[t]] \cup {row}]
    BY <1>r, <1>2
  <2> QED
    BY <1>2, <2>1, <2>2, CacheDoes DEF Shape
<1>5. \A r \in Syncs : /\ sync'[r].at = "delete" => sync'[r].rows = truth[Table(r)']
                       /\ sync'[r].at = "insert" => sync'[r].rows \subseteq truth[Table(r)']
  BY <1>1, <1>2, <1>3 DEF ExactInv, Table, Keeps, Goes
<1>6. ASSUME NEW k \in 1 .. 4 PROVE CopyInv(k)'
  <2>1. CopyInv(k)
    BY DEF ExactInv
  <2>2. \A r \in Syncs : /\ WillCopy(r, k)' <=> WillCopy(r, k)
                         /\ Copies(r, k)' <=> Copies(r, k)
    BY <1>1, <1>2 DEF WillCopy, Copies, Keeps, Goes
  <2>3. \A r \in Syncs : Copies(r, k) /\ (r # p \/ k # t) => sync'[r].rows = sync[r].rows
    BY <1>1 DEF Copies, Keeps
  <2>4. CASE k = t
    BY <1>1, <1>2, <1>3, <1>4, <2>1, <2>2, <2>3, <2>4 DEF CopyInv
  <2>5. CASE k # t
    BY <1>1, <1>4, <2>1, <2>2, <2>3, <2>5 DEF CopyInv
  <2> QED
    BY <2>4, <2>5
<1>7. (IsBusy(p) /\ sync[p].at # "end")'
  BY <1>1 DEF IsBusy, Goes
<1> QED
  BY <1>1, <1>5, <1>6, <1>7 DEF ExactInv

LEMMA ExactInserted == ASSUME Shape, FitInv, ExactInv, NEW p \in Syncs, Inserted(p) PROVE ExactInv'
<1>1. /\ Keeps(p) /\ sync[p].at = "insert" /\ sync[p].rows = {} /\ Advances(p)
      /\ UNCHANGED <<truth, cache, matrix, hist>>
  BY InsertedDoes DEF Shape, SyncsOk, Inserted, store
<1> SUFFICES ASSUME hist.exact PROVE ExactInv'
  BY <1>1 DEF ExactInv
<1>2. \A r \in Syncs, k \in 1 .. 4 : WillCopy(r, k)' <=> WillCopy(r, k)
  BY <1>1 DEF WillCopy, Keeps, Advances
<1>3. \A r \in Syncs : /\ sync'[r].at = "delete" => sync'[r].rows = truth[Table(r)']
                       /\ sync'[r].at = "insert" => sync'[r].rows \subseteq truth[Table(r)']
  BY <1>1 DEF ExactInv, Table, Keeps, Advances
<1>4. ASSUME NEW k \in 1 .. 4 PROVE CopyInv(k)'
  BY <1>1, <1>2 DEF ExactInv, Copies, Keeps, CopyInv
<1>5. (IsBusy(p) /\ sync[p].at # "end")'
  BY <1>1 DEF IsBusy, Advances
<1> QED
  BY <1>1, <1>3, <1>4, <1>5 DEF ExactInv

\* The last sync to rebuild the matrix has all of it.
LEMMA ExactRebuild == ASSUME Shape, FitInv, ExactInv, NEW p \in Syncs, RebuildAccessMatrix(p) PROVE ExactInv'
<1>1. /\ Keeps(p) /\ Goes(p, {"rebuild"}, {"end"}) /\ KeepsLocals(p)
      /\ UNCHANGED <<truth, cache, hist>> /\ matrix' = Join(cache)
  BY RebuildDoes DEF Shape, SyncsOk, RebuildAccessMatrix
<1> SUFFICES ASSUME hist.exact PROVE ExactInv'
  BY <1>1 DEF ExactInv
<1>2. \A r \in Syncs, k \in 1 .. 4 : /\ WillCopy(r, k)' <=> WillCopy(r, k)
                                     /\ Copies(r, k)' <=> Copies(r, k)
  BY <1>1 DEF WillCopy, Copies, Keeps, Goes
<1>3. \A r \in Syncs : /\ sync'[r].at = "delete" => sync'[r].rows = truth[Table(r)']
                       /\ sync'[r].at = "insert" => sync'[r].rows \subseteq truth[Table(r)']
  BY <1>1 DEF ExactInv, Table, Keeps, Goes
<1>4. ASSUME NEW k \in 1 .. 4 PROVE CopyInv(k)'
  BY <1>1, <1>2 DEF ExactInv, Keeps, KeepsLocals, Locals, CopyInv
<1>5. (matrix = Join(truth) \/ \E r \in Syncs : IsBusy(r) /\ sync[r].at # "end")'
  <2> SUFFICES ASSUME \A r \in Syncs : ~(IsBusy(r) /\ sync[r].at # "end")' PROVE Join(cache) = Join(truth)
    BY <1>1
  <2>1. \A r \in Syncs, k \in 1 .. 4 : ~WillCopy(r, k) /\ ~Copies(r, k)
    BY <1>2 DEF IsBusy, WillCopy, Copies
  <2>2. \A k \in 1 .. 4 : cache[Tables[k]] = truth[Tables[k]]
    BY <2>1 DEF ExactInv, CopyInv
  <2>3. \A x \in Pairs : x \in Join(cache) <=> x \in Join(truth)
    BY <2>2, JoinOf DEF Shape, TablesOk
  <2>4. Join(cache) \subseteq Pairs /\ Join(truth) \subseteq Pairs
    BY JoinOf DEF Shape, TablesOk
  <2> QED
    BY <2>3, <2>4
<1> QED
  BY <1>1, <1>3, <1>4, <1>5 DEF ExactInv

LEMMA ExactEnd == ASSUME Shape, FitInv, ExactInv, NEW p \in Syncs, End(p) PROVE ExactInv'
<1>1. /\ Keeps(p) /\ sync[p].at = "end" /\ sync'[p].at \in {"idle", "done"}
      /\ UNCHANGED <<truth, cache, matrix>> /\ hist'.exact = hist.exact
  BY EndDoes, HistEnds DEF Shape, SyncsOk, End, Left, NoSync
<1> SUFFICES ASSUME hist.exact PROVE ExactInv'
  BY <1>1 DEF ExactInv
<1>2. \A r \in Syncs, k \in 1 .. 4 : /\ WillCopy(r, k)' <=> WillCopy(r, k)
                                     /\ Copies(r, k)' <=> Copies(r, k)
  BY <1>1 DEF WillCopy, Copies, Keeps
<1>3. \A r \in Syncs : /\ sync'[r].at = "delete" => sync'[r].rows = truth[Table(r)']
                       /\ sync'[r].at = "insert" => sync'[r].rows \subseteq truth[Table(r)']
  BY <1>1 DEF ExactInv, Table, Keeps
<1>4. ASSUME NEW k \in 1 .. 4 PROVE CopyInv(k)'
  <2>1. CopyInv(k)
    BY DEF ExactInv
  <2>2. \A r \in Syncs : Copies(r, k) => sync'[r].rows = sync[r].rows
    BY <1>1 DEF Copies, Keeps
  <2> QED
    BY <1>1, <1>2, <2>1, <2>2 DEF CopyInv
<1>5. (matrix = Join(truth) \/ \E r \in Syncs : IsBusy(r) /\ sync[r].at # "end")'
  BY <1>1 DEF IsBusy, Keeps, ExactInv
<1> QED
  BY <1>1, <1>3, <1>4, <1>5 DEF ExactInv

LEMMA NextExact == ASSUME AccessAssumption, Shape, FitInv, ExactInv, [Next]_vars PROVE ExactInv'
<1>s. sync \in [Syncs -> SyncType] /\ loop \in [Loops -> LoopType] /\ HistOk
  BY DEF Shape, SyncsOk
<1>n. ~hist'.exact => ExactInv'
  BY DEF ExactInv
<1>k. ASSUME NEW p \in Syncs, Keeps(p), sync[p].at \in Away, sync'[p].at \in Away,
             UNCHANGED <<truth, cache, matrix, hist>>
      PROVE  ExactInv'
  BY <1>k, ExactKept DEF Keeps
<1>1. ASSUME NEW p \in Syncs, Sync(p) PROVE ExactInv'
  <2>1. CASE Enter(p)
    <3>1. Keeps(p) /\ sync[p].at \in Away /\ sync'[p].at \in Away
      BY <1>s, <2>1, EnterDoes DEF Left, NoSync, Away
    <3> QED
      BY <1>k, <2>1, <3>1 DEF Enter, store
  <2>2. CASE FetchFails(p) \/ DeleteFails(p) \/ InsertFails(p) \/ RebuildFails(p)
    BY <1>s, <2>2, HistFails, HistLoses, <1>n DEF FetchFails, DeleteFails, InsertFails,
       RebuildFails
  <2> QED
    BY <1>1, <2>1, <2>2, ExactBegin, ExactFetch, ExactDelete, ExactInsert, ExactInserted,
       ExactRebuild, ExactEnd DEF Sync
<1>2. ASSUME NEW p \in Syncs, Trigger(p) PROVE ExactInv'
  BY <1>s, <1>2, TriggerDoes, <1>k DEF Away, Trigger, store
<1>3. ASSUME NEW p \in Loops, Tick(p) PROVE ExactInv'
  BY <1>s, <1>3, TickDoes, <1>k DEF Away, Syncs, FitInv, Fits, Tick, store
<1>4. CASE ChangeGrants \/ Crash
  BY <1>s, <1>4, HistChanges, <1>n DEF Crash
<1>5. CASE UNCHANGED <<truth, cache, matrix, sync, hist>>
  BY <1>5, ExactKept
<1> QED
  BY <1>1, <1>2, <1>3, <1>4, <1>5 DEF Next, SetGovernanceSyncEnabled, Apply, Evaluate, ReadPolicies,
     ReadState, ReadMatrix, UpdatePolicy, Elapse, vars, store

----------------------------------------------------------------------------
(* What the matrix lacks, ClickHouse lacked.                                *)

LEMMA RowThere ==
    ASSUME Shape, NEW x \in Pairs, x \notin Lacking, NEW k \in {3, 4}
    PROVE  RowOf(x, k) \in truth[Tables[k]]
BY JoinOf DEF Shape, TablesOk, Lacking, RowOf

LEMMA LackKept ==
    ASSUME LackInv, truth' = truth, hist.lacked \subseteq hist'.lacked,
           \A r \in Syncs : IsBusy(r)' => IsBusy(r) /\ hist'.lack[r] = hist.lack[r]
    PROVE  LackInv'
BY DEF LackInv, Lacking

LEMMA NextLack == ASSUME AccessAssumption, Shape, LackInv, FitInv, [Next]_vars PROVE LackInv'
<1>s. sync \in [Syncs -> SyncType] /\ loop \in [Loops -> LoopType] /\ truth \in Rows /\ HistOk
  BY DEF Shape, SyncsOk, TablesOk
<1>h. hist.lacked \subseteq Pairs /\ Lacking \subseteq Pairs
  BY <1>s, LackingType DEF HistOk
<1>k. ASSUME NEW p \in Syncs, Keeps(p), truth' = truth, IsBusy(p)' => IsBusy(p), hist'.lack = hist.lack,
             hist'.lacked = hist.lacked \/ hist'.lacked = Pairs
      PROVE  LackInv'
  BY <1>k, <1>h, LackKept DEF Keeps, IsBusy
<1>1. ASSUME NEW p \in Syncs, Sync(p) PROVE LackInv'
  <2>1. CASE Begin(p)
    <3>1. Keeps(p) /\ truth' = truth
      BY <1>s, <2>1, BeginDoes DEF Begin
    <3>2. /\ hist'.lack[p] = Lacking /\ hist'.lacked = hist.lacked
          /\ \A r \in Syncs : r # p => hist'.lack[r] = hist.lack[r]
      BY <1>s, <2>1, HistBegins, LackingType DEF Begin, HistOk
    <3>3. Lacking' = Lacking
      BY <3>1 DEF Lacking
    <3>4. \A r \in Syncs : r # p /\ IsBusy(r)' => IsBusy(r)
      BY <3>1 DEF Keeps, IsBusy
    <3>5. \A r \in Syncs : IsBusy(r)' => Lacking \subseteq hist'.lack[r]
      BY <3>2, <3>4 DEF LackInv
    <3> QED
      BY <3>2, <3>3, <3>5 DEF LackInv
  <2>2. CASE End(p)
    <3>1. Keeps(p) /\ truth' = truth /\ sync[p].at = "end" /\ Left(p)
      BY <1>s, <2>2, EndDoes DEF End
    <3>2. /\ hist'.lacked = IF sync[p].clean THEN hist.lack[p] ELSE hist.lacked
          /\ \A r \in Syncs : r # p => hist'.lack[r] = hist.lack[r]
      BY <1>s, <2>2, HistEnds DEF End
    <3>3. Lacking' = Lacking
      BY <3>1 DEF Lacking
    <3>4. ~IsBusy(p)' /\ IsBusy(p)
      BY <3>1 DEF Left, NoSync, IsBusy
    <3>5. \A r \in Syncs : r # p /\ IsBusy(r)' => IsBusy(r)
      BY <3>1 DEF Keeps, IsBusy
    <3>6. \A r \in Syncs : IsBusy(r)' => Lacking \subseteq hist'.lack[r]
      BY <3>2, <3>4, <3>5 DEF LackInv
    <3>7. Lacking \subseteq hist'.lacked
      BY <3>2, <3>4 DEF LackInv
    <3> QED
      BY <3>3, <3>6, <3>7 DEF LackInv
  <2>3. CASE Enter(p)
    <3>1. Keeps(p) /\ ~IsBusy(p)'
      <4>1. Keeps(p) /\ (Left(p) \/ sync'[p].at = "begin")
        BY <1>s, <2>3, EnterDoes
      <4>2. Left(p) => sync'[p].at \in {"idle", "done"}
        BY DEF Left, NoSync
      <4> QED
        BY <4>1, <4>2 DEF IsBusy
    <3> QED
      BY <1>k, <2>3, <3>1 DEF Enter, store
  <2>4. CASE FetchFails(p) \/ DeleteFails(p) \/ InsertFails(p) \/ RebuildFails(p)
    <3>1. Keeps(p) /\ truth' = truth /\ IsBusy(p)
      BY <1>s, <2>4, FetchFailsDoes, DeleteFailsDoes, InsertFailsDoes, RebuildFailsDoes
         DEF FetchFails, DeleteFails, InsertFails, RebuildFails, store, Goes, IsBusy
    <3>2. hist'.lack = hist.lack /\ (hist'.lacked = hist.lacked \/ hist'.lacked = Pairs)
      BY <1>s, <2>4, HistFails, HistLoses DEF FetchFails, DeleteFails, InsertFails, RebuildFails
    <3> QED
      BY <1>k, <3>1, <3>2
  <2>5. CASE Fetch(p) \/ Delete(p) \/ Insert(p) \/ Inserted(p) \/ RebuildAccessMatrix(p)
    <3>1. Keeps(p) /\ truth' = truth /\ hist' = hist /\ IsBusy(p)
      BY <1>s, <2>5, FetchDoes, DeleteDoes, InsertDoes, InsertedDoes, RebuildDoes
         DEF Fetch, Delete, Insert, Inserted, RebuildAccessMatrix, store, Goes, IsBusy
    <3> QED
      BY <1>k, <3>1
  <2> QED
    BY <1>1, <2>1, <2>2, <2>3, <2>4, <2>5 DEF Sync
<1>2. ASSUME NEW p \in Syncs, Trigger(p) PROVE LackInv'
  <2>1. Keeps(p) /\ ~IsBusy(p)'
    BY <1>s, <1>2, TriggerDoes DEF IsBusy
  <2> QED
    BY <1>2, <1>k, <2>1 DEF Trigger, store
<1>3. ASSUME NEW p \in Loops, Tick(p) PROVE LackInv'
  BY <1>s, <1>3, TickDoes, <1>k DEF IsBusy, Syncs, Tick, store
<1>4. CASE ChangeGrants
  BY <1>s, <1>4, HistChanges, BusyIs DEF ChangeGrants, IsBusy, LackInv
<1>5. CASE Crash
  <2>1. \A r \in Syncs : ~IsBusy(r)'
    BY <1>5, <1>s, CrashDoes DEF Shape, CutOff, IsBusy
  <2>2. truth' = truth /\ hist.lacked \subseteq hist'.lacked
    BY <1>5, <1>h DEF Crash, store
  <2> QED
    BY <2>1, <2>2, LackKept
<1>6. CASE UNCHANGED <<truth, sync, hist>>
  BY <1>6, LackKept DEF IsBusy
<1> QED
  BY <1>1, <1>2, <1>3, <1>4, <1>5, <1>6 DEF Next, SetGovernanceSyncEnabled, Apply, Evaluate, ReadPolicies,
     ReadState, ReadMatrix, UpdatePolicy, Elapse, vars, store

\* The same for the one sync that is under way.
Alone(p) == \A r \in Syncs : r # p => ~IsBusy(r)

Kept(p) ==
    \A k \in {3, 4} : \A x \in Pairs \ hist.lacked :
        /\ RowOf(x, k) \in cache[Tables[k]] \/ (Copies(p, k) /\ RowOf(x, k) \in sync[p].rows)
        /\ sync[p].at = "delete" /\ sync[p].table = k => RowOf(x, k) \in sync[p].rows

Cleaned(p) == \A k \in {3, 4} : CleanInv(p, k)

Seen(p) ==
    /\ Pairs \ hist.lacked \subseteq matrix
    /\ sync[p].at = "end" /\ sync[p].clean => Pairs \ hist.lack[p] \subseteq matrix

LEMMA OneUnderWay ==
    ASSUME FitInv, LockInv, bound.of.singles = {}, NEW p \in Syncs,
           sync[p].at \notin {"idle", "enter", "done"}
    PROVE  Alone(p)
BY DEF FitInv, Fits, LockInv, Alone, IsBusy

LEMMA CauseOfOne ==
    ASSUME CauseInv, bound.of.singles = {}, NEW p \in Syncs, Alone(p)
    PROVE  Kept(p) /\ Cleaned(p) /\ Seen(p)
BY DEF Alone, Copies, IsBusy, CauseInv, KeepInv, Kept, Cleaned, Seen

LEMMA OneForAll ==
    ASSUME NEW p \in Syncs, Alone(p)', Kept(p)', Cleaned(p)', Seen(p)'
    PROVE  CauseInv'
BY DEF Alone, IsBusy, CleanInv, CauseInv, KeepInv, Kept, Cleaned, Seen

LEMMA CauseKept ==
    ASSUME Shape, CauseInv, UNCHANGED <<cache, matrix>>, bound'.of = bound.of,
           hist.lacked \subseteq hist'.lacked,
           \A r \in Syncs : /\ sync'[r] = sync[r] \/ (sync[r].at \in Away /\ sync'[r].at \in Away)
                            /\ IsBusy(r) => hist.lack[r] \subseteq hist'.lack[r]
    PROVE  CauseInv'
<1> SUFFICES ASSUME bound.of.singles = {} PROVE CauseInv'
  BY DEF CauseInv
<1>1. ASSUME NEW k \in {3, 4} PROVE KeepInv(k)'
  BY DEF CauseInv, Copies, Away, KeepInv
<1>2. ASSUME NEW k \in {3, 4}, NEW p \in Syncs PROVE CleanInv(p, k)'
  BY DEF CauseInv, IsBusy, Away, CleanInv
<1>3. Pairs \ hist'.lacked \subseteq matrix'
  BY DEF CauseInv
<1>4. ASSUME NEW p \in Syncs, sync'[p].at = "end", sync'[p].clean PROVE Pairs \ hist'.lack[p] \subseteq matrix'
  BY <1>4 DEF IsBusy, Away, CauseInv
<1> QED
  BY <1>1, <1>2, <1>3, <1>4 DEF CauseInv

\* Each step of the one sync.
OneInv(p) == Kept(p) /\ Cleaned(p) /\ Seen(p)

LEMMA OneBegin ==
    ASSUME Shape, FitInv, LackInv, NEW p \in Syncs, OneInv(p), Begin(p)
    PROVE  OneInv(p)'
<1>1. /\ sync[p].at = "begin" /\ sync'[p].at = "fetch" /\ sync'[p].table = 1 /\ UNCHANGED <<cache, matrix>>
      /\ hist'.lacked = hist.lacked
  <2>1. Goes(p, {"begin"}, {"fetch"}) /\ KeepsLocals(p)
    BY BeginDoes DEF Shape, SyncsOk
  <2>2. sync[p].table = 1
    BY <2>1 DEF Goes, FitInv, Fits
  <2>3. hist'.lacked = hist.lacked
    BY HistBegins, LackingType DEF Shape, HistOk, Begin
  <2> QED
    BY <2>1, <2>2, <2>3 DEF Goes, KeepsLocals, Locals, Begin
<1>2. Kept(p)'
  BY <1>1 DEF OneInv, Kept, Copies
<1>3. Cleaned(p)'
  BY <1>1 DEF Cleaned, CleanInv
<1> QED
  BY <1>1, <1>2, <1>3 DEF OneInv, Seen

LEMMA OneFetch ==
    ASSUME Shape, FitInv, LackInv, NEW p \in Syncs, OneInv(p), Fetch(p)
    PROVE  OneInv(p)'
<1>1. /\ sync[p].at = "fetch" /\ sync'[p].at = "delete" /\ sync'[p].table = sync[p].table
      /\ sync'[p].rows = truth[Tables[sync[p].table]] /\ sync'[p].clean = sync[p].clean
      /\ UNCHANGED <<truth, cache, matrix, hist>>
  BY FetchDoes DEF Shape, SyncsOk, TablesOk, Fetch, store, Goes
<1>2. \A x \in Pairs, k \in {3, 4} : x \notin hist.lacked \/ (IsBusy(p) /\ x \notin hist.lack[p]) =>
         RowOf(x, k) \in truth[Tables[k]]
  BY RowThere DEF LackInv
<1>3. IsBusy(p)
  BY <1>1 DEF IsBusy
<1>4. Kept(p)'
  BY <1>1, <1>2 DEF OneInv, Kept, Copies
<1>5. Cleaned(p)'
  BY <1>1, <1>2, <1>3 DEF OneInv, Cleaned, CleanInv
<1> QED
  BY <1>1, <1>4, <1>5 DEF OneInv, Seen

LEMMA OneFetchFails ==
    ASSUME Shape, NEW p \in Syncs, OneInv(p), FetchFails(p)
    PROVE  OneInv(p)'
<1>1. /\ sync[p].at = "fetch" /\ sync'[p].at \in {"fetch", "rebuild"} /\ ~sync'[p].clean
      /\ UNCHANGED <<cache, matrix>> /\ hist'.lacked = hist.lacked
  BY FetchFailsDoes, HistFails DEF Shape, SyncsOk, FetchFails, store, Advances
<1> QED
  BY <1>1 DEF OneInv, Kept, Copies, Cleaned, CleanInv, Seen

LEMMA OneDelete ==
    ASSUME Shape, FitInv, NEW p \in Syncs, OneInv(p), Delete(p)
    PROVE  OneInv(p)'
<1> DEFINE t == sync[p].table
<1>1. /\ sync[p].at = "delete" /\ sync'[p].at = "insert" /\ sync'[p].table = t /\ t \in 1 .. 4
      /\ sync'[p].rows = sync[p].rows /\ sync'[p].clean = sync[p].clean
      /\ UNCHANGED <<matrix, hist>> /\ Table(p) = Tables[t]
  BY DeleteDoes, InHand DEF Shape, SyncsOk, Delete, Goes, KeepsLocals, Locals
<1>2. \A k \in {3, 4} : k # t => cache'[Tables[k]] = cache[Tables[k]]
  <2>1. cache' = [cache EXCEPT ![Tables[t]] = {}] /\ {} \in SUBSET Universe[Tables[t]]
    BY <1>1 DEF Delete
  <2>2. \A k \in 1 .. 4 : k # t => cache'[Tables[k]] = cache[Tables[k]]
    BY <1>1, <2>1, CacheDoes DEF Shape
  <2> QED
    BY <2>2
<1>3. Kept(p)'
  <2> SUFFICES ASSUME NEW k \in {3, 4}, NEW x \in Pairs \ hist.lacked
               PROVE  RowOf(x, k) \in cache'[Tables[k]] \/ (Copies(p, k)' /\ RowOf(x, k) \in sync[p].rows)
    BY <1>1 DEF Kept
  <2>1. CASE k = t
    BY <1>1, <2>1 DEF OneInv, Kept, Copies
  <2>2. CASE k # t
    BY <1>1, <1>2, <2>2 DEF OneInv, Kept, Copies
  <2> QED
    BY <2>1, <2>2
<1>4. IsBusy(p)
  BY <1>1 DEF IsBusy
<1>5. Cleaned(p)'
  <2> SUFFICES ASSUME NEW k \in {3, 4}, sync[p].clean, NEW x \in Pairs \ hist.lack[p]
               PROVE  /\ t = k => RowOf(x, k) \in sync[p].rows
                      /\ t > k => RowOf(x, k) \in cache'[Tables[k]]
    BY <1>1 DEF Cleaned, CleanInv
  <2>1. CleanInv(p, k)
    BY DEF OneInv, Cleaned
  <2> QED
    BY <1>1, <1>2, <1>4, <2>1 DEF CleanInv
<1> QED
  BY <1>1, <1>3, <1>5 DEF OneInv, Seen

LEMMA OneDeleteFails ==
    ASSUME Shape, NEW p \in Syncs, OneInv(p), DeleteFails(p)
    PROVE  OneInv(p)'
<1>1. /\ sync[p].at = "delete" /\ sync'[p].at = "end" /\ ~sync'[p].clean
      /\ UNCHANGED <<cache, matrix>> /\ hist'.lacked = hist.lacked
  BY DeleteFailsDoes, HistFails DEF Shape, SyncsOk, DeleteFails, store, Goes
<1> QED
  BY <1>1 DEF OneInv, Kept, Copies, Cleaned, CleanInv, Seen

LEMMA OneInsert ==
    ASSUME Shape, FitInv, NEW p \in Syncs, OneInv(p), Insert(p)
    PROVE  OneInv(p)'
<1> DEFINE t == sync[p].table
<1>r. PICK row \in sync[p].rows : /\ Locals(p, sync[p].rows \ {row})
                                  /\ cache' = [cache EXCEPT ![Table(p)] = @ \cup {row}]
  BY InsertDoes DEF Shape, SyncsOk
<1>1. /\ sync[p].at = "insert" /\ sync'[p].at = "insert" /\ sync'[p].table = t /\ t \in 1 .. 4
      /\ sync'[p].rows = sync[p].rows \ {row} /\ sync'[p].clean = sync[p].clean
      /\ UNCHANGED <<matrix, hist>> /\ Table(p) = Tables[t]
  BY <1>r, InsertDoes, InHand DEF Shape, SyncsOk, Insert, Goes, Locals
<1>2. /\ cache'[Tables[t]] = cache[Tables[t]] \cup {row}
      /\ \A k \in {3, 4} : k # t => cache'[Tables[k]] = cache[Tables[k]]
  <2>1. cache[Tables[t]] \cup {row} \in SUBSET Universe[Tables[t]]
    BY <1>1, InHand, RowsOf, TableNames DEF Shape, TablesOk
  <2>2. cache' = [cache EXCEPT ![Tables[t]] = cache[Tables[t]] \cup {row}]
    BY <1>r, <1>1
  <2>3. /\ cache'[Tables[t]] = cache[Tables[t]] \cup {row}
        /\ \A k \in 1 .. 4 : k # t => cache'[Tables[k]] = cache[Tables[k]]
    BY <1>1, <2>1, <2>2, CacheDoes DEF Shape
  <2> QED
    BY <2>3
<1>3. Kept(p)'
  <2> SUFFICES ASSUME NEW k \in {3, 4}, NEW x \in Pairs \ hist.lacked
               PROVE  RowOf(x, k) \in cache'[Tables[k]] \/ (Copies(p, k)' /\ RowOf(x, k) \in sync'[p].rows)
    BY <1>1 DEF Kept
  <2>1. RowOf(x, k) \in cache[Tables[k]] \/ (Copies(p, k) /\ RowOf(x, k) \in sync[p].rows)
    BY DEF OneInv, Kept
  <2>2. Copies(p, k) <=> k = t
    BY <1>1 DEF Copies
  <2>3. Copies(p, k)' <=> k = t
    BY <1>1 DEF Copies
  <2> QED
    BY <1>1, <1>2, <2>1, <2>2, <2>3
<1>4. IsBusy(p)
  BY <1>1 DEF IsBusy
<1>5. Cleaned(p)'
  <2> SUFFICES ASSUME NEW k \in {3, 4}, sync[p].clean, NEW x \in Pairs \ hist.lack[p]
               PROVE  /\ t = k => RowOf(x, k) \in cache'[Tables[k]] \cup sync'[p].rows
                      /\ t > k => RowOf(x, k) \in cache'[Tables[k]]
    BY <1>1 DEF Cleaned, CleanInv
  <2>1. CleanInv(p, k)
    BY DEF OneInv, Cleaned
  <2>2. /\ t = k => RowOf(x, k) \in cache[Tables[k]] \cup sync[p].rows
        /\ t > k => RowOf(x, k) \in cache[Tables[k]]
    BY <1>1, <1>4, <2>1 DEF CleanInv
  <2>3. CASE t = k
    BY <1>1, <1>2, <2>2, <2>3
  <2>4. CASE t # k
    BY <1>1, <1>2, <2>2, <2>4
  <2> QED
    BY <2>3, <2>4
<1> QED
  BY <1>1, <1>3, <1>5 DEF OneInv, Seen

LEMMA OneInsertFails ==
    ASSUME Shape, NEW p \in Syncs, OneInv(p), InsertFails(p)
    PROVE  OneInv(p)'
<1>1. sync'[p].at = "insert" /\ ~sync'[p].clean /\ hist'.lacked = Pairs
  BY InsertFailsDoes, HistLoses DEF Shape, SyncsOk, InsertFails, Goes
<1> QED
  BY <1>1 DEF OneInv, Kept, Cleaned, CleanInv, Seen

LEMMA OneInserted ==
    ASSUME Shape, FitInv, NEW p \in Syncs, OneInv(p), Inserted(p)
    PROVE  OneInv(p)'
<1> DEFINE t == sync[p].table
<1>1. /\ sync[p].at = "insert" /\ sync[p].rows = {} /\ t \in 1 .. 4
      /\ (sync'[p].at = "fetch" /\ sync'[p].table = t + 1) \/ (sync'[p].at = "rebuild" /\ t = 4)
      /\ sync'[p].clean = sync[p].clean
      /\ UNCHANGED <<cache, matrix, hist>>
  <2>1. sync[p].at = "insert" /\ sync[p].rows = {} /\ Advances(p) /\ sync'[p].clean = sync[p].clean
    BY InsertedDoes DEF Shape, SyncsOk, Inserted
  <2>2. t \in 1 .. 4 /\ UNCHANGED <<cache, matrix, hist>>
    BY InHand DEF Inserted, store
  <2> QED
    BY <2>1, <2>2 DEF Advances
<1>2. Kept(p)'
  BY <1>1 DEF OneInv, Kept
<1>3. Cleaned(p)'
  <2> SUFFICES ASSUME NEW k \in {3, 4}, sync[p].clean, NEW x \in Pairs \ hist.lack[p],
                      k <= t
               PROVE  RowOf(x, k) \in cache[Tables[k]]
    BY <1>1 DEF Cleaned, CleanInv
  <2>1. CleanInv(p, k) /\ IsBusy(p)
    BY <1>1 DEF OneInv, Cleaned, IsBusy
  <2>2. CASE k = t
    BY <1>1, <2>1, <2>2 DEF CleanInv
  <2>3. CASE k < t
    BY <1>1, <2>1, <2>3 DEF CleanInv
  <2> QED
    BY <1>1, <2>2, <2>3
<1> QED
  BY <1>1, <1>2, <1>3 DEF OneInv, Seen

LEMMA OneRebuild ==
    ASSUME Shape, FitInv, NEW p \in Syncs, OneInv(p), RebuildAccessMatrix(p)
    PROVE  OneInv(p)'
<1>1. /\ sync[p].at = "rebuild" /\ sync'[p].at = "end"
      /\ sync'[p].table = sync[p].table /\ sync'[p].clean = sync[p].clean
      /\ UNCHANGED <<cache, hist>> /\ matrix' = Join(cache)
  BY RebuildDoes DEF Shape, SyncsOk, RebuildAccessMatrix, Goes, KeepsLocals, Locals
<1>j. \A x \in Pairs : (\A k \in {3, 4} : RowOf(x, k) \in cache[Tables[k]]) => x \in matrix'
  BY <1>1, JoinOf DEF Shape, TablesOk, RowOf
<1>2. Kept(p)'
  BY <1>1 DEF OneInv, Kept, Copies
<1>b. IsBusy(p)
  BY <1>1 DEF IsBusy
<1>3. Cleaned(p)'
  BY <1>1, <1>b DEF OneInv, Cleaned, CleanInv
<1>4. \A x \in Pairs \ hist.lacked : \A k \in {3, 4} : RowOf(x, k) \in cache[Tables[k]]
  BY <1>1 DEF OneInv, Kept, Copies
<1>5. sync[p].clean => \A x \in Pairs \ hist.lack[p] : \A k \in {3, 4} : RowOf(x, k) \in cache[Tables[k]]
  BY <1>1, <1>b DEF OneInv, Cleaned, CleanInv
<1>6. Seen(p)'
  BY <1>1, <1>4, <1>5, <1>j DEF Seen
<1> QED
  BY <1>2, <1>3, <1>6 DEF OneInv

LEMMA OneRebuildFails ==
    ASSUME Shape, NEW p \in Syncs, OneInv(p), RebuildFails(p)
    PROVE  OneInv(p)'
<1>1. /\ sync[p].at = "rebuild" /\ sync'[p].at = "end" /\ ~sync'[p].clean
      /\ UNCHANGED <<cache, matrix>> /\ hist'.lacked = hist.lacked
  BY RebuildFailsDoes, HistFails DEF Shape, SyncsOk, RebuildFails, store, Goes
<1> QED
  BY <1>1 DEF OneInv, Kept, Copies, Cleaned, CleanInv, Seen

LEMMA OneEnd ==
    ASSUME Shape, NEW p \in Syncs, OneInv(p), End(p)
    PROVE  OneInv(p)'
<1>1. /\ sync[p].at = "end" /\ sync'[p].at \in {"idle", "done"}
      /\ UNCHANGED <<cache, matrix>>
      /\ hist'.lacked = IF sync[p].clean THEN hist.lack[p] ELSE hist.lacked
  BY EndDoes, HistEnds DEF Shape, SyncsOk, End, Left, NoSync
<1>b. IsBusy(p) /\ ~IsBusy(p)'
  BY <1>1 DEF IsBusy
<1>2. \A x \in Pairs \ hist'.lacked : \A k \in {3, 4} : RowOf(x, k) \in cache[Tables[k]]
  BY <1>1, <1>b DEF OneInv, Cleaned, CleanInv, Kept, Copies
<1>3. Kept(p)'
  BY <1>1, <1>2 DEF Kept
<1>4. Cleaned(p)'
  BY <1>b DEF Cleaned, CleanInv
<1>5. Seen(p)'
  BY <1>1 DEF OneInv, Seen
<1> QED
  BY <1>3, <1>4, <1>5 DEF OneInv

LEMMA NextCause ==
    ASSUME AccessAssumption, Shape, FitInv, LockInv, LackInv, CauseInv, [Next]_vars, bound'.of = bound.of
    PROVE  CauseInv'
<1>s. sync \in [Syncs -> SyncType] /\ loop \in [Loops -> LoopType] /\ truth \in Rows /\ HistOk
  BY DEF Shape, SyncsOk, TablesOk
<1>h. hist.lacked \subseteq Pairs
  BY <1>s DEF HistOk
<1> SUFFICES ASSUME bound.of.singles = {} PROVE CauseInv'
  BY DEF CauseInv
<1>k. ASSUME NEW p \in Syncs, Keeps(p), sync[p].at \in Away, sync'[p].at \in Away,
             UNCHANGED <<cache, matrix, hist>>
      PROVE  CauseInv'
  BY <1>k, CauseKept DEF Keeps
<1>1. ASSUME NEW p \in Syncs, Sync(p) PROVE CauseInv'
  <2>1. CASE Enter(p)
    <3>1. Keeps(p) /\ sync[p].at \in Away /\ sync'[p].at \in Away
      BY <1>s, <2>1, EnterDoes DEF Left, NoSync, Away
    <3> QED
      BY <1>k, <2>1, <3>1 DEF Enter, store
  <2>2. CASE ~Enter(p)
    <3>1. Keeps(p) /\ sync[p].at \notin {"idle", "enter", "done"}
      BY <1>1, <1>s, <2>2, BeginDoes, FetchDoes, FetchFailsDoes, DeleteDoes, DeleteFailsDoes,
         InsertDoes, InsertFailsDoes, InsertedDoes, RebuildDoes, RebuildFailsDoes, EndDoes DEF Sync, Goes
    <3>2. Alone(p)
      BY <3>1, OneUnderWay
    <3>3. OneInv(p)
      BY <3>2, CauseOfOne DEF OneInv
    <3>4. Alone(p)'
      BY <3>1, <3>2 DEF Alone, Keeps, IsBusy
    <3>5. OneInv(p)'
      BY <1>1, <2>2, <3>3, OneBegin, OneFetch, OneFetchFails, OneDelete, OneDeleteFails, OneInsert,
         OneInsertFails, OneInserted, OneRebuild, OneRebuildFails, OneEnd DEF Sync
    <3> QED
      BY <3>4, <3>5, OneForAll DEF OneInv
  <2> QED
    BY <2>1, <2>2
<1>2. ASSUME NEW p \in Syncs, Trigger(p) PROVE CauseInv'
  BY <1>s, <1>2, TriggerDoes, <1>k DEF Away, Trigger, store
<1>3. ASSUME NEW p \in Loops, Tick(p) PROVE CauseInv'
  BY <1>s, <1>3, TickDoes, <1>k DEF Away, Syncs, FitInv, Fits, Tick, store
<1>4. CASE ChangeGrants
  BY <1>s, <1>4, HistChanges, BusyIs, CauseKept DEF ChangeGrants
<1>5. CASE Crash
  <2>1. \A r \in Syncs : sync'[r].at \in {"idle", "done"}
    BY <1>5, <1>s, CrashDoes DEF Shape, CutOff
  <2>2. UNCHANGED <<cache, matrix>> /\ hist.lacked \subseteq hist'.lacked
    BY <1>5, <1>h DEF Crash, store
  <2>3. ASSUME NEW k \in {3, 4} PROVE KeepInv(k)'
    <3>1. CASE \E p \in Syncs : sync[p].at = "insert"
      BY <1>5, <3>1 DEF Crash, At, KeepInv
    <3>2. CASE ~\E p \in Syncs : sync[p].at = "insert"
      BY <3>2, <2>1, <2>2 DEF CauseInv, KeepInv, Copies
    <3> QED
      BY <3>1, <3>2
  <2>4. \A r \in Syncs, k \in {3, 4} : CleanInv(r, k)'
    BY <2>1 DEF CleanInv, IsBusy
  <2>5. Pairs \ hist'.lacked \subseteq matrix'
    BY <2>2 DEF CauseInv
  <2> QED
    BY <2>1, <2>3, <2>4, <2>5 DEF CauseInv
<1>6. CASE UNCHANGED <<cache, matrix, sync, hist>>
  BY <1>6, CauseKept
<1> QED
  BY <1>1, <1>2, <1>3, <1>4, <1>5, <1>6 DEF Next, SetGovernanceSyncEnabled, Apply, Evaluate, ReadPolicies,
     ReadState, ReadMatrix, UpdatePolicy, Elapse, vars, store

----------------------------------------------------------------------------
(* The theorems.                                                            *)

LEMMA InitIInv == ASSUME AccessAssumption, Init PROVE IInv
<1>of. bound.of \in Scenarios /\ bound.of.loops \subseteq Loops
  BY DEF AccessAssumption, Init
<1>p. \A p \in Syncs : sync[p] = NoSync
  BY DEF Init
<1>n. /\ NoSync.at = "idle" /\ ~NoSync.locks /\ NoSync.table = 1 /\ NoSync.rows = {} /\ NoSync.clean
      /\ NoSync \in SyncType
  BY DEF NoSync, SyncType, Ats
<1>a. Absent \notin BOOLEAN
  BY DEF AccessAssumption
<1>l. PICK first \in Loops : loop = [l \in Loops |-> IF l = first THEN "idle" ELSE "none"]
  BY <1>of DEF Init
<1>1. Shape
  <2>1. TablesOk
    BY DEF Init, TablesOk, Rows
  <2>2. SyncsOk
    BY <1>n, <1>l DEF Init, SyncsOk, LoopType
  <2>3. ControlOk /\ StateOk
    BY DEF Init, ControlOk, StateOk
  <2>4. GuardOk
    BY DEF Init, GuardOk, CheckType
  <2>5. BoundOk
    BY DEF Init, BoundOk
  <2>6. HistOk
    BY DEF Init, HistOk
  <2> QED
    BY <2>1, <2>2, <2>3, <2>4, <2>5, <2>6 DEF Shape
<1>2. FitInv
  BY <1>l, <1>p, <1>n DEF FitInv, Fits
<1>3. LockInv
  BY <1>p, <1>n DEF Init, LockInv
<1>4. LoopInv
  BY <1>l DEF Init, LoopInv
<1>5. AdminInv
  BY DEF Init, AdminInv
<1>6. ExactInv
  BY DEF Init, ExactInv
<1>7. LackInv
  BY <1>p, <1>n DEF Init, LackInv, Lacking, IsBusy
<1>8. CauseInv
  BY <1>p, <1>n DEF Init, CauseInv, KeepInv, CleanInv, IsBusy
<1> QED
  BY <1>1, <1>2, <1>3, <1>4, <1>5, <1>6, <1>7, <1>8 DEF IInv

LEMMA NextIInv == ASSUME AccessAssumption, IInv, [Next]_vars PROVE IInv'
<1> USE DEF IInv
<1>1. Shape' /\ bound'.of = bound.of /\ FitInv'
  BY SyncShape, SyncFit, OtherShape, OtherFit DEF Next
<1> QED
  BY <1>1, NextLock, NextLoop, NextAdmin, NextExact, NextLack, NextCause

LEMMA SettledAndApplied == ASSUME AccessAssumption, IInv PROVE AccessInv
<1>1. TypeOK
  <2>1. Len(Tables) = 4
    BY TableNames
  <2> QED
    BY <2>1 DEF IInv, Shape, TablesOk, StateOk, SyncsOk, SyncType, Ats, LoopType, GuardOk, CheckType,
       LockInv, TypeOK
<1>2. SettledIsExact
  BY BusyIs DEF IInv, ExactInv, SettledIsExact
<1>3. SettingIsApplied
  <2>1. ASSUME ~running PROVE Cardinality({l \in Loops : loop[l] \in {"idle", "tick"}}) = 0
    BY <2>1, FS_EmptySet DEF IInv, LoopInv
  <2>2. ASSUME running PROVE Cardinality({l \in Loops : loop[l] \in {"idle", "tick"}}) = 1
    <3>1. PICK m \in Loops : loop[m] \in {"idle", "tick"}
      BY <2>2 DEF IInv, LoopInv
    <3>2. {l \in Loops : loop[l] \in {"idle", "tick"}} = {m}
      BY <3>1 DEF IInv, LoopInv
    <3> QED
      BY <3>2, FS_Singleton
  <2>3. Cardinality(bound.of.admins) <= 1 /\ (\A a \in Admins : admin[a] = Absent) => running = setting
    BY DEF IInv, AdminInv
  <2> QED
    BY <2>1, <2>2, <2>3 DEF SettingIsApplied
<1> QED
  BY <1>1, <1>2, <1>3 DEF AccessInv

\* However many syncs of all kinds overlap and end: after syncs without failures the matrix
\* is that of ClickHouse, one sync at most holds the lock, and one goroutine runs exactly
\* when the setting says so (syncer.go, harvester_access.go, admin_governance.go).
THEOREM AccessIsSound == ASSUME AccessAssumption PROVE Spec => []AccessInv
<1> USE AccessAssumption
<1>1. Init => IInv
  BY InitIInv
<1>2. IInv /\ [Next]_vars => IInv'
  BY NextIInv
<1>3. IInv => AccessInv
  BY SettledAndApplied
<1> QED
  BY <1>1, <1>2, <1>3, PTL DEF Spec

\* Only the matrix blocks a query.
LEMMA MatrixBlocks ==
    ASSUME AccessAssumption, IInv, Next, NEW q \in Queries, bound.of.singles = {},
           check'[q].at = "blocked", check[q].at # "blocked"
    PROVE  \E r \in check[q].need : <<User, r>> \in hist.lacked
<1>s. check \in [Queries -> CheckType] /\ check[q] \in CheckType /\ User \in Users
  BY DEF IInv, Shape, GuardOk, AccessAssumption, User
<1>of. bound.of.queries \subseteq Queries
  BY DEF AccessAssumption, IInv, Shape, BoundOk
<1>1. ReadMatrix(q)
  <2>1. check' # check
    BY <1>s
  <2>2. ASSUME NEW p \in bound.of.queries, Evaluate(p) PROVE ReadMatrix(q)
    BY <1>s, <1>of, <2>2 DEF Evaluate, ReadPolicies, ReadState, ReadMatrix, CheckType
  <2>3. ~Crash
    BY <1>s DEF Crash, CheckType
  <2>4. ASSUME NEW p \in Syncs, Sync(p) PROVE check' = check
    BY <2>4 DEF Sync, Enter, Begin, Fetch, FetchFails, Delete, DeleteFails, Insert, InsertFails,
       Inserted, RebuildAccessMatrix, RebuildFails, End, guard
  <2> QED
    BY <2>1, <2>2, <2>3, <2>4 DEF Next, Trigger, Tick, SetGovernanceSyncEnabled, Apply, ChangeGrants,
       UpdatePolicy, Elapse, guard
<1>2. \E r \in check[q].need : <<User, r>> \notin matrix
  BY <1>1, <1>s DEF ReadMatrix
<1>3. PICK r \in check[q].need : <<User, r>> \notin matrix
  BY <1>2
<1>4. <<User, r>> \in Pairs
  BY <1>s DEF CheckType, Pairs
<1> QED
  BY <1>3, <1>4 DEF IInv, CauseInv

\* Whatever fails and whenever the server restarts, a query is blocked only if its user
\* lacked the role since the last sync without a failure began, or its row was lost in the
\* copying (guardrails.go evaluate, harvester_access.go).
THEOREM NobodyIsBlockedWithoutCause == ASSUME AccessAssumption PROVE Spec => BlockedForCause
<1> USE AccessAssumption
<1>1. Init => IInv
  BY InitIInv
<1>2. IInv /\ [Next]_vars => IInv'
  BY NextIInv
<1>3. IInv /\ [Next]_vars =>
        [\A q \in Queries :
            bound.of.singles = {} /\ check'[q].at = "blocked" /\ check[q].at # "blocked" =>
               \E r \in check[q].need : <<User, r>> \in hist.lacked]_vars
  BY MatrixBlocks
<1> QED
  BY <1>1, <1>2, <1>3, PTL DEF Spec, BlockedForCause

-----------------------------------------------------------------------------
(* What users make (BrainTools, with Workspace and WorkspaceStore).  The   *)
(* argument: every statement leaves the tables in order (Good) and changes *)
(* them in a way that what a request has read of them can stand (Evolves): *)
(* what is gone stays gone, a panel stays in its dashboard, a link keeps   *)
(* what it was made for, and an invite lasts as long as its link.  So it   *)
(* is enough to look at each request when it reads (Aware).                *)

CONSTANTS Ids, Emails, Authors, None, Erased, Clients, Assistants, Viewers, Workloads
VARIABLES db, live, actor, mailed, scenario, requests

Work == INSTANCE BrainTools WITH Gone <- Erased, Scenarios <- Workloads

WorkTables == {"dashboards", "panels", "shares", "invites", "queries", "models", "timers",
               "pipelines"}

TablesOK(s) ==
    /\ DOMAIN s = WorkTables
    /\ s.dashboards \in Work!Rows(Work!Dashboards) /\ s.panels \in Work!Rows(Work!Panels)
    /\ s.shares \in Work!Rows(Work!Shares) /\ s.invites \in Work!Rows(Work!Invites)
    /\ s.queries \in Work!Rows(Work!Texts) /\ s.models \in Work!Rows(Work!Models)
    /\ s.timers \in Work!Rows(Work!Timers) /\ s.pipelines \in Work!Rows(Work!Pipelines)

Good(s) == TablesOK(s) /\ Work!Attached(s) /\ Work!Unique(s)

\* A row that is gone stays so, one that is there does not become one that never was.
Stays(a, b) == \A id \in Ids : (a[id] = Erased => b[id] = Erased) /\ (a[id] # None => b[id] # None)

PanelsStay(a, b) ==
    \A p \in Ids : Work!Has(a, p) /\ Work!Has(b, p) => b[p].of = a[p].of

SharesStay(a, b) ==
    \A x \in Ids : Work!Has(a, x) /\ Work!Has(b, x) =>
        b[x].of = a[x].of /\ b[x].visibility = a[x].visibility /\ b[x].emails = a[x].emails

InvitesStay(s, t) ==
    \A i \in Ids : Work!Has(s.invites, i) /\ Work!Has(t.shares, s.invites[i].of) =>
        /\ Work!Has(t.invites, i)
        /\ t.invites[i].of = s.invites[i].of /\ t.invites[i].email = s.invites[i].email

Evolves(s, t) ==
    /\ Stays(s.dashboards, t.dashboards) /\ Stays(s.panels, t.panels)
    /\ Stays(s.shares, t.shares) /\ Stays(s.invites, t.invites)
    /\ Stays(s.queries, t.queries) /\ Stays(s.models, t.models)
    /\ Stays(s.timers, t.timers) /\ Stays(s.pipelines, t.pipelines)
    /\ PanelsStay(s.panels, t.panels) /\ SharesStay(s.shares, t.shares) /\ InvitesStay(s, t)

Real(R) == None \notin R /\ Erased \notin R

LEMMA RealRows ==
    ASSUME Work!WorkspaceAssumption
    PROVE  /\ Real(Work!Dashboards) /\ Real(Work!Panels) /\ Real(Work!Shares)
           /\ Real(Work!Invites) /\ Real(Work!Texts) /\ Real(Work!Models)
           /\ Real(Work!Timers) /\ Real(Work!Pipelines)
           /\ None # Erased /\ None \notin Ids
BY DEF Work!WorkspaceAssumption, Real

\* A row is written.
PutIn(a, id, row) == [a EXCEPT ![id] = row]

LEMMA PutRow ==
    ASSUME NEW R, Real(R), None # Erased, NEW a \in Work!Rows(R), NEW id \in Ids, NEW row \in R,
           a[id] # Erased
    PROVE  /\ PutIn(a, id, row) \in Work!Rows(R) /\ PutIn(a, id, row)[id] = row
           /\ Work!Has(PutIn(a, id, row), id) /\ Stays(a, PutIn(a, id, row))
           /\ \A j \in Ids : j # id =>
                 /\ PutIn(a, id, row)[j] = a[j]
                 /\ Work!Has(PutIn(a, id, row), j) <=> Work!Has(a, j)
BY DEF PutIn, Work!Rows, Work!Has, Stays, Real

\* Rows are deleted.
LEMMA CutRows ==
    ASSUME NEW R, Real(R), None # Erased, NEW a \in Work!Rows(R), NEW x \in SUBSET Work!Live(a)
    PROVE  /\ Work!Without(a, x) \in Work!Rows(R) /\ Stays(a, Work!Without(a, x))
           /\ \A j \in Ids : Work!Has(Work!Without(a, x), j) <=> Work!Has(a, j) /\ j \notin x
           /\ \A j \in Ids : Work!Has(Work!Without(a, x), j) => Work!Without(a, x)[j] = a[j]
           /\ \A j \in Ids \ x : Work!Without(a, x)[j] = a[j]
BY DEF Work!Rows, Work!Has, Work!Without, Work!Live, Stays, Real

LEMMA SameRows == ASSUME NEW a PROVE Stays(a, a)
BY DEF Stays

\* What a row is.
LEMMA RowIs == ASSUME NEW R, NEW a \in Work!Rows(R), NEW id \in Ids, Work!Has(a,
    id) PROVE a[id] \in R
BY DEF Work!Rows, Work!Has

LEMMA Parents ==
    ASSUME Work!WorkspaceAssumption, NEW s, TablesOK(s)
    PROVE  /\ \A p \in Ids : Work!Has(s.panels, p) =>
                                                      s.panels[p] \in Work!Panels /\ s.panels[p].of \in Ids
           /\ \A x \in Ids : Work!Has(s.shares, x) =>
                                                      s.shares[x] \in Work!Shares /\ s.shares[x].of \in Ids
           /\ \A i \in Ids : Work!Has(s.invites, i) =>
                                                       s.invites[i] \in Work!Invites /\ s.invites[i].of \in Ids
           /\ \A t \in Ids : Work!Has(s.timers, t) =>
                                                      s.timers[t] \in Work!Timers /\ s.timers[t].of \in Ids
<1>1. \A p \in Ids : Work!Has(s.panels, p) => s.panels[p] \in Work!Panels
  BY RowIs DEF TablesOK
<1>2. \A x \in Ids : Work!Has(s.shares, x) => s.shares[x] \in Work!Shares
  BY RowIs DEF TablesOK
<1>3. \A i \in Ids : Work!Has(s.invites, i) => s.invites[i] \in Work!Invites
  BY RowIs DEF TablesOK
<1>4. \A t \in Ids : Work!Has(s.timers, t) => s.timers[t] \in Work!Timers
  BY RowIs DEF TablesOK
<1> QED
  BY <1>1, <1>2, <1>3, <1>4 DEF Work!Panels, Work!Shares, Work!Invites, Work!Timers

-----------------------------------------------------------------------------
(* What the statements do to the tables: a row is written, or rows and     *)
(* what belongs to them are deleted.                                       *)

Only(s, t, K) ==
    /\ DOMAIN t = WorkTables
    /\ "dashboards" \notin K => t.dashboards = s.dashboards
    /\ "panels" \notin K => t.panels = s.panels
    /\ "shares" \notin K => t.shares = s.shares
    /\ "invites" \notin K => t.invites = s.invites
    /\ "queries" \notin K => t.queries = s.queries
    /\ "models" \notin K => t.models = s.models
    /\ "timers" \notin K => t.timers = s.timers
    /\ "pipelines" \notin K => t.pipelines = s.pipelines

LEMMA SameEvolves == ASSUME NEW s PROVE Evolves(s, s)
BY DEF Evolves, Stays, PanelsStay, SharesStay, InvitesStay

LEMMA StaysOn ==
    ASSUME NEW a, NEW b, NEW c, Stays(a, b), Stays(b, c)
    PROVE  /\ Stays(a, c)
           /\ \A id \in Ids : Work!Has(a, id) /\ Work!Has(c, id) => Work!Has(b, id)
BY DEF Stays, Work!Has

LEMMA EvolvesOn ==
    ASSUME Work!WorkspaceAssumption, NEW s, NEW t, NEW u, Good(s), Evolves(s, t), Evolves(t, u)
    PROVE  Evolves(s, u)
<1>1. /\ Stays(s.dashboards, u.dashboards) /\ Stays(s.panels, u.panels)
      /\ Stays(s.shares, u.shares) /\ Stays(s.invites, u.invites)
      /\ Stays(s.queries, u.queries) /\ Stays(s.models, u.models)
      /\ Stays(s.timers, u.timers) /\ Stays(s.pipelines, u.pipelines)
  BY StaysOn DEF Evolves
<1>2. PanelsStay(s.panels, u.panels)
  BY StaysOn DEF Evolves, PanelsStay
<1>3. \A x \in Ids : Work!Has(s.shares, x) /\ Work!Has(u.shares, x) => Work!Has(t.shares, x)
  BY StaysOn DEF Evolves
<1>4. SharesStay(s.shares, u.shares)
  BY <1>3 DEF Evolves, SharesStay
<1>5. InvitesStay(s, u)
  <2> SUFFICES ASSUME NEW i \in Ids, Work!Has(s.invites, i), Work!Has(u.shares, s.invites[i].of)
               PROVE  /\ Work!Has(u.invites, i) /\ u.invites[i].of = s.invites[i].of
                      /\ u.invites[i].email = s.invites[i].email
    BY DEF InvitesStay
  <2>1. s.invites[i].of \in Ids /\ Work!Has(s.shares, s.invites[i].of)
    BY Parents DEF Good, Work!Attached, Work!Live
  <2>2. Work!Has(t.shares, s.invites[i].of)
    BY <2>1, <1>3
  <2>3. /\ Work!Has(t.invites, i) /\ t.invites[i].of = s.invites[i].of
        /\ t.invites[i].email = s.invites[i].email
    BY <2>2 DEF Evolves, InvitesStay
  <2> QED BY <2>3 DEF Evolves, InvitesStay
<1> QED BY <1>1, <1>2, <1>4, <1>5 DEF Evolves

\* A dashboard: there is no second one of the system.
LEMMA DashboardWritten ==
    ASSUME Work!WorkspaceAssumption, NEW s, Good(s), NEW t, Only(s, t, {"dashboards"}),
           NEW id \in Ids, NEW row \in Work!Dashboards, s.dashboards[id] # Erased,
           t.dashboards = PutIn(s.dashboards, id, row),
           row.by = Work!System => \A e \in Ids : Work!Has(s.dashboards,
               e) /\ s.dashboards[e].by = Work!System => e = id
    PROVE  Good(t) /\ Evolves(s, t)
<1>1. /\ t.dashboards \in Work!Rows(Work!Dashboards) /\ t.dashboards[id] = row
      /\ Work!Has(t.dashboards, id) /\ Stays(s.dashboards, t.dashboards)
      /\ \A j \in Ids : j # id => t.dashboards[j] = s.dashboards[j]
                               /\ (Work!Has(t.dashboards, j) <=> Work!Has(s.dashboards, j))
  BY RealRows, PutRow DEF Good, TablesOK
<1>2. /\ DOMAIN t = WorkTables
      /\ t.panels = s.panels /\ t.shares = s.shares /\ t.invites = s.invites
      /\ t.queries = s.queries /\ t.models = s.models /\ t.timers = s.timers
      /\ t.pipelines = s.pipelines
  BY DEF Only
<1>3. TablesOK(t)
  BY <1>1, <1>2 DEF Good, TablesOK
<1>4. Work!Attached(t)
  BY <1>1, <1>2, Parents DEF Good, Work!Attached, Work!Live
<1>5. Work!Unique(t)
  BY <1>1, <1>2 DEF Good, Work!Unique, Work!Live
<1>6. Evolves(s, t)
  BY <1>1, <1>2, SameRows DEF Evolves, PanelsStay, SharesStay, InvitesStay
<1> QED BY <1>3, <1>4, <1>5, <1>6 DEF Good

\* A panel: its dashboard is there, and it stays there.
LEMMA PanelWritten ==
    ASSUME Work!WorkspaceAssumption, NEW s, Good(s), NEW t, Only(s, t, {"panels"}),
           NEW id \in Ids, NEW row \in Work!Panels, s.panels[id] # Erased,
           t.panels = PutIn(s.panels, id, row),
           Work!Has(s.dashboards, row.of), Work!Has(s.panels, id) => row.of = s.panels[id].of
    PROVE  Good(t) /\ Evolves(s, t)
<1>1. /\ t.panels \in Work!Rows(Work!Panels) /\ t.panels[id] = row
      /\ Work!Has(t.panels, id) /\ Stays(s.panels, t.panels)
      /\ \A j \in Ids : j # id => t.panels[j] = s.panels[j]
                               /\ (Work!Has(t.panels, j) <=> Work!Has(s.panels, j))
  BY RealRows, PutRow DEF Good, TablesOK
<1>2. /\ DOMAIN t = WorkTables
      /\ t.dashboards = s.dashboards /\ t.shares = s.shares /\ t.invites = s.invites
      /\ t.queries = s.queries /\ t.models = s.models /\ t.timers = s.timers
      /\ t.pipelines = s.pipelines
  BY DEF Only
<1>3. TablesOK(t)
  BY <1>1, <1>2 DEF Good, TablesOK
<1>4. Work!Attached(t)
  BY <1>1, <1>2, Parents DEF Good, Work!Attached, Work!Live
<1>5. Work!Unique(t)
  BY <1>1, <1>2 DEF Good, Work!Unique, Work!Live
<1>6. Evolves(s, t)
  BY <1>1, <1>2, SameRows DEF Evolves, PanelsStay, SharesStay, InvitesStay
<1> QED BY <1>3, <1>4, <1>5, <1>6 DEF Good

\* A link: its dashboard is there, and what it is for stays.
LEMMA ShareWritten ==
    ASSUME Work!WorkspaceAssumption, NEW s, Good(s), NEW t, Only(s, t, {"shares"}),
           NEW id \in Ids, NEW row \in Work!Shares, s.shares[id] # Erased,
           t.shares = PutIn(s.shares, id, row),
           Work!Has(s.dashboards, row.of),
           Work!Has(s.shares, id) => /\ row.of = s.shares[id].of /\ row.emails = s.shares[id].emails
                                     /\ row.visibility = s.shares[id].visibility
    PROVE  Good(t) /\ Evolves(s, t)
<1>1. /\ t.shares \in Work!Rows(Work!Shares) /\ t.shares[id] = row
      /\ Work!Has(t.shares, id) /\ Stays(s.shares, t.shares)
      /\ \A j \in Ids : j # id => t.shares[j] = s.shares[j]
                               /\ (Work!Has(t.shares, j) <=> Work!Has(s.shares, j))
  BY RealRows, PutRow DEF Good, TablesOK
<1>2. /\ DOMAIN t = WorkTables
      /\ t.dashboards = s.dashboards /\ t.panels = s.panels /\ t.invites = s.invites
      /\ t.queries = s.queries /\ t.models = s.models /\ t.timers = s.timers
      /\ t.pipelines = s.pipelines
  BY DEF Only
<1>3. TablesOK(t)
  BY <1>1, <1>2 DEF Good, TablesOK
<1>4. Work!Attached(t)
  BY <1>1, <1>2, Parents DEF Good, Work!Attached, Work!Live
<1>5. Work!Unique(t)
  BY <1>1, <1>2 DEF Good, Work!Unique, Work!Live
<1>6. Evolves(s, t)
  BY <1>1, <1>2, SameRows DEF Evolves, PanelsStay, SharesStay, InvitesStay
<1> QED BY <1>3, <1>4, <1>5, <1>6 DEF Good

\* An invite: its link is there and has its address, and both stay.
LEMMA InviteWritten ==
    ASSUME Work!WorkspaceAssumption, NEW s, Good(s), NEW t, Only(s, t, {"invites"}),
           NEW id \in Ids, NEW row \in Work!Invites, s.invites[id] # Erased,
           t.invites = PutIn(s.invites, id, row),
           Work!Has(s.shares, row.of), row.email \in s.shares[row.of].emails,
           Work!Has(s.invites, id) => row.of = s.invites[id].of /\ row.email = s.invites[id].email
    PROVE  Good(t) /\ Evolves(s, t)
<1>1. /\ t.invites \in Work!Rows(Work!Invites) /\ t.invites[id] = row
      /\ Work!Has(t.invites, id) /\ Stays(s.invites, t.invites)
      /\ \A j \in Ids : j # id => t.invites[j] = s.invites[j]
                               /\ (Work!Has(t.invites, j) <=> Work!Has(s.invites, j))
  BY RealRows, PutRow DEF Good, TablesOK
<1>2. /\ DOMAIN t = WorkTables
      /\ t.dashboards = s.dashboards /\ t.panels = s.panels /\ t.shares = s.shares
      /\ t.queries = s.queries /\ t.models = s.models /\ t.timers = s.timers
      /\ t.pipelines = s.pipelines
  BY DEF Only
<1>3. TablesOK(t)
  BY <1>1, <1>2 DEF Good, TablesOK
<1>4. Work!Attached(t)
  BY <1>1, <1>2, Parents DEF Good, Work!Attached, Work!Live
<1>5. Work!Unique(t)
  BY <1>1, <1>2 DEF Good, Work!Unique, Work!Live
<1>6. Evolves(s, t)
  BY <1>1, <1>2, SameRows DEF Evolves, PanelsStay, SharesStay, InvitesStay
<1> QED BY <1>3, <1>4, <1>5, <1>6 DEF Good

\* A saved query.
LEMMA QueryWritten ==
    ASSUME Work!WorkspaceAssumption, NEW s, Good(s), NEW t, Only(s, t, {"queries"}),
           NEW id \in Ids, NEW row \in Work!Texts, s.queries[id] # Erased,
           t.queries = PutIn(s.queries, id, row)
    PROVE  Good(t) /\ Evolves(s, t)
<1>1. /\ t.queries \in Work!Rows(Work!Texts) /\ t.queries[id] = row
      /\ Work!Has(t.queries, id) /\ Stays(s.queries, t.queries)
      /\ \A j \in Ids : j # id => t.queries[j] = s.queries[j]
                               /\ (Work!Has(t.queries, j) <=> Work!Has(s.queries, j))
  BY RealRows, PutRow DEF Good, TablesOK
<1>2. /\ DOMAIN t = WorkTables
      /\ t.dashboards = s.dashboards /\ t.panels = s.panels /\ t.shares = s.shares
      /\ t.invites = s.invites /\ t.models = s.models /\ t.timers = s.timers
      /\ t.pipelines = s.pipelines
  BY DEF Only
<1>3. TablesOK(t)
  BY <1>1, <1>2 DEF Good, TablesOK
<1>4. Work!Attached(t)
  BY <1>1, <1>2, Parents DEF Good, Work!Attached, Work!Live
<1>5. Work!Unique(t)
  BY <1>1, <1>2 DEF Good, Work!Unique, Work!Live
<1>6. Evolves(s, t)
  BY <1>1, <1>2, SameRows DEF Evolves, PanelsStay, SharesStay, InvitesStay
<1> QED BY <1>3, <1>4, <1>5, <1>6 DEF Good

\* A model: no other has its name.
LEMMA ModelWritten ==
    ASSUME Work!WorkspaceAssumption, NEW s, Good(s), NEW t, Only(s, t, {"models"}),
           NEW id \in Ids, NEW row \in Work!Models, s.models[id] # Erased,
           t.models = PutIn(s.models, id, row),
           \A n \in Ids : Work!Has(s.models, n) /\ s.models[n].name = row.name => n = id
    PROVE  Good(t) /\ Evolves(s, t)
<1>1. /\ t.models \in Work!Rows(Work!Models) /\ t.models[id] = row
      /\ Work!Has(t.models, id) /\ Stays(s.models, t.models)
      /\ \A j \in Ids : j # id => t.models[j] = s.models[j]
                               /\ (Work!Has(t.models, j) <=> Work!Has(s.models, j))
  BY RealRows, PutRow DEF Good, TablesOK
<1>2. /\ DOMAIN t = WorkTables
      /\ t.dashboards = s.dashboards /\ t.panels = s.panels /\ t.shares = s.shares
      /\ t.invites = s.invites /\ t.queries = s.queries /\ t.timers = s.timers
      /\ t.pipelines = s.pipelines
  BY DEF Only
<1>3. TablesOK(t)
  BY <1>1, <1>2 DEF Good, TablesOK
<1>4. Work!Attached(t)
  BY <1>1, <1>2, Parents DEF Good, Work!Attached, Work!Live
<1>5. Work!Unique(t)
  BY <1>1, <1>2 DEF Good, Work!Unique, Work!Live
<1>6. Evolves(s, t)
  BY <1>1, <1>2, SameRows DEF Evolves, PanelsStay, SharesStay, InvitesStay
<1> QED BY <1>3, <1>4, <1>5, <1>6 DEF Good

\* A schedule: its model is there.
LEMMA TimerWritten ==
    ASSUME Work!WorkspaceAssumption, NEW s, Good(s), NEW t, Only(s, t, {"timers"}),
           NEW id \in Ids, NEW row \in Work!Timers, s.timers[id] # Erased,
           t.timers = PutIn(s.timers, id, row),
           Work!Has(s.models, row.of)
    PROVE  Good(t) /\ Evolves(s, t)
<1>1. /\ t.timers \in Work!Rows(Work!Timers) /\ t.timers[id] = row
      /\ Work!Has(t.timers, id) /\ Stays(s.timers, t.timers)
      /\ \A j \in Ids : j # id => t.timers[j] = s.timers[j]
                               /\ (Work!Has(t.timers, j) <=> Work!Has(s.timers, j))
  BY RealRows, PutRow DEF Good, TablesOK
<1>2. /\ DOMAIN t = WorkTables
      /\ t.dashboards = s.dashboards /\ t.panels = s.panels /\ t.shares = s.shares
      /\ t.invites = s.invites /\ t.queries = s.queries /\ t.models = s.models
      /\ t.pipelines = s.pipelines
  BY DEF Only
<1>3. TablesOK(t)
  BY <1>1, <1>2 DEF Good, TablesOK
<1>4. Work!Attached(t)
  BY <1>1, <1>2, Parents DEF Good, Work!Attached, Work!Live
<1>5. Work!Unique(t)
  BY <1>1, <1>2 DEF Good, Work!Unique, Work!Live
<1>6. Evolves(s, t)
  BY <1>1, <1>2, SameRows DEF Evolves, PanelsStay, SharesStay, InvitesStay
<1> QED BY <1>3, <1>4, <1>5, <1>6 DEF Good

\* A pipeline.
LEMMA PipelineWritten ==
    ASSUME Work!WorkspaceAssumption, NEW s, Good(s), NEW t, Only(s, t, {"pipelines"}),
           NEW id \in Ids, NEW row \in Work!Pipelines, s.pipelines[id] # Erased,
           t.pipelines = PutIn(s.pipelines, id, row)
    PROVE  Good(t) /\ Evolves(s, t)
<1>1. /\ t.pipelines \in Work!Rows(Work!Pipelines) /\ t.pipelines[id] = row
      /\ Work!Has(t.pipelines, id) /\ Stays(s.pipelines, t.pipelines)
      /\ \A j \in Ids : j # id => t.pipelines[j] = s.pipelines[j]
                               /\ (Work!Has(t.pipelines, j) <=> Work!Has(s.pipelines, j))
  BY RealRows, PutRow DEF Good, TablesOK
<1>2. /\ DOMAIN t = WorkTables
      /\ t.dashboards = s.dashboards /\ t.panels = s.panels /\ t.shares = s.shares
      /\ t.invites = s.invites /\ t.queries = s.queries /\ t.models = s.models
      /\ t.timers = s.timers
  BY DEF Only
<1>3. TablesOK(t)
  BY <1>1, <1>2 DEF Good, TablesOK
<1>4. Work!Attached(t)
  BY <1>1, <1>2, Parents DEF Good, Work!Attached, Work!Live
<1>5. Work!Unique(t)
  BY <1>1, <1>2 DEF Good, Work!Unique, Work!Live
<1>6. Evolves(s, t)
  BY <1>1, <1>2, SameRows DEF Evolves, PanelsStay, SharesStay, InvitesStay
<1> QED BY <1>3, <1>4, <1>5, <1>6 DEF Good

\* Rows are deleted, with those that belong to them.
Deleted(s, t, D, P, X, I, Q, M, T, L) ==
    /\ DOMAIN t = WorkTables
    /\ D \subseteq Work!Live(s.dashboards) /\ t.dashboards = Work!Without(s.dashboards, D)
    /\ P \subseteq Work!Live(s.panels) /\ t.panels = Work!Without(s.panels, P)
    /\ X \subseteq Work!Live(s.shares) /\ t.shares = Work!Without(s.shares, X)
    /\ I \subseteq Work!Live(s.invites) /\ t.invites = Work!Without(s.invites, I)
    /\ Q \subseteq Work!Live(s.queries) /\ t.queries = Work!Without(s.queries, Q)
    /\ M \subseteq Work!Live(s.models) /\ t.models = Work!Without(s.models, M)
    /\ T \subseteq Work!Live(s.timers) /\ t.timers = Work!Without(s.timers, T)
    /\ L \subseteq Work!Live(s.pipelines) /\ t.pipelines = Work!Without(s.pipelines, L)
    /\ Work!Of(s.panels, D) \subseteq P /\ Work!Of(s.shares, D) \subseteq X
    /\ I = Work!Of(s.invites, X)
    /\ \A x \in Work!Live(s.timers) \ T : s.timers[x].of \notin Q \cup M

LEMMA RowsDeleted ==
    ASSUME Work!WorkspaceAssumption, NEW s, Good(s), NEW t,
           NEW D, NEW P, NEW X, NEW I, NEW Q, NEW M, NEW T, NEW L, Deleted(s, t, D, P, X, I, Q,
               M, T, L)
    PROVE  Good(t) /\ Evolves(s, t)
<1>1. /\ t.dashboards \in Work!Rows(Work!Dashboards) /\ Stays(s.dashboards, t.dashboards)
      /\ \A j \in Ids : Work!Has(t.dashboards, j) <=> Work!Has(s.dashboards, j) /\ j \notin D
      /\ \A j \in Ids : Work!Has(t.dashboards, j) => t.dashboards[j] = s.dashboards[j]
  BY RealRows, CutRows DEF Good, TablesOK, Deleted
<1>2. /\ t.panels \in Work!Rows(Work!Panels) /\ Stays(s.panels, t.panels)
      /\ \A j \in Ids : Work!Has(t.panels, j) <=> Work!Has(s.panels, j) /\ j \notin P
      /\ \A j \in Ids : Work!Has(t.panels, j) => t.panels[j] = s.panels[j]
  BY RealRows, CutRows DEF Good, TablesOK, Deleted
<1>3. /\ t.shares \in Work!Rows(Work!Shares) /\ Stays(s.shares, t.shares)
      /\ \A j \in Ids : Work!Has(t.shares, j) <=> Work!Has(s.shares, j) /\ j \notin X
      /\ \A j \in Ids : Work!Has(t.shares, j) => t.shares[j] = s.shares[j]
  BY RealRows, CutRows DEF Good, TablesOK, Deleted
<1>4. /\ t.invites \in Work!Rows(Work!Invites) /\ Stays(s.invites, t.invites)
      /\ \A j \in Ids : Work!Has(t.invites, j) <=> Work!Has(s.invites, j) /\ j \notin I
      /\ \A j \in Ids : Work!Has(t.invites, j) => t.invites[j] = s.invites[j]
  BY RealRows, CutRows DEF Good, TablesOK, Deleted
<1>5. /\ t.queries \in Work!Rows(Work!Texts) /\ Stays(s.queries, t.queries)
      /\ \A j \in Ids : Work!Has(t.queries, j) <=> Work!Has(s.queries, j) /\ j \notin Q
      /\ \A j \in Ids : Work!Has(t.queries, j) => t.queries[j] = s.queries[j]
  BY RealRows, CutRows DEF Good, TablesOK, Deleted
<1>6. /\ t.models \in Work!Rows(Work!Models) /\ Stays(s.models, t.models)
      /\ \A j \in Ids : Work!Has(t.models, j) <=> Work!Has(s.models, j) /\ j \notin M
      /\ \A j \in Ids : Work!Has(t.models, j) => t.models[j] = s.models[j]
  BY RealRows, CutRows DEF Good, TablesOK, Deleted
<1>7. /\ t.timers \in Work!Rows(Work!Timers) /\ Stays(s.timers, t.timers)
      /\ \A j \in Ids : Work!Has(t.timers, j) <=> Work!Has(s.timers, j) /\ j \notin T
      /\ \A j \in Ids : Work!Has(t.timers, j) => t.timers[j] = s.timers[j]
  BY RealRows, CutRows DEF Good, TablesOK, Deleted
<1>8. /\ t.pipelines \in Work!Rows(Work!Pipelines) /\ Stays(s.pipelines, t.pipelines)
      /\ \A j \in Ids : Work!Has(t.pipelines, j) <=> Work!Has(s.pipelines, j) /\ j \notin L
      /\ \A j \in Ids : Work!Has(t.pipelines, j) => t.pipelines[j] = s.pipelines[j]
  BY RealRows, CutRows DEF Good, TablesOK, Deleted
<1>9. TablesOK(t)
  BY <1>1, <1>2, <1>3, <1>4, <1>5, <1>6, <1>7, <1>8 DEF TablesOK, Deleted
<1>10. Work!Attached(t)
  <2>1. \A p \in Work!Live(t.panels) : Work!Has(t.dashboards, t.panels[p].of)
    BY <1>1, <1>2, Parents DEF Good, Work!Attached, Work!Live, Deleted, Work!Of
  <2>2. \A x \in Work!Live(t.shares) : Work!Has(t.dashboards, t.shares[x].of)
    BY <1>1, <1>3, Parents DEF Good, Work!Attached, Work!Live, Deleted, Work!Of
  <2>3. \A i \in Work!Live(t.invites) :
          /\ Work!Has(t.shares, t.invites[i].of)
          /\ t.invites[i].email \in t.shares[t.invites[i].of].emails
    BY <1>3, <1>4, Parents DEF Good, Work!Attached, Work!Live, Deleted, Work!Of
  <2>4. \A x \in Work!Live(t.timers) :
          Work!Has(t.models, t.timers[x].of) \/ Work!Has(t.queries, t.timers[x].of)
    BY <1>5, <1>6, <1>7, Parents DEF Good, Work!Attached, Work!Live, Deleted
  <2> QED BY <2>1, <2>2, <2>3, <2>4 DEF Work!Attached
<1>11. Work!Unique(t)
  BY <1>1, <1>6 DEF Good, Work!Unique, Work!Live
<1>12. PanelsStay(s.panels, t.panels) /\ SharesStay(s.shares, t.shares)
  BY <1>2, <1>3 DEF PanelsStay, SharesStay
<1>13. InvitesStay(s, t)
  BY <1>3, <1>4, Parents DEF Good, Work!Live, Deleted, Work!Of, InvitesStay
<1>14. Evolves(s, t)
  BY <1>1, <1>2, <1>3, <1>4, <1>5, <1>6, <1>7, <1>8, <1>12, <1>13 DEF Evolves
<1> QED BY <1>9, <1>10, <1>11, <1>14 DEF Good

LEMMA NothingCut == ASSUME NEW R, NEW a \in Work!Rows(R) PROVE Work!Without(a, {}) = a
BY DEF Work!Without, Work!Rows

\* DELETE FROM dashboards, with its panels and links.
LEMMA DashboardDeleted ==
    ASSUME Work!WorkspaceAssumption, NEW s, Good(s), NEW d \in Ids,
           NEW t, t = Work!DeleteDashboard(s, d).db
    PROVE  Good(t) /\ Evolves(s, t) /\ Only(s, t, {"dashboards", "panels", "shares", "invites"})
<1>1. Only(s, t, {"dashboards", "panels", "shares", "invites"})
  BY DEF Only, Good, TablesOK, WorkTables, Work!DeleteDashboard, Work!Done, Work!DeleteShares
<1>2. Deleted(s, t, {d} \cap Work!Live(s.dashboards), Work!Of(s.panels, {d}), Work!Of(s.shares,
          {d}), Work!Of(s.invites, Work!Of(s.shares, {d})), {}, {}, {}, {})
  <2>1. /\ DOMAIN t = WorkTables
        /\ t.dashboards = Work!Without(s.dashboards, {d} \cap Work!Live(s.dashboards))
        /\ t.panels = Work!Without(s.panels, Work!Of(s.panels, {d}))
        /\ t.shares = Work!Without(s.shares, Work!Of(s.shares, {d}))
        /\ t.invites = Work!Without(s.invites, Work!Of(s.invites, Work!Of(s.shares, {d})))
    BY DEF Good, TablesOK, WorkTables, Work!DeleteDashboard, Work!Done, Work!DeleteShares
  <2>2. /\ t.queries = Work!Without(s.queries, {})
        /\ t.models = Work!Without(s.models, {})
        /\ t.timers = Work!Without(s.timers, {})
        /\ t.pipelines = Work!Without(s.pipelines, {})
    BY <1>1, NothingCut DEF Only, Good, TablesOK
  <2>3. \A a, b : Work!Of(a, b) \subseteq Work!Live(a)
    BY DEF Work!Of
  <2>4. \A a : Work!Of(a, {}) = {}
    BY DEF Work!Of
  <2> QED BY <2>1, <2>2, <2>3, <2>4, Parents DEF Deleted, Good, Work!Of, Work!Live
<1> QED BY <1>1, <1>2, RowsDeleted

\* A panel.
LEMMA PanelDeleted ==
    ASSUME Work!WorkspaceAssumption, NEW s, Good(s), NEW p \in Ids,
           NEW t, t = Work!DeletePanel(s, p).db
    PROVE  Good(t) /\ Evolves(s, t) /\ Only(s, t, {"panels"})
<1>1. Only(s, t, {"panels"})
  BY DEF Only, Good, TablesOK, WorkTables, Work!DeletePanel, Work!Done, Work!DeleteShares
<1>2. Deleted(s, t, {}, {p} \cap Work!Live(s.panels), {}, {}, {}, {}, {}, {})
  <2>1. /\ DOMAIN t = WorkTables
        /\ t.panels = Work!Without(s.panels, {p} \cap Work!Live(s.panels))
    BY DEF Good, TablesOK, WorkTables, Work!DeletePanel, Work!Done, Work!DeleteShares
  <2>2. /\ t.dashboards = Work!Without(s.dashboards, {})
        /\ t.shares = Work!Without(s.shares, {})
        /\ t.invites = Work!Without(s.invites, {})
        /\ t.queries = Work!Without(s.queries, {})
        /\ t.models = Work!Without(s.models, {})
        /\ t.timers = Work!Without(s.timers, {})
        /\ t.pipelines = Work!Without(s.pipelines, {})
    BY <1>1, NothingCut DEF Only, Good, TablesOK
  <2>3. \A a, b : Work!Of(a, b) \subseteq Work!Live(a)
    BY DEF Work!Of
  <2>4. \A a : Work!Of(a, {}) = {}
    BY DEF Work!Of
  <2> QED BY <2>1, <2>2, <2>3, <2>4, Parents DEF Deleted, Good, Work!Of, Work!Live
<1> QED BY <1>1, <1>2, RowsDeleted

\* A link, with its invites.
LEMMA ShareDeleted ==
    ASSUME Work!WorkspaceAssumption, NEW s, Good(s), NEW x \in Ids,
           NEW t, t = Work!DeleteDashboardShare(s, x).db
    PROVE  Good(t) /\ Evolves(s, t) /\ Only(s, t, {"shares", "invites"})
<1>1. Only(s, t, {"shares", "invites"})
  BY DEF Only, Good, TablesOK, WorkTables, Work!DeleteDashboardShare, Work!Done, Work!DeleteShares
<1>2. Deleted(s, t, {}, {}, {x} \cap Work!Live(s.shares), Work!Of(s.invites,
          {x} \cap Work!Live(s.shares)), {}, {}, {}, {})
  <2>1. /\ DOMAIN t = WorkTables
        /\ t.shares = Work!Without(s.shares, {x} \cap Work!Live(s.shares))
        /\ t.invites = Work!Without(s.invites, Work!Of(s.invites, {x} \cap Work!Live(s.shares)))
    BY DEF Good, TablesOK, WorkTables, Work!DeleteDashboardShare, Work!Done, Work!DeleteShares
  <2>2. /\ t.dashboards = Work!Without(s.dashboards, {})
        /\ t.panels = Work!Without(s.panels, {})
        /\ t.queries = Work!Without(s.queries, {})
        /\ t.models = Work!Without(s.models, {})
        /\ t.timers = Work!Without(s.timers, {})
        /\ t.pipelines = Work!Without(s.pipelines, {})
    BY <1>1, NothingCut DEF Only, Good, TablesOK
  <2>3. \A a, b : Work!Of(a, b) \subseteq Work!Live(a)
    BY DEF Work!Of
  <2>4. \A a : Work!Of(a, {}) = {}
    BY DEF Work!Of
  <2> QED BY <2>1, <2>2, <2>3, <2>4, Parents DEF Deleted, Good, Work!Of, Work!Live
<1> QED BY <1>1, <1>2, RowsDeleted

\* A saved query, with its schedule.
LEMMA QueryDeleted ==
    ASSUME Work!WorkspaceAssumption, NEW s, Good(s), NEW q \in Ids,
           NEW t, t = Work!DeleteSavedQuery(s, q).db
    PROVE  Good(t) /\ Evolves(s, t) /\ Only(s, t, {"queries", "timers"})
<1>1. Only(s, t, {"queries", "timers"})
  BY DEF Only, Good, TablesOK, WorkTables, Work!DeleteSavedQuery, Work!Done, Work!DeleteShares
<1>2. Deleted(s, t, {}, {}, {}, {}, {q} \cap Work!Live(s.queries), {}, Work!Of(s.timers, {q}), {})
  <2>1. /\ DOMAIN t = WorkTables
        /\ t.queries = Work!Without(s.queries, {q} \cap Work!Live(s.queries))
        /\ t.timers = Work!Without(s.timers, Work!Of(s.timers, {q}))
    BY DEF Good, TablesOK, WorkTables, Work!DeleteSavedQuery, Work!Done, Work!DeleteShares
  <2>2. /\ t.dashboards = Work!Without(s.dashboards, {})
        /\ t.panels = Work!Without(s.panels, {})
        /\ t.shares = Work!Without(s.shares, {})
        /\ t.invites = Work!Without(s.invites, {})
        /\ t.models = Work!Without(s.models, {})
        /\ t.pipelines = Work!Without(s.pipelines, {})
    BY <1>1, NothingCut DEF Only, Good, TablesOK
  <2>3. \A a, b : Work!Of(a, b) \subseteq Work!Live(a)
    BY DEF Work!Of
  <2>4. \A a : Work!Of(a, {}) = {}
    BY DEF Work!Of
  <2> QED BY <2>1, <2>2, <2>3, <2>4, Parents DEF Deleted, Good, Work!Of, Work!Live
<1> QED BY <1>1, <1>2, RowsDeleted

\* A model, with its schedule.
LEMMA ModelDeleted ==
    ASSUME Work!WorkspaceAssumption, NEW s, Good(s), NEW m \in Ids,
           NEW t, t = Work!DeleteModel(s, m).db
    PROVE  Good(t) /\ Evolves(s, t) /\ Only(s, t, {"models", "timers"})
<1>1. Only(s, t, {"models", "timers"})
  BY DEF Only, Good, TablesOK, WorkTables, Work!DeleteModel, Work!Done, Work!DeleteShares
<1>2. Deleted(s, t, {}, {}, {}, {}, {}, {m} \cap Work!Live(s.models), Work!Of(s.timers, {m}), {})
  <2>1. /\ DOMAIN t = WorkTables
        /\ t.models = Work!Without(s.models, {m} \cap Work!Live(s.models))
        /\ t.timers = Work!Without(s.timers, Work!Of(s.timers, {m}))
    BY DEF Good, TablesOK, WorkTables, Work!DeleteModel, Work!Done, Work!DeleteShares
  <2>2. /\ t.dashboards = Work!Without(s.dashboards, {})
        /\ t.panels = Work!Without(s.panels, {})
        /\ t.shares = Work!Without(s.shares, {})
        /\ t.invites = Work!Without(s.invites, {})
        /\ t.queries = Work!Without(s.queries, {})
        /\ t.pipelines = Work!Without(s.pipelines, {})
    BY <1>1, NothingCut DEF Only, Good, TablesOK
  <2>3. \A a, b : Work!Of(a, b) \subseteq Work!Live(a)
    BY DEF Work!Of
  <2>4. \A a : Work!Of(a, {}) = {}
    BY DEF Work!Of
  <2> QED BY <2>1, <2>2, <2>3, <2>4, Parents DEF Deleted, Good, Work!Of, Work!Live
<1> QED BY <1>1, <1>2, RowsDeleted

\* A pipeline.
LEMMA PipelineDeleted ==
    ASSUME Work!WorkspaceAssumption, NEW s, Good(s), NEW p \in Ids,
           NEW t, t = Work!DeletePipeline(s, p).db
    PROVE  Good(t) /\ Evolves(s, t) /\ Only(s, t, {"pipelines"})
<1>1. Only(s, t, {"pipelines"})
  BY DEF Only, Good, TablesOK, WorkTables, Work!DeletePipeline, Work!Done, Work!DeleteShares
<1>2. Deleted(s, t, {}, {}, {}, {}, {}, {}, {}, {p} \cap Work!Live(s.pipelines))
  <2>1. /\ DOMAIN t = WorkTables
        /\ t.pipelines = Work!Without(s.pipelines, {p} \cap Work!Live(s.pipelines))
    BY DEF Good, TablesOK, WorkTables, Work!DeletePipeline, Work!Done, Work!DeleteShares
  <2>2. /\ t.dashboards = Work!Without(s.dashboards, {})
        /\ t.panels = Work!Without(s.panels, {})
        /\ t.shares = Work!Without(s.shares, {})
        /\ t.invites = Work!Without(s.invites, {})
        /\ t.queries = Work!Without(s.queries, {})
        /\ t.models = Work!Without(s.models, {})
        /\ t.timers = Work!Without(s.timers, {})
    BY <1>1, NothingCut DEF Only, Good, TablesOK
  <2>3. \A a, b : Work!Of(a, b) \subseteq Work!Live(a)
    BY DEF Work!Of
  <2>4. \A a : Work!Of(a, {}) = {}
    BY DEF Work!Of
  <2> QED BY <2>1, <2>2, <2>3, <2>4, Parents DEF Deleted, Good, Work!Of, Work!Live
<1> QED BY <1>1, <1>2, RowsDeleted

-----------------------------------------------------------------------------
(* The statements, one by one. *)

Edited(a, b, id, row) ==
    /\ \A j \in Ids : j # id => b[j] = a[j]
    /\ Work!Has(a, id) => b[id] = a[id] \/ (b[id].name = row.name /\ b[id].body = row.body)

\* INSERT INTO dashboards.
LEMMA DashboardMade ==
    ASSUME Work!WorkspaceAssumption, NEW s, Good(s), NEW d \in Ids,
           NEW who \in Authors, who # Work!System, s.dashboards[d] = None,
           NEW t, t = Work!CreateDashboard(s, d, who).db
    PROVE  /\ Good(t) /\ Evolves(s, t) /\ Only(s, t, {"dashboards"})
<1> DEFINE new == [name |-> who, body |-> who, by |-> who]
<1>0. t = [s EXCEPT !.dashboards = PutIn(s.dashboards, d, new)]
  BY SMT DEF PutIn, Work!CreateDashboard, Work!Done
<1>1. Only(s, t, {"dashboards"}) /\ t.dashboards = PutIn(s.dashboards, d, new)
  BY <1>0, SMT DEF Only, Good, TablesOK, WorkTables
<1>2. /\ s.dashboards[d] # Erased
      /\ (Work!Has(s.dashboards, d) => s.dashboards[d] \in Work!Dashboards)
      /\ s.dashboards \in Work!Rows(Work!Dashboards)
  BY RowIs, RealRows DEF Work!Has, Good, TablesOK
<1>3. new \in Work!Dashboards /\ new.by # Work!System
  BY <1>2 DEF Work!Dashboards, Work!WorkspaceAssumption, Work!Fields
<1> HIDE DEF new
<1>4. Good(t) /\ Evolves(s, t)
  BY <1>1, <1>2, <1>3, DashboardWritten DEF Good, Work!Unique, Work!Live, Work!Has
<1>5. /\ t.dashboards[d] = new /\ Work!Has(t.dashboards, d)
     /\ \A j \in Ids : j # d => t.dashboards[j] = s.dashboards[j]
  BY RealRows, <1>1, <1>2, <1>3, PutRow
<1> QED BY <1>1, <1>3, <1>4, <1>5 DEF Edited, Work!Has

\* UPDATE dashboards.
LEMMA DashboardEdited ==
    ASSUME Work!WorkspaceAssumption, NEW s, Good(s), NEW d \in Ids,
           NEW row, row.name \in Authors, row.body \in Authors,
           NEW t, t = Work!UpdateDashboard(s, d, row).db
    PROVE  /\ Good(t) /\ Evolves(s, t) /\ Only(s, t, {"dashboards"})
           /\ Edited(s.dashboards, t.dashboards, d, row)
<1>1. CASE ~ (Work!Has(s.dashboards, d))
  BY <1>1, SMT, SameEvolves DEF Work!UpdateDashboard, Work!Done, Work!Failed, Good, TablesOK,
     Only, Edited, Work!Has
<1>2. CASE Work!Has(s.dashboards, d)
  <2> DEFINE new == [s.dashboards[d] EXCEPT !.name = row.name, !.body = row.body]
  <2>0. t = [s EXCEPT !.dashboards = PutIn(s.dashboards, d, new)]
    BY <1>2, SMT DEF PutIn, Work!UpdateDashboard, Work!Done
  <2>1. Only(s, t, {"dashboards"}) /\ t.dashboards = PutIn(s.dashboards, d, new)
    BY <2>0, SMT DEF Only, Good, TablesOK, WorkTables
  <2>2. /\ s.dashboards[d] # Erased
        /\ (Work!Has(s.dashboards, d) => s.dashboards[d] \in Work!Dashboards)
        /\ s.dashboards \in Work!Rows(Work!Dashboards)
    BY <1>2, RowIs, RealRows DEF Work!Has, Good, TablesOK
  <2>3. /\ new \in Work!Dashboards /\ new.by = s.dashboards[d].by /\ new.name = row.name
        /\ new.body = row.body
    BY <1>2, <2>2 DEF Work!Dashboards, Work!WorkspaceAssumption, Work!Fields
  <2> HIDE DEF new
  <2>4. Good(t) /\ Evolves(s, t)
    BY <1>2, <2>1, <2>2, <2>3, DashboardWritten DEF Good, Work!Unique, Work!Live, Work!Has
  <2>5. /\ t.dashboards[d] = new /\ Work!Has(t.dashboards, d)
       /\ \A j \in Ids : j # d => t.dashboards[j] = s.dashboards[j]
    BY RealRows, <2>1, <2>2, <2>3, PutRow
  <2> QED BY <1>2, <2>1, <2>3, <2>4, <2>5 DEF Edited, Work!Has
<1> QED BY <1>1, <1>2

\* INSERT INTO panels.
LEMMA PanelMade ==
    ASSUME Work!WorkspaceAssumption, NEW s, Good(s), NEW p \in Ids,
           NEW d \in Ids, NEW who \in Authors, s.panels[p] = None,
           NEW t, t = Work!CreatePanel(s, p, d, who).db
    PROVE  /\ Good(t) /\ Evolves(s, t) /\ Only(s, t, {"panels"})
<1>1. CASE ~ (Work!Has(s.dashboards, d))
  BY <1>1, SMT, SameEvolves DEF Work!CreatePanel, Work!Done, Work!Failed, Good, TablesOK, Only,
     Edited, Work!Has
<1>2. CASE Work!Has(s.dashboards, d)
  <2> DEFINE new == [name |-> who, body |-> who, of |-> d]
  <2>0. t = [s EXCEPT !.panels = PutIn(s.panels, p, new)]
    BY <1>2, SMT DEF PutIn, Work!CreatePanel, Work!Done
  <2>1. Only(s, t, {"panels"}) /\ t.panels = PutIn(s.panels, p, new)
    BY <2>0, SMT DEF Only, Good, TablesOK, WorkTables
  <2>2. /\ s.panels[p] # Erased /\ (Work!Has(s.panels, p) => s.panels[p] \in Work!Panels)
        /\ s.panels \in Work!Rows(Work!Panels)
    BY <1>2, RowIs, RealRows DEF Work!Has, Good, TablesOK
  <2>3. new \in Work!Panels /\ new.of = d
    BY <1>2, <2>2 DEF Work!Panels, Work!WorkspaceAssumption, Work!Fields
  <2> HIDE DEF new
  <2>4. Good(t) /\ Evolves(s, t)
    BY <1>2, <2>1, <2>2, <2>3, PanelWritten DEF Good, Work!Unique, Work!Live, Work!Has
  <2>5. /\ t.panels[p] = new /\ Work!Has(t.panels, p)
       /\ \A j \in Ids : j # p => t.panels[j] = s.panels[j]
    BY RealRows, <2>1, <2>2, <2>3, PutRow
  <2> QED BY <1>2, <2>1, <2>3, <2>4, <2>5 DEF Edited, Work!Has
<1> QED BY <1>1, <1>2

\* UPDATE panels.
LEMMA PanelEdited ==
    ASSUME Work!WorkspaceAssumption, NEW s, Good(s), NEW p \in Ids,
           NEW row, row.name \in Authors, row.body \in Authors,
           NEW t, t = Work!UpdatePanel(s, p, row).db
    PROVE  /\ Good(t) /\ Evolves(s, t) /\ Only(s, t, {"panels"})
           /\ Edited(s.panels, t.panels, p, row)
<1>1. CASE ~ (Work!Has(s.panels, p))
  BY <1>1, SMT, SameEvolves DEF Work!UpdatePanel, Work!Done, Work!Failed, Good, TablesOK, Only,
     Edited, Work!Has
<1>2. CASE Work!Has(s.panels, p)
  <2> DEFINE new == [s.panels[p] EXCEPT !.name = row.name, !.body = row.body]
  <2>0. t = [s EXCEPT !.panels = PutIn(s.panels, p, new)]
    BY <1>2, SMT DEF PutIn, Work!UpdatePanel, Work!Done
  <2>1. Only(s, t, {"panels"}) /\ t.panels = PutIn(s.panels, p, new)
    BY <2>0, SMT DEF Only, Good, TablesOK, WorkTables
  <2>2. /\ s.panels[p] # Erased /\ (Work!Has(s.panels, p) => s.panels[p] \in Work!Panels)
        /\ s.panels \in Work!Rows(Work!Panels)
    BY <1>2, RowIs, RealRows DEF Work!Has, Good, TablesOK
  <2>3. new \in Work!Panels /\ new.of = s.panels[p].of /\ new.name = row.name /\ new.body = row.body
    BY <1>2, <2>2 DEF Work!Panels, Work!WorkspaceAssumption, Work!Fields
  <2> HIDE DEF new
  <2>6. Work!Has(s.dashboards, s.panels[p].of)
    BY <1>2 DEF Good, Work!Attached, Work!Live
  <2>4. Good(t) /\ Evolves(s, t)
    BY <1>2, <2>1, <2>2, <2>3, <2>6, PanelWritten DEF Good, Work!Unique, Work!Live, Work!Has
  <2>5. /\ t.panels[p] = new /\ Work!Has(t.panels, p)
       /\ \A j \in Ids : j # p => t.panels[j] = s.panels[j]
    BY RealRows, <2>1, <2>2, <2>3, PutRow
  <2> QED BY <1>2, <2>1, <2>3, <2>4, <2>5 DEF Edited, Work!Has
<1> QED BY <1>1, <1>2

\* INSERT INTO dashboard_shares.
LEMMA ShareMade ==
    ASSUME Work!WorkspaceAssumption, NEW s, Good(s), NEW x \in Ids,
           NEW d \in Ids, NEW visibility \in {"public", "private"}, NEW emails \in SUBSET Emails,
           NEW expires \in {"never", "later"}, s.shares[x] = None,
           NEW t, t = Work!CreateDashboardShare(s, x, d, visibility, emails, expires).db
    PROVE  /\ Good(t) /\ Evolves(s, t) /\ Only(s, t, {"shares"})
<1>1. CASE ~ (Work!Has(s.dashboards, d))
  BY <1>1, SMT, SameEvolves DEF Work!CreateDashboardShare, Work!Done, Work!Failed, Good, TablesOK,
     Only, Edited, Work!Has
<1>2. CASE Work!Has(s.dashboards, d)
  <2> DEFINE new == [of |-> d, visibility |-> visibility, emails |-> emails, expires |-> expires]
  <2>0. t = [s EXCEPT !.shares = PutIn(s.shares, x, new)]
    BY <1>2, SMT DEF PutIn, Work!CreateDashboardShare, Work!Done
  <2>1. Only(s, t, {"shares"}) /\ t.shares = PutIn(s.shares, x, new)
    BY <2>0, SMT DEF Only, Good, TablesOK, WorkTables
  <2>2. /\ s.shares[x] # Erased /\ (Work!Has(s.shares, x) => s.shares[x] \in Work!Shares)
        /\ s.shares \in Work!Rows(Work!Shares)
    BY <1>2, RowIs, RealRows DEF Work!Has, Good, TablesOK
  <2>3. new \in Work!Shares /\ new.of = d
    BY <1>2, <2>2 DEF Work!Shares, Work!WorkspaceAssumption, Work!Fields
  <2> HIDE DEF new
  <2>4. Good(t) /\ Evolves(s, t)
    BY <1>2, <2>1, <2>2, <2>3, ShareWritten DEF Good, Work!Unique, Work!Live, Work!Has
  <2>5. /\ t.shares[x] = new /\ Work!Has(t.shares, x)
       /\ \A j \in Ids : j # x => t.shares[j] = s.shares[j]
    BY RealRows, <2>1, <2>2, <2>3, PutRow
  <2> QED BY <1>2, <2>1, <2>3, <2>4, <2>5 DEF Edited, Work!Has
<1> QED BY <1>1, <1>2

\* INSERT INTO dashboard_share_invites.
LEMMA InviteMade ==
    ASSUME Work!WorkspaceAssumption, NEW s, Good(s), NEW i \in Ids,
           NEW x \in Ids, NEW email \in Emails, Work!Has(s.shares, x) =>
               email \in s.shares[x].emails,
           s.invites[i] = None,
           NEW t, t = Work!CreateShareInvite(s, i, x, email).db
    PROVE  /\ Good(t) /\ Evolves(s, t) /\ Only(s, t, {"invites"})
           /\ Work!Has(s.shares, x) => Work!Has(t.invites, i) /\ t.invites[i].of = x
<1>1. CASE ~ (Work!Has(s.shares, x))
  BY <1>1, SMT, SameEvolves DEF Work!CreateShareInvite, Work!Done, Work!Failed, Good, TablesOK,
     Only, Edited, Work!Has
<1>2. CASE Work!Has(s.shares, x)
  <2> DEFINE new == [of |-> x, email |-> email, expired |-> FALSE]
  <2>0. t = [s EXCEPT !.invites = PutIn(s.invites, i, new)]
    BY <1>2, SMT DEF PutIn, Work!CreateShareInvite, Work!Done
  <2>1. Only(s, t, {"invites"}) /\ t.invites = PutIn(s.invites, i, new)
    BY <2>0, SMT DEF Only, Good, TablesOK, WorkTables
  <2>2. /\ s.invites[i] # Erased /\ (Work!Has(s.invites, i) => s.invites[i] \in Work!Invites)
        /\ s.invites \in Work!Rows(Work!Invites)
    BY <1>2, RowIs, RealRows DEF Work!Has, Good, TablesOK
  <2>3. new \in Work!Invites /\ new.of = x /\ new.email = email
    BY <1>2, <2>2 DEF Work!Invites, Work!WorkspaceAssumption, Work!Fields
  <2> HIDE DEF new
  <2>4. Good(t) /\ Evolves(s, t)
    BY <1>2, <2>1, <2>2, <2>3, InviteWritten DEF Good, Work!Unique, Work!Live, Work!Has
  <2>5. /\ t.invites[i] = new /\ Work!Has(t.invites, i)
       /\ \A j \in Ids : j # i => t.invites[j] = s.invites[j]
    BY RealRows, <2>1, <2>2, <2>3, PutRow
  <2> QED BY <1>2, <2>1, <2>3, <2>4, <2>5 DEF Edited, Work!Has
<1> QED BY <1>1, <1>2

\* INSERT INTO saved_queries.
LEMMA QueryMade ==
    ASSUME Work!WorkspaceAssumption, NEW s, Good(s), NEW q \in Ids,
           NEW row, row.name \in Authors, row.body \in Authors, s.queries[q] = None,
           NEW t, t = Work!CreateSavedQuery(s, q, row).db
    PROVE  /\ Good(t) /\ Evolves(s, t) /\ Only(s, t, {"queries"})
           /\ \A j \in Ids : j # q => t.queries[j] = s.queries[j]
<1> DEFINE new == [name |-> row.name, body |-> row.body]
<1>0. t = [s EXCEPT !.queries = PutIn(s.queries, q, new)]
  BY SMT DEF PutIn, Work!CreateSavedQuery, Work!Done
<1>1. Only(s, t, {"queries"}) /\ t.queries = PutIn(s.queries, q, new)
  BY <1>0, SMT DEF Only, Good, TablesOK, WorkTables
<1>2. /\ s.queries[q] # Erased /\ (Work!Has(s.queries, q) => s.queries[q] \in Work!Texts)
      /\ s.queries \in Work!Rows(Work!Texts)
  BY RowIs, RealRows DEF Work!Has, Good, TablesOK
<1>3. new \in Work!Texts
  BY <1>2 DEF Work!Texts, Work!WorkspaceAssumption, Work!Fields
<1> HIDE DEF new
<1>4. Good(t) /\ Evolves(s, t)
  BY <1>1, <1>2, <1>3, QueryWritten DEF Good, Work!Unique, Work!Live, Work!Has
<1>5. /\ t.queries[q] = new /\ Work!Has(t.queries, q)
     /\ \A j \in Ids : j # q => t.queries[j] = s.queries[j]
  BY RealRows, <1>1, <1>2, <1>3, PutRow
<1> QED BY <1>1, <1>3, <1>4, <1>5 DEF Edited, Work!Has

\* UPDATE saved_queries.
LEMMA QueryEdited ==
    ASSUME Work!WorkspaceAssumption, NEW s, Good(s), NEW q \in Ids,
           NEW row, row.name \in Authors, row.body \in Authors,
           NEW t, t = Work!UpdateSavedQuery(s, q, row).db
    PROVE  /\ Good(t) /\ Evolves(s, t) /\ Only(s, t, {"queries"})
           /\ Edited(s.queries, t.queries, q, row)
<1>1. CASE ~ (Work!Has(s.queries, q))
  BY <1>1, SMT, SameEvolves DEF Work!UpdateSavedQuery, Work!Done, Work!Failed, Good, TablesOK,
     Only, Edited, Work!Has
<1>2. CASE Work!Has(s.queries, q)
  <2> DEFINE new == [name |-> row.name, body |-> row.body]
  <2>0. t = [s EXCEPT !.queries = PutIn(s.queries, q, new)]
    BY <1>2, SMT DEF PutIn, Work!UpdateSavedQuery, Work!Done
  <2>1. Only(s, t, {"queries"}) /\ t.queries = PutIn(s.queries, q, new)
    BY <2>0, SMT DEF Only, Good, TablesOK, WorkTables
  <2>2. /\ s.queries[q] # Erased /\ (Work!Has(s.queries, q) => s.queries[q] \in Work!Texts)
        /\ s.queries \in Work!Rows(Work!Texts)
    BY <1>2, RowIs, RealRows DEF Work!Has, Good, TablesOK
  <2>3. new \in Work!Texts /\ new.name = row.name /\ new.body = row.body
    BY <1>2, <2>2 DEF Work!Texts, Work!WorkspaceAssumption, Work!Fields
  <2> HIDE DEF new
  <2>4. Good(t) /\ Evolves(s, t)
    BY <1>2, <2>1, <2>2, <2>3, QueryWritten DEF Good, Work!Unique, Work!Live, Work!Has
  <2>5. /\ t.queries[q] = new /\ Work!Has(t.queries, q)
       /\ \A j \in Ids : j # q => t.queries[j] = s.queries[j]
    BY RealRows, <2>1, <2>2, <2>3, PutRow
  <2> QED BY <1>2, <2>1, <2>3, <2>4, <2>5 DEF Edited, Work!Has
<1> QED BY <1>1, <1>2

\* INSERT INTO models.
LEMMA ModelMade ==
    ASSUME Work!WorkspaceAssumption, NEW s, Good(s), NEW m \in Ids,
           NEW who \in Authors, s.models[m] = None,
           NEW t, t = Work!CreateModel(s, m, who).db
    PROVE  /\ Good(t) /\ Evolves(s, t) /\ Only(s, t, {"models"})
<1>1. CASE ~ (~ \E n \in Work!Live(s.models) : s.models[n].name = who)
  BY <1>1, SMT, SameEvolves DEF Work!CreateModel, Work!Done, Work!Failed, Good, TablesOK, Only,
     Edited, Work!Has
<1>2. CASE ~ \E n \in Work!Live(s.models) : s.models[n].name = who
  <2> DEFINE new == [name |-> who, body |-> who, description |-> who]
  <2>0. t = [s EXCEPT !.models = PutIn(s.models, m, new)]
    BY <1>2, SMT DEF PutIn, Work!CreateModel, Work!Done
  <2>1. Only(s, t, {"models"}) /\ t.models = PutIn(s.models, m, new)
    BY <2>0, SMT DEF Only, Good, TablesOK, WorkTables
  <2>2. /\ s.models[m] # Erased /\ (Work!Has(s.models, m) => s.models[m] \in Work!Models)
        /\ s.models \in Work!Rows(Work!Models)
    BY <1>2, RowIs, RealRows DEF Work!Has, Good, TablesOK
  <2>3. new \in Work!Models /\ new.name = who
    BY <1>2, <2>2 DEF Work!Models, Work!WorkspaceAssumption, Work!Fields
  <2> HIDE DEF new
  <2>4. Good(t) /\ Evolves(s, t)
    BY <1>2, <2>1, <2>2, <2>3, ModelWritten DEF Good, Work!Unique, Work!Live, Work!Has
  <2>5. /\ t.models[m] = new /\ Work!Has(t.models, m)
       /\ \A j \in Ids : j # m => t.models[j] = s.models[j]
    BY RealRows, <2>1, <2>2, <2>3, PutRow
  <2> QED BY <1>2, <2>1, <2>3, <2>4, <2>5 DEF Edited, Work!Has
<1> QED BY <1>1, <1>2

\* UPDATE models.
LEMMA ModelEdited ==
    ASSUME Work!WorkspaceAssumption, NEW s, Good(s), NEW m \in Ids,
           NEW row, row.name \in Authors, row.body \in Authors, row.description \in Authors,
           NEW t, t = Work!UpdateModel(s, m, row).db
    PROVE  /\ Good(t) /\ Evolves(s, t) /\ Only(s, t, {"models"})
           /\ Edited(s.models, t.models, m, row)
           /\ t.models[m] = s.models[m] \/ t.models[m].description = row.description
<1>1. CASE ~ (Work!Has(s.models, m) /\ ~ \E n \in Work!Live(s.models) \ {m} :
          s.models[n].name = row.name)
  BY <1>1, SMT, SameEvolves DEF Work!UpdateModel, Work!Done, Work!Failed, Good, TablesOK, Only,
     Edited, Work!Has
<1>2. CASE Work!Has(s.models, m) /\ ~ \E n \in Work!Live(s.models) \ {m} :
          s.models[n].name = row.name
  <2> DEFINE new == [name |-> row.name, body |-> row.body,
                     description |-> row.description]
  <2>0. t = [s EXCEPT !.models = PutIn(s.models, m, new)]
    BY <1>2, SMT DEF PutIn, Work!UpdateModel, Work!Done
  <2>1. Only(s, t, {"models"}) /\ t.models = PutIn(s.models, m, new)
    BY <2>0, SMT DEF Only, Good, TablesOK, WorkTables
  <2>2. /\ s.models[m] # Erased /\ (Work!Has(s.models, m) => s.models[m] \in Work!Models)
        /\ s.models \in Work!Rows(Work!Models)
    BY <1>2, RowIs, RealRows DEF Work!Has, Good, TablesOK
  <2>3. /\ new \in Work!Models /\ new.name = row.name /\ new.body = row.body
        /\ new.description = row.description
    BY <1>2, <2>2 DEF Work!Models, Work!WorkspaceAssumption, Work!Fields
  <2> HIDE DEF new
  <2>4. Good(t) /\ Evolves(s, t)
    BY <1>2, <2>1, <2>2, <2>3, ModelWritten DEF Good, Work!Unique, Work!Live, Work!Has
  <2>5. /\ t.models[m] = new /\ Work!Has(t.models, m)
       /\ \A j \in Ids : j # m => t.models[j] = s.models[j]
    BY RealRows, <2>1, <2>2, <2>3, PutRow
  <2> QED BY <1>2, <2>1, <2>3, <2>4, <2>5 DEF Edited, Work!Has
<1> QED BY <1>1, <1>2

\* INSERT INTO model_schedules.
LEMMA TimerMade ==
    ASSUME Work!WorkspaceAssumption, NEW s, Good(s), NEW x \in Ids,
           NEW m \in Ids, s.timers[x] = None,
           NEW t, t = Work!UpsertModelSchedule(s, x, m).db
    PROVE  /\ Good(t) /\ Evolves(s, t) /\ Only(s, t, {"timers"})
<1>1. CASE ~ (Work!Has(s.models, m) /\ Work!Of(s.timers, {m}) = {})
  BY <1>1, SMT, SameEvolves DEF Work!UpsertModelSchedule, Work!Done, Work!Failed, Good, TablesOK,
     Only, Edited, Work!Has
<1>2. CASE Work!Has(s.models, m) /\ Work!Of(s.timers, {m}) = {}
  <2> DEFINE new == [of |-> m]
  <2>0. t = [s EXCEPT !.timers = PutIn(s.timers, x, new)]
    BY <1>2, SMT DEF PutIn, Work!UpsertModelSchedule, Work!Done
  <2>1. Only(s, t, {"timers"}) /\ t.timers = PutIn(s.timers, x, new)
    BY <2>0, SMT DEF Only, Good, TablesOK, WorkTables
  <2>2. /\ s.timers[x] # Erased /\ (Work!Has(s.timers, x) => s.timers[x] \in Work!Timers)
        /\ s.timers \in Work!Rows(Work!Timers)
    BY <1>2, RowIs, RealRows DEF Work!Has, Good, TablesOK
  <2>3. new \in Work!Timers /\ new.of = m
    BY <1>2, <2>2 DEF Work!Timers, Work!WorkspaceAssumption, Work!Fields
  <2> HIDE DEF new
  <2>4. Good(t) /\ Evolves(s, t)
    BY <1>2, <2>1, <2>2, <2>3, TimerWritten DEF Good, Work!Unique, Work!Live, Work!Has
  <2>5. /\ t.timers[x] = new /\ Work!Has(t.timers, x)
       /\ \A j \in Ids : j # x => t.timers[j] = s.timers[j]
    BY RealRows, <2>1, <2>2, <2>3, PutRow
  <2> QED BY <1>2, <2>1, <2>3, <2>4, <2>5 DEF Edited, Work!Has
<1> QED BY <1>1, <1>2

\* INSERT INTO pipelines.
LEMMA PipelineMade ==
    ASSUME Work!WorkspaceAssumption, NEW s, Good(s), NEW p \in Ids,
           NEW who \in Authors, s.pipelines[p] = None,
           NEW t, t = Work!CreatePipeline(s, p, who).db
    PROVE  /\ Good(t) /\ Evolves(s, t) /\ Only(s, t, {"pipelines"})
           /\ \A j \in Ids : j # p => t.pipelines[j] = s.pipelines[j]
<1> DEFINE new == [name |-> who, body |-> who, status |-> "draft", graph |-> None]
<1>0. t = [s EXCEPT !.pipelines = PutIn(s.pipelines, p, new)]
  BY SMT DEF PutIn, Work!CreatePipeline, Work!Done
<1>1. Only(s, t, {"pipelines"}) /\ t.pipelines = PutIn(s.pipelines, p, new)
  BY <1>0, SMT DEF Only, Good, TablesOK, WorkTables
<1>2. /\ s.pipelines[p] # Erased
      /\ (Work!Has(s.pipelines, p) => s.pipelines[p] \in Work!Pipelines)
      /\ s.pipelines \in Work!Rows(Work!Pipelines)
  BY RowIs, RealRows DEF Work!Has, Good, TablesOK
<1>3. new \in Work!Pipelines
  BY <1>2 DEF Work!Pipelines, Work!WorkspaceAssumption, Work!Fields
<1> HIDE DEF new
<1>4. Good(t) /\ Evolves(s, t)
  BY <1>1, <1>2, <1>3, PipelineWritten DEF Good, Work!Unique, Work!Live, Work!Has
<1>5. /\ t.pipelines[p] = new /\ Work!Has(t.pipelines, p)
     /\ \A j \in Ids : j # p => t.pipelines[j] = s.pipelines[j]
  BY RealRows, <1>1, <1>2, <1>3, PutRow
<1> QED BY <1>1, <1>3, <1>4, <1>5 DEF Edited, Work!Has

\* UPDATE pipelines.
LEMMA PipelineEdited ==
    ASSUME Work!WorkspaceAssumption, NEW s, Good(s), NEW p \in Ids,
           NEW row, row.name \in Authors, row.body \in Authors,
           NEW t, t = Work!UpdatePipeline(s, p, row).db
    PROVE  /\ Good(t) /\ Evolves(s, t) /\ Only(s, t, {"pipelines"})
           /\ \A j \in Ids : j # p => t.pipelines[j] = s.pipelines[j]
           /\ Work!Has(s.pipelines, p) => Work!Has(t.pipelines,
                  p) /\ t.pipelines[p].status = s.pipelines[p].status
<1>1. CASE ~ (Work!Has(s.pipelines, p))
  BY <1>1, SMT, SameEvolves DEF Work!UpdatePipeline, Work!Done, Work!Failed, Good, TablesOK, Only,
     Edited, Work!Has
<1>2. CASE Work!Has(s.pipelines, p)
  <2> DEFINE new == [s.pipelines[p] EXCEPT !.name = row.name, !.body = row.body]
  <2>0. t = [s EXCEPT !.pipelines = PutIn(s.pipelines, p, new)]
    BY <1>2, SMT DEF PutIn, Work!UpdatePipeline, Work!Done
  <2>1. Only(s, t, {"pipelines"}) /\ t.pipelines = PutIn(s.pipelines, p, new)
    BY <2>0, SMT DEF Only, Good, TablesOK, WorkTables
  <2>2. /\ s.pipelines[p] # Erased
        /\ (Work!Has(s.pipelines, p) => s.pipelines[p] \in Work!Pipelines)
        /\ s.pipelines \in Work!Rows(Work!Pipelines)
    BY <1>2, RowIs, RealRows DEF Work!Has, Good, TablesOK
  <2>3. new \in Work!Pipelines /\ new.status = s.pipelines[p].status
    BY <1>2, <2>2 DEF Work!Pipelines, Work!WorkspaceAssumption, Work!Fields
  <2> HIDE DEF new
  <2>4. Good(t) /\ Evolves(s, t)
    BY <1>2, <2>1, <2>2, <2>3, PipelineWritten DEF Good, Work!Unique, Work!Live, Work!Has
  <2>5. /\ t.pipelines[p] = new /\ Work!Has(t.pipelines, p)
       /\ \A j \in Ids : j # p => t.pipelines[j] = s.pipelines[j]
    BY RealRows, <2>1, <2>2, <2>3, PutRow
  <2> QED BY <1>2, <2>1, <2>3, <2>4, <2>5 DEF Edited, Work!Has
<1> QED BY <1>1, <1>2

\* UPDATE pipelines SET status.
LEMMA StatusWritten ==
    ASSUME Work!WorkspaceAssumption, NEW s, Good(s), NEW p \in Ids,
           NEW status \in {"draft", "running", "stopped", "success", "error"},
           NEW t, t = Work!UpdatePipelineStatus(s, p, status).db
    PROVE  /\ Good(t) /\ Evolves(s, t) /\ Only(s, t, {"pipelines"})
           /\ \A j \in Ids : j # p => t.pipelines[j] = s.pipelines[j]
           /\ Work!Has(s.pipelines, p) => Work!Has(t.pipelines, p) /\ t.pipelines[p].status = status
<1>1. CASE ~ (Work!Has(s.pipelines, p))
  BY <1>1, SMT, SameEvolves DEF Work!UpdatePipelineStatus, Work!Done, Work!Failed, Good, TablesOK,
     Only, Edited, Work!Has
<1>2. CASE Work!Has(s.pipelines, p)
  <2> DEFINE new == [s.pipelines[p] EXCEPT !.status = status]
  <2>0. t = [s EXCEPT !.pipelines = PutIn(s.pipelines, p, new)]
    BY <1>2, SMT DEF PutIn, Work!UpdatePipelineStatus, Work!Done
  <2>1. Only(s, t, {"pipelines"}) /\ t.pipelines = PutIn(s.pipelines, p, new)
    BY <2>0, SMT DEF Only, Good, TablesOK, WorkTables
  <2>2. /\ s.pipelines[p] # Erased
        /\ (Work!Has(s.pipelines, p) => s.pipelines[p] \in Work!Pipelines)
        /\ s.pipelines \in Work!Rows(Work!Pipelines)
    BY <1>2, RowIs, RealRows DEF Work!Has, Good, TablesOK
  <2>3. new \in Work!Pipelines /\ new.status = status
    BY <1>2, <2>2 DEF Work!Pipelines, Work!WorkspaceAssumption, Work!Fields
  <2> HIDE DEF new
  <2>4. Good(t) /\ Evolves(s, t)
    BY <1>2, <2>1, <2>2, <2>3, PipelineWritten DEF Good, Work!Unique, Work!Live, Work!Has
  <2>5. /\ t.pipelines[p] = new /\ Work!Has(t.pipelines, p)
       /\ \A j \in Ids : j # p => t.pipelines[j] = s.pipelines[j]
    BY RealRows, <2>1, <2>2, <2>3, PutRow
  <2> QED BY <1>2, <2>1, <2>3, <2>4, <2>5 DEF Edited, Work!Has
<1> QED BY <1>1, <1>2

\* The graph of a pipeline.
LEMMA GraphSaved ==
    ASSUME Work!WorkspaceAssumption, NEW s, Good(s), NEW p \in Ids,
           NEW who \in Authors,
           NEW t, t = Work!SavePipelineGraph(s, p, who).db
    PROVE  /\ Good(t) /\ Evolves(s, t) /\ Only(s, t, {"pipelines"})
           /\ \A j \in Ids : j # p => t.pipelines[j] = s.pipelines[j]
           /\ Work!Has(s.pipelines, p) => Work!Has(t.pipelines,
                  p) /\ t.pipelines[p].status = s.pipelines[p].status
<1>1. CASE ~ (Work!Has(s.pipelines, p))
  BY <1>1, SMT, SameEvolves DEF Work!SavePipelineGraph, Work!Done, Work!Failed, Good, TablesOK,
     Only, Edited, Work!Has
<1>2. CASE Work!Has(s.pipelines, p)
  <2> DEFINE new == [s.pipelines[p] EXCEPT !.graph = who]
  <2>0. t = [s EXCEPT !.pipelines = PutIn(s.pipelines, p, new)]
    BY <1>2, SMT DEF PutIn, Work!SavePipelineGraph, Work!Done
  <2>1. Only(s, t, {"pipelines"}) /\ t.pipelines = PutIn(s.pipelines, p, new)
    BY <2>0, SMT DEF Only, Good, TablesOK, WorkTables
  <2>2. /\ s.pipelines[p] # Erased
        /\ (Work!Has(s.pipelines, p) => s.pipelines[p] \in Work!Pipelines)
        /\ s.pipelines \in Work!Rows(Work!Pipelines)
    BY <1>2, RowIs, RealRows DEF Work!Has, Good, TablesOK
  <2>3. new \in Work!Pipelines /\ new.status = s.pipelines[p].status
    BY <1>2, <2>2 DEF Work!Pipelines, Work!WorkspaceAssumption, Work!Fields
  <2> HIDE DEF new
  <2>4. Good(t) /\ Evolves(s, t)
    BY <1>2, <2>1, <2>2, <2>3, PipelineWritten DEF Good, Work!Unique, Work!Live, Work!Has
  <2>5. /\ t.pipelines[p] = new /\ Work!Has(t.pipelines, p)
       /\ \A j \in Ids : j # p => t.pipelines[j] = s.pipelines[j]
    BY RealRows, <2>1, <2>2, <2>3, PutRow
  <2> QED BY <1>2, <2>1, <2>3, <2>4, <2>5 DEF Edited, Work!Has
<1> QED BY <1>1, <1>2

\* The dashboard of the system and its panel.
LEMMA OverviewEnsured ==
    ASSUME Work!WorkspaceAssumption, NEW s, Good(s), NEW d,
           \/ d \in Ids /\ s.dashboards[d] = None
           \/ \E x \in Work!Live(s.dashboards) : s.dashboards[x].by = Work!System,
           NEW p \in Ids, s.panels[p] = None,
           NEW t, t = Work!EnsureSystemOverviewDashboard(s, d, p).db
    PROVE  Good(t) /\ Evolves(s, t) /\ Only(s, t, {"dashboards", "panels"})
<1> DEFINE found == {x \in Work!Live(s.dashboards) : s.dashboards[x].by = Work!System}
           home == IF found = {} THEN d ELSE CHOOSE x \in found : TRUE
           same == {x \in Work!Of(s.panels, {home}) : s.panels[x].name = Work!System}
           panel == IF same = {} THEN p ELSE CHOOSE x \in same : TRUE
           board == [name |-> Work!System, body |-> Work!System, by |-> Work!System]
           new == [name |-> Work!System, body |-> Work!System, of |-> home]
           mid == [s EXCEPT !.dashboards = PutIn(s.dashboards, home, board)]
<1>0. /\ t = [mid EXCEPT !.panels = PutIn(s.panels, panel, new)]
      /\ DOMAIN s = WorkTables
  BY DEF PutIn, Work!EnsureSystemOverviewDashboard, Work!Done, Good, TablesOK, WorkTables
<1>1. /\ Only(s, mid, {"dashboards"}) /\ mid.dashboards = PutIn(s.dashboards, home, board)
  BY <1>0 DEF Only, WorkTables
<1>2. home \in Ids /\ s.dashboards[home] # Erased
  <2>1. CASE found = {}
    BY <2>1 DEF Work!WorkspaceAssumption
  <2>2. CASE found # {}
    BY <2>2 DEF Work!Live, Work!Has
  <2> QED BY <2>1, <2>2
<1>3. \A e \in Ids : Work!Has(s.dashboards, e) /\ s.dashboards[e].by = Work!System => e = home
  <2> SUFFICES ASSUME NEW e \in Ids, Work!Has(s.dashboards, e), s.dashboards[e].by = Work!System
               PROVE  e = home
    OBVIOUS
  <2>1. e \in found
    BY DEF Work!Live
  <2>2. home \in found
    BY <2>1
  <2> HIDE DEF home
  <2> QED BY <2>1, <2>2 DEF Good, Work!Unique
<1>4. board \in Work!Dashboards /\ (home \in Ids => new \in Work!Panels) /\ new.of = home
  BY DEF Work!Dashboards, Work!Panels, Work!WorkspaceAssumption
<1>5. /\ panel \in Ids /\ s.panels[panel] # Erased
      /\ (Work!Has(s.panels, panel) => s.panels[panel].of = home)
  <2> HIDE DEF home, new, board, mid
  <2>1. CASE same = {}
    BY <2>1 DEF Work!WorkspaceAssumption, Work!Has
  <2>2. CASE same # {}
    <3>1. panel \in Work!Of(s.panels, {home})
      BY <2>2
    <3> HIDE DEF panel, same
    <3> QED BY <3>1 DEF Work!Of, Work!Live, Work!Has
  <2> QED BY <2>1, <2>2
<1>6. DOMAIN mid = DOMAIN s /\ mid.panels = s.panels
  BY <1>0 DEF WorkTables
<1>7. t.panels = PutIn(mid.panels, panel, new) /\ Only(mid, t, {"panels"})
      /\ Only(s, t, {"dashboards", "panels"})
  BY <1>0, <1>6 DEF Only, WorkTables
<1> HIDE DEF found, home, same, panel, board, new, mid
<1>8. Good(mid) /\ Evolves(s, mid)
  BY <1>1, <1>2, <1>3, <1>4, DashboardWritten
<1>9. Work!Has(mid.dashboards, home)
  BY RealRows, <1>1, <1>2, <1>4, PutRow DEF Good, TablesOK
<1>10. Good(t) /\ Evolves(mid, t)
  BY <1>2, <1>4, <1>5, <1>6, <1>7, <1>8, <1>9, PanelWritten
<1> QED
  BY <1>7, <1>8, <1>10, EvolvesOn

\* Time passes: a link, an invite.
LEMMA LinkExpired ==
    ASSUME Work!WorkspaceAssumption, NEW s, Good(s), NEW x \in Ids, Work!Has(s.shares, x),
           NEW t, t = [s EXCEPT !.shares[x].expires = "past"]
    PROVE  Good(t) /\ Evolves(s, t) /\ Only(s, t, {"shares"})
<1> DEFINE new == [s.shares[x] EXCEPT !.expires = "past"]
<1>0. t = [s EXCEPT !.shares = PutIn(s.shares, x, new)]
  BY DEF PutIn
<1>1. Only(s, t, {"shares"}) /\ t.shares = PutIn(s.shares, x, new)
  BY <1>0, SMT DEF Only, Good, TablesOK, WorkTables
<1>2. s.shares[x] # Erased /\ s.shares[x] \in Work!Shares /\ Work!Has(s.dashboards, s.shares[x].of)
  BY Parents DEF Work!Has, Good, Work!Attached, Work!Live
<1>3. new \in Work!Shares /\ new.of = s.shares[x].of /\ new.emails = s.shares[x].emails
      /\ new.visibility = s.shares[x].visibility
  BY <1>2 DEF Work!Shares
<1> HIDE DEF new
<1> QED BY <1>1, <1>2, <1>3, ShareWritten

LEMMA InviteExpired ==
    ASSUME Work!WorkspaceAssumption, NEW s, Good(s), NEW i \in Ids, Work!Has(s.invites, i),
           NEW t, t = [s EXCEPT !.invites[i].expired = TRUE]
    PROVE  Good(t) /\ Evolves(s, t) /\ Only(s, t, {"invites"})
<1> DEFINE new == [s.invites[i] EXCEPT !.expired = TRUE]
<1>0. t = [s EXCEPT !.invites = PutIn(s.invites, i, new)]
  BY DEF PutIn
<1>1. Only(s, t, {"invites"}) /\ t.invites = PutIn(s.invites, i, new)
  <2> HIDE DEF new
  <2> QED BY <1>0, SMT DEF Only, Good, TablesOK, WorkTables
<1>2. /\ s.invites[i] # Erased /\ s.invites[i] \in Work!Invites
      /\ Work!Has(s.shares, s.invites[i].of)
      /\ s.invites[i].email \in s.shares[s.invites[i].of].emails
  BY Parents DEF Work!Has, Good, Work!Attached, Work!Live
<1>3. new \in Work!Invites /\ new.of = s.invites[i].of /\ new.email = s.invites[i].email
  BY <1>2 DEF Work!Invites
<1> HIDE DEF new
<1> QED BY <1>1, <1>2, <1>3, InviteWritten

-----------------------------------------------------------------------------
(* The invariant.  A request under way is Formed by what it has read, and  *)
(* Known: what it has read of rows that stay put is still so.              *)

Editing == {"UpdateDashboard", "UpdateQuery", "Duplicate", "UpdateModel", "update_saved_query",
            "update_model"}

Formed(r) ==
    /\ r.op # "idle" => r.id \in Ids
    /\ "named" \in DOMAIN r => r.op \in Editing \cup {"UpdatePanel"}
    /\ r.op \in Editing \cup {"UpdatePanel"} => r.seen.name \in Authors /\ r.seen.body \in Authors
    /\ r.op \in {"UpdateModel", "update_model"} => r.seen.description \in Authors
    /\ r.op = "Launch" => r.marked \in BOOLEAN
    /\ r.op = "CreateShare" =>
         /\ r.visibility \in {"public", "private"} /\ r.emails \in SUBSET Emails
         /\ r.expires \in {"never", "later"}
    /\ r.op = "InviteToShare" =>
         /\ DOMAIN r = {"op", "id", "todo", "invite"}
         /\ r.todo \subseteq Emails /\ r.invite \in Ids \cup {None}
    /\ r.op = "Viewer" => DOMAIN r = {"op", "at", "id", "seen", "key"} /\ r.key \in Ids \cup {None}

Known(s, r) ==
    /\ r.op \in {"UpdatePanel", "DeletePanel"} =>
         s.panels[r.id] # None /\ (Work!Has(s.panels, r.id) => s.panels[r.id].of = r.of)
    /\ r.op = "InviteToShare" =>
         /\ s.shares[r.id] # None
         /\ Work!Has(s.shares, r.id) =>
              /\ r.todo \subseteq s.shares[r.id].emails
              /\ r.invite # None => Work!Has(s.invites, r.invite) /\ s.invites[r.invite].of = r.id
    /\ r.op = "Viewer" =>
         /\ s.shares[r.id] # None /\ r.seen.expires # "past"
         /\ Work!Has(s.shares, r.id) =>
              /\ s.shares[r.id].of = r.seen.of /\ s.shares[r.id].visibility = r.seen.visibility
              /\ s.shares[r.id].emails = r.seen.emails
              /\ r.at # "link" /\ r.seen.visibility = "private" =>
                   r.key \in Ids /\ Work!Has(s.invites, r.key) /\ s.invites[r.key].of = r.id

MailedOK(s, sent) ==
    \A l \in sent :
        /\ l[1] \in Ids /\ l[2] \in Ids /\ s.shares[l[1]] # None
        /\ Work!Has(s.shares, l[1]) => Work!Has(s.invites, l[2]) /\ s.invites[l[2]].of = l[1]

OneClient == \E c \in Clients : scenario.actors = {c}

RunsIn(pipelines) ==
    \A p \in Ids : live[p] = "going" =>
        Work!Has(pipelines, p) /\ pipelines[p].status = "running"

\* What a request of a lone client relies on.
Relies(r) ==
    /\ r.op = "DeletePipeline" => live[r.id] # "going"
    /\ r.op = "Launch" =>
         /\ live[r.id] = "none"
         /\ r.marked => Work!Has(db.pipelines, r.id) /\ db.pipelines[r.id].status = "running"

RunsOK == OneClient => RunsIn(db.pipelines) /\ \A a \in Work!Actors : Relies(actor[a])

WorkInv ==
    /\ scenario \in Workloads /\ Good(db) /\ DOMAIN live = Ids
    /\ DOMAIN actor = Work!Actors
    /\ \A a \in Work!Actors :
          /\ Formed(actor[a]) /\ Known(db, actor[a])
          /\ actor[a] # Work!Idle => a \in scenario.actors
    /\ MailedOK(db, mailed) /\ RunsOK

\* What an edit that is done has changed.
EditDone(s, t, r) ==
    /\ r.op \in {"UpdatePanel", "DeletePanel"} =>
         \A p \in Ids : Work!Has(s.panels, p) /\ t.panels[p] # s.panels[p] => s.panels[p].of = r.of
    /\ "named" \in DOMAIN r =>
         \A k \in {"dashboards", "panels", "queries", "models"}, id \in Ids,
             f \in Work!ModelFields :
             /\ Work!Has(s[k], id) /\ Work!Has(t[k], id) /\ r.seen = s[k][id] /\ f \notin r.named
             /\ f = "description" => k = "models" /\ r.op # "UpdateModel"
             => t[k][id][f] = s[k][id][f]

\* A step of the actor a.
Moves(a) ==
    /\ scenario' = scenario /\ Good(db') /\ Evolves(db, db') /\ DOMAIN live' = Ids
    /\ DOMAIN actor' = Work!Actors /\ \A b \in Work!Actors \ {a} : actor'[b] = actor[b]
    /\ Formed(actor'[a]) /\ Known(db', actor'[a])
    /\ actor'[a] # Work!Idle => a \in scenario.actors
    /\ MailedOK(db', mailed') /\ RunsOK'
    /\ actor'[a] = Work!Idle => EditDone(db, db', actor[a])

LEMMA PresentBefore ==
    ASSUME NEW a, NEW b, Stays(a, b), NEW id \in Ids, a[id] # None
    PROVE  b[id] # None /\ (Work!Has(b, id) => Work!Has(a, id))
BY DEF Stays, Work!Has

LEMMA KnownStays ==
    ASSUME NEW s, NEW t, Evolves(s, t), NEW r, Formed(r), Known(s, r)
    PROVE  Known(t, r)
<1>1. ASSUME r.op \in {"UpdatePanel", "DeletePanel"}
      PROVE  t.panels[r.id] # None /\ (Work!Has(t.panels, r.id) => t.panels[r.id].of = r.of)
  BY <1>1, PresentBefore DEF Formed, Known, Evolves, PanelsStay
<1>2. ASSUME r.op \in {"InviteToShare", "Viewer"}
      PROVE  /\ r.id \in Ids /\ t.shares[r.id] # None
             /\ Work!Has(t.shares, r.id) =>
                  /\ Work!Has(s.shares, r.id) /\ t.shares[r.id].of = s.shares[r.id].of
                  /\ t.shares[r.id].visibility = s.shares[r.id].visibility
                  /\ t.shares[r.id].emails = s.shares[r.id].emails
  BY <1>2, PresentBefore DEF Formed, Known, Evolves, SharesStay
<1>3. ASSUME r.op = "InviteToShare", Work!Has(t.shares, r.id), r.invite # None
      PROVE  Work!Has(t.invites, r.invite) /\ t.invites[r.invite].of = r.id
  BY <1>2, <1>3 DEF Formed, Known, Evolves, InvitesStay
<1>4. ASSUME r.op = "Viewer", Work!Has(t.shares, r.id), r.at # "link", r.seen.visibility = "private"
      PROVE  r.key \in Ids /\ Work!Has(t.invites, r.key) /\ t.invites[r.key].of = r.id
  BY <1>2, <1>4 DEF Known, Evolves, InvitesStay
<1> QED
  BY <1>1, <1>2, <1>3, <1>4 DEF Known

LEMMA MailedStays ==
    ASSUME NEW s, NEW t, Evolves(s, t), NEW sent, MailedOK(s, sent)
    PROVE  MailedOK(t, sent)
<1> SUFFICES ASSUME NEW l \in sent
             PROVE  /\ l[1] \in Ids /\ l[2] \in Ids /\ t.shares[l[1]] # None
                    /\ Work!Has(t.shares, l[1]) =>
                         Work!Has(t.invites, l[2]) /\ t.invites[l[2]].of = l[1]
  BY DEF MailedOK
<1>1. l[1] \in Ids /\ l[2] \in Ids /\ s.shares[l[1]] # None
  BY DEF MailedOK
<1>2. t.shares[l[1]] # None /\ (Work!Has(t.shares, l[1]) => Work!Has(s.shares, l[1]))
  BY <1>1, PresentBefore DEF Evolves
<1> QED BY <1>1, <1>2 DEF MailedOK, Evolves, InvitesStay

LEMMA NothingEdited == ASSUME NEW s, NEW r PROVE EditDone(s, s, r)
BY DEF EditDone

\* The rest of the actors stays as it was.
LEMMA MovesKeep ==
    ASSUME WorkInv, NEW a \in Work!Actors, Moves(a)
    PROVE  WorkInv'
BY KnownStays DEF WorkInv, Moves

LEMMA MovesEdit ==
    ASSUME Work!WorkspaceAssumption, WorkInv, NEW a \in Work!Actors, Moves(a)
    PROVE  Work!EditsKept
<1>1. ASSUME NEW k \in WorkTables, NEW id \in Ids, db[k][id] = Erased
      PROVE  db'[k][id] = Erased
  BY <1>1 DEF Moves, Evolves, Stays, WorkTables
<1>2. ASSUME NEW p \in Work!Live(db.panels), Work!Has(db'.panels, p)
      PROVE  db'.panels[p].of = db.panels[p].of
  BY <1>2 DEF Moves, Evolves, PanelsStay, Work!Live
<1>3. ASSUME NEW b \in Work!Actors, actor[b] # Work!Idle, actor'[b] = Work!Idle
      PROVE  EditDone(db, db', actor[b])
  BY <1>3 DEF Moves
<1>4. ASSUME NEW c \in Clients, NEW p \in Work!Live(db.panels),
             actor[c].op \in {"UpdatePanel", "DeletePanel"}, actor'[c] = Work!Idle,
             db'.panels[p] # db.panels[p]
      PROVE  db.panels[p].of = actor[c].of
  BY <1>4, <1>3 DEF Work!Idle, Work!Actors, EditDone, Work!Live
<1>5. ASSUME NEW b \in Clients \cup Assistants, NEW k \in {"dashboards", "panels", "queries",
          "models"},
             NEW id \in Ids, NEW f \in Work!ModelFields,
             "named" \in DOMAIN actor[b], actor'[b] = Work!Idle,
             Work!Has(db[k], id), Work!Has(db'[k], id),
             actor[b].seen = db[k][id], f \notin actor[b].named,
             f = "description" => k = "models" /\ actor[b].op # "UpdateModel"
      PROVE  db'[k][id][f] = db[k][id][f]
  BY <1>5, <1>3 DEF Work!Idle, Work!Actors, EditDone
<1> QED
  BY <1>1, <1>2, <1>4, <1>5 DEF Work!EditsKept, WorkTables

-----------------------------------------------------------------------------
(* How a handler moves: it asks, it answers, or it does both at once. *)

\* Nothing happened to the runs.
RunsStay(pipelines) ==
    OneClient => \A p \in Ids :
        live[p] = "going" /\ Work!Has(db.pipelines, p) /\ db.pipelines[p].status = "running"
        => Work!Has(pipelines, p) /\ pipelines[p].status = "running"

LEMMA SamePipelinesRun == ASSUME NEW s, s.pipelines = db.pipelines PROVE RunsStay(s.pipelines)
BY DEF RunsStay

\* An assistant is not the one client who is alone.
LEMMA NotOneClient ==
    ASSUME Work!WorkspaceAssumption, NEW a \in Assistants, a \in scenario.actors
    PROVE  ~OneClient
BY DEF OneClient, Work!WorkspaceAssumption

LEMMA Asked ==
    ASSUME WorkInv, NEW a \in Work!Actors, NEW r, Work!Ask(a, r), Formed(r), Known(db, r),
           r.op # "Launch", r.op = "DeletePipeline" => (OneClient => live[r.id] # "going")
    PROVE  Moves(a)
<1>1. /\ scenario' = scenario /\ live' = live /\ mailed' = mailed /\ db' = db
      /\ DOMAIN actor' = Work!Actors /\ actor'[a] = r /\ a \in scenario.actors
      /\ \A b \in Work!Actors \ {a} : actor'[b] = actor[b]
      /\ actor[a] = Work!Idle
  BY DEF Work!Ask, WorkInv
<1>2. RunsOK'
  BY <1>1 DEF WorkInv, RunsOK, RunsIn, Relies, OneClient
<1> QED BY <1>1, <1>2, NothingEdited, SameEvolves DEF WorkInv, Moves

LEMMA Answered ==
    ASSUME WorkInv, NEW a \in Work!Actors, NEW op, NEW result, Work!Answer(a, op, result),
           op # "idle",
           Good(result.db), Evolves(db, result.db), RunsStay(result.db.pipelines),
           EditDone(db, result.db, actor[a])
    PROVE  Moves(a)
<1>1. /\ scenario' = scenario /\ live' = live /\ mailed' = mailed
      /\ DOMAIN actor' = Work!Actors /\ actor'[a] = Work!Idle
      /\ \A b \in Work!Actors \ {a} : actor'[b] = actor[b]
  BY DEF Work!Answer, WorkInv
<1>2. db' = db \/ db' = result.db
  BY DEF Work!Answer, Work!Failed
<1>3. Good(db') /\ Evolves(db, db') /\ RunsStay(db'.pipelines) /\ EditDone(db, db', actor[a])
  BY <1>2, SameEvolves, SamePipelinesRun, NothingEdited DEF WorkInv
<1>4. RunsOK'
  <2>1. actor[a] # Work!Idle
    BY DEF Work!Answer, Work!Idle
  <2>2. OneClient => \A b \in Work!Actors : actor'[b] = Work!Idle
    BY <1>1, <2>1 DEF OneClient, WorkInv
  <2>3. Relies(Work!Idle)'
    BY DEF Relies, Work!Idle
  <2> QED BY <1>1, <1>3, <2>2, <2>3 DEF RunsOK, RunsIn, RunsStay, OneClient, WorkInv, Relies
<1>5. MailedOK(db', mailed')
  BY <1>1, <1>3, MailedStays DEF WorkInv
<1>6. Formed(Work!Idle) /\ Known(db', Work!Idle)
  BY DEF Formed, Known, Work!Idle, Editing
<1> QED BY <1>1, <1>3, <1>4, <1>5, <1>6 DEF Moves, WorkInv

LEMMA DoneAtOnce ==
    ASSUME WorkInv, NEW a \in Work!Actors, NEW op, NEW result, Work!Once(a, op, result),
           Good(result.db), Evolves(db, result.db), RunsStay(result.db.pipelines)
    PROVE  Moves(a)
<1>1. /\ scenario' = scenario /\ live' = live /\ mailed' = mailed /\ actor' = actor
      /\ actor[a] = Work!Idle
  BY DEF Work!Once
<1>2. db' = db \/ db' = result.db
  BY DEF Work!Once, Work!Failed
<1>3. Good(db') /\ Evolves(db, db') /\ RunsStay(db'.pipelines)
  BY <1>2, SameEvolves, SamePipelinesRun DEF WorkInv
<1>4. RunsOK'
  <2>1. OneClient => \A b \in Work!Actors : actor'[b] = Work!Idle
    BY <1>1 DEF OneClient, WorkInv, Work!Once
  <2>2. Relies(Work!Idle)'
    BY DEF Relies, Work!Idle
  <2> QED BY <1>1, <1>3, <2>1, <2>2 DEF RunsOK, RunsIn, RunsStay, OneClient, WorkInv, Relies
<1>5. MailedOK(db', mailed')
  BY <1>1, <1>3, MailedStays DEF WorkInv
<1>6. Formed(Work!Idle) /\ Known(db', Work!Idle) /\ EditDone(db, db', Work!Idle)
  BY DEF Formed, Known, EditDone, Work!Idle, Editing
<1> QED BY <1>1, <1>3, <1>4, <1>5, <1>6 DEF Moves, WorkInv

\* What a request reads in a row that it wants to edit.
LEMMA EditAsked ==
    ASSUME WorkInv, NEW a \in Work!Actors, NEW op \in Editing, NEW table, NEW id \in Ids,
           NEW named, table[id].name \in Authors, table[id].body \in Authors,
           op \in {"UpdateModel", "update_model"} => table[id].description \in Authors,
           Work!Ask(a, Work!EditOf(op, table, id, named))
    PROVE  Moves(a)
<1> DEFINE r == Work!EditOf(op, table, id, named)
<1>1. Formed(r) /\ Known(db, r) /\ r.op \notin {"DeletePipeline", "Launch"}
  BY DEF Formed, Known, Work!EditOf, Editing
<1> HIDE DEF r
<1> QED BY <1>1, Asked DEF r

LEMMA MergedFields ==
    ASSUME Work!WorkspaceAssumption, WorkInv, NEW a \in Work!Actors,
           actor[a].op \in Editing \cup {"UpdatePanel"}
    PROVE  /\ actor[a].id \in Ids
           /\ Work!Merged(a).name \in Authors /\ Work!Merged(a).body \in Authors
           /\ "name" \notin actor[a].named => Work!Merged(a).name = actor[a].seen.name
           /\ "body" \notin actor[a].named => Work!Merged(a).body = actor[a].seen.body
BY DEF WorkInv, Work!WorkspaceAssumption, Formed, Work!Merged, Work!Fields, Editing

LEMMA MergedModelFields ==
    ASSUME Work!WorkspaceAssumption, WorkInv, NEW a \in Work!Actors,
           actor[a].op \in {"UpdateModel", "update_model"}
    PROVE  /\ actor[a].id \in Ids
           /\ \A f \in Work!ModelFields : Work!MergedModel(a)[f] \in Authors
           /\ \A f \in Work!ModelFields :
                 f \notin actor[a].named => Work!MergedModel(a)[f] = actor[a].seen[f]
           /\ DOMAIN Work!MergedModel(a) = Work!ModelFields
<1>1. actor[a].id \in Ids /\ \A f \in Work!ModelFields : actor[a].seen[f] \in Authors
  BY DEF WorkInv, Formed, Work!Fields, Work!ModelFields, Editing
<1>2. a \in Authors
  BY DEF Work!WorkspaceAssumption
<1> QED BY <1>1, <1>2 DEF Work!MergedModel

LEMMA WholeFields ==
    ASSUME Work!WorkspaceAssumption, NEW a \in Work!Actors
    PROVE  Work!Whole(a).name \in Authors /\ Work!Whole(a).body \in Authors
BY DEF Work!WorkspaceAssumption, Work!Whole, Work!Fields

\* A request that edits nothing and deletes no panel.
LEMMA NoEdit ==
    ASSUME NEW r, Formed(r), r.op \notin Editing \cup {"UpdatePanel", "DeletePanel"}, NEW s, NEW t
    PROVE  EditDone(s, t, r)
BY DEF EditDone, Formed

LEMMA DashboardEditDone ==
    ASSUME NEW s, NEW t, Only(s, t, {"dashboards"}), NEW r, r.op \in Editing, NEW row,
           Edited(s.dashboards, t.dashboards, r.id, row),
           "name" \notin r.named => row.name = r.seen.name,
           "body" \notin r.named => row.body = r.seen.body
    PROVE  EditDone(s, t, r)
BY DEF Only, Edited, Work!Fields, Work!ModelFields, Editing, EditDone

LEMMA QueryEditDone ==
    ASSUME NEW s, NEW t, Only(s, t, {"queries"}), NEW r, r.op \in Editing, NEW row,
           Edited(s.queries, t.queries, r.id, row),
           "name" \notin r.named => row.name = r.seen.name,
           "body" \notin r.named => row.body = r.seen.body
    PROVE  EditDone(s, t, r)
BY DEF Only, Edited, Work!Fields, Work!ModelFields, Editing, EditDone

LEMMA ModelEditDone ==
    ASSUME NEW s, NEW t, Only(s, t, {"models"}), NEW r, r.op \in Editing, NEW row,
           Edited(s.models, t.models, r.id, row),
           "name" \notin r.named => row.name = r.seen.name,
           "body" \notin r.named => row.body = r.seen.body,
           t.models[r.id] = s.models[r.id] \/ t.models[r.id].description = row.description,
           "description" \notin r.named /\ r.op # "UpdateModel" =>
               row.description = r.seen.description
    PROVE  EditDone(s, t, r)
BY DEF Only, Edited, Work!Fields, Work!ModelFields, Editing, EditDone

LEMMA PanelEditDone ==
    ASSUME NEW s, NEW t, Only(s, t, {"panels"}), NEW r, r.op = "UpdatePanel", NEW row, Known(s, r),
           Edited(s.panels, t.panels, r.id, row),
           "name" \notin r.named => row.name = r.seen.name,
           "body" \notin r.named => row.body = r.seen.body
    PROVE  EditDone(s, t, r)
BY DEF Only, Edited, Work!Fields, Work!ModelFields, Known, EditDone

-----------------------------------------------------------------------------
(* The handlers and the tools, one by one. *)

LEMMA NewRow ==
    ASSUME NEW table, NEW id \in Work!New(table)
    PROVE  id \in Ids /\ table[id] = None
BY DEF Work!New, Work!Fresh

LEMMA Writer ==
    ASSUME Work!WorkspaceAssumption, NEW a \in Work!Actors
    PROVE  a \in Authors /\ a # Work!System
BY DEF Work!WorkspaceAssumption

LEMMA IsActor ==
    Clients \subseteq Work!Actors /\ Assistants \subseteq Work!Actors /\ Viewers \subseteq Work!Actors
BY DEF Work!Actors

\* What a row holds.
LEMMA RowFields ==
    ASSUME Work!WorkspaceAssumption, NEW s, TablesOK(s), NEW id \in Ids
    PROVE  /\ Work!Has(s.dashboards, id) =>
                s.dashboards[id].name \in Authors /\ s.dashboards[id].body \in Authors
           /\ Work!Has(s.panels, id) =>
                                        s.panels[id].name \in Authors /\ s.panels[id].body \in Authors
           /\ Work!Has(s.queries, id) =>
                                         s.queries[id].name \in Authors /\ s.queries[id].body \in Authors
           /\ Work!Has(s.models, id) =>
                /\ s.models[id].name \in Authors /\ s.models[id].body \in Authors
                /\ s.models[id].description \in Authors
           /\ Work!Has(s.shares, id) => s.shares[id] \in Work!Shares
<1>1. Work!Has(s.dashboards, id) => s.dashboards[id] \in Work!Dashboards
  BY RowIs DEF TablesOK
<1>2. Work!Has(s.panels, id) => s.panels[id] \in Work!Panels
  BY RowIs DEF TablesOK
<1>3. Work!Has(s.queries, id) => s.queries[id] \in Work!Texts
  BY RowIs DEF TablesOK
<1>4. Work!Has(s.models, id) => s.models[id] \in Work!Models
  BY RowIs DEF TablesOK
<1>5. Work!Has(s.shares, id) => s.shares[id] \in Work!Shares
  BY RowIs DEF TablesOK
<1> QED BY <1>1, <1>2, <1>3, <1>4, <1>5 DEF Work!Dashboards, Work!Panels, Work!Texts, Work!Models

LEMMA OthersUntouched ==
    ASSUME NEW s, Good(s), NEW p \in Ids
    PROVE  /\ \A j \in Ids : j # p => Work!DeletePipeline(s, p).db.pipelines[j] = s.pipelines[j]
           /\ \A j \in Ids : j # p => Work!DeletePanel(s, p).db.panels[j] = s.panels[j]
BY DEF Work!Without, Work!DeletePipeline, Work!DeletePanel, Work!Done, Good, TablesOK, WorkTables

LEMMA ListDashboardsMoves ==
    ASSUME Work!WorkspaceAssumption, WorkInv, NEW c \in Clients, Work!ListDashboards(c)
    PROVE  Moves(c)
<1>1. c \in Work!Actors /\ c \in Authors /\ c # Work!System /\ Good(db)
  BY IsActor, Writer DEF WorkInv
<1>2. PICK d \in Work!New(db.dashboards) \cup {None}, p \in Work!New(db.panels) \cup {None} : 
             /\ d = None => \E x \in Work!Live(db.dashboards) : db.dashboards[x].by = Work!System
             /\ p # None /\ Work!Once(c, "ListDashboards",
                    Work!EnsureSystemOverviewDashboard(db, d, p))
  BY DEF Work!ListDashboards
<1>3. p \in Ids /\ db.panels[p] = None
  BY <1>2, NewRow
<1>4. d = None \/ (d \in Ids /\ db.dashboards[d] = None)
  BY <1>2, NewRow
<1> DEFINE result == Work!EnsureSystemOverviewDashboard(db, d, p)
<1>5. Good(result.db) /\ Evolves(db, result.db)
  BY <1>1, <1>2, <1>3, <1>4, OverviewEnsured
<1>6. RunsStay(result.db.pipelines)
  BY <1>1, <1>2, <1>3, <1>4, OverviewEnsured, SamePipelinesRun DEF Only
<1> HIDE DEF result
<1> QED BY <1>1, <1>2, <1>5, <1>6, DoneAtOnce DEF result

LEMMA CreateDashboardMoves ==
    ASSUME Work!WorkspaceAssumption, WorkInv, NEW c \in Clients, Work!CreateDashboardRequest(c)
    PROVE  Moves(c)
<1>1. c \in Work!Actors /\ c \in Authors /\ c # Work!System /\ Good(db)
  BY IsActor, Writer DEF WorkInv
<1>2. PICK d \in Work!New(db.dashboards) : Work!Once(c, "CreateDashboard",
          Work!CreateDashboard(db, d, c))
  BY DEF Work!CreateDashboardRequest
<1>3. d \in Ids /\ db.dashboards[d] = None
  BY <1>2, NewRow
<1> DEFINE result == Work!CreateDashboard(db, d, c)
<1>4. Good(result.db) /\ Evolves(db, result.db)
  BY <1>1, <1>2, <1>3, DashboardMade
<1>5. RunsStay(result.db.pipelines)
  BY <1>1, <1>2, <1>3, DashboardMade, SamePipelinesRun DEF Only
<1> HIDE DEF result
<1> QED BY <1>1, <1>2, <1>4, <1>5, DoneAtOnce DEF result

LEMMA DeleteShareMoves ==
    ASSUME Work!WorkspaceAssumption, WorkInv, NEW c \in Clients, Work!DeleteShare(c)
    PROVE  Moves(c)
<1>1. c \in Work!Actors /\ c \in Authors /\ c # Work!System /\ Good(db)
  BY IsActor, Writer DEF WorkInv
<1>2. PICK x \in Work!Live(db.shares) : Work!Once(c, "DeleteShare",
          Work!DeleteDashboardShare(db, x))
  BY DEF Work!DeleteShare
<1>3. x \in Ids
  BY <1>2 DEF Work!Live
<1> DEFINE result == Work!DeleteDashboardShare(db, x)
<1>4. Good(result.db) /\ Evolves(db, result.db)
  BY <1>1, <1>2, <1>3, ShareDeleted
<1>5. RunsStay(result.db.pipelines)
  BY <1>1, <1>2, <1>3, ShareDeleted, SamePipelinesRun DEF Only
<1> HIDE DEF result
<1> QED BY <1>1, <1>2, <1>4, <1>5, DoneAtOnce DEF result

LEMMA CreateQueryMoves ==
    ASSUME Work!WorkspaceAssumption, WorkInv, NEW c \in Clients, Work!CreateQueryRequest(c)
    PROVE  Moves(c)
<1>1. c \in Work!Actors /\ c \in Authors /\ c # Work!System /\ Good(db)
  BY IsActor, Writer DEF WorkInv
<1>2. PICK q \in Work!New(db.queries) : Work!Once(c, "CreateQuery", Work!CreateSavedQuery(db,
          q, Work!Whole(c)))
  BY DEF Work!CreateQueryRequest
<1>3. q \in Ids /\ db.queries[q] = None
  BY <1>2, NewRow
<1>4. Work!Whole(c).name \in Authors /\ Work!Whole(c).body \in Authors
  BY <1>1, WholeFields
<1> DEFINE result == Work!CreateSavedQuery(db, q, Work!Whole(c))
<1>5. Good(result.db) /\ Evolves(db, result.db)
  BY <1>1, <1>2, <1>3, <1>4, QueryMade
<1>6. RunsStay(result.db.pipelines)
  BY <1>1, <1>2, <1>3, <1>4, QueryMade, SamePipelinesRun DEF Only
<1> HIDE DEF result
<1> QED BY <1>1, <1>2, <1>5, <1>6, DoneAtOnce DEF result

LEMMA CreateModelMoves ==
    ASSUME Work!WorkspaceAssumption, WorkInv, NEW c \in Clients, Work!CreateModelRequest(c)
    PROVE  Moves(c)
<1>1. c \in Work!Actors /\ c \in Authors /\ c # Work!System /\ Good(db)
  BY IsActor, Writer DEF WorkInv
<1>2. PICK m \in Work!New(db.models) : Work!Once(c, "CreateModel", Work!CreateModel(db, m, c))
  BY DEF Work!CreateModelRequest
<1>3. m \in Ids /\ db.models[m] = None
  BY <1>2, NewRow
<1> DEFINE result == Work!CreateModel(db, m, c)
<1>4. Good(result.db) /\ Evolves(db, result.db)
  BY <1>1, <1>2, <1>3, ModelMade
<1>5. RunsStay(result.db.pipelines)
  BY <1>1, <1>2, <1>3, ModelMade, SamePipelinesRun DEF Only
<1> HIDE DEF result
<1> QED BY <1>1, <1>2, <1>4, <1>5, DoneAtOnce DEF result

LEMMA CreatePipelineMoves ==
    ASSUME Work!WorkspaceAssumption, WorkInv, NEW c \in Clients, Work!CreatePipelineRequest(c)
    PROVE  Moves(c)
<1>1. c \in Work!Actors /\ c \in Authors /\ c # Work!System /\ Good(db)
  BY IsActor, Writer DEF WorkInv
<1>2. PICK p \in Work!New(db.pipelines) : Work!Once(c, "CreatePipeline",
          Work!CreatePipeline(db, p, c))
  BY DEF Work!CreatePipelineRequest
<1>3. p \in Ids /\ db.pipelines[p] = None
  BY <1>2, NewRow
<1> DEFINE result == Work!CreatePipeline(db, p, c)
<1>4. Good(result.db) /\ Evolves(db, result.db)
  BY <1>1, <1>2, <1>3, PipelineMade
<1>5. RunsStay(result.db.pipelines)
  BY <1>1, <1>2, <1>3, PipelineMade DEF Work!Has, RunsStay, WorkInv
<1> HIDE DEF result
<1> QED BY <1>1, <1>2, <1>4, <1>5, DoneAtOnce DEF result

LEMMA UpdatePipelineMoves ==
    ASSUME Work!WorkspaceAssumption, WorkInv, NEW c \in Clients, Work!UpdatePipelineRequest(c)
    PROVE  Moves(c)
<1>1. c \in Work!Actors /\ c \in Authors /\ c # Work!System /\ Good(db)
  BY IsActor, Writer DEF WorkInv
<1>2. PICK p \in Work!Live(db.pipelines) : Work!Once(c, "UpdatePipeline",
          Work!UpdatePipeline(db, p, Work!Whole(c)))
  BY DEF Work!UpdatePipelineRequest
<1>3. p \in Ids
  BY <1>2 DEF Work!Live
<1>4. Work!Whole(c).name \in Authors /\ Work!Whole(c).body \in Authors
  BY <1>1, WholeFields
<1> DEFINE result == Work!UpdatePipeline(db, p, Work!Whole(c))
<1>5. Good(result.db) /\ Evolves(db, result.db)
  BY <1>1, <1>2, <1>3, <1>4, PipelineEdited
<1>6. RunsStay(result.db.pipelines)
  <2>1. /\ \A j \in Ids : j # p => result.db.pipelines[j] = db.pipelines[j]
        /\ Work!Has(db.pipelines, p) => /\ Work!Has(result.db.pipelines, p)
                                        /\ result.db.pipelines[p].status = db.pipelines[p].status
    BY <1>1, <1>2, <1>3, <1>4, PipelineEdited
  <2> QED BY <2>1 DEF RunsStay, Work!Has, WorkInv
<1> HIDE DEF result
<1> QED BY <1>1, <1>2, <1>5, <1>6, DoneAtOnce DEF result

LEMMA SaveGraphMoves ==
    ASSUME Work!WorkspaceAssumption, WorkInv, NEW c \in Clients, Work!SaveGraph(c)
    PROVE  Moves(c)
<1>1. c \in Work!Actors /\ c \in Authors /\ c # Work!System /\ Good(db)
  BY IsActor, Writer DEF WorkInv
<1>2. PICK p \in Work!Live(db.pipelines) : Work!Once(c, "SaveGraph", Work!SavePipelineGraph(db,
          p, c))
  BY DEF Work!SaveGraph
<1>3. p \in Ids
  BY <1>2 DEF Work!Live
<1> DEFINE result == Work!SavePipelineGraph(db, p, c)
<1>4. Good(result.db) /\ Evolves(db, result.db)
  BY <1>1, <1>2, <1>3, GraphSaved
<1>5. RunsStay(result.db.pipelines)
  BY <1>1, <1>2, <1>3, GraphSaved DEF RunsStay, Work!Has, WorkInv
<1> HIDE DEF result
<1> QED BY <1>1, <1>2, <1>4, <1>5, DoneAtOnce DEF result

LEMMA ToolCreatesQuery ==
    ASSUME Work!WorkspaceAssumption, WorkInv, NEW c \in Assistants, Work!create_saved_query(c)
    PROVE  Moves(c)
<1>1. c \in Work!Actors /\ c \in Authors /\ c # Work!System /\ Good(db)
  BY IsActor, Writer DEF WorkInv
<1>2. PICK q \in Work!New(db.queries) : Work!Once(c, "create_saved_query",
          Work!CreateSavedQuery(db, q, Work!Whole(c)))
  BY DEF Work!create_saved_query
<1>3. q \in Ids /\ db.queries[q] = None
  BY <1>2, NewRow
<1>4. Work!Whole(c).name \in Authors /\ Work!Whole(c).body \in Authors
  BY <1>1, WholeFields
<1> DEFINE result == Work!CreateSavedQuery(db, q, Work!Whole(c))
<1>5. Good(result.db) /\ Evolves(db, result.db)
  BY <1>1, <1>2, <1>3, <1>4, QueryMade
<1>6. RunsStay(result.db.pipelines)
  BY <1>1, <1>2, NotOneClient DEF RunsStay, Work!Once
<1> HIDE DEF result
<1> QED BY <1>1, <1>2, <1>5, <1>6, DoneAtOnce DEF result

LEMMA ToolCreatesModel ==
    ASSUME Work!WorkspaceAssumption, WorkInv, NEW c \in Assistants, Work!create_model(c)
    PROVE  Moves(c)
<1>1. c \in Work!Actors /\ c \in Authors /\ c # Work!System /\ Good(db)
  BY IsActor, Writer DEF WorkInv
<1>2. PICK m \in Work!New(db.models) : Work!Once(c, "create_model", Work!CreateModel(db, m, c))
  BY DEF Work!create_model
<1>3. m \in Ids /\ db.models[m] = None
  BY <1>2, NewRow
<1> DEFINE result == Work!CreateModel(db, m, c)
<1>4. Good(result.db) /\ Evolves(db, result.db)
  BY <1>1, <1>2, <1>3, ModelMade
<1>5. RunsStay(result.db.pipelines)
  BY <1>1, <1>2, NotOneClient DEF RunsStay, Work!Once
<1> HIDE DEF result
<1> QED BY <1>1, <1>2, <1>4, <1>5, DoneAtOnce DEF result

LEMMA ToolCreatesDashboard ==
    ASSUME Work!WorkspaceAssumption, WorkInv, NEW c \in Assistants, Work!create_dashboard(c)
    PROVE  Moves(c)
<1>1. c \in Work!Actors /\ c \in Authors /\ c # Work!System /\ Good(db)
  BY IsActor, Writer DEF WorkInv
<1>2. PICK d \in Work!New(db.dashboards) : Work!Once(c, "create_dashboard",
          Work!CreateDashboard(db, d, c))
  BY DEF Work!create_dashboard
<1>3. d \in Ids /\ db.dashboards[d] = None
  BY <1>2, NewRow
<1> DEFINE result == Work!CreateDashboard(db, d, c)
<1>4. Good(result.db) /\ Evolves(db, result.db)
  BY <1>1, <1>2, <1>3, DashboardMade
<1>5. RunsStay(result.db.pipelines)
  BY <1>1, <1>2, NotOneClient DEF RunsStay, Work!Once
<1> HIDE DEF result
<1> QED BY <1>1, <1>2, <1>4, <1>5, DoneAtOnce DEF result

LEMMA ToolCreatesPipeline ==
    ASSUME Work!WorkspaceAssumption, WorkInv, NEW c \in Assistants, Work!create_pipeline(c)
    PROVE  Moves(c)
<1>1. c \in Work!Actors /\ c \in Authors /\ c # Work!System /\ Good(db)
  BY IsActor, Writer DEF WorkInv
<1>2. PICK p \in Work!New(db.pipelines) : Work!Once(c, "create_pipeline",
          Work!CreatePipeline(db, p, c))
  BY DEF Work!create_pipeline
<1>3. p \in Ids /\ db.pipelines[p] = None
  BY <1>2, NewRow
<1> DEFINE result == Work!CreatePipeline(db, p, c)
<1>4. Good(result.db) /\ Evolves(db, result.db)
  BY <1>1, <1>2, <1>3, PipelineMade
<1>5. RunsStay(result.db.pipelines)
  BY <1>1, <1>2, NotOneClient DEF RunsStay, Work!Once
<1> HIDE DEF result
<1> QED BY <1>1, <1>2, <1>4, <1>5, DoneAtOnce DEF result

LEMMA ToolDeletesDashboard ==
    ASSUME Work!WorkspaceAssumption, WorkInv, NEW c \in Assistants, Work!delete_dashboard(c)
    PROVE  Moves(c)
<1>1. c \in Work!Actors /\ c \in Authors /\ c # Work!System /\ Good(db)
  BY IsActor, Writer DEF WorkInv
<1>2. PICK d \in Ids : Work!Once(c, "delete_dashboard", Work!DeleteDashboard(db, d))
  BY DEF Work!delete_dashboard
<1> DEFINE result == Work!DeleteDashboard(db, d)
<1>3. Good(result.db) /\ Evolves(db, result.db)
  BY <1>1, <1>2, DashboardDeleted
<1>4. RunsStay(result.db.pipelines)
  BY <1>1, <1>2, NotOneClient DEF RunsStay, Work!Once
<1> HIDE DEF result
<1> QED BY <1>1, <1>2, <1>3, <1>4, DoneAtOnce DEF result

LEMMA ToolDeletesPanel ==
    ASSUME Work!WorkspaceAssumption, WorkInv, NEW c \in Assistants, Work!delete_dashboard_panel(c)
    PROVE  Moves(c)
<1>1. c \in Work!Actors /\ c \in Authors /\ c # Work!System /\ Good(db)
  BY IsActor, Writer DEF WorkInv
<1>2. PICK p \in Ids : Work!Once(c, "delete_dashboard_panel", Work!DeletePanel(db, p))
  BY DEF Work!delete_dashboard_panel
<1> DEFINE result == Work!DeletePanel(db, p)
<1>3. Good(result.db) /\ Evolves(db, result.db)
  BY <1>1, <1>2, PanelDeleted
<1>4. RunsStay(result.db.pipelines)
  BY <1>1, <1>2, NotOneClient DEF RunsStay, Work!Once
<1> HIDE DEF result
<1> QED BY <1>1, <1>2, <1>3, <1>4, DoneAtOnce DEF result

LEMMA ToolDeletesModel ==
    ASSUME Work!WorkspaceAssumption, WorkInv, NEW c \in Assistants, Work!delete_model(c)
    PROVE  Moves(c)
<1>1. c \in Work!Actors /\ c \in Authors /\ c # Work!System /\ Good(db)
  BY IsActor, Writer DEF WorkInv
<1>2. PICK m \in Ids : Work!Once(c, "delete_model", Work!DeleteModel(db, m))
  BY DEF Work!delete_model
<1> DEFINE result == Work!DeleteModel(db, m)
<1>3. Good(result.db) /\ Evolves(db, result.db)
  BY <1>1, <1>2, ModelDeleted
<1>4. RunsStay(result.db.pipelines)
  BY <1>1, <1>2, NotOneClient DEF RunsStay, Work!Once
<1> HIDE DEF result
<1> QED BY <1>1, <1>2, <1>3, <1>4, DoneAtOnce DEF result

LEMMA ToolDeletesQuery ==
    ASSUME Work!WorkspaceAssumption, WorkInv, NEW c \in Assistants, Work!delete_saved_query(c)
    PROVE  Moves(c)
<1>1. c \in Work!Actors /\ c \in Authors /\ c # Work!System /\ Good(db)
  BY IsActor, Writer DEF WorkInv
<1>2. PICK q \in Ids : Work!Once(c, "delete_saved_query", Work!DeleteSavedQuery(db, q))
  BY DEF Work!delete_saved_query
<1> DEFINE result == Work!DeleteSavedQuery(db, q)
<1>3. Good(result.db) /\ Evolves(db, result.db)
  BY <1>1, <1>2, QueryDeleted
<1>4. RunsStay(result.db.pipelines)
  BY <1>1, <1>2, NotOneClient DEF RunsStay, Work!Once
<1> HIDE DEF result
<1> QED BY <1>1, <1>2, <1>3, <1>4, DoneAtOnce DEF result

LEMMA ToolDeletesPipeline ==
    ASSUME Work!WorkspaceAssumption, WorkInv, NEW c \in Assistants, Work!delete_pipeline(c)
    PROVE  Moves(c)
<1>1. c \in Work!Actors /\ c \in Authors /\ c # Work!System /\ Good(db)
  BY IsActor, Writer DEF WorkInv
<1>2. PICK p \in Ids : Work!Once(c, "delete_pipeline", Work!DeletePipeline(db, p))
  BY DEF Work!delete_pipeline
<1> DEFINE result == Work!DeletePipeline(db, p)
<1>3. Good(result.db) /\ Evolves(db, result.db)
  BY <1>1, <1>2, PipelineDeleted
<1>4. RunsStay(result.db.pipelines)
  BY <1>1, <1>2, NotOneClient DEF RunsStay, Work!Once
<1> HIDE DEF result
<1> QED BY <1>1, <1>2, <1>3, <1>4, DoneAtOnce DEF result

LEMMA ToolSchedulesModel ==
    ASSUME Work!WorkspaceAssumption, WorkInv, NEW c \in Assistants, Work!schedule_model(c)
    PROVE  Moves(c)
<1>1. c \in Work!Actors /\ c \in Authors /\ c # Work!System /\ Good(db)
  BY IsActor, Writer DEF WorkInv
<1>2. PICK x \in Work!New(db.timers), m \in Ids : Work!Once(c, "schedule_model",
          Work!UpsertModelSchedule(db, x, m))
  BY DEF Work!schedule_model
<1>3. x \in Ids /\ db.timers[x] = None
  BY <1>2, NewRow
<1> DEFINE result == Work!UpsertModelSchedule(db, x, m)
<1>4. Good(result.db) /\ Evolves(db, result.db)
  BY <1>1, <1>2, <1>3, TimerMade
<1>5. RunsStay(result.db.pipelines)
  BY <1>1, <1>2, NotOneClient DEF RunsStay, Work!Once
<1> HIDE DEF result
<1> QED BY <1>1, <1>2, <1>4, <1>5, DoneAtOnce DEF result

LEMMA UpdateDashboardMoves ==
    ASSUME Work!WorkspaceAssumption, WorkInv, NEW c \in Clients, Work!UpdateDashboardRequest(c)
    PROVE  Moves(c)
<1>0. /\ c \in Work!Actors /\ c \in Authors /\ c # Work!System /\ Good(db) /\ Formed(actor[c])
      /\ Known(db, actor[c])
  BY IsActor, Writer DEF WorkInv
<1>1. ASSUME NEW d \in Work!Live(db.dashboards), NEW e \in Work!Edits, Work!Ask(c,
          Work!EditOf("UpdateDashboard", db.dashboards, d, e))
      PROVE  Moves(c)
  BY <1>1, <1>0, RowFields, EditAsked DEF Work!Live, Work!LooksUp, Good, Editing
<1>2. ASSUME Work!Answer(c, "UpdateDashboard", Work!UpdateDashboard(db, actor[c].id,
          Work!Merged(c)))
      PROVE  Moves(c)
  <2>1. actor[c].op = "UpdateDashboard"
    BY <1>2 DEF Work!Answer
  <2>2. /\ actor[c].id \in Ids
        /\ Work!Merged(c).name \in Authors /\ Work!Merged(c).body \in Authors
        /\ "name" \notin actor[c].named => Work!Merged(c).name = actor[c].seen.name
        /\ "body" \notin actor[c].named => Work!Merged(c).body = actor[c].seen.body
    BY <1>0, <2>1, MergedFields DEF Editing
  <2> DEFINE result == Work!UpdateDashboard(db, actor[c].id, Work!Merged(c))
  <2>3. Good(result.db) /\ Evolves(db, result.db)
    BY <1>0, <1>2, <2>1, <2>2, DashboardEdited
  <2>4. RunsStay(result.db.pipelines)
    BY <1>0, <1>2, <2>1, <2>2, DashboardEdited, SamePipelinesRun DEF Only
  <2>5. EditDone(db, result.db, actor[c])
    BY <1>0, <1>2, <2>1, <2>2, DashboardEdited, DashboardEditDone DEF Editing
  <2> HIDE DEF result
  <2> QED BY <1>0, <1>2, <2>3, <2>4, <2>5, Answered DEF result
<1> QED BY <1>1, <1>2 DEF Work!UpdateDashboardRequest

LEMMA UpdateQueryMoves ==
    ASSUME Work!WorkspaceAssumption, WorkInv, NEW c \in Clients, Work!UpdateQueryRequest(c)
    PROVE  Moves(c)
<1>0. /\ c \in Work!Actors /\ c \in Authors /\ c # Work!System /\ Good(db) /\ Formed(actor[c])
      /\ Known(db, actor[c])
  BY IsActor, Writer DEF WorkInv
<1>1. ASSUME NEW q \in Work!Live(db.queries), NEW e \in Work!Edits, Work!Ask(c,
          Work!EditOf("UpdateQuery", db.queries, q, e))
      PROVE  Moves(c)
  BY <1>1, <1>0, RowFields, EditAsked DEF Work!Live, Work!LooksUp, Good, Editing
<1>2. ASSUME Work!Answer(c, "UpdateQuery", Work!UpdateSavedQuery(db, actor[c].id, Work!Merged(c)))
      PROVE  Moves(c)
  <2>1. actor[c].op = "UpdateQuery"
    BY <1>2 DEF Work!Answer
  <2>2. /\ actor[c].id \in Ids
        /\ Work!Merged(c).name \in Authors /\ Work!Merged(c).body \in Authors
        /\ "name" \notin actor[c].named => Work!Merged(c).name = actor[c].seen.name
        /\ "body" \notin actor[c].named => Work!Merged(c).body = actor[c].seen.body
    BY <1>0, <2>1, MergedFields DEF Editing
  <2> DEFINE result == Work!UpdateSavedQuery(db, actor[c].id, Work!Merged(c))
  <2>3. Good(result.db) /\ Evolves(db, result.db)
    BY <1>0, <1>2, <2>1, <2>2, QueryEdited
  <2>4. RunsStay(result.db.pipelines)
    BY <1>0, <1>2, <2>1, <2>2, QueryEdited, SamePipelinesRun DEF Only
  <2>5. EditDone(db, result.db, actor[c])
    BY <1>0, <1>2, <2>1, <2>2, QueryEdited, QueryEditDone DEF Editing
  <2> HIDE DEF result
  <2> QED BY <1>0, <1>2, <2>3, <2>4, <2>5, Answered DEF result
<1> QED BY <1>1, <1>2 DEF Work!UpdateQueryRequest

LEMMA UpdateModelMoves ==
    ASSUME Work!WorkspaceAssumption, WorkInv, NEW c \in Clients, Work!UpdateModelRequest(c)
    PROVE  Moves(c)
<1>0. /\ c \in Work!Actors /\ c \in Authors /\ c # Work!System /\ Good(db) /\ Formed(actor[c])
      /\ Known(db, actor[c])
  BY IsActor, Writer DEF WorkInv
<1>1. ASSUME NEW m \in Work!Live(db.models), NEW e \in SUBSET Work!ModelFields, Work!Ask(c,
          Work!EditOf("UpdateModel", db.models, m, e))
      PROVE  Moves(c)
  BY <1>1, <1>0, RowFields, EditAsked DEF Work!Live, Work!LooksUp, Good, Editing
<1> DEFINE row == [Work!MergedModel(c) EXCEPT !.description = c]
<1>2. ASSUME Work!Answer(c, "UpdateModel", Work!UpdateModel(db, actor[c].id, row))
      PROVE  Moves(c)
  <2>1. actor[c].op = "UpdateModel"
    BY <1>2 DEF Work!Answer
  <2>2. /\ actor[c].id \in Ids
        /\ row.name \in Authors /\ row.body \in Authors /\ row.description \in Authors
        /\ "name" \notin actor[c].named => row.name = actor[c].seen.name
        /\ "body" \notin actor[c].named => row.body = actor[c].seen.body
        /\ "description" \notin actor[c].named /\ actor[c].op # "UpdateModel" =>
               row.description = actor[c].seen.description
    BY <1>0, <2>1, MergedModelFields DEF Work!ModelFields, Work!Fields
  <2> HIDE DEF row
  <2> DEFINE result == Work!UpdateModel(db, actor[c].id, row)
  <2>3. Good(result.db) /\ Evolves(db, result.db)
    BY <1>0, <1>2, <2>1, <2>2, ModelEdited
  <2>4. RunsStay(result.db.pipelines)
    BY <1>0, <1>2, <2>1, <2>2, ModelEdited, SamePipelinesRun DEF Only
  <2>5. EditDone(db, result.db, actor[c])
    BY <1>0, <1>2, <2>1, <2>2, ModelEdited, ModelEditDone DEF Editing
  <2> HIDE DEF result
  <2> QED BY <1>0, <1>2, <2>3, <2>4, <2>5, Answered DEF result
<1> QED BY <1>1, <1>2 DEF Work!UpdateModelRequest

LEMMA ToolEditsQuery ==
    ASSUME Work!WorkspaceAssumption, WorkInv, NEW c \in Assistants, Work!update_saved_query(c)
    PROVE  Moves(c)
<1>0. /\ c \in Work!Actors /\ c \in Authors /\ c # Work!System /\ Good(db) /\ Formed(actor[c])
      /\ Known(db, actor[c])
  BY IsActor, Writer DEF WorkInv
<1>1. ASSUME NEW q \in Ids, NEW e \in SUBSET Work!Fields, Work!LooksUp(c, db.queries,
          "update_saved_query", q, e)
      PROVE  Moves(c)
  BY <1>1, <1>0, RowFields, EditAsked DEF Work!Live, Work!LooksUp, Good, Editing
<1>2. ASSUME Work!Answer(c, "update_saved_query", Work!UpdateSavedQuery(db, actor[c].id,
          Work!Merged(c)))
      PROVE  Moves(c)
  <2>1. actor[c].op = "update_saved_query"
    BY <1>2 DEF Work!Answer
  <2>2. /\ actor[c].id \in Ids
        /\ Work!Merged(c).name \in Authors /\ Work!Merged(c).body \in Authors
        /\ "name" \notin actor[c].named => Work!Merged(c).name = actor[c].seen.name
        /\ "body" \notin actor[c].named => Work!Merged(c).body = actor[c].seen.body
    BY <1>0, <2>1, MergedFields DEF Editing
  <2> DEFINE result == Work!UpdateSavedQuery(db, actor[c].id, Work!Merged(c))
  <2>3. Good(result.db) /\ Evolves(db, result.db)
    BY <1>0, <1>2, <2>1, <2>2, QueryEdited
  <2>4. RunsStay(result.db.pipelines)
    BY <1>0, <1>2, <2>1, <2>2, QueryEdited, SamePipelinesRun DEF Only
  <2>5. EditDone(db, result.db, actor[c])
    BY <1>0, <1>2, <2>1, <2>2, QueryEdited, QueryEditDone DEF Editing
  <2> HIDE DEF result
  <2> QED BY <1>0, <1>2, <2>3, <2>4, <2>5, Answered DEF result
<1> QED BY <1>1, <1>2 DEF Work!update_saved_query

LEMMA ToolEditsModel ==
    ASSUME Work!WorkspaceAssumption, WorkInv, NEW c \in Assistants, Work!update_model(c)
    PROVE  Moves(c)
<1>0. /\ c \in Work!Actors /\ c \in Authors /\ c # Work!System /\ Good(db) /\ Formed(actor[c])
      /\ Known(db, actor[c])
  BY IsActor, Writer DEF WorkInv
<1>1. ASSUME NEW m \in Ids, NEW e \in SUBSET Work!ModelFields, Work!LooksUp(c, db.models,
          "update_model", m, e)
      PROVE  Moves(c)
  BY <1>1, <1>0, RowFields, EditAsked DEF Work!Live, Work!LooksUp, Good, Editing
<1> DEFINE row == Work!MergedModel(c)
<1>2. ASSUME Work!Answer(c, "update_model", Work!UpdateModel(db, actor[c].id, row))
      PROVE  Moves(c)
  <2>1. actor[c].op = "update_model"
    BY <1>2 DEF Work!Answer
  <2>2. /\ actor[c].id \in Ids
        /\ row.name \in Authors /\ row.body \in Authors /\ row.description \in Authors
        /\ "name" \notin actor[c].named => row.name = actor[c].seen.name
        /\ "body" \notin actor[c].named => row.body = actor[c].seen.body
        /\ "description" \notin actor[c].named /\ actor[c].op # "UpdateModel" =>
               row.description = actor[c].seen.description
    BY <1>0, <2>1, MergedModelFields DEF Work!ModelFields, Work!Fields
  <2> HIDE DEF row
  <2> DEFINE result == Work!UpdateModel(db, actor[c].id, row)
  <2>3. Good(result.db) /\ Evolves(db, result.db)
    BY <1>0, <1>2, <2>1, <2>2, ModelEdited
  <2>4. RunsStay(result.db.pipelines)
    BY <1>0, <1>2, <2>1, <2>2, ModelEdited, SamePipelinesRun DEF Only
  <2>5. EditDone(db, result.db, actor[c])
    BY <1>0, <1>2, <2>1, <2>2, ModelEdited, ModelEditDone DEF Editing
  <2> HIDE DEF result
  <2> QED BY <1>0, <1>2, <2>3, <2>4, <2>5, Answered DEF result
<1> QED BY <1>1, <1>2 DEF Work!update_model

LEMMA DeleteDashboardMoves ==
    ASSUME Work!WorkspaceAssumption, WorkInv, NEW c \in Clients, Work!DeleteDashboardRequest(c)
    PROVE  Moves(c)
<1>0. /\ c \in Work!Actors /\ c \in Authors /\ c # Work!System /\ Good(db) /\ Formed(actor[c])
      /\ Known(db, actor[c])
  BY IsActor, Writer DEF WorkInv
<1>1. ASSUME NEW d \in Work!Live(db.dashboards), Work!Ask(c, [op |-> "DeleteDashboard", id |-> d])
      PROVE  Moves(c)
  <2> DEFINE r == [op |-> "DeleteDashboard", id |-> d]
  <2>1. /\ Formed(r) /\ Known(db, r) /\ r.op # "idle"
        /\ (r.op = "DeletePipeline" => (OneClient => live[r.id] # "going"))
        /\ r.op # "Launch" /\ Work!Ask(c, r)
    BY <1>0, <1>1 DEF Formed, Known, Editing, Work!Live
  <2> HIDE DEF r
  <2> QED BY <1>0, <2>1, Asked
<1>2. ASSUME Work!Answer(c, "DeleteDashboard", Work!DeleteDashboard(db, actor[c].id))
      PROVE  Moves(c)
  <2>1. actor[c].op = "DeleteDashboard"
    BY <1>2 DEF Work!Answer
  <2>2. actor[c].id \in Ids
    BY <1>0, <2>1 DEF Formed
  <2> DEFINE result == Work!DeleteDashboard(db, actor[c].id)
  <2>3. Good(result.db) /\ Evolves(db, result.db)
    BY <1>0, <1>2, <2>1, <2>2, DashboardDeleted
  <2>4. RunsStay(result.db.pipelines)
    BY <1>0, <1>2, <2>1, <2>2, DashboardDeleted, SamePipelinesRun DEF Only
  <2>5. EditDone(db, result.db, actor[c])
    BY <1>0, <2>1, NoEdit DEF Editing
  <2> HIDE DEF result
  <2> QED BY <1>0, <1>2, <2>3, <2>4, <2>5, Answered DEF result
<1> QED BY <1>1, <1>2 DEF Work!DeleteDashboardRequest

LEMMA CreatePanelMoves ==
    ASSUME Work!WorkspaceAssumption, WorkInv, NEW c \in Clients, Work!CreatePanelRequest(c)
    PROVE  Moves(c)
<1>0. /\ c \in Work!Actors /\ c \in Authors /\ c # Work!System /\ Good(db) /\ Formed(actor[c])
      /\ Known(db, actor[c])
  BY IsActor, Writer DEF WorkInv
<1>1. ASSUME NEW d \in Work!Live(db.dashboards), Work!Ask(c, [op |-> "CreatePanel", id |-> d])
      PROVE  Moves(c)
  <2> DEFINE r == [op |-> "CreatePanel", id |-> d]
  <2>1. /\ Formed(r) /\ Known(db, r) /\ r.op # "idle"
        /\ (r.op = "DeletePipeline" => (OneClient => live[r.id] # "going"))
        /\ r.op # "Launch" /\ Work!Ask(c, r)
    BY <1>0, <1>1 DEF Formed, Known, Editing, Work!Live
  <2> HIDE DEF r
  <2> QED BY <1>0, <2>1, Asked
<1>2. ASSUME NEW p \in Work!New(db.panels), Work!Answer(c, "CreatePanel", Work!CreatePanel(db,
          p, actor[c].id, c))
      PROVE  Moves(c)
  <2>1. actor[c].op = "CreatePanel"
    BY <1>2 DEF Work!Answer
  <2>2. actor[c].id \in Ids
    BY <1>0, <2>1 DEF Formed
  <2>3. p \in Ids /\ db.panels[p] = None
    BY <1>2, NewRow
  <2> DEFINE result == Work!CreatePanel(db, p, actor[c].id, c)
  <2>4. Good(result.db) /\ Evolves(db, result.db)
    BY <1>0, <1>2, <2>1, <2>2, <2>3, PanelMade
  <2>5. RunsStay(result.db.pipelines)
    <3>1. Only(db, result.db, {"panels"})
      BY <1>0, <1>2, <2>1, <2>2, <2>3, PanelMade
    <3> QED BY <3>1, SamePipelinesRun DEF Only
  <2>6. EditDone(db, result.db, actor[c])
    BY <1>0, <2>1, NoEdit DEF Editing
  <2> HIDE DEF result
  <2> QED BY <1>0, <1>2, <2>4, <2>5, <2>6, Answered DEF result
<1> QED BY <1>1, <1>2 DEF Work!CreatePanelRequest

LEMMA ToolAddsPanel ==
    ASSUME Work!WorkspaceAssumption, WorkInv, NEW c \in Assistants, Work!add_dashboard_panel(c)
    PROVE  Moves(c)
<1>0. /\ c \in Work!Actors /\ c \in Authors /\ c # Work!System /\ Good(db) /\ Formed(actor[c])
      /\ Known(db, actor[c])
  BY IsActor, Writer DEF WorkInv
<1>1. ASSUME NEW d \in Work!Live(db.dashboards), Work!Ask(c, [op |-> "add_dashboard_panel",
          id |-> d])
      PROVE  Moves(c)
  <2> DEFINE r == [op |-> "add_dashboard_panel", id |-> d]
  <2>1. /\ Formed(r) /\ Known(db, r) /\ r.op # "idle"
        /\ (r.op = "DeletePipeline" => (OneClient => live[r.id] # "going"))
        /\ r.op # "Launch" /\ Work!Ask(c, r)
    BY <1>0, <1>1 DEF Formed, Known, Editing, Work!Live
  <2> HIDE DEF r
  <2> QED BY <1>0, <2>1, Asked
<1>2. ASSUME NEW p \in Work!New(db.panels), Work!Answer(c, "add_dashboard_panel",
          Work!CreatePanel(db, p, actor[c].id, c))
      PROVE  Moves(c)
  <2>1. actor[c].op = "add_dashboard_panel"
    BY <1>2 DEF Work!Answer
  <2>2. actor[c].id \in Ids
    BY <1>0, <2>1 DEF Formed
  <2>3. p \in Ids /\ db.panels[p] = None
    BY <1>2, NewRow
  <2> DEFINE result == Work!CreatePanel(db, p, actor[c].id, c)
  <2>4. Good(result.db) /\ Evolves(db, result.db)
    BY <1>0, <1>2, <2>1, <2>2, <2>3, PanelMade
  <2>5. RunsStay(result.db.pipelines)
    <3>1. Only(db, result.db, {"panels"})
      BY <1>0, <1>2, <2>1, <2>2, <2>3, PanelMade
    <3> QED BY <3>1, SamePipelinesRun DEF Only
  <2>6. EditDone(db, result.db, actor[c])
    BY <1>0, <2>1, NoEdit DEF Editing
  <2> HIDE DEF result
  <2> QED BY <1>0, <1>2, <2>4, <2>5, <2>6, Answered DEF result
<1> QED BY <1>1, <1>2 DEF Work!add_dashboard_panel

LEMMA DeleteQueryMoves ==
    ASSUME Work!WorkspaceAssumption, WorkInv, NEW c \in Clients, Work!DeleteQueryRequest(c)
    PROVE  Moves(c)
<1>0. /\ c \in Work!Actors /\ c \in Authors /\ c # Work!System /\ Good(db) /\ Formed(actor[c])
      /\ Known(db, actor[c])
  BY IsActor, Writer DEF WorkInv
<1>1. ASSUME NEW q \in Work!Live(db.queries), Work!Ask(c, [op |-> "DeleteQuery", id |-> q])
      PROVE  Moves(c)
  <2> DEFINE r == [op |-> "DeleteQuery", id |-> q]
  <2>1. /\ Formed(r) /\ Known(db, r) /\ r.op # "idle"
        /\ (r.op = "DeletePipeline" => (OneClient => live[r.id] # "going"))
        /\ r.op # "Launch" /\ Work!Ask(c, r)
    BY <1>0, <1>1 DEF Formed, Known, Editing, Work!Live
  <2> HIDE DEF r
  <2> QED BY <1>0, <2>1, Asked
<1>2. ASSUME Work!Answer(c, "DeleteQuery", Work!DeleteSavedQuery(db, actor[c].id))
      PROVE  Moves(c)
  <2>1. actor[c].op = "DeleteQuery"
    BY <1>2 DEF Work!Answer
  <2>2. actor[c].id \in Ids
    BY <1>0, <2>1 DEF Formed
  <2> DEFINE result == Work!DeleteSavedQuery(db, actor[c].id)
  <2>3. Good(result.db) /\ Evolves(db, result.db)
    BY <1>0, <1>2, <2>1, <2>2, QueryDeleted
  <2>4. RunsStay(result.db.pipelines)
    BY <1>0, <1>2, <2>1, <2>2, QueryDeleted, SamePipelinesRun DEF Only
  <2>5. EditDone(db, result.db, actor[c])
    BY <1>0, <2>1, NoEdit DEF Editing
  <2> HIDE DEF result
  <2> QED BY <1>0, <1>2, <2>3, <2>4, <2>5, Answered DEF result
<1> QED BY <1>1, <1>2 DEF Work!DeleteQueryRequest

LEMMA DeleteModelMoves ==
    ASSUME Work!WorkspaceAssumption, WorkInv, NEW c \in Clients, Work!DeleteModelRequest(c)
    PROVE  Moves(c)
<1>0. /\ c \in Work!Actors /\ c \in Authors /\ c # Work!System /\ Good(db) /\ Formed(actor[c])
      /\ Known(db, actor[c])
  BY IsActor, Writer DEF WorkInv
<1>1. ASSUME NEW m \in Work!Live(db.models), Work!Ask(c, [op |-> "DeleteModel", id |-> m])
      PROVE  Moves(c)
  <2> DEFINE r == [op |-> "DeleteModel", id |-> m]
  <2>1. /\ Formed(r) /\ Known(db, r) /\ r.op # "idle"
        /\ (r.op = "DeletePipeline" => (OneClient => live[r.id] # "going"))
        /\ r.op # "Launch" /\ Work!Ask(c, r)
    BY <1>0, <1>1 DEF Formed, Known, Editing, Work!Live
  <2> HIDE DEF r
  <2> QED BY <1>0, <2>1, Asked
<1>2. ASSUME Work!Answer(c, "DeleteModel", Work!DeleteModel(db, actor[c].id))
      PROVE  Moves(c)
  <2>1. actor[c].op = "DeleteModel"
    BY <1>2 DEF Work!Answer
  <2>2. actor[c].id \in Ids
    BY <1>0, <2>1 DEF Formed
  <2> DEFINE result == Work!DeleteModel(db, actor[c].id)
  <2>3. Good(result.db) /\ Evolves(db, result.db)
    BY <1>0, <1>2, <2>1, <2>2, ModelDeleted
  <2>4. RunsStay(result.db.pipelines)
    BY <1>0, <1>2, <2>1, <2>2, ModelDeleted, SamePipelinesRun DEF Only
  <2>5. EditDone(db, result.db, actor[c])
    BY <1>0, <2>1, NoEdit DEF Editing
  <2> HIDE DEF result
  <2> QED BY <1>0, <1>2, <2>3, <2>4, <2>5, Answered DEF result
<1> QED BY <1>1, <1>2 DEF Work!DeleteModelRequest

LEMMA ToolConfiguresPipeline ==
    ASSUME Work!WorkspaceAssumption, WorkInv, NEW c \in Assistants, Work!configure_pipeline(c)
    PROVE  Moves(c)
<1>0. /\ c \in Work!Actors /\ c \in Authors /\ c # Work!System /\ Good(db) /\ Formed(actor[c])
      /\ Known(db, actor[c])
  BY IsActor, Writer DEF WorkInv
<1>1. ASSUME NEW p \in Ids, Work!Ask(c, [op |-> "configure_pipeline", id |-> p])
      PROVE  Moves(c)
  <2> DEFINE r == [op |-> "configure_pipeline", id |-> p]
  <2>1. /\ Formed(r) /\ Known(db, r) /\ r.op # "idle"
        /\ (r.op = "DeletePipeline" => (OneClient => live[r.id] # "going"))
        /\ r.op # "Launch" /\ Work!Ask(c, r)
    BY <1>0, <1>1 DEF Formed, Known, Editing, Work!Live
  <2> HIDE DEF r
  <2> QED BY <1>0, <2>1, Asked
<1>2. ASSUME Work!Answer(c, "configure_pipeline", Work!SavePipelineGraph(db, actor[c].id, c))
      PROVE  Moves(c)
  <2>1. actor[c].op = "configure_pipeline"
    BY <1>2 DEF Work!Answer
  <2>2. actor[c].id \in Ids
    BY <1>0, <2>1 DEF Formed
  <2> DEFINE result == Work!SavePipelineGraph(db, actor[c].id, c)
  <2>3. Good(result.db) /\ Evolves(db, result.db)
    BY <1>0, <1>2, <2>1, <2>2, GraphSaved
  <2>4. RunsStay(result.db.pipelines)
    BY <1>0, <1>2, <2>1, NotOneClient DEF RunsStay, WorkInv, Work!Idle
  <2>5. EditDone(db, result.db, actor[c])
    BY <1>0, <2>1, NoEdit DEF Editing
  <2> HIDE DEF result
  <2> QED BY <1>0, <1>2, <2>3, <2>4, <2>5, Answered DEF result
<1> QED BY <1>1, <1>2 DEF Work!configure_pipeline

LEMMA DeletePipelineMoves ==
    ASSUME Work!WorkspaceAssumption, WorkInv, NEW c \in Clients, Work!DeletePipelineRequest(c)
    PROVE  Moves(c)
<1>0. /\ c \in Work!Actors /\ c \in Authors /\ c # Work!System /\ Good(db) /\ Formed(actor[c])
      /\ Known(db, actor[c])
  BY IsActor, Writer DEF WorkInv
<1>1. ASSUME NEW p \in Work!Live(db.pipelines), Work!Stopped(p), Work!Ask(c,
          [op |-> "DeletePipeline", id |-> p])
      PROVE  Moves(c)
  <2> DEFINE r == [op |-> "DeletePipeline", id |-> p]
  <2>1. /\ Formed(r) /\ Known(db, r) /\ r.op # "idle"
        /\ (r.op = "DeletePipeline" => (OneClient => live[r.id] # "going"))
        /\ r.op # "Launch" /\ Work!Ask(c, r)
    BY <1>0, <1>1 DEF Formed, Known, Editing, Work!Live, Work!Stopped, WorkInv, RunsOK, RunsIn
  <2> HIDE DEF r
  <2> QED BY <1>0, <2>1, Asked
<1>2. ASSUME Work!Answer(c, "DeletePipeline", Work!DeletePipeline(db, actor[c].id))
      PROVE  Moves(c)
  <2>1. actor[c].op = "DeletePipeline"
    BY <1>2 DEF Work!Answer
  <2>2. actor[c].id \in Ids
    BY <1>0, <2>1 DEF Formed
  <2> DEFINE result == Work!DeletePipeline(db, actor[c].id)
  <2>3. Good(result.db) /\ Evolves(db, result.db)
    BY <1>0, <1>2, <2>1, <2>2, PipelineDeleted
  <2>4. RunsStay(result.db.pipelines)
    BY <1>0, <2>1, <2>2, OthersUntouched DEF WorkInv, RunsOK, Relies, RunsStay, Work!Has
  <2>5. EditDone(db, result.db, actor[c])
    BY <1>0, <2>1, NoEdit DEF Editing
  <2> HIDE DEF result
  <2> QED BY <1>0, <1>2, <2>3, <2>4, <2>5, Answered DEF result
<1> QED BY <1>1, <1>2 DEF Work!DeletePipelineRequest

LEMMA DeletePanelMoves ==
    ASSUME Work!WorkspaceAssumption, WorkInv, NEW c \in Clients, Work!DeletePanelRequest(c)
    PROVE  Moves(c)
<1>0. /\ c \in Work!Actors /\ c \in Authors /\ c # Work!System /\ Good(db) /\ Formed(actor[c])
      /\ Known(db, actor[c])
  BY IsActor, Writer DEF WorkInv
<1>1. ASSUME NEW d \in Ids, NEW p \in Ids, Work!Names(d, p), Work!Ask(c, [op |-> "DeletePanel",
          id |-> p, of |-> d])
      PROVE  Moves(c)
  <2> DEFINE r == [op |-> "DeletePanel", id |-> p, of |-> d]
  <2>1. /\ Formed(r) /\ Known(db, r) /\ r.op # "idle"
        /\ (r.op = "DeletePipeline" => (OneClient => live[r.id] # "going"))
        /\ r.op # "Launch" /\ Work!Ask(c, r)
    BY <1>0, <1>1 DEF Formed, Known, Editing, Work!Live, Work!Names, Work!Has
  <2> HIDE DEF r
  <2> QED BY <1>0, <2>1, Asked
<1>2. ASSUME Work!Answer(c, "DeletePanel", Work!DeletePanel(db, actor[c].id))
      PROVE  Moves(c)
  <2>1. actor[c].op = "DeletePanel"
    BY <1>2 DEF Work!Answer
  <2>2. actor[c].id \in Ids
    BY <1>0, <2>1 DEF Formed
  <2> DEFINE result == Work!DeletePanel(db, actor[c].id)
  <2>3. Good(result.db) /\ Evolves(db, result.db)
    BY <1>0, <1>2, <2>1, <2>2, PanelDeleted
  <2>4. RunsStay(result.db.pipelines)
    BY <1>0, <1>2, <2>1, <2>2, PanelDeleted, SamePipelinesRun DEF Only
  <2>5. EditDone(db, result.db, actor[c])
    BY <1>0, <2>2, OthersUntouched, <2>1 DEF Known, Formed, Editing, EditDone
  <2> HIDE DEF result
  <2> QED BY <1>0, <1>2, <2>3, <2>4, <2>5, Answered DEF result
<1> QED BY <1>1, <1>2 DEF Work!DeletePanelRequest

LEMMA UpdatePanelMoves ==
    ASSUME Work!WorkspaceAssumption, WorkInv, NEW c \in Clients, Work!UpdatePanelRequest(c)
    PROVE  Moves(c)
<1>0. /\ c \in Work!Actors /\ c \in Authors /\ c # Work!System /\ Good(db) /\ Formed(actor[c])
      /\ Known(db, actor[c])
  BY IsActor, Writer DEF WorkInv
<1>1. ASSUME NEW d \in Ids, NEW p \in Ids, NEW e \in Work!Edits, Work!Names(d, p),
             Work!Ask(c, [op |-> "UpdatePanel", id |-> p, named |-> e, seen |-> db.panels[p],
                 of |-> d])
      PROVE  Moves(c)
  <2> DEFINE r == [op |-> "UpdatePanel", id |-> p, named |-> e, seen |-> db.panels[p], of |-> d]
  <2>1. /\ Formed(r) /\ Known(db, r) /\ r.op # "idle"
        /\ (r.op = "DeletePipeline" => (OneClient => live[r.id] # "going"))
        /\ r.op # "Launch" /\ Work!Ask(c, r)
    BY <1>0, <1>1, RowFields DEF Formed, Known, Editing, Work!Live, Work!Names, Work!Has, Good
  <2> HIDE DEF r
  <2> QED BY <1>0, <2>1, Asked
<1>2. ASSUME Work!Answer(c, "UpdatePanel", Work!UpdatePanel(db, actor[c].id, Work!Merged(c)))
      PROVE  Moves(c)
  <2>1. actor[c].op = "UpdatePanel"
    BY <1>2 DEF Work!Answer
  <2>2. /\ actor[c].id \in Ids
        /\ Work!Merged(c).name \in Authors /\ Work!Merged(c).body \in Authors
        /\ "name" \notin actor[c].named => Work!Merged(c).name = actor[c].seen.name
        /\ "body" \notin actor[c].named => Work!Merged(c).body = actor[c].seen.body
    BY <1>0, <2>1, MergedFields DEF Editing
  <2> DEFINE result == Work!UpdatePanel(db, actor[c].id, Work!Merged(c))
  <2>3. Good(result.db) /\ Evolves(db, result.db)
    BY <1>0, <1>2, <2>1, <2>2, PanelEdited
  <2>4. RunsStay(result.db.pipelines)
    BY <1>0, <1>2, <2>1, <2>2, PanelEdited, SamePipelinesRun DEF Only
  <2>5. EditDone(db, result.db, actor[c])
    BY <1>0, <1>2, <2>1, <2>2, PanelEdited, PanelEditDone
  <2> HIDE DEF result
  <2> QED BY <1>0, <1>2, <2>3, <2>4, <2>5, Answered DEF result
<1> QED BY <1>1, <1>2 DEF Work!UpdatePanelRequest

LEMMA DuplicateMoves ==
    ASSUME Work!WorkspaceAssumption, WorkInv, NEW c \in Clients, Work!Duplicate(c)
    PROVE  Moves(c)
<1>0. /\ c \in Work!Actors /\ c \in Authors /\ c # Work!System /\ Good(db) /\ Formed(actor[c])
      /\ Known(db, actor[c])
  BY IsActor, Writer DEF WorkInv
<1>1. ASSUME NEW q \in Work!Live(db.queries), Work!Ask(c, Work!EditOf("Duplicate", db.queries,
          q, {"name"}))
      PROVE  Moves(c)
  BY <1>1, <1>0, RowFields, EditAsked DEF Work!Live, Good, Editing
<1>2. ASSUME NEW q \in Work!New(db.queries), Work!Answer(c, "Duplicate",
          Work!CreateSavedQuery(db, q, Work!Merged(c)))
      PROVE  Moves(c)
  <2>1. actor[c].op = "Duplicate"
    BY <1>2 DEF Work!Answer
  <2>2. /\ actor[c].id \in Ids
        /\ Work!Merged(c).name \in Authors /\ Work!Merged(c).body \in Authors
        /\ "name" \notin actor[c].named => Work!Merged(c).name = actor[c].seen.name
        /\ "body" \notin actor[c].named => Work!Merged(c).body = actor[c].seen.body
    BY <1>0, <2>1, MergedFields DEF Editing
  <2>3. q \in Ids /\ db.queries[q] = None
    BY <1>2, NewRow
  <2> DEFINE result == Work!CreateSavedQuery(db, q, Work!Merged(c))
  <2>4. Good(result.db) /\ Evolves(db, result.db)
    BY <1>0, <1>2, <2>1, <2>2, <2>3, QueryMade
  <2>5. RunsStay(result.db.pipelines)
    <3>1. Only(db, result.db, {"queries"})
      BY <1>0, <1>2, <2>1, <2>2, <2>3, QueryMade
    <3> QED BY <3>1, SamePipelinesRun DEF Only
  <2>6. EditDone(db, result.db, actor[c])
    BY <1>0, <1>2, <2>1, <2>2, <2>3, QueryMade DEF Only, EditDone, Work!Has
  <2> HIDE DEF result
  <2> QED BY <1>0, <1>2, <2>4, <2>5, <2>6, Answered DEF result
<1> QED BY <1>1, <1>2 DEF Work!Duplicate

LEMMA CreateShareMoves ==
    ASSUME Work!WorkspaceAssumption, WorkInv, NEW c \in Clients, Work!CreateShare(c)
    PROVE  Moves(c)
<1>0. /\ c \in Work!Actors /\ c \in Authors /\ c # Work!System /\ Good(db) /\ Formed(actor[c])
      /\ Known(db, actor[c])
  BY IsActor, Writer DEF WorkInv
<1>1. ASSUME NEW d \in Work!Live(db.dashboards), NEW v \in {"public", "private"},
             NEW m \in SUBSET Emails, NEW x \in {"never", "later"}, v = "private" => m # {},
             Work!Ask(c, [op |-> "CreateShare", id |-> d, visibility |-> v, emails |-> m,
                 expires |-> x])
      PROVE  Moves(c)
  <2> DEFINE r == [op |-> "CreateShare", id |-> d, visibility |-> v, emails |-> m, expires |-> x]
  <2>1. /\ Formed(r) /\ Known(db, r) /\ r.op # "idle"
        /\ (r.op = "DeletePipeline" => (OneClient => live[r.id] # "going"))
        /\ r.op # "Launch" /\ Work!Ask(c, r)
    BY <1>0, <1>1 DEF Formed, Known, Editing, Work!Live
  <2> HIDE DEF r
  <2> QED BY <1>0, <2>1, Asked
<1>2. ASSUME NEW x \in Work!New(db.shares), Work!Answer(c, "CreateShare",
          Work!CreateDashboardShare(db, x, actor[c].id, actor[c].visibility, actor[c].emails, actor[c].expires))
      PROVE  Moves(c)
  <2>1. actor[c].op = "CreateShare"
    BY <1>2 DEF Work!Answer
  <2>2. /\ actor[c].id \in Ids /\ actor[c].visibility \in {"public", "private"}
        /\ actor[c].emails \in SUBSET Emails /\ actor[c].expires \in {"never", "later"}
    BY <1>0, <2>1 DEF Formed
  <2>3. x \in Ids /\ db.shares[x] = None
    BY <1>2, NewRow
  <2> DEFINE result == Work!CreateDashboardShare(db, x, actor[c].id, actor[c].visibility,
      actor[c].emails, actor[c].expires)
  <2>4. Good(result.db) /\ Evolves(db, result.db)
    BY <1>0, <1>2, <2>1, <2>2, <2>3, ShareMade
  <2>5. RunsStay(result.db.pipelines)
    <3>1. Only(db, result.db, {"shares"})
      BY <1>0, <1>2, <2>1, <2>2, <2>3, ShareMade
    <3> QED BY <3>1, SamePipelinesRun DEF Only
  <2>6. EditDone(db, result.db, actor[c])
    BY <1>0, <2>1, NoEdit DEF Editing
  <2> HIDE DEF result
  <2> QED BY <1>0, <1>2, <2>4, <2>5, <2>6, Answered DEF result
<1> QED BY <1>1, <1>2 DEF Work!CreateShare

\* A request gives up, or had nothing to write.
LEMMA BackToIdle ==
    ASSUME WorkInv, NEW a \in Work!Actors, actor' = [actor EXCEPT ![a] = Work!Idle],
           UNCHANGED <<db, live, mailed, scenario, requests>>
    PROVE  Moves(a)
<1>1. /\ DOMAIN actor' = Work!Actors /\ \A b \in Work!Actors \ {a} : actor'[b] = actor[b]
      /\ actor'[a] = Work!Idle
  BY DEF WorkInv
<1>2. Formed(Work!Idle) /\ Known(db', Work!Idle) /\ Relies(Work!Idle)
  BY DEF Formed, Known, Work!Idle, Editing, Relies
<1>3. RunsOK'
  BY <1>1, <1>2 DEF RunsOK, RunsIn, Relies, OneClient, WorkInv
<1> QED BY <1>1, <1>2, <1>3, SameEvolves, NothingEdited DEF Moves, WorkInv

\* An invite is made, its mail is sent, the next address follows.
LEMMA InviteToShareMoves ==
    ASSUME Work!WorkspaceAssumption, WorkInv, NEW c \in Clients, Work!InviteToShare(c)
    PROVE  Moves(c)
<1>0. c \in Work!Actors /\ Good(db) /\ Formed(actor[c]) /\ Known(db, actor[c]) /\ None \notin Ids
  BY IsActor DEF WorkInv, Work!WorkspaceAssumption
<1>1. ASSUME NEW x \in Work!Live(db.shares),
             Work!Ask(c, [op |-> "InviteToShare", id |-> x, todo |-> db.shares[x].emails,
                          invite |-> None])
      PROVE  Moves(c)
  <2> DEFINE r == [op |-> "InviteToShare", id |-> x, todo |-> db.shares[x].emails, invite |-> None]
  <2>1. x \in Ids /\ Work!Has(db.shares, x) /\ db.shares[x] \in Work!Shares
    BY <1>0, RowFields DEF Work!Live, Good
  <2>2. db.shares[x].emails \subseteq Emails /\ db.shares[x] # None
    BY <2>1 DEF Work!Shares, Work!Has
  <2>3. Formed(r) /\ Known(db, r) /\ r.op \notin {"DeletePipeline", "Launch"} /\ Work!Ask(c, r)
    BY <1>1, <2>1, <2>2 DEF Formed, Known, Editing
  <2> HIDE DEF r
  <2> QED BY <1>0, <2>3, Asked
<1>2. CASE /\ actor[c].op = "InviteToShare" /\ actor[c].invite = None
           /\ \E e \in actor[c].todo, i \in Work!New(db.invites) :
                 \E r \in {Work!CreateShareInvite(db, i, actor[c].id, e), Work!Failed(db)} :
                /\ db' = r.db
                /\ actor' = [actor EXCEPT ![c].invite = IF r.ok THEN i ELSE None,
                                          ![c].todo = @ \ {e}]
           /\ UNCHANGED <<live, mailed, scenario, requests>>
  <2>a. PICK e \in actor[c].todo, i \in Work!New(db.invites) :
             \E r \in {Work!CreateShareInvite(db, i, actor[c].id, e), Work!Failed(db)} :
                /\ db' = r.db
                /\ actor' = [actor EXCEPT ![c].invite = IF r.ok THEN i ELSE None,
                                          ![c].todo = @ \ {e}]
    BY <1>2
  <2>b. PICK r \in {Work!CreateShareInvite(db, i, actor[c].id, e), Work!Failed(db)} :
                /\ db' = r.db
                /\ actor' = [actor EXCEPT ![c].invite = IF r.ok THEN i ELSE None,
                                          ![c].todo = @ \ {e}]
    BY <2>a
  <2>0. /\ actor[c].op = "InviteToShare" /\ actor[c].invite = None
        /\ db' = r.db
        /\ actor' = [actor EXCEPT ![c].invite = IF r.ok THEN i ELSE None, ![c].todo = @ \ {e}]
        /\ UNCHANGED <<live, mailed, scenario, requests>>
    BY <1>2, <2>b
  <2>1. /\ actor[c].id \in Ids /\ actor[c].todo \subseteq Emails /\ i \in Ids
        /\ db.invites[i] = None
        /\ DOMAIN actor[c] = {"op", "id", "todo", "invite"} /\ actor[c] # Work!Idle
    BY <1>0, <2>0, NewRow DEF Formed, Work!Idle
  <2>2. db.shares[actor[c].id] # None
        /\ (Work!Has(db.shares, actor[c].id) =>
               actor[c].todo \subseteq db.shares[actor[c].id].emails)
    BY <1>0, <2>0 DEF Known
  <2> DEFINE made == Work!CreateShareInvite(db, i, actor[c].id, e)
  <2>3. /\ Good(made.db) /\ Evolves(db, made.db) /\ Only(db, made.db, {"invites"})
        /\ Work!Has(db.shares, actor[c].id) =>
              Work!Has(made.db.invites, i) /\ made.db.invites[i].of = actor[c].id
    BY <1>0, <2>0, <2>1, <2>2, InviteMade
  <2>4. /\ made.ok => Work!Has(db.shares, actor[c].id)
        /\ Work!Failed(db).db = db /\ Work!Failed(db).ok = FALSE
    BY DEF Work!CreateShareInvite, Work!Failed, Work!Done
  <2> HIDE DEF made
  <2>5. /\ Good(db') /\ Evolves(db, db') /\ db'.pipelines = db.pipelines /\ db'.shares = db.shares
        /\ r.ok /\ Work!Has(db'.shares, actor[c].id) =>
              Work!Has(db'.invites, i) /\ db'.invites[i].of = actor[c].id
    BY <1>0, <2>0, <2>4, SameEvolves, <2>3 DEF Only, made
  <2>6. /\ DOMAIN actor' = Work!Actors /\ \A b \in Work!Actors \ {c} : actor'[b] = actor[b]
        /\ actor'[c] = [actor[c] EXCEPT !.invite = IF r.ok THEN i ELSE None, !.todo = @ \ {e}]
    BY <1>0, <2>0 DEF WorkInv
  <2>7. /\ DOMAIN actor'[c] = {"op", "id", "todo", "invite"} /\ actor'[c].op = "InviteToShare"
        /\ actor'[c].id = actor[c].id /\ actor'[c].todo = actor[c].todo \ {e}
        /\ actor'[c].invite = IF r.ok THEN i ELSE None
    <3> DEFINE kept == IF r.ok THEN i ELSE None
    <3>1. actor'[c] = [actor[c] EXCEPT !.invite = kept, !.todo = @ \ {e}]
      BY <2>6
    <3> HIDE DEF kept
    <3>2. /\ DOMAIN actor'[c] = DOMAIN actor[c] /\ actor'[c].op = actor[c].op
          /\ actor'[c].id = actor[c].id /\ actor'[c].todo = actor[c].todo \ {e}
          /\ actor'[c].invite = kept
      BY <2>1, <3>1
    <3> QED BY <2>0, <2>1, <3>2 DEF kept
  <2>8. Formed(actor'[c])
    BY <2>1, <2>7 DEF Formed, Editing
  <2>9. Known(db', actor'[c])
    <3>1. made.ok \in BOOLEAN
      BY DEF made, Work!CreateShareInvite, Work!Failed, Work!Done
    <3>2. r = made \/ r = Work!Failed(db)
      BY <2>0 DEF made
    <3>3. r.ok \in BOOLEAN
      BY <2>4, <3>1, <3>2
    <3> QED BY <2>2, <2>5, <2>7, <3>3 DEF Known
  <2>10. RunsOK'
    BY <2>0, <2>5, <2>6, <2>7 DEF RunsOK, RunsIn, Relies, OneClient, WorkInv
  <2>11. MailedOK(db', mailed')
    BY <2>0, <2>5, MailedStays DEF WorkInv
  <2>12. actor'[c] # Work!Idle /\ c \in scenario.actors
    BY <1>0, <2>1, <2>7 DEF WorkInv, Work!Idle
  <2> QED BY <2>0, <2>5, <2>6, <2>8, <2>9, <2>10, <2>11, <2>12 DEF Moves, WorkInv
<1>3. ASSUME actor[c].op = "InviteToShare", actor[c].invite # None, NEW sent \in BOOLEAN,
             mailed' = IF sent THEN mailed \cup {<<actor[c].id, actor[c].invite>>} ELSE mailed,
             actor' = [actor EXCEPT ![c].invite = None],
             UNCHANGED <<db, live, scenario, requests>>
      PROVE  Moves(c)
  <2>1. /\ actor[c].id \in Ids /\ actor[c].todo \subseteq Emails /\ actor[c].invite \in Ids
        /\ DOMAIN actor[c] = {"op", "id", "todo", "invite"} /\ actor[c] # Work!Idle
    BY <1>0, <1>3 DEF Formed, Work!Idle
  <2>2. /\ db.shares[actor[c].id] # None
        /\ Work!Has(db.shares, actor[c].id) =>
             /\ actor[c].todo \subseteq db.shares[actor[c].id].emails
             /\ Work!Has(db.invites,
                    actor[c].invite) /\ db.invites[actor[c].invite].of = actor[c].id
    BY <1>0, <1>3 DEF Known
  <2>3. /\ DOMAIN actor' = Work!Actors /\ \A b \in Work!Actors \ {c} : actor'[b] = actor[b]
        /\ actor'[c] = [actor[c] EXCEPT !.invite = None]
    BY <1>0, <1>3 DEF WorkInv
  <2>4. /\ DOMAIN actor'[c] = {"op", "id", "todo", "invite"} /\ actor'[c].op = "InviteToShare"
        /\ actor'[c].id = actor[c].id /\ actor'[c].todo = actor[c].todo /\ actor'[c].invite = None
    BY <1>3, <2>1, <2>3
  <2>5. Formed(actor'[c])
    BY <2>1, <2>4 DEF Formed, Editing
  <2>6. Known(db', actor'[c])
    BY <1>3, <2>2, <2>4 DEF Known
  <2>7. RunsOK'
    BY <1>3, <2>3, <2>4 DEF RunsOK, RunsIn, Relies, OneClient, WorkInv
  <2>8. MailedOK(db', mailed')
    <3> DEFINE l == <<actor[c].id, actor[c].invite>>
    <3>1. /\ l[1] \in Ids /\ l[2] \in Ids /\ db.shares[l[1]] # None
          /\ Work!Has(db.shares, l[1]) => Work!Has(db.invites, l[2]) /\ db.invites[l[2]].of = l[1]
      BY <2>1, <2>2
    <3> HIDE DEF l
    <3>2. mailed' \subseteq mailed \cup {l}
      BY <1>3 DEF l
    <3> QED BY <1>3, <3>1, <3>2 DEF MailedOK, WorkInv
  <2>9. actor'[c] # Work!Idle /\ c \in scenario.actors
    BY <1>0, <2>1, <2>4 DEF WorkInv, Work!Idle
  <2> QED BY <1>3, <2>3, <2>5, <2>6, <2>7, <2>8, <2>9, SameEvolves DEF Moves, WorkInv
<1>4. ASSUME actor[c].op = "InviteToShare", actor' = [actor EXCEPT ![c] = Work!Idle],
             UNCHANGED <<db, live, mailed, scenario, requests>>
      PROVE  Moves(c)
  BY <1>0, <1>4, BackToIdle
<1>5. CASE \E x \in Work!Live(db.shares) :
             /\ db.shares[x].visibility = "private" /\ db.shares[x].emails # {}
             /\ Work!Ask(c, [op |-> "InviteToShare", id |-> x, todo |-> db.shares[x].emails,
                             invite |-> None])
  BY <1>1, <1>5
<1>7. CASE /\ actor[c].op = "InviteToShare" /\ actor[c].invite # None
           /\ \E sent \in BOOLEAN : mailed' =
                 IF sent THEN mailed \cup {<<actor[c].id, actor[c].invite>>} ELSE mailed
           /\ actor' = [actor EXCEPT ![c].invite = None]
           /\ UNCHANGED <<db, live, scenario, requests>>
  BY <1>3, <1>7
<1>8. CASE /\ actor[c].op = "InviteToShare" /\ actor' = [actor EXCEPT ![c] = Work!Idle]
           /\ UNCHANGED <<db, live, mailed, scenario, requests>>
  BY <1>4, <1>8
<1> QED BY <1>2, <1>5, <1>7, <1>8, Zenon DEF Work!InviteToShare

\* The visitor of a link.
LEMMA ViewerMoves ==
    ASSUME Work!WorkspaceAssumption, WorkInv, NEW v \in Viewers, Work!View(v)
    PROVE  Moves(v)
<1>0. v \in Work!Actors /\ Good(db) /\ Formed(actor[v]) /\ Known(db, actor[v]) /\ None \notin Ids
  BY IsActor DEF WorkInv, Work!WorkspaceAssumption
<1>1. ASSUME NEW x \in Work!Live(db.shares), NEW key \in Ids \cup {None},
             db.shares[x].expires # "past",
             Work!Ask(v, [op |-> "Viewer", at |-> "link", id |-> x, seen |-> db.shares[x],
                          key |-> key])
      PROVE  Moves(v)
  <2> DEFINE r == [op |-> "Viewer", at |-> "link", id |-> x, seen |-> db.shares[x], key |-> key]
  <2>1. x \in Ids /\ db.shares[x] # None
    BY DEF Work!Live, Work!Has
  <2>2. Formed(r) /\ Known(db, r) /\ r.op \notin {"DeletePipeline", "Launch"} /\ Work!Ask(v, r)
    BY <1>1, <2>1 DEF Formed, Known, Editing
  <2> HIDE DEF r
  <2> QED BY <1>0, <2>2, Asked
<1>2. ASSUME NEW at, actor[v].op = "Viewer", actor' = [actor EXCEPT ![v].at = at],
             UNCHANGED <<db, live, mailed, scenario, requests>>,
             actor[v].at = "link" /\ at # "link" =>
                Work!ValidateShareAccess(actor[v].id, actor[v].seen, actor[v].key)
      PROVE  Moves(v)
  <2>1. /\ DOMAIN actor[v] = {"op", "at", "id", "seen", "key"} /\ actor[v] # Work!Idle
        /\ actor[v].id \in Ids /\ actor[v].key \in Ids \cup {None}
    BY <1>0, <1>2 DEF Formed, Work!Idle
  <2>2. /\ DOMAIN actor' = Work!Actors /\ \A b \in Work!Actors \ {v} : actor'[b] = actor[b]
        /\ actor'[v] = [actor[v] EXCEPT !.at = at]
    BY <1>0, <1>2 DEF WorkInv
  <2>3. /\ DOMAIN actor'[v] = {"op", "at", "id", "seen", "key"} /\ actor'[v].op = "Viewer"
        /\ actor'[v].id = actor[v].id /\ actor'[v].seen = actor[v].seen
        /\ actor'[v].key = actor[v].key /\ actor'[v].at = at
    BY <1>2, <2>1, <2>2
  <2>4. Formed(actor'[v])
    BY <2>1, <2>3 DEF Formed, Editing
  <2>5. Known(db', actor'[v])
    BY <1>2, <1>0, <2>1, <2>3 DEF Known, Work!ValidateShareAccess
  <2>6. RunsOK'
    BY <1>2, <2>2, <2>3 DEF RunsOK, RunsIn, Relies, OneClient, WorkInv
  <2>7. actor'[v] # Work!Idle /\ v \in scenario.actors
    BY <1>0, <2>1, <2>3 DEF WorkInv, Work!Idle
  <2> QED BY <1>2, <2>2, <2>4, <2>5, <2>6, <2>7, SameEvolves DEF Moves, WorkInv
<1>3. ASSUME actor' = [actor EXCEPT ![v] = Work!Idle],
             UNCHANGED <<db, live, mailed, scenario, requests>>
      PROVE  Moves(v)
  BY <1>0, <1>3, BackToIdle
<1>4. CASE \E x \in Work!Live(db.shares), key \in Ids \cup {None} :
              /\ db.shares[x].expires # "past"
              /\ Work!Ask(v, [op |-> "Viewer", at |-> "link", id |-> x, seen |-> db.shares[x],
                              key |-> key])
  BY <1>1, <1>4
<1>5. CASE /\ actor[v].op = "Viewer" /\ actor[v].at = "link"
           /\ actor' = [actor EXCEPT ![v] =
                 IF Work!ValidateShareAccess(actor[v].id, actor[v].seen, actor[v].key)
                 THEN [@ EXCEPT !.at = "granted"] ELSE Work!Idle]
           /\ UNCHANGED <<db, live, mailed, scenario, requests>>
  <2>1. CASE Work!ValidateShareAccess(actor[v].id, actor[v].seen, actor[v].key)
    BY <1>5, <2>1, <1>2
  <2>2. CASE ~Work!ValidateShareAccess(actor[v].id, actor[v].seen, actor[v].key)
    BY <1>5, <2>2, <1>3
  <2> QED BY <2>1, <2>2
<1>6. CASE /\ actor[v].op = "Viewer" /\ actor[v].at = "granted"
           /\ actor' = [actor EXCEPT ![v] =
                 IF Work!Has(db.dashboards, actor[v].seen.of)
                 THEN [@ EXCEPT !.at = "served"] ELSE Work!Idle]
           /\ UNCHANGED <<db, live, mailed, scenario, requests>>
  <2>1. CASE Work!Has(db.dashboards, actor[v].seen.of)
    BY <1>6, <2>1, <1>2
  <2>2. CASE ~Work!Has(db.dashboards, actor[v].seen.of)
    BY <1>6, <2>2, <1>3
  <2> QED BY <2>1, <2>2
<1>7. CASE Work!ExecutePublicQuery(v)
  BY <1>7, <1>2 DEF Work!ExecutePublicQuery
<1>8. CASE Work!Leave(v)
  BY <1>3, <1>8 DEF Work!Leave
<1>9. CASE Work!GetPublicDashboard(v)
  BY <1>4, <1>5, <1>6, <1>9, Zenon DEF Work!GetPublicDashboard
<1> QED BY <1>7, <1>8, <1>9 DEF Work!View

-----------------------------------------------------------------------------
(* The runs of pipelines. *)

LEMMA RunMoves ==
    ASSUME Work!WorkspaceAssumption, WorkInv, NEW p \in Ids,
           NEW status \in {"running", "stopped", "success", "error"},
           db' = db \/ db' = Work!UpdatePipelineStatus(db, p, status).db,
           DOMAIN live' = Ids, \A j \in Ids \ {p} : live'[j] = live[j],
           live'[p] = "going" => live[p] = "going" /\ status = "running"
    PROVE  /\ Good(db') /\ Evolves(db, db') /\ (OneClient => RunsIn(db.pipelines)')
           /\ \A j \in Ids \ {p} : db'.pipelines[j] = db.pipelines[j]
<1>1. /\ Good(db') /\ Evolves(db, db') /\ \A j \in Ids : j # p => db'.pipelines[j] = db.pipelines[j]
      /\ \/ db' = db
         \/ Work!Has(db.pipelines, p) =>
              Work!Has(db'.pipelines, p) /\ db'.pipelines[p].status = status
  BY StatusWritten, SameEvolves DEF WorkInv
<1>2. ASSUME OneClient PROVE RunsIn(db.pipelines)'
  BY <1>1, <1>2 DEF WorkInv, RunsOK, RunsIn, Work!Has
<1> QED BY <1>1, <1>2

\* The actor is done.
LEMMA RunAnswered ==
    ASSUME Work!WorkspaceAssumption, WorkInv, NEW a \in Work!Actors, actor[a] # Work!Idle,
           actor[a].op \notin Editing \cup {"UpdatePanel", "DeletePanel"},
           actor' = [actor EXCEPT ![a] = Work!Idle], UNCHANGED <<db, mailed, scenario>>,
           DOMAIN live' = Ids, OneClient => RunsIn(db.pipelines)'
    PROVE  Moves(a)
<1>1. /\ DOMAIN actor' = Work!Actors /\ \A b \in Work!Actors \ {a} : actor'[b] = actor[b]
      /\ actor'[a] = Work!Idle /\ a \in scenario.actors
  BY DEF WorkInv
<1>2. Formed(Work!Idle) /\ Known(db', Work!Idle) /\ Relies(Work!Idle)'
  BY DEF Formed, Known, Work!Idle, Editing, Relies
<1>3. OneClient => \A b \in Work!Actors \ {a} : actor[b] = Work!Idle
  BY <1>1 DEF OneClient, WorkInv
<1>4. RunsOK'
  BY <1>1, <1>2, <1>3 DEF RunsOK, OneClient, Relies
<1> QED BY <1>1, <1>2, <1>4, SameEvolves, NothingEdited DEF Moves, WorkInv

\* The row of p is marked, or not.
LEMMA RunnerStartsMoves ==
    ASSUME Work!WorkspaceAssumption, WorkInv, NEW a \in Work!Actors, a \in scenario.actors,
           NEW p \in Ids, Work!RunnerStarts(a, p)
    PROVE  Moves(a)
<1>1. PICK marked \in BOOLEAN :
         /\ db' = IF marked THEN Work!UpdatePipelineStatus(db, p, "running").db ELSE db
         /\ actor' = [actor EXCEPT ![a] = [op |-> "Launch", id |-> p, marked |-> marked]]
  BY DEF Work!RunnerStarts
<1>2. /\ DOMAIN actor' = Work!Actors /\ \A b \in Work!Actors \ {a} : actor'[b] = actor[b]
      /\ actor'[a] = [op |-> "Launch", id |-> p, marked |-> marked]
      /\ live' = live /\ mailed' = mailed /\ scenario' = scenario
      /\ live[p] = "none" /\ Work!Has(db.pipelines, p)
  BY <1>1 DEF WorkInv, Work!RunnerStarts
<1>3. /\ Good(db') /\ Evolves(db, db') /\ (OneClient => RunsIn(db.pipelines)')
      /\ marked => Work!Has(db'.pipelines, p) /\ db'.pipelines[p].status = "running"
  BY <1>1, <1>2, RunMoves, StatusWritten DEF WorkInv
<1>4. /\ Formed(actor'[a]) /\ Known(db', actor'[a]) /\ Relies(actor[a])'
      /\ actor'[a] # Work!Idle
  BY <1>2, <1>3 DEF Formed, Known, Editing, Relies, Work!Idle
<1>5. OneClient => \A b \in Work!Actors \ {a} : actor'[b] = Work!Idle
  BY <1>2 DEF OneClient, WorkInv
<1>6. Relies(Work!Idle)'
  BY DEF Relies, Work!Idle
<1>7. RunsOK'
  BY <1>2, <1>3, <1>4, <1>5, <1>6 DEF RunsOK, OneClient, Relies
<1>8. MailedOK(db', mailed')
  BY <1>2, <1>3, MailedStays DEF WorkInv
<1> QED BY <1>2, <1>3, <1>4, <1>7, <1>8 DEF Moves, WorkInv

\* Its entry is made.
LEMMA LaunchMoves ==
    ASSUME Work!WorkspaceAssumption, WorkInv, NEW a \in Work!Actors, Work!Launch(a)
    PROVE  Moves(a)
<1>1. /\ actor[a].op = "Launch" /\ actor[a] # Work!Idle /\ actor[a].id \in Ids
      /\ actor[a].marked \in BOOLEAN
      /\ actor' = [actor EXCEPT ![a] = Work!Idle] /\ UNCHANGED <<db, mailed, scenario>>
  BY DEF Work!Launch, Work!Finish, WorkInv, Formed, Work!Idle
<1>2. /\ DOMAIN live' = Ids /\ \A j \in Ids \ {actor[a].id} : live'[j] = live[j]
      /\ live'[actor[a].id] = "going" => actor[a].marked
  BY <1>1 DEF Work!Launch, WorkInv
<1>3. ASSUME OneClient PROVE RunsIn(db.pipelines)'
  BY <1>1, <1>2, <1>3 DEF WorkInv, RunsOK, RunsIn, Relies
<1> QED BY <1>1, <1>2, <1>3, RunAnswered DEF Editing

LEMMA StartPipelineMoves ==
    ASSUME Work!WorkspaceAssumption, WorkInv, NEW c \in Clients, Work!StartPipeline(c)
    PROVE  Moves(c)
<1>0. c \in Work!Actors /\ Good(db) /\ Formed(actor[c])
  BY IsActor DEF WorkInv
<1>1. ASSUME NEW p \in Work!Live(db.pipelines), Work!Ask(c, [op |-> "StartPipeline", id |-> p])
      PROVE  Moves(c)
  <2> DEFINE r == [op |-> "StartPipeline", id |-> p]
  <2>1. Formed(r) /\ Known(db, r) /\ r.op \notin {"DeletePipeline", "Launch"} /\ Work!Ask(c, r)
    BY <1>1 DEF Formed, Known, Editing, Work!Live
  <2> HIDE DEF r
  <2> QED BY <1>0, <2>1, Asked
<1>2. ASSUME actor[c].op = "StartPipeline", Work!RunnerStarts(c, actor[c].id)
      PROVE  Moves(c)
  <2>1. actor[c].id \in Ids /\ c \in scenario.actors
    BY <1>0, <1>2 DEF Formed, WorkInv, Work!Idle
  <2> QED BY <1>0, <1>2, <2>1, RunnerStartsMoves
<1>3. ASSUME Work!Finish(c, "StartPipeline"), UNCHANGED live
      PROVE  Moves(c)
  BY <1>0, <1>3, BackToIdle DEF Work!Finish
<1> QED BY <1>0, <1>1, <1>2, <1>3, LaunchMoves, Zenon DEF Work!StartPipeline

LEMMA StopPipelineMoves ==
    ASSUME Work!WorkspaceAssumption, WorkInv, NEW c \in Clients, Work!StopPipeline(c)
    PROVE  Moves(c)
<1>0. c \in Work!Actors /\ Good(db) /\ Formed(actor[c])
  BY IsActor DEF WorkInv
<1>1. ASSUME NEW p \in Work!Live(db.pipelines), Work!Ask(c, [op |-> "StopPipeline", id |-> p])
      PROVE  Moves(c)
  <2> DEFINE r == [op |-> "StopPipeline", id |-> p]
  <2>1. Formed(r) /\ Known(db, r) /\ r.op \notin {"DeletePipeline", "Launch"} /\ Work!Ask(c, r)
    BY <1>1 DEF Formed, Known, Editing, Work!Live
  <2> HIDE DEF r
  <2> QED BY <1>0, <2>1, Asked
<1>2. ASSUME Work!Finish(c, "StopPipeline"), UNCHANGED live
      PROVE  Moves(c)
  BY <1>0, <1>2, BackToIdle DEF Work!Finish
<1> DEFINE result == Work!UpdatePipelineStatus(db, actor[c].id, "stopped")
<1>3. ASSUME Work!Answer(c, "StopPipeline", result), live[actor[c].id] = "none"
      PROVE  Moves(c)
  <2>1. actor[c].op = "StopPipeline"
    BY <1>3 DEF Work!Answer
  <2>2. actor[c].id \in Ids
    BY <1>0, <2>1 DEF Formed
  <2>3. /\ Good(result.db) /\ Evolves(db, result.db)
        /\ \A j \in Ids : j # actor[c].id => result.db.pipelines[j] = db.pipelines[j]
    BY <1>0, <2>2, StatusWritten
  <2> HIDE DEF result
  <2>4. RunsStay(result.db.pipelines)
    BY <1>3, <2>3 DEF RunsStay, Work!Has
  <2>5. EditDone(db, result.db, actor[c])
    BY <1>0, <2>1, NoEdit DEF Editing
  <2> QED BY <1>0, <1>3, <2>3, <2>4, <2>5, Answered
<1> QED BY <1>1, <1>2, <1>3, Zenon DEF Work!StopPipeline

\* The tool asks nobody first.
LEMMA ToolStartsPipeline ==
    ASSUME Work!WorkspaceAssumption, WorkInv, NEW a \in Assistants, Work!start_pipeline(a)
    PROVE  Moves(a)
<1>1. a \in Work!Actors
  BY IsActor
<1>2. \/ a \in scenario.actors /\ \E p \in Ids : Work!RunnerStarts(a, p)
      \/ Work!Launch(a)
  BY DEF Work!start_pipeline
<1> QED BY <1>1, <1>2, RunnerStartsMoves, LaunchMoves

-----------------------------------------------------------------------------
(* Nobody asks: time passes, or a run ends. *)

LEMMA ClockMoves ==
    ASSUME Work!WorkspaceAssumption, WorkInv, Work!Clock
    PROVE  WorkInv' /\ Work!EditsKept
<1>1. actor' = actor /\ mailed' = mailed /\ scenario' = scenario
  BY DEF Work!Clock, Work!Expire, Work!InviteExpires, Work!RunEnds
<1>2. /\ Good(db') /\ Evolves(db, db') /\ DOMAIN live' = Ids
      /\ OneClient => RunsIn(db.pipelines)'
      /\ \A j \in Ids : live'[j] = "going" => live[j] = "going"
      /\ \A j \in Ids : live[j] = "none" =>
            live'[j] = "none" /\ db'.pipelines[j] = db.pipelines[j]
  <2>1. CASE Work!Expire
    <3>1. PICK x \in Work!Live(db.shares) : db' = [db EXCEPT !.shares[x].expires = "past"]
      BY <2>1 DEF Work!Expire
    <3>2. Good(db') /\ Evolves(db, db') /\ Only(db, db', {"shares"})
      BY <3>1, LinkExpired DEF WorkInv, Work!Live
    <3>3. live' = live
      BY <2>1 DEF Work!Expire
    <3> QED BY <3>2, <3>3 DEF Only, WorkInv, RunsOK, RunsIn
  <2>2. CASE Work!InviteExpires
    <3>1. PICK i \in Work!Live(db.invites) : db' = [db EXCEPT !.invites[i].expired = TRUE]
      BY <2>2 DEF Work!InviteExpires
    <3>2. Good(db') /\ Evolves(db, db') /\ Only(db, db', {"invites"})
      BY <3>1, InviteExpired DEF WorkInv, Work!Live
    <3>3. live' = live
      BY <2>2 DEF Work!InviteExpires
    <3> QED BY <3>2, <3>3 DEF Only, WorkInv, RunsOK, RunsIn
  <2>3. CASE Work!RunEnds
    <3>1. PICK p \in Ids :
            \/ /\ live[p] \in {"going", "unmarked"} /\ live' = [live EXCEPT ![p] = "ending"]
               /\ \/ \E s \in {"success", "error", "stopped"} :
                       db' = Work!UpdatePipelineStatus(db, p, s).db
                  \/ UNCHANGED db
            \/ live[p] = "ending" /\ live' = [live EXCEPT ![p] = "none"] /\ UNCHANGED db
      BY <2>3 DEF Work!RunEnds
    <3>2. PICK s \in {"success", "error", "stopped"} :
            db' = db \/ db' = Work!UpdatePipelineStatus(db, p, s).db
      BY <3>1
    <3>3. /\ live[p] # "none" /\ live'[p] # "going" /\ DOMAIN live' = Ids
          /\ \A j \in Ids \ {p} : live'[j] = live[j]
      BY <3>1 DEF WorkInv
    <3>4. /\ Good(db') /\ Evolves(db, db') /\ (OneClient => RunsIn(db.pipelines)')
          /\ \A j \in Ids \ {p} : db'.pipelines[j] = db.pipelines[j]
      BY <3>2, <3>3, RunMoves
    <3> QED BY <3>3, <3>4
  <2> QED BY <2>1, <2>2, <2>3 DEF Work!Clock
<1>3. \A a \in Work!Actors : Known(db', actor[a])
  BY <1>2, KnownStays DEF WorkInv
<1>4. MailedOK(db', mailed')
  BY <1>1, <1>2, MailedStays DEF WorkInv
<1>5. RunsOK'
  <2> SUFFICES ASSUME OneClient, NEW a \in Work!Actors PROVE Relies(actor[a])'
    BY <1>1, <1>2 DEF RunsOK, OneClient
  <2>1. Relies(actor[a]) /\ Formed(actor[a])
    BY DEF WorkInv, RunsOK
  <2> QED BY <1>1, <1>2, <2>1 DEF Relies, Formed, Work!Has
<1>6. WorkInv'
  BY <1>1, <1>2, <1>3, <1>4, <1>5 DEF WorkInv
<1>7. ASSUME NEW k \in WorkTables, NEW id \in Ids, db[k][id] = Erased
      PROVE  db'[k][id] = Erased
  BY <1>2, <1>7 DEF Evolves, Stays, WorkTables
<1>8. ASSUME NEW p \in Work!Live(db.panels), Work!Has(db'.panels, p)
      PROVE  db'.panels[p].of = db.panels[p].of
  BY <1>2, <1>8 DEF Evolves, PanelsStay, Work!Live
<1>9. \A a : actor'[a] = Work!Idle =>
         "named" \notin DOMAIN actor[a] /\ actor[a].op \notin {"UpdatePanel", "DeletePanel"}
  BY <1>1 DEF Work!Idle
<1> QED BY <1>6, <1>7, <1>8, <1>9 DEF Work!EditsKept, WorkTables

-----------------------------------------------------------------------------
(* The theorems. *)

LEMMA WorkspaceStarts ==
    ASSUME Work!WorkspaceAssumption, Work!Init
    PROVE  WorkInv
<1>1. /\ scenario \in Workloads /\ db = scenario.db /\ mailed = {} /\ DOMAIN live = Ids
      /\ \A p \in Ids : live[p] = "going" <=> p \in scenario.live
      /\ DOMAIN actor = Work!Actors /\ \A a \in Work!Actors : actor[a] = Work!Idle
  BY DEF Work!Init
<1>2. /\ db \in Work!Tables /\ Work!Attached(db) /\ Work!Unique(db)
      /\ \A p \in scenario.live :
            p \in Work!Live(db.pipelines) /\ db.pipelines[p].status = "running"
  BY <1>1 DEF Work!WorkspaceAssumption
<1>3. Good(db)
  BY <1>2 DEF Good, TablesOK, WorkTables, Work!Tables
<1>4. Formed(Work!Idle) /\ Known(db, Work!Idle) /\ Relies(Work!Idle)
  BY DEF Formed, Known, Work!Idle, Editing, Relies
<1>5. RunsOK
  BY <1>1, <1>2, <1>4 DEF RunsOK, RunsIn, Work!Live
<1> QED BY <1>1, <1>3, <1>4, <1>5 DEF WorkInv, MailedOK

LEMMA WorkspaceStep ==
    ASSUME Work!WorkspaceAssumption, WorkInv, Work!Next
    PROVE  WorkInv' /\ Work!EditsKept
<1>1. ASSUME NEW c \in Clients, Work!Request(c)
      PROVE  Moves(c)
  <2>1. CASE Work!ListDashboards(c) \/ Work!CreateDashboardRequest(c)
             \/ Work!UpdateDashboardRequest(c)
             \/ Work!DeleteDashboardRequest(c)
    BY <2>1, ListDashboardsMoves, CreateDashboardMoves, UpdateDashboardMoves, DeleteDashboardMoves
  <2>2. CASE Work!CreatePanelRequest(c) \/ Work!UpdatePanelRequest(c) \/ Work!DeletePanelRequest(c)
    BY <2>2, CreatePanelMoves, UpdatePanelMoves, DeletePanelMoves
  <2>3. CASE Work!CreateShare(c) \/ Work!DeleteShare(c) \/ Work!InviteToShare(c)
    BY <2>3, CreateShareMoves, DeleteShareMoves, InviteToShareMoves
  <2>4. CASE Work!CreateQueryRequest(c) \/ Work!UpdateQueryRequest(c) \/ Work!DeleteQueryRequest(c)
             \/ Work!Duplicate(c)
    BY <2>4, CreateQueryMoves, UpdateQueryMoves, DeleteQueryMoves, DuplicateMoves
  <2>5. CASE Work!CreateModelRequest(c) \/ Work!UpdateModelRequest(c) \/ Work!DeleteModelRequest(c)
    BY <2>5, CreateModelMoves, UpdateModelMoves, DeleteModelMoves
  <2>6. CASE Work!CreatePipelineRequest(c) \/ Work!UpdatePipelineRequest(c)
             \/ Work!DeletePipelineRequest(c) \/ Work!SaveGraph(c)
    BY <2>6, CreatePipelineMoves, UpdatePipelineMoves, DeletePipelineMoves, SaveGraphMoves
  <2>7. CASE Work!StartPipeline(c) \/ Work!StopPipeline(c)
    BY <2>7, StartPipelineMoves, StopPipelineMoves
  <2> QED BY <1>1, <2>1, <2>2, <2>3, <2>4, <2>5, <2>6, <2>7 DEF Work!Request
<1>2. ASSUME NEW a \in Assistants, Work!Tool(a)
      PROVE  Moves(a)
  <2>1. CASE Work!create_saved_query(a) \/ Work!create_model(a) \/ Work!create_dashboard(a)
             \/ Work!create_pipeline(a)
    BY <2>1, ToolCreatesQuery, ToolCreatesModel, ToolCreatesDashboard, ToolCreatesPipeline
  <2>2. CASE Work!update_saved_query(a) \/ Work!update_model(a) \/ Work!add_dashboard_panel(a)
    BY <2>2, ToolEditsQuery, ToolEditsModel, ToolAddsPanel
  <2>3. CASE Work!delete_dashboard(a) \/ Work!delete_dashboard_panel(a) \/ Work!delete_model(a)
             \/ Work!delete_saved_query(a) \/ Work!delete_pipeline(a)
    BY <2>3, ToolDeletesDashboard, ToolDeletesPanel, ToolDeletesModel, ToolDeletesQuery,
       ToolDeletesPipeline
  <2>4. CASE Work!schedule_model(a) \/ Work!configure_pipeline(a) \/ Work!start_pipeline(a)
    BY <2>4, ToolSchedulesModel, ToolConfiguresPipeline, ToolStartsPipeline
  <2> QED BY <1>2, <2>1, <2>2, <2>3, <2>4 DEF Work!Tool
<1>3. ASSUME NEW a \in Work!Actors, Moves(a)
      PROVE  WorkInv' /\ Work!EditsKept
  BY <1>3, MovesKeep, MovesEdit
<1> QED BY <1>1, <1>2, <1>3, ViewerMoves, ClockMoves, IsActor DEF Work!Next

LEMMA WorkspaceHolds ==
    ASSUME Work!WorkspaceAssumption, WorkInv
    PROVE  Work!WorkspaceInv
<1>1. Good(db)
  BY DEF WorkInv
<1>2. Work!ServedAsShared
  <2> SUFFICES ASSUME NEW v \in Viewers, actor[v].op = "Viewer",
                      actor[v].at \in {"granted", "served", "queried"}
               PROVE  /\ actor[v].seen.expires # "past"
                      /\ Work!Has(db.shares, actor[v].id) =>
                           /\ Work!Has(db.dashboards, actor[v].seen.of)
                           /\ actor[v].seen.visibility = "private" =>
                                /\ Work!Has(db.invites, actor[v].key)
                                /\ db.invites[actor[v].key].of = actor[v].id
                                /\ db.invites[actor[v].key].email
                                      \in db.shares[actor[v].id].emails
    BY DEF Work!ServedAsShared
  <2>1. Known(db, actor[v]) /\ actor[v].id \in Ids
    BY IsActor DEF WorkInv, Formed
  <2> QED BY <1>1, <2>1 DEF Known, Good, Work!Attached, Work!Live
<1>3. Work!MailedLinksWork
  BY DEF WorkInv, MailedOK, Work!MailedLinksWork
<1>4. Work!RunsCanBeStopped
  BY DEF WorkInv, RunsOK, RunsIn, OneClient, Work!RunsCanBeStopped
<1> QED BY <1>1, <1>2, <1>3, <1>4 DEF Good, Work!WorkspaceInv

LEMMA WorkspaceInvariant ==
    ASSUME Work!WorkspaceAssumption
    PROVE  Work!Spec => []WorkInv
<1>1. Work!Init => WorkInv
  BY WorkspaceStarts
<1>2. WorkInv /\ [Work!Next]_(Work!vars) => WorkInv'
  <2> SUFFICES ASSUME WorkInv, [Work!Next]_(Work!vars) PROVE WorkInv'
    OBVIOUS
  <2>1. CASE Work!Next
    BY <2>1, WorkspaceStep
  <2>2. CASE UNCHANGED Work!vars
    BY <2>2 DEF Work!vars, WorkInv, RunsOK, RunsIn, Relies, OneClient, MailedOK
  <2> QED BY <2>1, <2>2
<1> QED BY <1>1, <1>2, PTL DEF Work!Spec

\* What users make stays in order, whoever works on it at the same time: no panel, link,
\* invite or schedule outlives what it belongs to, the names of models are unique and there is
\* one dashboard of the system; whoever is let in through a private link has an invite to it, a
\* link that was mailed opens as long as it exists, and a client who is alone never deletes a
\* pipeline that runs.
THEOREM WorkspaceInOrder ==
    ASSUME Work!WorkspaceAssumption
    PROVE  Work!Spec => []Work!WorkspaceInv
<1>1. WorkInv => Work!WorkspaceInv
  BY WorkspaceHolds
<1> QED BY <1>1, WorkspaceInvariant, PTL

\* What was deleted is not brought back by an edit that was under way; a panel stays in its
\* dashboard, and a request for a panel of one dashboard leaves those of the others alone; an
\* edit that no other overtook keeps what it does not name, but for the description of a
\* model, which every PUT replaces.
THEOREM EditsStayApart ==
    ASSUME Work!WorkspaceAssumption
    PROVE  Work!Spec => [][Work!EditsKept]_(Work!vars)
<1>1. WorkInv /\ [Work!Next]_(Work!vars) => [Work!EditsKept]_(Work!vars)
  BY WorkspaceStep
<1> QED BY <1>1, WorkspaceInvariant, PTL DEF Work!Spec
=============================================================================
