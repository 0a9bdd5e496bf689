------------------------------ MODULE AccessSync ------------------------------
(***************************************************************************)
(* The access data of one connection (internal/governance): syncs copy the *)
(* users, roles, role grants and grants of ClickHouse into SQLite and      *)
(* rebuild the access matrix from the copies, in the background and on     *)
(* request, and the guardrails decide by the matrix and by the age of the  *)
(* last sync whether a query may run.                                      *)
(*                                                                         *)
(* Time passes in ticks of the background goroutine (syncTickInterval).    *)
(* Metadata and query log, which a full sync copies first, are left out:   *)
(* they are the time between Enter and Begin.                              *)
(***************************************************************************)
EXTENDS Naturals, Sequences, FiniteSets

CONSTANTS
    Users,         \* users of ClickHouse
    Roles,         \* roles of ClickHouse
    Singles,       \* requests that sync the access data alone (SyncSingle)
    Fulls,         \* requests that sync everything (SyncConnection)
    Loops,         \* background goroutines
    Admins,        \* requests that turn the background sync on or off
    Queries,       \* queries of the first user to a protected table
    StaleAfter,    \* ticks after which a sync is stale
    Absent,        \* no row of gov_sync_state
    Scenarios      \* who takes part, and the bounds

Syncs == Singles \cup Fulls \cup Loops
Pairs == Users \X Roles
Tables == <<"users", "roles", "roleGrants", "grants">>
Rows == [users : SUBSET Users, roles : SUBSET Roles,
         roleGrants : SUBSET Pairs, grants : SUBSET Roles]

ASSUME AccessAssumption ==
    /\ IsFiniteSet(Users) /\ IsFiniteSet(Roles) /\ IsFiniteSet(Admins) /\ Users # {}
    /\ Singles \cap Fulls = {} /\ Singles \cap Loops = {} /\ Fulls \cap Loops = {}
    /\ Absent \notin BOOLEAN
    /\ StaleAfter \in Nat
    /\ \A sc \in Scenarios :
          /\ sc.singles \subseteq Singles /\ sc.fulls \subseteq Fulls /\ sc.loops \subseteq Loops
          /\ sc.admins \subseteq Admins /\ sc.queries \subseteq Queries
          /\ {sc.changes,    \* bound: changes of grants in ClickHouse
              sc.edits,      \* bound: changes of policies and of the setting
              sc.faults,     \* bound: failed queries and writes of whole tables
              sc.rows,       \* bound: rows that are not inserted
              sc.crashes} \subseteq Nat   \* bound: restarts of the server

VARIABLES
    truth,     \* the system tables of ClickHouse
    cache,     \* their copies in SQLite
    matrix,    \* the table gov_access_matrix: who has which role
    state,     \* the row of gov_sync_state: status, and ticks since last_synced_at
    active,    \* activeSyncs holds the connection
    sync,      \* the local variables of each sync
    loop,      \* the background goroutines
    setting,   \* the setting governance sync enabled
    running,   \* the syncer's field running
    admin,     \* what each request has written to the setting and not yet applied
    policies,  \* the roles that enabled blocking policies require for the table
    check,     \* the local variables and the outcome of each guardrail evaluation
    bound,     \* changes, faults and restarts so far, of those of the scenario
    hist       \* what the properties remember of the past

store == <<truth, cache, matrix, state>>
control == <<loop, setting, running, admin>>
guard == <<policies, check>>
vars == <<store, active, sync, control, guard, bound, hist>>

NoSync == [at |-> "idle", locks |-> FALSE, table |-> 1, rows |-> {}, err |-> FALSE, clean |-> TRUE]

\* A role without a grant does not show in the matrix.
Join(tables) == {p \in tables.roleGrants : p[2] \in tables.grants}
Lacking == Pairs \ Join(truth)

Init ==
    /\ truth \in {t \in Rows : t.users = Users /\ t.roles = Roles}
    /\ cache = [users |-> {}, roles |-> {}, roleGrants |-> {}, grants |-> {}]
    /\ matrix = {} /\ state = Absent
    /\ active = FALSE /\ sync = [p \in Syncs |-> NoSync]
    /\ setting = TRUE /\ running = TRUE
    /\ \E sc \in Scenarios :
          bound = [of |-> sc, changes |-> 0, edits |-> 0, faults |-> 0, rows |-> 0, crashes |-> 0]
    /\ \E first \in bound.of.loops : loop = [l \in Loops |-> IF l = first THEN "idle" ELSE "none"]
    /\ admin = [a \in Admins |-> Absent]
    /\ policies = Roles
    /\ check = [q \in Queries |-> [at |-> "idle", need |-> {}]]
    /\ hist = [lack |-> [p \in Syncs |-> {}], lacked |-> Pairs, exact |-> FALSE]

Change == bound.changes < bound.of.changes /\ bound' = [bound EXCEPT !.changes = @ + 1]
Edit == bound.edits < bound.of.edits /\ bound' = [bound EXCEPT !.edits = @ + 1]
Fault == bound.faults < bound.of.faults /\ bound' = [bound EXCEPT !.faults = @ + 1]
RowFault == bound.rows < bound.of.rows /\ bound' = [bound EXCEPT !.rows = @ + 1]

At(p, at) == sync[p].at = at
Busy == {p \in Syncs : sync[p].at \notin {"idle", "enter", "begin", "done"}}
Table(p) == Tables[sync[p].table]
IsStale == state = Absent \/ (state # Absent /\ state.age > StaleAfter)

-----------------------------------------------------------------------------
(* A sync. *)

\* TriggerSync, TriggerSingleSync and triggerSyncAsync refuse when the setting is off.
Trigger(p) ==
    /\ p \in bound.of.singles \cup bound.of.fulls /\ At(p, "idle") /\ setting
    /\ sync' = [sync EXCEPT ![p].at = IF p \in Singles THEN "begin" ELSE "enter"]
    /\ UNCHANGED <<store, active, control, guard, bound, hist>>

\* backgroundTick: the goroutine waits for the sync that it starts.
Tick(l) ==
    /\ loop[l] = "idle" /\ ~active /\ IsStale
    /\ loop' = [loop EXCEPT ![l] = "tick"]
    /\ sync' = [sync EXCEPT ![l].at = "enter"]
    /\ UNCHANGED <<store, active, setting, running, admin, guard, bound, hist>>

Leave(p) ==
    /\ sync' = [sync EXCEPT ![p] = [NoSync EXCEPT !.at = IF p \in Loops THEN "idle" ELSE "done"]]
    /\ loop' = IF p \in Loops
               THEN [loop EXCEPT ![p] = IF loop[p] = "last" THEN "none" ELSE "idle"] ELSE loop

\* LoadOrStore of activeSyncs.
Enter(p) ==
    /\ At(p, "enter")
    /\ IF active THEN Leave(p) /\ UNCHANGED active
       ELSE /\ active' = TRUE
            /\ sync' = [sync EXCEPT ![p].at = "begin", ![p].locks = TRUE]
            /\ UNCHANGED loop
    /\ UNCHANGED <<store, setting, running, admin, guard, bound, hist>>

\* UpsertSyncState sets last_synced_at; an error is logged.
UpsertSyncState(status) ==
    \/ state' = [status |-> status, age |-> 0] /\ UNCHANGED bound
    \/ Fault /\ UNCHANGED state

Begin(p) ==
    /\ At(p, "begin")
    /\ UpsertSyncState("running")
    /\ sync' = [sync EXCEPT ![p].at = "fetch"]
    /\ hist' = [hist EXCEPT !.lack[p] = Lacking, !.exact = @ \/ Busy = {}]
    /\ UNCHANGED <<truth, cache, matrix, active, control, guard>>

NextTable(p) == IF sync[p].table < Len(Tables) THEN "fetch" ELSE "rebuild"

Fetch(p) ==
    /\ At(p, "fetch")
    /\ sync' = [sync EXCEPT ![p].at = "delete", ![p].rows = truth[Table(p)]]
    /\ UNCHANGED <<store, active, control, guard, bound, hist>>

\* Faulty: the table is deleted before the query.
FetchFailsEmpty(p) ==
    /\ At(p, "fetch") /\ Fault
    /\ cache' = [cache EXCEPT ![Table(p)] = {}]
    /\ sync' = [sync EXCEPT ![p].at = NextTable(p), ![p].clean = FALSE,
                            ![p].table = IF NextTable(p) = "fetch" THEN @ + 1 ELSE @]
    /\ hist' = [hist EXCEPT !.exact = FALSE]
    /\ UNCHANGED <<truth, matrix, state, active, control, guard>>

\* What was copied before is kept.
FetchFails(p) ==
    /\ At(p, "fetch") /\ Fault
    /\ sync' = [sync EXCEPT ![p].at = NextTable(p), ![p].clean = FALSE,
                            ![p].table = IF NextTable(p) = "fetch" THEN @ + 1 ELSE @]
    /\ hist' = [hist EXCEPT !.exact = FALSE]
    /\ UNCHANGED <<store, active, control, guard>>

Delete(p) ==
    /\ At(p, "delete")
    /\ cache' = [cache EXCEPT ![Table(p)] = {}]
    /\ sync' = [sync EXCEPT ![p].at = "insert"]
    /\ UNCHANGED <<truth, matrix, state, active, control, guard, bound, hist>>

\* The only error that ends a sync.
DeleteFails(p) ==
    /\ At(p, "delete") /\ Fault
    /\ sync' = [sync EXCEPT ![p].at = "end", ![p].err = TRUE, ![p].clean = FALSE]
    /\ hist' = [hist EXCEPT !.exact = FALSE]
    /\ UNCHANGED <<store, active, control, guard>>

Insert(p) ==
    /\ At(p, "insert")
    /\ \E row \in sync[p].rows :
          /\ sync' = [sync EXCEPT ![p].rows = @ \ {row}]
          /\ cache' = [cache EXCEPT ![Table(p)] = @ \cup {row}]
    /\ UNCHANGED <<truth, matrix, state, active, control, guard, bound, hist>>

InsertFails(p) ==
    /\ At(p, "insert") /\ RowFault
    /\ \E row \in sync[p].rows :
          sync' = [sync EXCEPT ![p].rows = @ \ {row}, ![p].clean = FALSE]
    /\ hist' = [hist EXCEPT !.exact = FALSE, !.lacked = Pairs]
    /\ UNCHANGED <<store, active, control, guard>>

Inserted(p) ==
    /\ At(p, "insert") /\ sync[p].rows = {}
    /\ sync' = [sync EXCEPT ![p].at = NextTable(p),
                            ![p].table = IF NextTable(p) = "fetch" THEN @ + 1 ELSE @]
    /\ UNCHANGED <<store, active, control, guard, bound, hist>>

\* Faulty: only the rows of the users that were copied are replaced.
RebuildAccessMatrixMerged(p) ==
    /\ At(p, "rebuild")
    /\ matrix' = matrix \cup Join(cache)
    /\ sync' = [sync EXCEPT ![p].at = "end"]
    /\ UNCHANGED <<truth, cache, state, active, control, guard, bound, hist>>

RebuildAccessMatrix(p) ==
    /\ At(p, "rebuild")
    /\ matrix' = Join(cache)
    /\ sync' = [sync EXCEPT ![p].at = "end"]
    /\ UNCHANGED <<truth, cache, state, active, control, guard, bound, hist>>

\* The transaction is rolled back, and the sync goes on.
RebuildFails(p) ==
    /\ At(p, "rebuild") /\ Fault
    /\ sync' = [sync EXCEPT ![p].at = "end", ![p].clean = FALSE]
    /\ hist' = [hist EXCEPT !.exact = FALSE]
    /\ UNCHANGED <<store, active, control, guard>>

\* Faulty: the connection stays in activeSyncs for ever.
EndLocked(p) ==
    /\ At(p, "end")
    /\ UpsertSyncState(IF sync[p].err THEN "error" ELSE "idle")
    /\ Leave(p)
    /\ hist' = IF sync[p].clean
               THEN [hist EXCEPT !.lack[p] = {}, !.lacked = hist.lack[p]]
               ELSE [hist EXCEPT !.lack[p] = {}]
    /\ UNCHANGED <<truth, cache, matrix, active, setting, running, admin, guard>>

\* The deferred functions.
End(p) ==
    /\ At(p, "end")
    /\ UpsertSyncState(IF sync[p].err THEN "error" ELSE "idle")
    /\ active' = (active /\ ~sync[p].locks) /\ Leave(p)
    /\ hist' = IF sync[p].clean
               THEN [hist EXCEPT !.lack[p] = {}, !.lacked = hist.lack[p]]
               ELSE [hist EXCEPT !.lack[p] = {}]
    /\ UNCHANGED <<truth, cache, matrix, setting, running, admin, guard>>

Sync(p) ==
    \/ Enter(p) \/ Begin(p) \/ Fetch(p) \/ FetchFails(p) \/ Delete(p) \/ DeleteFails(p)
    \/ Insert(p) \/ InsertFails(p) \/ Inserted(p)
    \/ RebuildAccessMatrix(p) \/ RebuildFails(p) \/ End(p)

-----------------------------------------------------------------------------
(* The setting: a request writes it, then starts or stops the goroutine. *)

SetGovernanceSyncEnabled(a) ==
    /\ admin[a] = Absent /\ Edit
    /\ \E on \in BOOLEAN : setting' = on /\ admin' = [admin EXCEPT ![a] = on]
    /\ UNCHANGED <<store, active, sync, loop, running, guard, hist>>

StartBackground ==
    IF running THEN UNCHANGED <<running, loop>>
    ELSE /\ running' = TRUE
         /\ \E l \in bound.of.loops : loop[l] = "none" /\ loop' = [loop EXCEPT ![l] = "idle"]

\* A goroutine that is in a tick ends it first.
Stop ==
    /\ running' = FALSE
    /\ loop' = [l \in Loops |-> CASE loop[l] = "idle" -> "none"
                                  [] loop[l] = "tick" -> "last"
                                  [] OTHER -> loop[l]]

Apply(a) ==
    /\ admin[a] # Absent
    /\ IF admin[a] THEN StartBackground ELSE Stop
    /\ admin' = [admin EXCEPT ![a] = Absent]
    /\ UNCHANGED <<store, active, sync, setting, guard, bound, hist>>

-----------------------------------------------------------------------------
(* The guardrails. *)

User == CHOOSE u \in Users : TRUE

ReadPolicies(q) ==
    /\ check[q].at = "idle"
    /\ check' = [check EXCEPT ![q] = [at |-> IF policies = {} THEN "allowed" ELSE "state",
                                      need |-> policies]]
    /\ UNCHANGED <<store, active, sync, control, policies, bound, hist>>

isAccessStateUncertain == state = Absent \/ state.status = "error" \/ state.age > StaleAfter

\* A query is allowed when the state of the sync cannot be trusted.
ReadState(q) ==
    /\ check[q].at = "state"
    /\ check' = [check EXCEPT ![q].at = IF isAccessStateUncertain THEN "uncertain" ELSE "matrix"]
    /\ UNCHANGED <<store, active, sync, control, policies, bound, hist>>

ReadMatrix(q) ==
    /\ check[q].at = "matrix"
    /\ check' = [check EXCEPT ![q].at =
                    IF \A r \in check[q].need : <<User, r>> \in matrix THEN "allowed" ELSE "blocked"]
    /\ UNCHANGED <<store, active, sync, control, policies, bound, hist>>

Evaluate(q) == ReadPolicies(q) \/ ReadState(q) \/ ReadMatrix(q)

-----------------------------------------------------------------------------
(* The others: ClickHouse, policies, time, restarts. *)

ChangeGrants ==
    /\ Change
    /\ \E t \in Rows : /\ t.users = Users /\ t.roles = Roles /\ t # truth
                       /\ truth' = t
    /\ hist' = [hist EXCEPT !.lack = [p \in Syncs |-> IF p \in Busy THEN @[p] \cup Lacking'
                                                      ELSE {}],
                            !.lacked = @ \cup Lacking', !.exact = FALSE]
    /\ UNCHANGED <<cache, matrix, state, active, sync, control, guard>>

UpdatePolicy ==
    /\ Edit /\ policies' \in SUBSET Roles /\ policies' # policies
    /\ UNCHANGED <<store, active, sync, control, check, hist>>

Older(age) == IF age > StaleAfter THEN age ELSE age + 1

Elapse ==
    /\ state' = IF state = Absent THEN Absent ELSE [state EXCEPT !.age = Older(@)]
    /\ state' # state
    /\ UNCHANGED <<truth, cache, matrix, active, sync, control, guard, bound, hist>>

\* The server starts the goroutine when the setting is on.
Crash ==
    /\ bound.crashes < bound.of.crashes /\ bound' = [bound EXCEPT !.crashes = @ + 1]
    /\ active' = FALSE
    /\ sync' = [p \in Syncs |-> IF At(p, "idle") \/ p \in Loops THEN NoSync
                                ELSE [NoSync EXCEPT !.at = "done"]]
    /\ check' = [q \in Queries |-> IF check[q].at \in {"state", "matrix"}
                                   THEN [check[q] EXCEPT !.at = "none"] ELSE check[q]]
    /\ admin' = [a \in Admins |-> Absent] /\ running' = setting
    /\ \E first \in bound.of.loops :
          loop' = [l \in Loops |-> IF setting /\ l = first THEN "idle" ELSE "none"]
    /\ hist' = [lack |-> [p \in Syncs |-> {}], exact |-> FALSE,
                lacked |-> IF \E p \in Syncs : At(p, "insert") THEN Pairs ELSE hist.lacked]
    /\ UNCHANGED <<store, setting, policies>>

Next ==
    \/ \E p \in Syncs : Trigger(p) \/ Sync(p)
    \/ \E l \in Loops : Tick(l)
    \/ \E a \in bound.of.admins : SetGovernanceSyncEnabled(a) \/ Apply(a)
    \/ \E q \in bound.of.queries : Evaluate(q)
    \/ ChangeGrants \/ UpdatePolicy \/ Elapse \/ Crash

Spec == Init /\ [][Next]_vars

\* Time passes, the goroutine looks at each of its ticks, and a sync goes on: a query
\* ends with an answer or with the timeout of the gateway.
FairSpec ==
    /\ Spec
    /\ WF_vars(Elapse)
    /\ \A p \in Syncs : WF_vars(Sync(p))
    /\ \A l \in Loops : WF_vars(Tick(l))

-----------------------------------------------------------------------------
(* Properties. *)

\* Every variable stays within its type; the lock is held exactly by the full sync
\* that is under way.
TypeOK ==
    /\ truth \in Rows /\ cache \in Rows /\ matrix \subseteq Pairs
    /\ state # Absent => state \in [status : {"running", "idle", "error"}, age : 0 .. StaleAfter + 1]
    /\ \A p \in Syncs :
          /\ sync[p].at \in {"idle", "enter", "begin", "fetch", "delete", "insert", "rebuild",
                             "end", "done"}
          /\ sync[p].table \in 1 .. Len(Tables)
    /\ active = (\E p \in Syncs : sync[p].locks)
    /\ \A p, r \in Syncs : sync[p].locks /\ sync[r].locks => p = r
    /\ loop \in [Loops -> {"none", "idle", "tick", "last"}]
    /\ \A q \in Queries : check[q].at \in {"idle", "state", "matrix", "allowed", "blocked",
                                           "uncertain", "none"}

\* A query is blocked only if its user lacked a role that it needs at some time since
\* the last sync without a failure began, or since then a row could not be inserted or
\* the server ended while rows were: neither the gap between deleting and inserting a
\* table nor tables of different syncs cost a user a role.  Of syncs that exclude each
\* other: one of the access data alone does not.
BlockedForCause ==
    [][\A q \in Queries :
          bound.of.singles = {} /\ check'[q].at = "blocked" /\ check[q].at # "blocked" =>
             \E r \in check[q].need : <<User, r>> \in hist.lacked]_vars

\* When syncs without failures, one or several at a time, are over and no grant was
\* changed since the first of them began, the matrix is that of ClickHouse.
SettledIsExact == Busy = {} /\ hist.exact => matrix = Join(truth)

\* The background goroutine runs exactly when the setting says so, and only one does.
\* Two administrators may write the setting in one order and apply it in the other.
SettingIsApplied ==
    Cardinality(bound.of.admins) <= 1 /\ (\A a \in Admins : admin[a] = Absent) =>
       /\ running = setting
       /\ Cardinality({l \in Loops : loop[l] \in {"idle", "tick"}}) = IF running THEN 1 ELSE 0

\* The copies agree with ClickHouse and the background goroutine with its setting.
AccessInv == TypeOK /\ SettledIsExact /\ SettingIsApplied

\* Whatever fails and whoever syncs, the matrix is that of ClickHouse again in the end,
\* if the background goroutine is not turned off for good.
CatchesUp == <>[]running => <>[](matrix = Join(truth))
=============================================================================
