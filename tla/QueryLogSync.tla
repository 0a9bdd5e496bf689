----------------------------- MODULE QueryLogSync -----------------------------
(***************************************************************************)
(* The query log of one connection (internal/governance): syncs copy what  *)
(* ClickHouse finished since a watermark into SQLite, record the entries   *)
(* that violate a policy and count the violations in incidents, which the  *)
(* guardrails and requests of users write as well.                         *)
(*                                                                         *)
(* There is one policy, one user and one severity, hence one dedupe key.   *)
(* Time has the grain of event_time, a second.                             *)
(***************************************************************************)
EXTENDS Naturals, Sequences, FiniteSets, FiniteSetsExt, Functions

CONSTANTS
    Queries,       \* initial queries of ClickHouse
    Fulls,         \* syncs of everything (SyncConnection)
    Singles,       \* syncs of the query log alone (SyncSingle)
    Blocked,       \* requests that the guardrails block
    Manuals,       \* requests that make an incident of a violation
    Edits,         \* requests that edit an incident
    Keep,          \* no status in the request
    Scenarios      \* who takes part, what they do, and the bounds

Syncs == Fulls \cup Singles
Procs == Syncs \cup Blocked \cup Manuals
OpenStatuses == {"open", "triaged", "in_progress"}
Statuses == OpenStatuses \cup {"resolved", "dismissed"}

ASSUME QueryLogAssumption ==
    /\ IsFiniteSet(Queries) /\ IsFiniteSet(Edits) /\ IsFiniteSet(Procs) /\ Keep \notin Statuses
    /\ Fulls \cap Singles = {} /\ Blocked \cap Manuals = {} /\ Queries \cap Blocked = {}
    /\ Syncs \cap (Blocked \cup Manuals) = {}
    /\ \A sc \in Scenarios :
          /\ sc.queries \subseteq Queries
          /\ sc.violating \subseteq sc.queries      \* those that violate the policy
          /\ sc.fulls \subseteq Fulls /\ sc.singles \subseteq Singles
          /\ sc.blocked \subseteq Blocked /\ sc.manuals \subseteq Manuals
          /\ sc.edits \subseteq Edits
          /\ sc.wanted \subseteq Statuses \cup {Keep}   \* what edits set
          /\ sc.limit \in Nat \ {0}                \* queryLogBatchLimit
          /\ sc.prompt \in BOOLEAN   \* a query shows in the second that it ends in
          /\ sc.time \in Nat \ {0}                 \* bound: seconds
          /\ {sc.perSecond,          \* bound: queries that end in one second
              sc.faults,             \* bound: failed queries and statements
              sc.crashes} \subseteq Nat   \* bound: restarts of the server

VARIABLES
    now,         \* the clock
    ended,       \* event_time of each query; 0: it has not ended
    log,         \* what system.query_log shows
    harvested,   \* gov_query_log
    mark,        \* the watermark of gov_sync_state; 0: the default
    active,      \* activeSyncs holds the connection
    work,        \* the local variables of each sync and request
    violations,  \* gov_policy_violations: the rows for each query and blocked request
    incidents,   \* gov_incidents: those of the dedupe key
    edit,        \* the local variables of each edit
    bound        \* faults and restarts so far, of those of the scenario

clickhouse == <<now, ended, log>>
found == <<violations, incidents>>
vars == <<clickhouse, harvested, mark, active, work, found, edit, bound>>

NoWork == [at |-> "idle", locks |-> FALSE, start |-> 0, from |-> 0, rows |-> {},
           new |-> 0, err |-> FALSE, incident |-> 0]
NoEdit == [at |-> "idle", incident |-> 0, status |-> "open"]

Init ==
    /\ now = 1 /\ ended = [q \in Queries |-> 0] /\ log = {}
    /\ harvested = {} /\ mark = 0 /\ active = FALSE
    /\ work = [p \in Procs |-> NoWork]
    /\ violations = [v \in Queries \cup Blocked |-> 0] /\ incidents = <<>>
    /\ edit = [e \in Edits |-> NoEdit]
    /\ \E sc \in Scenarios : bound = [of |-> sc, faults |-> 0, crashes |-> 0]

Fault == bound.faults < bound.of.faults /\ bound' = [bound EXCEPT !.faults = @ + 1]
At(p, at) == work[p].at = at
Go(p, at) == work' = [work EXCEPT ![p].at = at]

-----------------------------------------------------------------------------
(* ClickHouse. *)

Elapse ==
    /\ now < bound.of.time /\ now' = now + 1
    /\ UNCHANGED <<ended, log, harvested, mark, active, work, found, edit, bound>>

EndsAt(t) == {q \in Queries : ended[q] = t}

Finish(q) ==
    /\ ended[q] = 0 /\ Cardinality(EndsAt(now)) < bound.of.perSecond
    /\ ended' = [ended EXCEPT ![q] = now]
    /\ log' = IF bound.of.prompt THEN log \cup {q} ELSE log
    /\ UNCHANGED <<now, harvested, mark, active, work, found, edit, bound>>

\* The log is written from a buffer.
Flush ==
    /\ log' = Queries \ EndsAt(0) /\ log' # log
    /\ UNCHANGED <<now, ended, harvested, mark, active, work, found, edit, bound>>

-----------------------------------------------------------------------------
(* A sync of the query log. *)

\* The background tick and the requests come again and again.
Trigger(p) ==
    /\ p \in bound.of.fulls \cup bound.of.singles /\ At(p, "idle")
    /\ Go(p, IF p \in Fulls THEN "enter" ELSE "begin")
    /\ UNCHANGED <<clickhouse, harvested, mark, active, found, edit, bound>>

\* Faulty: the connection is looked up and stored in two steps.
EnterUnlocked(p) ==
    /\ At(p, "enter")
    /\ active' = TRUE /\ work' = [work EXCEPT ![p].at = "begin", ![p].locks = TRUE]
    /\ UNCHANGED <<clickhouse, harvested, mark, found, edit, bound>>

\* LoadOrStore of activeSyncs.
Enter(p) ==
    /\ At(p, "enter")
    /\ IF active THEN Go(p, "idle") /\ UNCHANGED active
       ELSE active' = TRUE /\ work' = [work EXCEPT ![p].at = "begin", ![p].locks = TRUE]
    /\ UNCHANGED <<clickhouse, harvested, mark, found, edit, bound>>

\* The status running keeps the watermark.
Begin(p) ==
    /\ At(p, "begin")
    /\ work' = [work EXCEPT ![p].at = "mark", ![p].start = now]
    /\ UNCHANGED <<clickhouse, harvested, mark, active, found, edit, bound>>

\* An error is taken for the default.
ReadMark(p) ==
    /\ At(p, "mark")
    /\ \/ work' = [work EXCEPT ![p].at = "fetch", ![p].from = mark] /\ UNCHANGED bound
       \/ Fault /\ work' = [work EXCEPT ![p].at = "fetch", ![p].from = 0]
    /\ UNCHANGED <<clickhouse, harvested, mark, active, found, edit>>

\* Faulty: the newest queries after the watermark.
BatchesNewest(from) ==
    LET after == {q \in log : ended[q] > from}
    IN  {b \in SUBSET after :
            /\ Cardinality(b) = Min({bound.of.limit, Cardinality(after)})
            /\ \A q \in b, r \in after \ b : ended[q] >= ended[r]}

\* The oldest queries after the watermark; which of one second are the oldest is open.
Batches(from) ==
    LET after == {q \in log : ended[q] > from}
    IN  {b \in SUBSET after :
            /\ Cardinality(b) = Min({bound.of.limit, Cardinality(after)})
            /\ \A q \in b, r \in after \ b : ended[q] <= ended[r]}

Latest(rows) == Max({ended[q] : q \in rows})

Fetch(p) ==
    /\ At(p, "fetch")
    /\ \E rows \in Batches(work[p].from) :
          work' = IF rows = {} THEN [work EXCEPT ![p].at = "end", ![p].new = work[p].from]
                  ELSE [work EXCEPT ![p].at = "insert", ![p].rows = rows]
    /\ UNCHANGED <<clickhouse, harvested, mark, active, found, edit, bound>>

Fail(p) == Fault /\ work' = [work EXCEPT ![p].at = "end", ![p].err = TRUE, ![p].rows = {}]

FetchFails(p) ==
    /\ At(p, "fetch") /\ Fail(p)
    /\ UNCHANGED <<clickhouse, harvested, mark, active, found, edit>>

\* INSERT OR IGNORE: a query that is there already stays as it is, but is evaluated again.
InsertQueryLogBatch(p) ==
    /\ At(p, "insert")
    /\ harvested' = harvested \cup work[p].rows
    /\ work' = [work EXCEPT ![p].at = "policies", ![p].new = Latest(work[p].rows)]
    /\ UNCHANGED <<clickhouse, mark, active, found, edit, bound>>

\* The transaction is rolled back.
InsertFails(p) ==
    /\ At(p, "insert") /\ Fail(p)
    /\ UNCHANGED <<clickhouse, harvested, mark, active, found, edit>>

\* An error is logged, and the entries are not evaluated.
GetPolicies(p) ==
    /\ At(p, "policies")
    /\ \/ Go(p, "evaluate") /\ UNCHANGED bound
       \/ Fault /\ work' = [work EXCEPT ![p].at = "end", ![p].rows = {}]
    /\ UNCHANGED <<clickhouse, harvested, mark, active, found, edit>>

Earliest(rows) == {q \in rows : \A r \in rows : ended[q] <= ended[r]}

\* EvaluatePolicies and CreateViolation; an error of either is an entry without violation.
Evaluate(p) ==
    /\ At(p, "evaluate")
    /\ \E q \in Earliest(work[p].rows) :
          \/ /\ q \in bound.of.violating
             /\ violations' = [violations EXCEPT ![q] = @ + 1]
             /\ work' = [work EXCEPT ![p].at = "find", ![p].rows = @ \ {q}]
             /\ UNCHANGED bound
          \/ /\ IF q \in bound.of.violating THEN Fault ELSE UNCHANGED bound
             /\ work' = [work EXCEPT ![p].rows = @ \ {q}]
             /\ UNCHANGED violations
    /\ UNCHANGED <<clickhouse, harvested, mark, active, incidents, edit>>

Evaluated(p) ==
    /\ At(p, "evaluate") /\ work[p].rows = {} /\ Go(p, "end")
    /\ UNCHANGED <<clickhouse, harvested, mark, active, found, edit, bound>>

\* Faulty: the connection stays in activeSyncs for ever.
EndLocked(p) ==
    /\ At(p, "end")
    /\ mark' = IF work[p].err THEN work[p].start ELSE work[p].new
    /\ work' = [work EXCEPT ![p] = NoWork]
    /\ UNCHANGED <<clickhouse, harvested, active, found, edit, bound>>

\* The deferred functions.  A sync that failed has no new watermark: the time of its
\* start becomes the watermark.  An error of the statement is logged.
End(p) ==
    /\ At(p, "end")
    /\ \/ /\ mark' = IF work[p].err THEN work[p].start ELSE work[p].new
          /\ UNCHANGED bound
       \/ Fault /\ UNCHANGED mark
    /\ active' = (active /\ ~work[p].locks)
    /\ work' = [work EXCEPT ![p] = NoWork]
    /\ UNCHANGED <<clickhouse, harvested, found, edit>>

Harvest(p) ==
    \/ Enter(p) \/ Begin(p) \/ ReadMark(p) \/ Fetch(p) \/ FetchFails(p)
    \/ InsertQueryLogBatch(p) \/ InsertFails(p) \/ GetPolicies(p)
    \/ Evaluate(p) \/ Evaluated(p) \/ End(p)

-----------------------------------------------------------------------------
(* Violations that requests record, and the incident of a violation. *)

\* The guardrails block a query.
BlockQuery(p) ==
    /\ p \in bound.of.blocked /\ At(p, "idle")
    /\ \/ /\ violations' = [violations EXCEPT ![p] = @ + 1] /\ Go(p, "find")
          /\ UNCHANGED bound
       \/ Fault /\ Go(p, "done") /\ UNCHANGED violations
    /\ UNCHANGED <<clickhouse, harvested, mark, active, incidents, edit>>

CreateIncidentFromViolation(p) ==
    /\ p \in bound.of.manuals /\ At(p, "idle") /\ \E v \in DOMAIN violations : violations[v] > 0
    /\ Go(p, "find")
    /\ UNCHANGED <<clickhouse, harvested, mark, active, found, edit, bound>>

Return(p) == Go(p, IF p \in Syncs THEN "evaluate" ELSE "done")

Open == {i \in DOMAIN incidents : incidents[i].status \in OpenStatuses}
LastSeen == {i \in Open : \A j \in Open : incidents[j].seen <= incidents[i].seen}

\* UpsertIncidentFromViolation looks for an open incident, and then writes.
FindIncident(p) ==
    /\ At(p, "find")
    /\ \/ /\ Open = {} /\ work' = [work EXCEPT ![p].at = "create", ![p].incident = 0]
          /\ UNCHANGED bound
       \/ /\ \E i \in LastSeen : work' = [work EXCEPT ![p].at = "count", ![p].incident = i]
          /\ UNCHANGED bound
       \/ Fault /\ Return(p)
    /\ UNCHANGED <<clickhouse, harvested, mark, active, found, edit>>

\* Faulty: an incident that was resolved in the meantime is not written.
CountOccurrenceOfOpen(p) ==
    /\ At(p, "count") /\ Return(p)
    /\ incidents' = IF work[p].incident \notin Open THEN incidents
                    ELSE [incidents EXCEPT ![work[p].incident].count = @ + 1,
                                           ![work[p].incident].seen = now]
    /\ UNCHANGED <<clickhouse, harvested, mark, active, violations, edit, bound>>

\* The incident may have been resolved in the meantime.
CountOccurrence(p) ==
    /\ At(p, "count") /\ Return(p)
    /\ \/ /\ incidents' = [incidents EXCEPT ![work[p].incident].count = @ + 1,
                                            ![work[p].incident].seen = now]
          /\ UNCHANGED bound
       \/ Fault /\ UNCHANGED incidents
    /\ UNCHANGED <<clickhouse, harvested, mark, active, violations, edit>>

\* Another one may have been created in the meantime.
CreateIncident(p) ==
    /\ At(p, "create") /\ Return(p)
    /\ \/ /\ incidents' = Append(incidents, [status |-> "open", count |-> 1, seen |-> now])
          /\ UNCHANGED bound
       \/ Fault /\ UNCHANGED incidents
    /\ UNCHANGED <<clickhouse, harvested, mark, active, violations, edit>>

Upsert(p) == FindIncident(p) \/ CountOccurrence(p) \/ CreateIncident(p)

\* UpdateIncident reads the row and writes back the fields that the request leaves out,
\* but never the count.
ReadIncident(e) ==
    /\ edit[e].at = "idle"
    /\ \E i \in DOMAIN incidents, want \in bound.of.wanted :
          edit' = [edit EXCEPT ![e] = [at |-> "write", incident |-> i,
                      status |-> IF want = Keep THEN incidents[i].status ELSE want]]
    /\ UNCHANGED <<clickhouse, harvested, mark, active, work, found, bound>>

WriteIncident(e) ==
    /\ edit[e].at = "write"
    /\ \/ /\ incidents' = [incidents EXCEPT ![edit[e].incident].status = edit[e].status]
          /\ UNCHANGED bound
       \/ Fault /\ UNCHANGED incidents
    /\ edit' = [edit EXCEPT ![e] = [NoEdit EXCEPT !.at = "done"]]
    /\ UNCHANGED <<clickhouse, harvested, mark, active, work, violations>>

-----------------------------------------------------------------------------
Crash ==
    /\ bound.crashes < bound.of.crashes /\ bound' = [bound EXCEPT !.crashes = @ + 1]
    /\ active' = FALSE
    /\ work' = [p \in Procs |-> IF p \in Syncs \/ At(p, "idle") THEN NoWork
                                ELSE [NoWork EXCEPT !.at = "done"]]
    /\ edit' = [e \in Edits |-> IF edit[e].at = "idle" THEN NoEdit
                                ELSE [NoEdit EXCEPT !.at = "done"]]
    /\ UNCHANGED <<clickhouse, harvested, mark, found>>

Next ==
    \/ Elapse \/ Flush \/ \E q \in bound.of.queries : Finish(q)
    \/ \E p \in Syncs : Trigger(p) \/ Harvest(p)
    \/ \E p \in Procs : BlockQuery(p) \/ CreateIncidentFromViolation(p) \/ Upsert(p)
    \/ \E e \in bound.of.edits : ReadIncident(e) \/ WriteIncident(e)
    \/ Crash

Spec == Init /\ [][Next]_vars

\* The background tick starts a full sync again when the last one is stale, and a sync
\* goes on: a query ends with an answer or with the timeout of the gateway.
FairSpec ==
    /\ Spec
    /\ \A p \in Fulls : WF_vars(Trigger(p))
    /\ \A p \in Syncs : WF_vars(Harvest(p)) /\ WF_vars(Upsert(p))

-----------------------------------------------------------------------------
(* Properties. *)

\* Every variable stays within its type; the lock is held by the full sync under way.
TypeOK ==
    /\ now \in 1 .. bound.of.time /\ ended \in [Queries -> 0 .. now]
    /\ log \subseteq Queries /\ harvested \subseteq log /\ mark \in 0 .. now
    /\ active = (\E p \in Procs : work[p].locks)
    /\ \A p \in Procs : work[p].rows \subseteq log /\ work[p].incident \in 0 .. Len(incidents)
    /\ \A i \in DOMAIN incidents : /\ incidents[i].status \in Statuses
                                   /\ incidents[i].count \in Nat \ {0}
    /\ \A v \in DOMAIN violations : violations[v] \in Nat

\* What the watermark of the code relies on: no statement fails, ClickHouse shows a
\* query before it is asked about its second, and one query ends in a second.
Orderly == bound.faults = 0 /\ bound.of.prompt /\ bound.of.perSecond = 1

\* Whatever is behind the watermark was copied and, when it violates the policy,
\* recorded: no query that ClickHouse shows is passed over by the syncs, whether they
\* overlap, are cut by the limit or end with the process.
NothingSkipped ==
    Orderly => \A q \in log : ended[q] <= mark =>
       q \in harvested /\ (q \in bound.of.violating => violations[q] > 0)

\* A query that violates the policy is recorded once: one sync at a time, which no
\* restart and no failure repeats, never evaluates a query again.
ViolationOnce ==
    bound.of.singles = {} /\ bound.faults = 0 /\ bound.crashes = 0 =>
       \A q \in Queries : violations[q] <= 1

\* Every violation is counted in an incident, once, and every request to make an
\* incident of a violation once more: writers that overlap, among them the edits that
\* write a whole row back, lose no occurrence of each other.
CountsViolations ==
    LET occurrences == SumFunction([i \in DOMAIN incidents |-> incidents[i].count])
        pending == {p \in Procs : work[p].at \in {"find", "count", "create"}}
        asked == {p \in Manuals : ~At(p, "idle")}
        counted == occurrences + Cardinality(pending)
        due == SumFunction(violations) + Cardinality(asked)
    IN  counted <= due /\ (bound.faults = 0 /\ bound.crashes = 0 => counted = due)

\* The violations of one dedupe key share an incident until it is closed: as long as one
\* sync at a time writes them, and there is one edit, which finds nothing closed to open.
OneOpenIncident ==
    /\ bound.of.singles \cup bound.of.blocked \cup bound.of.manuals = {}
    /\ Cardinality(bound.of.edits) <= 1
    => Cardinality(Open) <= 1

\* The watermark, the copied log and the violations agree: nothing is passed over or
\* recorded twice.
HarvestInv == TypeOK /\ NothingSkipped /\ ViolationOnce

\* Violations and incidents agree: counted once, in one open incident.
IncidentInv == CountsViolations /\ OneOpenIncident

\* What ClickHouse shows is copied in the end, a batch after the other.
AllHarvested == \A q \in Queries : q \in log ~> q \in harvested \/ ~Orderly
=============================================================================
