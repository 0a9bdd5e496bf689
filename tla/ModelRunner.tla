----------------------------- MODULE ModelRunner -----------------------------
(***************************************************************************)
(* Runs of the SQL models of one connection (internal/models/runner.go and *)
(* scheduler.go, the handlers and tables of models): requests and the      *)
(* model scheduler start runs, a lock in memory lets one at a time in, and *)
(* a run executes the statements of its models on ClickHouse in the order  *)
(* of their references.  The models are edited meanwhile.                  *)
(*                                                                         *)
(* A model stands for its id; the names and databases that it had are its  *)
(* places, counted.  ClickHouse, behind the tunnel, is external: a         *)
(* statement takes effect, fails, or takes effect after the gateway has    *)
(* given up on it.                                                         *)
(***************************************************************************)
EXTENDS ModelGraph

CONSTANTS
    Models,      \* the models, in the order of their names
    Requests,    \* requests that run models
    Tick,        \* the goroutine of the model scheduler
    Absent,      \* no model, no schedule
    Scenarios    \* what there is to begin with, who takes part, and the bounds

Jobs == Requests \cup {Tick}
Ids == {Models[i] : i \in 1 .. Len(Models)}

\* A reference to a name that no model has any more is one to Absent.
Rows == [refs : SUBSET (Ids \cup {Absent}), table : BOOLEAN, place : Nat,
         status : {"draft", "success", "error"}]
Times == [due : BOOLEAN, ok : BOOLEAN]

ASSUME ModelAssumption ==
    /\ Models \in Seq(Ids) /\ Cardinality(Ids) = Len(Models)
    /\ Absent \notin Ids \cup Rows \cup Times /\ Tick \notin Requests
    /\ \A sc \in Scenarios : sc \in
          [models : SUBSET Ids, requests : SUBSET Requests,
           \* the references and materializations to begin with
           projects : SUBSET [sc.models -> [refs : SUBSET sc.models, table : BOOLEAN]],
           starts : Nat,    \* bound: requests, and times a schedule gets due
           edits : Nat,     \* bound: edits and deletions of models and schedules
           faults : Nat,    \* bound: failed calls
           late : Nat,      \* bound: statements that the gateway gives up on
           crashes : Nat]   \* bound: restarts of the server

VARIABLES
    models,    \* the table models: references, materialization, place and status
    running,   \* the lock of the connection
    job,       \* the local variables of each run that is under way
    runs,      \* the tables model_runs and model_run_results
    target,    \* the tables and views in ClickHouse: of a model, at a place
    late,      \* statements that the gateway gave up on and ClickHouse executes
    schedule,  \* the table model_schedules, by anchor
    due,       \* the anchors that the scheduler has read and not yet run
    bound      \* edits, faults and restarts so far, of those of the scenario

vars == <<models, running, job, runs, target, late, schedule, due, bound>>

Idle == [at |-> "idle", kind |-> "all", anchor |-> Absent, deps |-> <<>>, tables |-> {},
         place |-> [m \in Ids |-> 0], order |-> <<>>, next |-> 1, run |-> 0, built |-> {}, failed |-> {}, skipped |-> {},
         stmt |-> 1, ok |-> TRUE]

Init ==
    /\ \E sc \in Scenarios : \E p \in sc.projects :
          /\ models = [m \in Ids |-> IF m \in sc.models
                          THEN [refs |-> p[m].refs, table |-> p[m].table, place |-> 0,
                               status |-> "draft"]
                          ELSE Absent]
          /\ bound = [of |-> [sc EXCEPT !.projects = {}], starts |-> 0, edits |-> 0,
                      faults |-> 0, late |-> 0, crashes |-> 0]
    /\ running = FALSE
    /\ job = [j \in Jobs |-> Idle]
    /\ runs = <<>>
    /\ target = {} /\ late = {}
    /\ schedule = [m \in Ids |-> Absent] /\ due = {}

Edit == bound.edits < bound.of.edits /\ bound' = [bound EXCEPT !.edits = @ + 1]
Count == bound.starts < bound.of.starts /\ bound' = [bound EXCEPT !.starts = @ + 1]
Fault == bound.faults < bound.of.faults /\ bound' = [bound EXCEPT !.faults = @ + 1]

Present == {m \in Ids : models[m] # Absent}
At(j, at) == job[j].at = at

-----------------------------------------------------------------------------
(* RunAll, RunPipeline and RunSingle up to execute. *)

\* A run returns: the scheduler then writes the status of the schedule.
Return(j, ok) ==
    job' = [job EXCEPT ![j] = IF j = Tick
               THEN [Idle EXCEPT !.at = "status", !.anchor = job[j].anchor, !.ok = ok] ELSE Idle]

\* Faulty: the lock is never taken.
EnterUnlocked(j, kind, anchor) ==
    /\ job' = [job EXCEPT ![j] = [Idle EXCEPT !.at = "load", !.kind = kind, !.anchor = anchor]]
    /\ UNCHANGED running

\* acquireLock.
Enter(j, kind, anchor) ==
    LET began == [Idle EXCEPT !.at = "load", !.kind = kind, !.anchor = anchor] IN
    IF running
    THEN /\ job' = [job EXCEPT ![j] = IF j = Tick THEN [began EXCEPT !.at = "status",
                                                                     !.ok = FALSE] ELSE Idle]
         /\ UNCHANGED running
    ELSE job' = [job EXCEPT ![j] = began] /\ running' = TRUE

Request(j) ==
    /\ At(j, "idle") /\ Count
    /\ \/ Enter(j, "all", Absent)
       \/ \E m \in bound.of.models, kind \in {"pipeline", "single"} : Enter(j, kind, m)
    /\ UNCHANGED <<models, runs, target, late, schedule, due>>

\* An early return, with the deferred releaseLock.
Refuse(j) == running' = FALSE /\ Return(j, FALSE)

Orders == {[i \in DOMAIN Models |-> Models[p[i]]] :
              p \in {q \in [DOMAIN Models -> DOMAIN Models] :
                        \A i, k \in DOMAIN Models : q[i] = q[k] => i = k}}

Deps == [m \in Present |-> models[m].refs]

Selected(kind, anchor, deps) ==
    CASE kind = "all" -> DOMAIN deps
      [] kind = "pipeline" -> ComponentContaining(DOMAIN deps, deps, anchor)
      [] OTHER -> GetUpstreamDeps(DOMAIN deps, deps, anchor)

\* RunSingle goes on when its model is not there; the others need a model.
Refused(j) ==
    \/ ~RefsValid(Present, Deps)
    \/ job[j].kind # "single" /\ Present = {}
    \/ job[j].kind = "pipeline" /\ job[j].anchor \notin Present

Load(j) ==
    /\ At(j, "load")
    /\ \/ Fault /\ Refuse(j)
       \/ /\ UNCHANGED bound
          /\ IF Refused(j) THEN Refuse(j)
             ELSE \E all \in {Kahn(Present, Deps, Models, visit) : visit \in Orders} :
                IF Len(all) # Cardinality(Present) THEN Refuse(j)
                ELSE /\ job' = [job EXCEPT ![j].at = "create", ![j].deps = Deps,
                                   ![j].tables = {m \in Present : models[m].table},
                                   ![j].place = [m \in Ids |-> IF m \in Present
                                                   THEN models[m].place ELSE 0],
                                   ![j].order = Filter(all, Selected(job[j].kind, job[j].anchor, Deps))]
                     /\ UNCHANGED running
    /\ UNCHANGED <<models, runs, target, late, schedule, due>>

-----------------------------------------------------------------------------
(* execute. *)

InOrder(j) == {job[j].order[i] : i \in DOMAIN job[j].order}

\* A row that refers to a deleted model is not inserted.
CreateRun(j) ==
    /\ At(j, "create")
    /\ runs' = Append(runs, [status |-> "running", total |-> Len(job[j].order),
                             succeeded |-> 0, failed |-> 0, skipped |-> 0,
                             results |-> [m \in Ids |-> IF m \in InOrder(j) \cap Present
                                                        THEN "pending" ELSE "none"]])
    /\ job' = [job EXCEPT ![j].at = "model", ![j].run = Len(runs')]
    /\ UNCHANGED <<models, running, target, late, schedule, due, bound>>

Current(j) == job[j].order[job[j].next]

\* UpdateModelRunResult and UpdateModelStatus do nothing for a deleted model.
SetResult(j, m, result) ==
    runs' = IF m \in Present THEN [runs EXCEPT ![job[j].run].results[m] = result] ELSE runs
SetStatus(m, status) ==
    models' = IF m \in Present THEN [models EXCEPT ![m].status = status] ELSE models

\* Faulty: a skipped model does not count as failed.
MustSkipDirect(j) == job[j].deps[Current(j)] \cap job[j].failed # {}

MustSkip(j) == job[j].deps[Current(j)] \cap (job[j].failed \cup job[j].skipped) # {}

More(j) == job[j].next <= Len(job[j].order)

Skip(j) ==
    /\ At(j, "model") /\ More(j) /\ MustSkip(j)
    /\ SetResult(j, Current(j), "skipped") /\ SetStatus(Current(j), "error")
    /\ job' = [job EXCEPT ![j].skipped = @ \cup {Current(j)}, ![j].next = @ + 1]
    /\ UNCHANGED <<running, target, late, schedule, due, bound>>

Start(j) ==
    /\ At(j, "model") /\ More(j) /\ ~MustSkip(j)
    /\ SetResult(j, Current(j), "running")
    /\ job' = [job EXCEPT ![j].at = "exec", ![j].stmt = 1, ![j].ok = TRUE]
    /\ UNCHANGED <<models, running, target, late, schedule, due, bound>>

buildDDL(j) == IF Current(j) \in job[j].tables THEN <<"drop", "create">> ELSE <<"view">>

\* Where a run builds m, and looks for it.
Target(j, m) == <<m, job[j].place[m]>>

Statement(j) == [op |-> buildDDL(j)[job[j].stmt], model |-> Target(j, Current(j)),
                 reads |-> {Target(j, d) : d \in job[j].deps[Current(j)]}, run |-> job[j].run]

\* What ClickHouse can execute.
Possible(x) ==
    \/ x.op = "drop"
    \/ x.reads \subseteq target /\ (x.op = "create" => x.model \notin target)

Effect(x) == target' = IF x.op = "drop" THEN target \ {x.model} ELSE target \cup {x.model}

Executes(j) ==
    /\ At(j, "exec") /\ Possible(Statement(j))
    /\ Effect(Statement(j))
    /\ job' = IF job[j].stmt < Len(buildDDL(j)) THEN [job EXCEPT ![j].stmt = @ + 1]
              ELSE [job EXCEPT ![j].at = "result"]
    /\ UNCHANGED <<models, running, runs, late, schedule, due, bound>>

\* The first statement that fails ends the model.
ExecuteFails(j) ==
    /\ At(j, "exec")
    /\ IF Possible(Statement(j)) THEN Fault ELSE UNCHANGED bound
    /\ job' = [job EXCEPT ![j].at = "result", ![j].ok = FALSE]
    /\ UNCHANGED <<models, running, runs, target, late, schedule, due>>

\* The gateway gives up after five minutes, and does not cancel the query.
ExecuteTimesOut(j) ==
    /\ At(j, "exec")
    /\ bound.late < bound.of.late /\ bound' = [bound EXCEPT !.late = @ + 1]
    /\ late' = late \cup {Statement(j)}
    /\ job' = [job EXCEPT ![j].at = "result", ![j].ok = FALSE]
    /\ UNCHANGED <<models, running, runs, target, schedule, due>>

LateStatement(x) ==
    /\ x \in late /\ late' = late \ {x}
    /\ IF Possible(x) THEN Effect(x) ELSE UNCHANGED target
    /\ UNCHANGED <<models, running, job, runs, schedule, due, bound>>

Result(j) ==
    LET m == Current(j) IN
    /\ At(j, "result")
    /\ SetResult(j, m, IF job[j].ok THEN "success" ELSE "error")
    /\ SetStatus(m, IF job[j].ok THEN "success" ELSE "error")
    /\ job' = [job EXCEPT ![j].at = "model", ![j].next = @ + 1,
                          ![j].built = IF job[j].ok THEN @ \cup {m} ELSE @,
                          ![j].failed = IF job[j].ok THEN @ ELSE @ \cup {m}]
    /\ UNCHANGED <<running, target, late, schedule, due, bound>>

RunStatus(j) ==
    IF job[j].failed # {} /\ job[j].built # {} THEN "partial"
    ELSE IF job[j].failed # {} \/ Cardinality(job[j].skipped) = Len(job[j].order) THEN "error"
    ELSE "success"

\* FinalizeModelRun and the deferred releaseLock.
Finalize(j) ==
    /\ At(j, "model") /\ ~More(j)
    /\ runs' = [runs EXCEPT ![job[j].run] =
                   [@ EXCEPT !.status = RunStatus(j), !.succeeded = Cardinality(job[j].built),
                             !.failed = Cardinality(job[j].failed),
                             !.skipped = Cardinality(job[j].skipped)]]
    /\ running' = FALSE /\ Return(j, TRUE)
    /\ UNCHANGED <<models, target, late, schedule, due, bound>>

-----------------------------------------------------------------------------
(* The model scheduler: one goroutine runs what was due, one at a time. *)

ReadDue ==
    /\ At(Tick, "idle") /\ due = {}
    /\ due' = {m \in Ids : schedule[m] # Absent /\ schedule[m].due}
    /\ due' # {}
    /\ UNCHANGED <<models, running, job, runs, target, late, schedule, bound>>

\* RunPipeline of a schedule that may be changed or gone by now.
RunDue(m) ==
    /\ At(Tick, "idle") /\ m \in due
    /\ due' = due \ {m}
    /\ Enter(Tick, "pipeline", m)
    /\ UNCHANGED <<models, runs, target, late, schedule, bound>>

\* Faulty: the next time is computed after a success only.
UpdateScheduleSuccess ==
    /\ At(Tick, "status")
    /\ LET m == job[Tick].anchor IN
       schedule' = IF schedule[m] = Absent THEN schedule
                   ELSE [schedule EXCEPT ![m] = [due |-> ~job[Tick].ok, ok |-> job[Tick].ok]]
    /\ job' = [job EXCEPT ![Tick] = Idle]
    /\ UNCHANGED <<models, running, runs, target, late, due, bound>>

UpdateSchedule ==
    /\ At(Tick, "status")
    /\ LET m == job[Tick].anchor IN
       schedule' = IF schedule[m] = Absent THEN schedule
                   ELSE [schedule EXCEPT ![m] = [due |-> FALSE, ok |-> job[Tick].ok]]
    /\ job' = [job EXCEPT ![Tick] = Idle]
    /\ UNCHANGED <<models, running, runs, target, late, due, bound>>

-----------------------------------------------------------------------------
(* Users, time and restarts. *)

Elapse(m) ==
    /\ schedule[m] # Absent /\ ~schedule[m].due /\ Count
    /\ schedule' = [schedule EXCEPT ![m].due = TRUE]
    /\ UNCHANGED <<models, running, job, runs, target, late, due>>

UpsertSchedule(m) ==
    /\ m \in Present /\ Edit
    /\ schedule' = [schedule EXCEPT ![m] = [due |-> FALSE, ok |-> TRUE]]
    /\ UNCHANGED <<models, running, job, runs, target, late, due>>

DeleteSchedule(m) ==
    /\ schedule[m] # Absent /\ Edit
    /\ schedule' = [schedule EXCEPT ![m] = Absent]
    /\ UNCHANGED <<models, running, job, runs, target, late, due>>

\* Another name or database is another place, where nothing was built.  The references
\* of others are by name.
UpdateModel(m) ==
    /\ m \in Present /\ Edit
    /\ \E refs \in SUBSET bound.of.models, table \in BOOLEAN, change \in {"none", "name", "database"} :
          models' = [d \in Ids |->
             IF d = m THEN [models[m] EXCEPT !.refs = refs, !.table = table,
                                !.place = IF change = "none" THEN @ ELSE @ + 1]
             ELSE IF change = "name" /\ d \in Present /\ m \in models[d].refs
             THEN [models[d] EXCEPT !.refs = (@ \ {m}) \cup {Absent}] ELSE models[d]]
    /\ UNCHANGED <<running, job, runs, target, late, schedule, due>>

\* The results and the schedules of the model go with it.
DeleteModel(m) ==
    /\ m \in Present /\ Edit
    /\ models' = [models EXCEPT ![m] = Absent]
    /\ schedule' = [schedule EXCEPT ![m] = Absent]
    /\ runs' = [r \in DOMAIN runs |-> [runs[r] EXCEPT !.results[m] = "none"]]
    /\ UNCHANGED <<running, job, target, late, due>>

Crash ==
    /\ bound.crashes < bound.of.crashes /\ bound' = [bound EXCEPT !.crashes = @ + 1]
    /\ job' = [j \in Jobs |-> Idle] /\ running' = FALSE /\ due' = {}
    /\ UNCHANGED <<models, runs, target, late, schedule>>

Execute(j) ==
    \/ Load(j) \/ CreateRun(j) \/ Skip(j) \/ Start(j)
    \/ Executes(j) \/ ExecuteFails(j) \/ ExecuteTimesOut(j) \/ Result(j) \/ Finalize(j)

Schedule == ReadDue \/ UpdateSchedule \/ \E m \in Ids : RunDue(m)

Next ==
    \/ \E j \in bound.of.requests : Request(j)
    \/ \E j \in Jobs : Execute(j)
    \/ Schedule
    \/ \E x \in late : LateStatement(x)
    \/ \E m \in Ids : \/ Elapse(m) \/ UpsertSchedule(m) \/ DeleteSchedule(m)
                      \/ UpdateModel(m) \/ DeleteModel(m)
    \/ Crash

Spec == Init /\ [][Next]_vars

\* The goroutines run; a statement ends, by the timeout of the gateway at the latest.
FairSpec ==
    /\ Spec
    /\ WF_vars(Schedule)
    /\ \A j \in Jobs : WF_vars(Execute(j))

-----------------------------------------------------------------------------
(* Properties. *)

Statuses == {"none", "pending", "running", "success", "error", "skipped"}

\* Every variable stays within its type; a run that executes has its row, and the
\* models it has been through are those before the next one.
TypeOK ==
    /\ \A m \in Present : models[m] \in Rows
    /\ running \in BOOLEAN
    /\ \A j \in Jobs :
          /\ job[j].at \in {"idle", "load", "create", "model", "exec", "result", "status"}
          /\ job[j].anchor \in Ids \cup {Absent} /\ job[j].run \in 0 .. Len(runs)
          /\ job[j].at \in {"model", "exec", "result"} =>
                /\ job[j].run > 0
                /\ job[j].built \cup job[j].failed \cup job[j].skipped
                      = {job[j].order[i] : i \in 1 .. job[j].next - 1}
    /\ \A r \in DOMAIN runs :
          /\ runs[r].status \in {"running", "success", "partial", "error"}
          /\ runs[r].results \in [Ids -> Statuses]
    /\ target \subseteq Ids \X Nat /\ due \subseteq Ids
    /\ \A m \in Ids : schedule[m] # Absent => schedule[m] \in Times

\* No statement of a model is executed before everything it refers to, directly or
\* not, was built in the same run.
BuiltAfterItsSources ==
    \A j \in Jobs : At(j, "exec") => job[j].deps[Current(j)] \subseteq job[j].built

Closed(S, deps, all) ==
    \A m \in S : /\ all => {x \in DOMAIN deps : m \in deps[x]} \subseteq S
                 /\ deps[m] \subseteq S

\* A run of one model has it and all that it needs and nothing else, one of a
\* pipeline all the models that are connected, one of all every model; each once.
RunsWhatItShould ==
    \A j \in Jobs : At(j, "create") =>
       LET S == InOrder(j)
           ids == DOMAIN job[j].deps
           all == job[j].kind = "pipeline"
           m == job[j].anchor
       IN /\ Cardinality(S) = Len(job[j].order)
          /\ IF job[j].kind = "all" THEN S = ids
             ELSE IF m \notin ids THEN S = {}
             ELSE /\ m \in S /\ Closed(S, job[j].deps, all)
                  /\ \A T \in SUBSET ids : m \in T /\ Closed(T, job[j].deps, all) => S \subseteq T

\* The references are refused exactly when no order of the models satisfies them.
RefusesCycles ==
    [][\A j \in Requests :
          (At(j, "load") /\ bound' = bound /\ job'[j] # job[j] /\ ~Refused(j)) =>
             (job'[j].at = "create" <=>
                 \E rank \in [Present -> 1 .. Cardinality(Present)] :
                    \A m \in Present : \A d \in Deps[m] : rank[d] < rank[m])]_vars

\* The status of a run that ended says whether all, none or some of its models were
\* built, and every model is accounted for once.
StatusTellsOutcome ==
    \A r \in DOMAIN runs : runs[r].status # "running" =>
       /\ runs[r].succeeded + runs[r].failed + runs[r].skipped = runs[r].total
       /\ runs[r].status = IF runs[r].succeeded = 0 THEN "error"
                           ELSE IF runs[r].succeeded = runs[r].total THEN "success" ELSE "partial"
       /\ \A m \in Ids : runs[r].results[m] \in {"none", "success", "error", "skipped"}

\* "An active run for a connection": a row that says running is the row of the one
\* run that is under way, until a restart.
RunningIsLive ==
    bound.crashes = 0 =>
       \A r \in DOMAIN runs : runs[r].status = "running" =>
          running /\ \E j \in Jobs : job[j].run = r /\ \A k \in Jobs \ {j} : job[k].run = 0

\* A model that says success has a table or view, except while it is replaced: where it
\* was built, which need not be its place after an edit.  A statement that the gateway
\* gave up on, or a restart, can take it away.
Built(m) == \E t \in target : t[1] = m
SuccessExists ==
    bound.late = 0 /\ bound.crashes = 0 =>
       \A m \in Present :
          models[m].status = "success" =>
             Built(m) \/ \E j \in Jobs : job[j].at \in {"exec", "result"} /\ Current(j) = m

\* What a run executes, and when: the models asked for, each after its sources.
OrderInv == BuiltAfterItsSources /\ RunsWhatItShould

\* What the database says of runs and models is what happened to them.
RecordInv == TypeOK /\ StatusTellsOutcome /\ RunningIsLive /\ SuccessExists

\* The order of a run and what it records hold together.
BuildInv == OrderInv /\ RecordInv

\* A schedule that is due is attempted, whoever holds the lock, and gets a new time.
DueIsAttempted ==
    \A m \in Ids : (schedule[m] # Absent /\ schedule[m].due) ~>
                   (schedule[m] = Absent \/ ~schedule[m].due)
=============================================================================
