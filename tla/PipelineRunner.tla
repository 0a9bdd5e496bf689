--------------------------- MODULE PipelineRunner ---------------------------
(***************************************************************************)
(* The life of pipeline runs (internal/pipelines/runner.go, the start and  *)
(* stop handlers, webhook.go's registry): StartPipeline and StopPipeline   *)
(* called by HTTP handlers, the runPipeline goroutine and the source       *)
(* goroutine of every run, Stop at shutdown, crashes, and Start, which     *)
(* resumes after a restart.                                                *)
(*                                                                         *)
(* Critical sections of Runner.mu are atomic steps, but for the one that   *)
(* Stop holds while it waits.  A run slot is reused once nothing refers to *)
(* it.  What a batch contains is the subject of PipelineDelivery.          *)
(***************************************************************************)
EXTENDS Naturals, FiniteSets

CONSTANTS Pipelines,
          Hooks,       \* the pipelines whose source may be a webhook
          Runs,        \* run slots
          NoRun,
          QueueCap,    \* capacity of batchCh: 10 in the code
          MaxStarts,   \* bound: StartPipeline calls in progress at once
          MayCrash     \* whether the process is killed in this instance

ASSUME RunnerAssumption ==
    /\ Pipelines # {} /\ Hooks \subseteq Pipelines
    /\ IsFiniteSet(Runs) /\ NoRun \notin Runs
    /\ QueueCap \in Nat \ {0}
    /\ MaxStarts \in Nat
    /\ MayCrash \in BOOLEAN

VARIABLES
    webhooks,    \* the pipelines whose source is a webhook
    status,      \* pipelines.status in the database
    server,      \* the process, and how far Stop has come
    remaining,   \* the pipelines Stop has still to wait for
    timer,       \* the 30 s timer of Stop has fired
    recovering,  \* the pipelines Start has still to resume
    entry,       \* Runner.pipelines
    registry,    \* webhookRegistry
    stopper,     \* StopPipeline: idle, asked, mark, or the run it waits for
    of,          \* the pipeline of a run slot
    stage,       \* where StartPipeline, then runPipeline, is
    resumed,     \* the run is started by Start, not by a handler
    cancelled,   \* its context
    source,      \* its source goroutine
    queue,       \* batches in batchCh
    row          \* pipeline_runs.status

shutVars == <<server, remaining, timer>>
runVars == <<of, stage, resumed, cancelled, source, queue, row>>
vars == <<webhooks, status, shutVars, recovering, entry, registry, stopper, runVars>>

Starting == {"asked", "checked", "created", "marked"}
Ending == {"row", "status", "unmap", "close"}
Final == {"success", "error", "stopped"}

TypeOK ==
    /\ webhooks \subseteq Hooks
    /\ status \in [Pipelines -> {"draft", "running"} \cup Final]
    /\ server \in {"up", "cancelled", "waiting", "down"}
    /\ remaining \subseteq Pipelines
    /\ timer \in BOOLEAN
    /\ recovering \subseteq Pipelines
    /\ entry \in [Pipelines -> Runs \cup {NoRun}]
    /\ registry \in [Pipelines -> Runs \cup {NoRun}]
    /\ stopper \in [Pipelines -> {"idle", "asked", "mark"} \cup Runs]
    /\ of \in [Runs -> Pipelines]
    /\ stage \in [Runs -> {"free", "running", "done"} \cup Starting \cup Ending]
    /\ resumed \in [Runs -> BOOLEAN]
    /\ cancelled \in [Runs -> BOOLEAN]
    /\ source \in [Runs -> {"off", "up", "failed", "down"}]
    /\ queue \in [Runs -> 0..QueueCap]
    /\ row \in [Runs -> {"none", "running"} \cup Final]

SomePipeline == CHOOSE p \in Pipelines : TRUE

Init ==
    /\ webhooks \in SUBSET Hooks
    /\ status = [p \in Pipelines |-> "draft"]
    /\ server = "up"
    /\ remaining = {}
    /\ timer = FALSE
    /\ recovering = {}
    /\ entry = [p \in Pipelines |-> NoRun]
    /\ registry = [p \in Pipelines |-> NoRun]
    /\ stopper = [p \in Pipelines |-> "idle"]
    /\ of = [r \in Runs |-> SomePipeline]
    /\ stage = [r \in Runs |-> "free"]
    /\ resumed = [r \in Runs |-> FALSE]
    /\ cancelled = [r \in Runs |-> FALSE]
    /\ source = [r \in Runs |-> "off"]
    /\ queue = [r \in Runs |-> 0]
    /\ row = [r \in Runs |-> "none"]

Alive == server # "down"

\* Stop holds r.mu for reading while it waits, so that Lock blocks ...
MayLock == Alive /\ server # "waiting"
\* ... and, once a Lock is waiting, so does every further RLock.
MayRLock == Alive /\ (server = "waiting" =>
                        \A r \in Runs : stage[r] \notin {"asked", "marked", "unmap"})

----------------------------------------------------------------------------
(* StartPipeline.                                                          *)

\* Slot r becomes the run of p; everything about an earlier run is gone.
Allocate(r, p, byRecovery) ==
    /\ stage[r] = "free"
    /\ Cardinality({q \in Runs : stage[q] \in Starting}) < MaxStarts
    /\ of' = [of EXCEPT ![r] = p]
    /\ stage' = [stage EXCEPT ![r] = "asked"]
    /\ resumed' = [resumed EXCEPT ![r] = byRecovery]
    /\ cancelled' = [cancelled EXCEPT ![r] = FALSE]
    /\ source' = [source EXCEPT ![r] = "off"]
    /\ queue' = [queue EXCEPT ![r] = 0]
    /\ row' = [row EXCEPT ![r] = "none"]

\* The handler looks at the status in the database, then calls StartPipeline.
StartAsk(p, r) ==
    /\ Alive
    /\ status[p] # "running"
    /\ Allocate(r, p, FALSE)
    /\ UNCHANGED <<webhooks, status, shutVars, recovering, entry, registry, stopper>>

\* Start: the next pipeline that was running when the process ended.
Resume(p, r) ==
    /\ Alive
    /\ p \in recovering
    /\ \A q \in Runs : stage[q] \in Starting => ~resumed[q]
    /\ Allocate(r, p, TRUE)
    /\ recovering' = recovering \ {p}
    /\ UNCHANGED <<webhooks, status, shutVars, entry, registry, stopper>>

\* Faulty: a failed resume is only logged.
StartFailsQuietly(r) ==
    /\ stage' = [stage EXCEPT ![r] = "free"]
    /\ UNCHANGED <<webhooks, status, shutVars, recovering, entry, registry, stopper,
                   of, resumed, cancelled, source, queue, row>>

\* An error return; a failed resume is also written to the status.
StartFails(r) ==
    /\ stage' = [stage EXCEPT ![r] = "free"]
    /\ status' = IF resumed[r] THEN [status EXCEPT ![of[r]] = "error"] ELSE status
    /\ UNCHANGED <<webhooks, shutVars, recovering, entry, registry, stopper,
                   of, resumed, cancelled, source, queue, row>>

\* Faulty: does not look whether the pipeline is running.
StartCheckNothing(r) ==
    /\ MayLock
    /\ stage[r] = "asked"
    /\ stage' = [stage EXCEPT ![r] = "checked"]
    /\ UNCHANGED <<webhooks, status, shutVars, recovering, entry, registry, stopper,
                   of, resumed, cancelled, source, queue, row>>

\* The first critical section: already running?
StartCheck(r) ==
    /\ MayLock
    /\ stage[r] = "asked"
    /\ IF entry[of[r]] # NoRun
       THEN StartFails(r)
       ELSE /\ stage' = [stage EXCEPT ![r] = "checked"]
            /\ UNCHANGED <<webhooks, status, shutVars, recovering, entry, registry, stopper,
                           of, resumed, cancelled, source, queue, row>>

\* A missing graph, an invalid config or a database error.
StartInvalid(r) ==
    /\ Alive
    /\ stage[r] = "checked"
    /\ StartFails(r)

StartCreate(r) ==
    /\ Alive
    /\ stage[r] = "checked"
    /\ row' = [row EXCEPT ![r] = "running"]
    /\ stage' = [stage EXCEPT ![r] = "created"]
    /\ UNCHANGED <<webhooks, status, shutVars, recovering, entry, registry, stopper,
                   of, resumed, cancelled, source, queue>>

StartMark(r) ==
    /\ Alive
    /\ stage[r] = "created"
    /\ status' = [status EXCEPT ![of[r]] = "running"]
    /\ stage' = [stage EXCEPT ![r] = "marked"]
    /\ UNCHANGED <<webhooks, shutVars, recovering, entry, registry, stopper,
                   of, resumed, cancelled, source, queue, row>>

\* The second critical section, and the goroutine.
StartInsert(r) ==
    /\ MayLock
    /\ stage[r] = "marked"
    /\ entry' = [entry EXCEPT ![of[r]] = r]
    /\ stage' = [stage EXCEPT ![r] = "running"]
    /\ UNCHANGED <<webhooks, status, shutVars, recovering, registry, stopper,
                   of, resumed, cancelled, source, queue, row>>

----------------------------------------------------------------------------
(* The source goroutine of run r.                                          *)

\* Start of the source; a webhook source registers its receiver.
SourceUp(r) ==
    /\ Alive
    /\ stage[r] \notin {"free"} \cup Starting
    /\ source[r] = "off"
    /\ source' = [source EXCEPT ![r] = "up"]
    /\ registry' = IF of[r] \in webhooks THEN [registry EXCEPT ![of[r]] = r] ELSE registry
    /\ UNCHANGED <<webhooks, status, shutVars, recovering, entry, stopper,
                   of, stage, resumed, cancelled, queue, row>>

SourceEmit(r) ==
    /\ Alive
    /\ source[r] = "up"
    /\ queue[r] < QueueCap
    /\ queue' = [queue EXCEPT ![r] = @ + 1]
    /\ UNCHANGED <<webhooks, status, shutVars, recovering, entry, registry, stopper,
                   of, stage, resumed, cancelled, source, row>>

\* The context ends: the deferred Delete removes whatever is registered.
SourceStops(r) ==
    /\ Alive
    /\ source[r] = "up"
    /\ cancelled[r]
    /\ source' = [source EXCEPT ![r] = "down"]
    /\ registry' = IF of[r] \in webhooks THEN [registry EXCEPT ![of[r]] = NoRun]
                   ELSE registry
    /\ UNCHANGED <<webhooks, status, shutVars, recovering, entry, stopper,
                   of, stage, resumed, cancelled, queue, row>>

\* Kafka, database or S3: an unrecoverable error.
SourceFails(r) ==
    /\ Alive
    /\ source[r] = "up"
    /\ of[r] \notin webhooks
    /\ source' = [source EXCEPT ![r] = "failed"]
    /\ UNCHANGED <<webhooks, status, shutVars, recovering, entry, registry, stopper,
                   of, stage, resumed, cancelled, queue, row>>

----------------------------------------------------------------------------
(* runPipeline.                                                            *)

\* A batch: written to the sink, or the end of the loop when cancelled.
Consume(r) ==
    /\ Alive
    /\ stage[r] = "running"
    /\ queue[r] > 0
    /\ queue' = [queue EXCEPT ![r] = @ - 1]
    /\ stage' = IF cancelled[r] THEN [stage EXCEPT ![r] = "row"] ELSE stage
    /\ UNCHANGED <<webhooks, status, shutVars, recovering, entry, registry, stopper,
                   of, resumed, cancelled, source, row>>

\* Faulty: the channel is closed only by a source that failed.
DrainedAfterFailure(r) ==
    /\ Alive
    /\ stage[r] = "running"
    /\ queue[r] = 0
    /\ source[r] = "failed"
    /\ stage' = [stage EXCEPT ![r] = "row"]
    /\ UNCHANGED <<webhooks, status, shutVars, recovering, entry, registry, stopper,
                   of, resumed, cancelled, source, queue, row>>

\* batchCh is closed, because the source has returned, and drained.
Drained(r) ==
    /\ Alive
    /\ stage[r] = "running"
    /\ queue[r] = 0
    /\ source[r] \in {"down", "failed"}
    /\ stage' = [stage EXCEPT ![r] = "row"]
    /\ UNCHANGED <<webhooks, status, shutVars, recovering, entry, registry, stopper,
                   of, resumed, cancelled, source, queue, row>>

\* UpdatePipelineRun with the status of the run.
RecordRun(r) ==
    /\ Alive
    /\ stage[r] = "row"
    /\ row' = [row EXCEPT ![r] = IF cancelled[r] THEN "stopped"
                                 ELSE IF source[r] = "failed" THEN "error" ELSE "success"]
    /\ stage' = [stage EXCEPT ![r] = "status"]
    /\ UNCHANGED <<webhooks, status, shutVars, recovering, entry, registry, stopper,
                   of, resumed, cancelled, source, queue>>

\* UpdatePipelineStatus with the same status.
RecordStatus(r) ==
    /\ Alive
    /\ stage[r] = "status"
    /\ status' = [status EXCEPT ![of[r]] = row[r]]
    /\ stage' = [stage EXCEPT ![r] = "unmap"]
    /\ UNCHANGED <<webhooks, shutVars, recovering, entry, registry, stopper,
                   of, resumed, cancelled, source, queue, row>>

\* The deferred delete, by pipeline id ...
Unmap(r) ==
    /\ MayLock
    /\ stage[r] = "unmap"
    /\ entry' = [entry EXCEPT ![of[r]] = NoRun]
    /\ stage' = [stage EXCEPT ![r] = "close"]
    /\ UNCHANGED <<webhooks, status, shutVars, recovering, registry, stopper,
                   of, resumed, cancelled, source, queue, row>>

\* ... and only then close(rp.Done).
CloseDone(r) ==
    /\ Alive
    /\ stage[r] = "close"
    /\ stage' = [stage EXCEPT ![r] = "done"]
    /\ UNCHANGED <<webhooks, status, shutVars, recovering, entry, registry, stopper,
                   of, resumed, cancelled, source, queue, row>>

\* Nothing refers to the run any more.
Forget(r) ==
    /\ stage[r] = "done"
    /\ source[r] \in {"down", "failed"}
    /\ \A p \in Pipelines : stopper[p] # r /\ entry[p] # r /\ registry[p] # r
    /\ stage' = [stage EXCEPT ![r] = "free"]
    /\ UNCHANGED <<webhooks, status, shutVars, recovering, entry, registry, stopper,
                   of, resumed, cancelled, source, queue, row>>

----------------------------------------------------------------------------
(* StopPipeline.                                                           *)

\* The handler looks at the status first.
StopAsk(p) ==
    /\ Alive
    /\ stopper[p] = "idle"
    /\ status[p] = "running"
    /\ stopper' = [stopper EXCEPT ![p] = "asked"]
    /\ UNCHANGED <<webhooks, status, shutVars, recovering, entry, registry, runVars>>

StopLoad(p) ==
    /\ MayRLock
    /\ stopper[p] = "asked"
    /\ IF entry[p] = NoRun
       THEN /\ stopper' = [stopper EXCEPT ![p] = "mark"]
            /\ UNCHANGED cancelled
       ELSE /\ stopper' = [stopper EXCEPT ![p] = entry[p]]
            /\ cancelled' = [cancelled EXCEPT ![entry[p]] = TRUE]
    /\ UNCHANGED <<webhooks, status, shutVars, recovering, entry, registry,
                   of, stage, resumed, source, queue, row>>

\* "Pipeline might not be running in-memory, just update DB status".
StopMark(p) ==
    /\ Alive
    /\ stopper[p] = "mark"
    /\ status' = [status EXCEPT ![p] = "stopped"]
    /\ stopper' = [stopper EXCEPT ![p] = "idle"]
    /\ UNCHANGED <<webhooks, shutVars, recovering, entry, registry, runVars>>

\* Done is closed, or 15 s are over.
StopReturn(p) ==
    /\ Alive
    /\ stopper[p] \in Runs
    /\ stopper' = [stopper EXCEPT ![p] = "idle"]
    /\ UNCHANGED <<webhooks, status, shutVars, recovering, entry, registry, runVars>>

----------------------------------------------------------------------------
(* Stop, crash and restart.                                                *)

\* The first loop: every run in the map is cancelled.
ShutCancel ==
    /\ server = "up"
    /\ server' = "cancelled"
    /\ cancelled' = [r \in Runs |-> cancelled[r] \/ \E p \in Pipelines : entry[p] = r]
    /\ UNCHANGED <<webhooks, status, remaining, timer, recovering, entry, registry, stopper,
                   of, stage, resumed, source, queue, row>>

\* The second loop ranges over the map, with r.mu held for reading.
ShutLock ==
    /\ server = "cancelled"
    /\ server' = "waiting"
    /\ remaining' = {p \in Pipelines : entry[p] # NoRun}
    /\ timer' = FALSE
    /\ UNCHANGED <<webhooks, status, recovering, entry, registry, stopper, runVars>>

\* One select: Done is closed, or the timer fires, which it does only once.
ShutWait(p) ==
    /\ server = "waiting"
    /\ p \in remaining
    /\ stage[entry[p]] = "done" \/ ~timer
    /\ timer' = (timer \/ stage[entry[p]] # "done")
    /\ remaining' = remaining \ {p}
    /\ UNCHANGED <<webhooks, status, server, recovering, entry, registry, stopper, runVars>>

\* What the process kept in memory is gone.
Exit ==
    /\ server' = "down"
    /\ remaining' = {}
    /\ timer' = FALSE
    /\ recovering' = {}
    /\ entry' = [p \in Pipelines |-> NoRun]
    /\ registry' = [p \in Pipelines |-> NoRun]
    /\ stopper' = [p \in Pipelines |-> "idle"]
    /\ of' = [r \in Runs |-> SomePipeline]
    /\ stage' = [r \in Runs |-> "free"]
    /\ resumed' = [r \in Runs |-> FALSE]
    /\ cancelled' = [r \in Runs |-> FALSE]
    /\ source' = [r \in Runs |-> "off"]
    /\ queue' = [r \in Runs |-> 0]
    /\ row' = [r \in Runs |-> "none"]
    /\ UNCHANGED <<webhooks, status>>

ShutEnd == server = "waiting" /\ remaining = {} /\ Exit

Crash == MayCrash /\ server = "up" /\ Exit

\* NewServer and Start: GetPipelinesByStatus("running").
Restart ==
    /\ server = "down"
    /\ server' = "up"
    /\ recovering' = {p \in Pipelines : status[p] = "running"}
    /\ UNCHANGED <<webhooks, status, remaining, timer, entry, registry, stopper, runVars>>

----------------------------------------------------------------------------

StartStep(r) ==
    \/ \E p \in Pipelines : StartAsk(p, r) \/ Resume(p, r)
    \/ StartCheck(r) \/ StartInvalid(r) \/ StartCreate(r) \/ StartMark(r) \/ StartInsert(r)

SourceStep(r) == SourceUp(r) \/ SourceEmit(r) \/ SourceStops(r) \/ SourceFails(r)

RunStep(r) ==
    \/ Consume(r) \/ Drained(r) \/ RecordRun(r) \/ RecordStatus(r)
    \/ Unmap(r) \/ CloseDone(r) \/ Forget(r)

StopStep(p) == StopAsk(p) \/ StopLoad(p) \/ StopMark(p) \/ StopReturn(p)

ShutStep == ShutCancel \/ ShutLock \/ (\E p \in Pipelines : ShutWait(p)) \/ ShutEnd

Next ==
    \/ \E r \in Runs : StartStep(r) \/ SourceStep(r) \/ RunStep(r)
    \/ \E p \in Pipelines : StopStep(p)
    \/ ShutStep \/ Crash \/ Restart

Spec == Init /\ [][Next]_vars

\* Goroutines that can go on do; the timer of Stop and the 15 s of
\* StopPipeline end; the process is started again.  Requests are not made,
\* sources neither emit nor fail, and Stop is not called out of necessity.
Fairness ==
    /\ \A r \in Runs :
         /\ \A p \in Pipelines : WF_vars(Resume(p, r))
         /\ WF_vars(StartCheck(r)) /\ WF_vars(StartCreate(r) \/ StartInvalid(r))
         /\ WF_vars(StartMark(r)) /\ WF_vars(StartInsert(r))
         /\ WF_vars(SourceUp(r)) /\ WF_vars(SourceStops(r))
         /\ WF_vars(RunStep(r))
    /\ \A p \in Pipelines :
         /\ WF_vars(StopLoad(p)) /\ WF_vars(StopMark(p)) /\ WF_vars(StopReturn(p))
         /\ WF_vars(ShutWait(p))
    /\ WF_vars(ShutLock) /\ WF_vars(ShutEnd) /\ WF_vars(Restart)

FairSpec == Spec /\ Fairness

----------------------------------------------------------------------------
(* Properties.                                                             *)

\* A run that is being executed is the one in the map, so that StopPipeline
\* and Stop find it.  (StartPipeline checks and inserts in two critical
\* sections: this holds when starts do not overlap.)
LiveRunInMap ==
    \A r \in Runs : stage[r] \in {"running", "row", "status", "unmap"} => entry[of[r]] = r

\* A pipeline the database shows as running is run, is being started, or is
\* still to be resumed.
RunningIsRun ==
    Alive => \A p \in Pipelines : status[p] = "running" =>
        \/ entry[p] # NoRun
        \/ p \in recovering
        \/ \E r \in Runs : of[r] = p /\ stage[r] \in Starting

\* The goroutines, the map and the database agree on which pipelines run.
RunInv == TypeOK /\ LiveRunInMap /\ RunningIsRun

\* A cancelled run ends, whatever its source and its sink are doing.
CancelledRunEnds ==
    \A r \in Runs : (stage[r] = "running" /\ cancelled[r]) ~> (stage[r] # "running")

\* After a restart a pipeline that was running runs again, or shows why not.
Resumes ==
    \A p \in Pipelines : (p \in recovering) ~>
        (entry[p] # NoRun \/ status[p] # "running" \/ server = "down")

\* Every run that was cancelled, and every pipeline that is to be resumed, settles.
RunsSettle == CancelledRunEnds /\ Resumes

\* runner.go:77, "Wait for all to finish with timeout": Stop returns.
ShutdownEnds == (server = "cancelled") ~> (server = "down")

=============================================================================
