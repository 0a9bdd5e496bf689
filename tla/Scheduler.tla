------------------------------ MODULE Scheduler ------------------------------
(***************************************************************************)
(* Scheduled queries: the runner (internal/scheduler), the requests that   *)
(* create, edit, delete and run schedules by hand (handlers/schedules.go), *)
(* and the two tables they share, of which every statement is a            *)
(* transaction of its own.                                                 *)
(*                                                                         *)
(* One goroutine ticks: it lists the schedules that are due, starts a      *)
(* goroutine for each, at most MaxConcurrent at a time, and waits for all  *)
(* of them.  The unit of time is the minute of the cron fields; a tick may *)
(* come at any moment.  What the gateway answers to a query is free (see   *)
(* TunnelGateway); the columns that are only shown are left out.           *)
(***************************************************************************)
EXTENDS Naturals, Sequences, FiniteSets

CONSTANTS
    Schedules,      \* the ids of schedules
    Handlers,       \* the requests that may be served at the same time
    Crons,          \* cron expressions: [every, at], matching t % every = at
    Keep,           \* a field that the body of an edit does not name
    NoRow,          \* no such row
    MaxConcurrent,  \* maxConcurrent: 3 in the code
    Horizon,        \* how far ComputeNextRun looks ahead: a year in the code
    MaxTime,        \* bound: the clock
    MaxRequests,    \* bound: requests
    MaxEnds         \* bound: how often the process ends

ASSUME SchedulerAssumption ==
    /\ Schedules \cap Handlers = {}
    /\ Crons \subseteq [every : Nat \ {0}, at : Nat]
    /\ Keep \notin Crons /\ Keep \notin BOOLEAN
    /\ NoRow \notin [cron : Crons, enabled : BOOLEAN, next : Nat]
    /\ {MaxConcurrent, Horizon, MaxTime, MaxRequests, MaxEnds} \subseteq Nat

VARIABLES
    now,       \* the clock
    up,        \* whether the process runs
    stopping,  \* Stop was called: stopCh is closed
    tick,      \* the ticking goroutine: sleep, run or ended
    row,       \* the table schedules
    used,      \* the ids given out: a uuid is never given twice
    runs,      \* the table schedule_runs
    alerted,   \* the runs with an alert event
    proc,      \* the goroutines: one per due schedule, one per request
    served,    \* history: the occurrence each schedule last ran for
    late,      \* history: runs begun since the schedule was last enabled,
               \*   while it was disabled or deleted
    overtaken, \* history: the requests that computed a next run before the last tick
               \*   that listed their schedule and have still to write it, and the
               \*   schedules whose next_run_at such a request wrote
    requests, ends

tables == <<row, used, runs, alerted>>
history == <<served, late, overtaken>>
bounds == <<requests, ends>>
vars == <<now, up, stopping, tick, tables, proc, history, bounds>>

NoTime == 0    \* a null next_run_at
NoRun == 0     \* an empty run id
Procs == Schedules \cup Handlers
Rows == [cron : Crons, enabled : BOOLEAN, next : Nat]
Start(pc, s, snap) ==
    [pc |-> pc, schedule |-> s, snap |-> snap, run |-> NoRun, status |-> "none"]
Idle == Start("idle", "none", NoRow)

Exists(s) == row[s] # NoRow

\* Whether the five fields of cron match minute t (of UTC, whatever the timezone of the schedule).
Matches(cron, t) == t % cron.every = cron.at

\* Faulty: the minute of from itself may match.
ComputeNextRunSameMinute(cron, from) ==
    LET match == {t \in from .. (from + Horizon) : Matches(cron, t)}
    IN  IF match = {} THEN NoTime
        ELSE CHOOSE t \in match : \A u \in match : t <= u

\* The first match after the minute of from, or null beyond the horizon.
ComputeNextRun(cron, from) ==
    LET match == {t \in (from + 1) .. (from + Horizon) : Matches(cron, t)}
    IN  IF match = {} THEN NoTime
        ELSE CHOOSE t \in match : \A u \in match : t <= u

ValidateCron(cron) == ComputeNextRun(cron, now) # NoTime

Init ==
    /\ now = 0 /\ up = TRUE /\ stopping = FALSE /\ tick = "sleep"
    /\ row = [s \in Schedules |-> NoRow] /\ used = {} /\ runs = <<>> /\ alerted = {}
    /\ proc = [p \in Procs |-> Idle]
    /\ served = [s \in Schedules |-> 0] /\ late = [s \in Schedules |-> 0] /\ overtaken = {}
    /\ requests = 0 /\ ends = 0

-----------------------------------------------------------------------------
(* The ticking goroutine. *)

\* Faulty: without "WHERE enabled = 1".
IsDueDisabledToo(s) == Exists(s) /\ row[s].next # NoTime /\ row[s].next <= now

IsDue(s) ==
    /\ Exists(s) /\ row[s].enabled
    /\ row[s].next # NoTime /\ row[s].next <= now

Due == {s \in Schedules : IsDue(s)}

\* The order of the list does not matter to what follows: it is left out.
Tick ==
    /\ up /\ tick = "sleep" /\ Due # {}
    /\ tick' = "run"
    /\ proc' = [p \in Procs |-> IF p \in Due THEN Start("due", p, row[p]) ELSE proc[p]]
    /\ served' = [s \in Schedules |-> IF s \in Due THEN row[s].next ELSE served[s]]
    /\ overtaken' = (overtaken \ Due)
          \cup {h \in Handlers : proc[h].pc = "store" /\ proc[h].schedule \in Due}
    /\ UNCHANGED <<now, up, stopping, tables, late, bounds>>

\* Faulty: a place is taken before there is one.
ActiveAndWaiting == {s \in Schedules : proc[s].pc # "idle"}

\* The goroutines that hold a place of the semaphore.
Active == {s \in Schedules : proc[s].pc \notin {"idle", "due"}}

Spawn(s) ==
    /\ proc[s].pc = "due" /\ Cardinality(Active) < MaxConcurrent
    /\ proc' = [proc EXCEPT ![s].pc = "open"]
    /\ UNCHANGED <<now, up, stopping, tick, tables, history, bounds>>

\* Faulty: the tick does not wait for its goroutines.
EndTickAtOnce ==
    /\ tick = "run" /\ \A s \in Schedules : proc[s].pc # "due"
    /\ tick' = "sleep"
    /\ UNCHANGED <<now, up, stopping, tables, proc, history, bounds>>

\* wg.Wait returns.
EndTick ==
    /\ tick = "run" /\ \A s \in Schedules : proc[s].pc = "idle"
    /\ tick' = "sleep"
    /\ UNCHANGED <<now, up, stopping, tables, proc, history, bounds>>

\* The select takes stopCh, or a last tick if the ticker has fired as well.
EndLoop ==
    /\ up /\ stopping /\ tick = "sleep"
    /\ tick' = "ended"
    /\ UNCHANGED <<now, up, stopping, tables, proc, history, bounds>>

-----------------------------------------------------------------------------
(* One run, of the runner or of a request: both take the same steps. *)

Advance(p, pc) == proc' = [proc EXCEPT ![p].pc = pc]

ByTick(p) == p \in Schedules

\* The foreign key refuses the row when the schedule was deleted meanwhile;
\* the run goes on without a record.
OpenRun(p) ==
    LET s == proc[p].schedule IN
    /\ proc[p].pc = "open"
    /\ IF Exists(s)
       THEN /\ runs' = Append(runs, [schedule |-> s, tick |-> ByTick(p), status |-> "running"])
            /\ proc' = [proc EXCEPT ![p].pc = "query", ![p].run = Len(runs) + 1]
       ELSE Advance(p, "query") /\ UNCHANGED runs
    /\ late' = IF ByTick(p) /\ ~(Exists(s) /\ row[s].enabled)
               THEN [late EXCEPT ![s] = @ + 1] ELSE late
    /\ UNCHANGED <<now, up, stopping, tick, row, used, alerted, served, overtaken, bounds>>

\* Fetch the query, find a connection and credentials, ask the gateway.
Query(p) ==
    /\ proc[p].pc = "query"
    /\ \E status \in {"success", "error"} \cup (IF ByTick(p) THEN {"slow"} ELSE {}) :
          proc' = [proc EXCEPT ![p].pc = "close", ![p].status = status]
    /\ UNCHANGED <<now, up, stopping, tick, tables, history, bounds>>

CloseRun(p) ==
    LET i == proc[p].run IN
    /\ proc[p].pc = "close"
    /\ Advance(p, "status")
    /\ runs' = IF i # NoRun /\ runs[i].status # "gone"
               THEN [runs EXCEPT ![i].status =
                        IF proc[p].status = "error" THEN "error" ELSE "success"]
               ELSE runs
    /\ UNCHANGED <<now, up, stopping, tick, row, used, alerted, history, bounds>>

\* Computed from the schedule as it was read before the run, or as it was edited.
NextAfter(p) ==
    IF proc[p].snap.enabled THEN ComputeNextRun(proc[p].snap.cron, now) ELSE NoTime

\* The statement that writes the result comes later.  A new schedule gets none if there is
\* none.
ComputeNext(p) ==
    LET next == NextAfter(p) IN
    /\ proc[p].pc \in {"status", "created", "edited"}
    /\ proc' = [proc EXCEPT ![p] = IF proc[p].pc = "created" /\ next = NoTime THEN Idle
                                   ELSE [@ EXCEPT !.pc = "store", !.snap.next = next]]
    /\ UNCHANGED <<now, up, stopping, tick, tables, history, bounds>>

SetNext(s, next) == row' = IF Exists(s) THEN [row EXCEPT ![s].next = next] ELSE row

SetStatus(p) ==
    LET s == proc[p].schedule IN
    /\ proc[p].pc = "store"
    /\ SetNext(s, proc[p].snap.next)
    /\ proc' = [proc EXCEPT ![p] = IF ByTick(p) THEN [@ EXCEPT !.pc = "raise"] ELSE Idle]
    /\ overtaken' = (overtaken \ {p, s}) \cup IF p \in overtaken \cap Handlers THEN {s} ELSE {}
    /\ UNCHANGED <<now, up, stopping, tick, used, runs, alerted, served, late, bounds>>

\* Faulty: the failure branch is lost.
RaisesSlowOnly(status) == status = "slow"

Raises(status) == status \in {"error", "slow"}

Raise(s) ==
    /\ proc[s].pc = "raise"
    /\ alerted' = IF Raises(proc[s].status) THEN alerted \cup {proc[s].run} ELSE alerted
    /\ proc' = [proc EXCEPT ![s] = Idle]
    /\ UNCHANGED <<now, up, stopping, tick, row, used, runs, history, bounds>>

-----------------------------------------------------------------------------
(* The requests. *)

Serve(h) ==
    /\ up /\ proc[h].pc = "idle" /\ requests < MaxRequests
    /\ requests' = requests + 1
    /\ UNCHANGED <<now, up, stopping, tick, ends>>

Create(h, s, cron) ==
    /\ Serve(h)
    /\ s \notin used /\ ValidateCron(cron)
    /\ used' = used \cup {s}
    /\ row' = [row EXCEPT ![s] = [cron |-> cron, enabled |-> TRUE, next |-> NoTime]]
    /\ proc' = [proc EXCEPT ![h] = Start("created", s, row'[s])]
    /\ UNCHANGED <<runs, alerted, history>>

\* The row read, with the fields that the body names.
Merge(r, cron, enabled) ==
    [r EXCEPT !.cron = IF cron = Keep THEN @ ELSE cron,
              !.enabled = IF enabled = Keep THEN @ ELSE enabled]

ReadForEdit(h, s, cron, enabled) ==
    /\ Serve(h)
    /\ Exists(s) /\ (cron # Keep => ValidateCron(cron))
    /\ proc' = [proc EXCEPT ![h] = Start("write", s, Merge(row[s], cron, enabled))]
    /\ UNCHANGED <<tables, history>>

UpdateSchedule(h) ==
    LET s == proc[h].schedule
        edit == proc[h].snap
    IN  /\ proc[h].pc = "write"
        /\ Advance(h, "edited")
        /\ row' = IF Exists(s) THEN [row EXCEPT ![s].cron = edit.cron, ![s].enabled = edit.enabled]
                  ELSE row
        /\ late' = IF Exists(s) /\ edit.enabled THEN [late EXCEPT ![s] = 0] ELSE late
        /\ UNCHANGED <<now, up, stopping, tick, used, runs, alerted, served, overtaken, bounds>>

\* The runs of the schedule are deleted with it.
Delete(h, s) ==
    /\ Serve(h)
    /\ Exists(s)
    /\ row' = [row EXCEPT ![s] = NoRow]
    /\ runs' = [i \in DOMAIN runs |-> IF runs[i].schedule = s
                                      THEN [runs[i] EXCEPT !.status = "gone"] ELSE runs[i]]
    /\ UNCHANGED <<used, alerted, proc, history>>

\* Neither whether it is enabled nor whether it is running is asked.
ManualRun(h, s) ==
    /\ Serve(h)
    /\ Exists(s)
    /\ proc' = [proc EXCEPT ![h] = Start("open", s, row[s])]
    /\ UNCHANGED <<tables, history>>

-----------------------------------------------------------------------------
(* The process and its surroundings. *)

Clock ==
    /\ now < MaxTime
    /\ now' = now + 1
    /\ UNCHANGED <<up, stopping, tick, tables, proc, history, bounds>>

\* The first step of the shutdown: it does not wait for the runs.
Stop ==
    /\ up /\ ~stopping /\ ends < MaxEnds
    /\ stopping' = TRUE /\ ends' = ends + 1
    /\ UNCHANGED <<now, up, tick, tables, proc, history, requests>>

Die ==
    /\ up' = FALSE /\ stopping' = FALSE /\ tick' = "sleep"
    /\ proc' = [p \in Procs |-> Idle]
    /\ served' = [s \in Schedules |-> 0] /\ overtaken' = {}
    /\ UNCHANGED <<now, tables, late, requests>>

Exit == up /\ stopping /\ Die /\ UNCHANGED ends

Crash == up /\ ends < MaxEnds /\ Die /\ ends' = ends + 1

Restart ==
    /\ ~up /\ up' = TRUE
    /\ UNCHANGED <<now, stopping, tick, tables, proc, history, bounds>>

Request(h) ==
    \/ UpdateSchedule(h)
    \/ \E s \in Schedules :
          \/ \E cron \in Crons : Create(h, s, cron)
          \/ \E cron \in Crons \cup {Keep}, enabled \in BOOLEAN \cup {Keep} :
                ReadForEdit(h, s, cron, enabled)
          \/ Delete(h, s) \/ ManualRun(h, s)

Run(p) == OpenRun(p) \/ Query(p) \/ CloseRun(p) \/ ComputeNext(p) \/ SetStatus(p)

Next ==
    \/ Clock \/ Tick \/ EndTick \/ EndLoop
    \/ Stop \/ Exit \/ Crash \/ Restart
    \/ \E s \in Schedules : Spawn(s) \/ Raise(s)
    \/ \E p \in Procs : Run(p)
    \/ \E h \in Handlers : Request(h)

Spec == Init /\ [][Next]_vars

\* The goroutines run; a query is answered or times out (TunnelGateway); the
\* service is restarted (Restart=always); a shutdown ends the process.
Fairness ==
    /\ WF_vars(Tick) /\ WF_vars(EndTick) /\ WF_vars(Exit) /\ WF_vars(Restart)
    /\ \A s \in Schedules : WF_vars(Spawn(s)) /\ WF_vars(Raise(s)) /\ WF_vars(Run(s))

FairSpec == Spec /\ Fairness

-----------------------------------------------------------------------------
(* Properties. *)

Statuses == {"none", "success", "slow", "error"}

Stages == {"due", "open", "query", "close", "status", "store", "raise",
           "created", "write", "edited"}

\* A goroutine at work, when there are n runs.
Working(n) == [pc : Stages, schedule : Schedules, snap : Rows,
               run : NoRun .. n, status : Statuses]

RunRows == [schedule : Schedules, tick : BOOLEAN,
            status : {"running", "success", "error", "gone"}]

\* Every variable stays within its type, whatever requests, runs and restarts
\* interleave.
TypeOK ==
    /\ now \in Nat /\ up \in BOOLEAN /\ stopping \in BOOLEAN
    /\ tick \in {"sleep", "run", "ended"}
    /\ row \in [Schedules -> Rows \cup {NoRow}]
    /\ used \subseteq Schedules
    /\ runs \in Seq(RunRows)
    /\ alerted \subseteq NoRun .. Len(runs)
    /\ proc \in [Procs -> {Idle} \cup Working(Len(runs))]
    /\ served \in [Schedules -> Nat] /\ late \in [Schedules -> Nat]
    /\ overtaken \subseteq Procs
    /\ requests \in Nat /\ ends \in Nat

\* One process starts at most one run for an occurrence of a schedule: what a
\* tick lists is later than what it listed before, whatever edits and manual
\* runs have written next_run_at in between.  Only a request that computed its
\* minute before a tick listed it, and writes it after, brings it back
\* (schedules.go:280, 473), and that once.
OncePerOccurrence ==
    [][\A s \in Schedules :
          proc[s].pc = "idle" /\ proc'[s].pc = "due" =>
             served[s] < proc'[s].snap.next \/ s \in overtaken]_vars

\* A schedule that was disabled or deleted begins at most the one run that a
\* tick had already listed, although that run writes next_run_at again.
DisabledRunsOnce == \A s \in Schedules : late[s] <= 1

\* Until the process ends, a row of schedule_runs that says running belongs to
\* one goroutine that will close it: no run is lost, and scheduled runs of one
\* schedule do not overlap.
RunningIsOwned ==
    ends = 0 =>
        \A i \in DOMAIN runs : runs[i].status = "running" =>
            \E p \in Procs : proc[p].run = i /\ proc[p].pc \in {"query", "close"}

\* Until the process ends, every scheduled run that failed has an alert event,
\* or its goroutine is about to raise it.
FailureAlerted ==
    ends = 0 =>
        \A i \in DOMAIN runs : runs[i].tick /\ runs[i].status = "error" =>
            \/ i \in alerted
            \/ \E s \in Schedules : proc[s].run = i /\ proc[s].pc \in {"status", "store", "raise"}

\* What the ticks, the requests and the runs of one process leave behind: no
\* run lost, no failure silent, no disabled schedule run twice.
ScheduleInv == DisabledRunsOnce /\ RunningIsOwned /\ FailureAlerted

\* A schedule that is due is run, or disabled, deleted or moved by an edit,
\* whatever the other runs of the tick do and however often the process ends.
DueIsRun ==
    \A s \in Schedules :
        IsDue(s) ~> (proc[s].pc \in {"query", "close", "status", "store", "raise"} \/ ~IsDue(s))
=============================================================================
