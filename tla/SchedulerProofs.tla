--------------------------- MODULE SchedulerProofs ---------------------------
EXTENDS Scheduler, WellFoundedInduction, SequenceTheorems, FiniteSetTheorems, TLAPS

(***************************************************************************)
(* Proofs about the runner of the schedules, for every set of schedules,   *)
(* requests and cron expressions and for every bound, then about the other *)
(* runner with a lock, that of the models, and at last about the sync with *)
(* GitHub that brings models.                                              *)
(*                                                                         *)
(* None of the properties is inductive alone.  The invariant that is, is   *)
(* the conjunction of five parts, each proved to be kept by every step:    *)
(*                                                                         *)
(*   TypeOK    the types; a goroutine that is not idle has a schedule, a   *)
(*             copy of its row and the id of a run that exists.            *)
(*   LaterInv  what next_run_at says of a schedule that no goroutine runs  *)
(*             is later than the occurrence it last ran for, and so is     *)
(*             what somebody computed and has still to write, unless a     *)
(*             tick overtook it.  It holds because next_run_at is written  *)
(*             before the goroutine ends, and gives OncePerOccurrence.     *)
(*   LateInv   a schedule that began a run while it was off is still off   *)
(*             and no tick has listed it since, so that it begins no       *)
(*             other: DisabledRunsOnce.                                    *)
(*   OwnInv    a row that says running has a goroutine about to close it,  *)
(*             because the tick waits for its goroutines before the next   *)
(*             one overwrites their places: RunningIsOwned.                *)
(*   AlertInv  a row says error only when its one goroutine has found an   *)
(*             error and has still to raise the alert, or it is raised:    *)
(*             FailureAlerted.                                             *)
(***************************************************************************)

\* A nonempty set of naturals has a least element: what the search for the next
\* matching minute returns when there is one.
LEMMA Least == ASSUME NEW S \in SUBSET Nat, S # {} PROVE \E x \in S : \A y \in S : x <= y
<1> DEFINE R == {ss \in Nat \X Nat : ss[1] < ss[2]}
<1>1. IsWellFoundedOn(R, Nat)
  BY NatLessThanWellFounded DEF OpToRel
<1>2. \E x \in S : \A y \in S : ~ (<<y, x>> \in R)
  <2> HIDE DEF R
  <2> QED BY <1>1, WFMin
<1>3. PICK x \in S : \A y \in S : ~ (<<y, x>> \in R)
  BY <1>2
<1>4. ASSUME NEW y \in S PROVE x <= y
  <2>1. x \in Nat /\ y \in Nat /\ <<y, x>> \in Nat \X Nat
    OBVIOUS
  <2>2. ~ (y < x)
    BY <1>3
  <2> QED
    BY <2>2
<1> QED
  BY <1>4

\* The search of the cron expression returns no time or one after the time that
\* it starts from.
LEMMA NextIsLater ==
    ASSUME NEW cron \in Crons, NEW from \in Nat
    PROVE  /\ ComputeNextRun(cron, from) \in Nat
           /\ ComputeNextRun(cron, from) # NoTime => ComputeNextRun(cron, from) > from
<1> DEFINE match == {t \in (from + 1) .. (from + Horizon) : Matches(cron, t)}
<1>1. CASE match = {}
  BY <1>1 DEF ComputeNextRun, NoTime
<1>2. CASE match # {}
  <2>1. match \subseteq Nat /\ \A t \in match : t > from
    OBVIOUS
  <2>2. PICK t \in match : \A u \in match : t <= u
    <3> HIDE DEF match
    <3> QED BY <1>2, <2>1, Least
  <2>3. ComputeNextRun(cron, from) \in match
    BY <2>2 DEF ComputeNextRun
  <2> QED
    BY <2>3
<1> QED
  BY <1>1, <1>2

\* The parts of a row, and the updates that the statements make.
LEMMA RowFields ==
    ASSUME NEW r \in Rows
    PROVE  r.cron \in Crons /\ r.enabled \in BOOLEAN /\ r.next \in Nat
BY DEF Rows

\* Writing next_run_at leaves a row a row.
LEMMA RowNext ==
    ASSUME NEW r \in Rows, NEW n \in Nat
    PROVE  [r EXCEPT !.next = n] \in Rows
BY DEF Rows

\* The parts of a goroutine at work, and the updates that its steps make.
LEMMA WorkingFields ==
    ASSUME NEW n \in Nat, NEW w \in Working(n)
    PROVE  /\ w.pc \in Stages /\ w.schedule \in Schedules /\ w.snap \in Rows
           /\ w.run \in NoRun .. n /\ w.status \in Statuses
BY DEF Working

\* A goroutine stays at work when schedule_runs gets another row.
LEMMA WorkingMore ==
    ASSUME NEW n \in Nat, NEW w \in Working(n) PROVE w \in Working(n + 1)
BY DEF Working

\* Going on to the next statement leaves a goroutine at work.
LEMMA WorkingAdvance ==
    ASSUME NEW n \in Nat, NEW w \in Working(n), NEW c \in Stages
    PROVE  [w EXCEPT !.pc = c] \in Working(n)
BY DEF Working

\* A goroutine that starts is at work.
LEMMA WorkingStart ==
    ASSUME NEW n \in Nat, NEW c \in Stages, NEW s \in Schedules, NEW r \in Rows
    PROVE  Start(c, s, r) \in Working(n)
BY DEF Start, Working, NoRun, Statuses

\* A goroutine that has ended is not at work.
LEMMA IdleIsNoWork ==
    ASSUME NEW n \in Nat
    PROVE  Idle \notin Working(n) /\ Idle.pc = "idle" /\ Idle.pc \notin Stages
BY DEF Idle, Start, Working, Stages

\* A goroutine that is not idle is at work.
LEMMA AtWork ==
    ASSUME TypeOK, NEW p \in Procs, proc[p].pc # "idle"
    PROVE  /\ Len(runs) \in Nat /\ proc[p] \in Working(Len(runs))
           /\ proc[p].schedule \in Schedules /\ proc[p].snap \in Rows
           /\ proc[p].run \in NoRun .. Len(runs) /\ proc[p].status \in Statuses
BY IdleIsNoWork, WorkingFields DEF TypeOK

\* A goroutine's step leaves the others.
LEMMA Put ==
    ASSUME TypeOK, NEW p \in Procs, NEW w \in {Idle} \cup Working(Len(runs)),
           proc' = [proc EXCEPT ![p] = w], runs' = runs
    PROVE  proc' \in [Procs -> {Idle} \cup Working(Len(runs'))]
BY DEF TypeOK

\* A goroutine that goes on leaves the others.
LEMMA PutPc ==
    ASSUME TypeOK, NEW p \in Procs, proc[p].pc # "idle", NEW c \in Stages,
           proc' = [proc EXCEPT ![p].pc = c], Len(runs') = Len(runs)
    PROVE  proc' \in [Procs -> {Idle} \cup Working(Len(runs'))]
BY AtWork, WorkingAdvance DEF TypeOK

\* The statement that writes next_run_at keeps the types of the rows.
LEMMA PutNext ==
    ASSUME TypeOK, NEW s \in Schedules, NEW n \in Nat, SetNext(s, n)
    PROVE  row' \in [Schedules -> Rows \cup {NoRow}]
<1>1. CASE Exists(s)
  BY <1>1, RowNext DEF TypeOK, Exists, SetNext
<1>2. CASE ~Exists(s)
  BY <1>2 DEF SetNext, TypeOK
<1> QED
  BY <1>1, <1>2

\* What a run or an edit writes to next_run_at lies in the future.
LEMMA NextAfterLater ==
    ASSUME TypeOK, NEW p \in Procs, proc[p].pc # "idle"
    PROVE  /\ NextAfter(p) \in Nat
           /\ NextAfter(p) # NoTime => NextAfter(p) > now
BY AtWork, RowFields, NextIsLater DEF TypeOK, NextAfter, NoTime

\* A goroutine that has computed the next run is about to write it, or has ended.
LEMMA Computed ==
    ASSUME TypeOK, NEW p \in Procs, ComputeNext(p)
    PROVE  \E w \in {Idle} \cup Working(Len(runs)) :
              /\ proc' = [proc EXCEPT ![p] = w]
              /\ \/ w = Idle /\ p \in Procs /\ proc[p].pc = "created"
                 \/ /\ w.pc = "store" /\ w.schedule = proc[p].schedule /\ w.snap.next = NextAfter(p)
                    /\ w.run = proc[p].run /\ w.status = proc[p].status
<1> DEFINE w == [proc[p] EXCEPT !.pc = "store", !.snap.next = NextAfter(p)]
<1>1. proc[p] \in Working(Len(runs)) /\ proc[p].snap \in Rows /\ NextAfter(p) \in Nat
  BY AtWork, NextAfterLater DEF ComputeNext
<1>2. [proc[p].snap EXCEPT !.next = NextAfter(p)] \in Rows
      /\ [proc[p].snap EXCEPT !.next = NextAfter(p)].next = NextAfter(p)
  BY <1>1, RowNext DEF Rows
<1>3. /\ w \in Working(Len(runs))
      /\ w.pc = "store" /\ w.schedule = proc[p].schedule /\ w.snap.next = NextAfter(p)
      /\ w.run = proc[p].run /\ w.status = proc[p].status
  BY <1>1, <1>2 DEF Working, Stages
<1>4. CASE proc[p].pc = "created" /\ NextAfter(p) = NoTime
  BY <1>4 DEF ComputeNext
<1>5. CASE ~(proc[p].pc = "created" /\ NextAfter(p) = NoTime)
  <2>1. proc' = [proc EXCEPT ![p] = w]
    BY <1>5 DEF ComputeNext
  <2> HIDE DEF w
  <2> QED BY <1>3, <2>1
<1> QED BY <1>4, <1>5

\* Computing leaves everything else, and the run of the goroutine; only a request that
\* has created a schedule may end with it.
LEMMA ComputedPlace ==
    ASSUME TypeOK, NEW p \in Procs, ComputeNext(p)
    PROVE  /\ UNCHANGED <<now, row, used, runs, alerted, served, late, overtaken, ends>>
           /\ proc[p].pc \in {"status", "created", "edited"}
           /\ \A q \in Procs : q # p => proc'[q] = proc[q]
           /\ \/ proc[p].pc = "created" /\ proc'[p].pc = "idle" /\ proc'[p].run = NoRun
              \/ /\ proc'[p].pc = "store" /\ proc'[p].schedule = proc[p].schedule
                 /\ proc'[p].run = proc[p].run /\ proc'[p].status = proc[p].status
<1>1. /\ UNCHANGED <<now, row, used, runs, alerted, served, late, overtaken, ends>>
      /\ proc[p].pc \in {"status", "created", "edited"}
  BY DEF ComputeNext, tables, history, bounds
<1>2. PICK w \in {Idle} \cup Working(Len(runs)) :
              /\ proc' = [proc EXCEPT ![p] = w]
              /\ \/ w = Idle /\ p \in Procs /\ proc[p].pc = "created"
                 \/ /\ w.pc = "store" /\ w.schedule = proc[p].schedule /\ w.snap.next = NextAfter(p)
                    /\ w.run = proc[p].run /\ w.status = proc[p].status
  BY Computed
<1>3. proc'[p] = w /\ \A q \in Procs : q # p => proc'[q] = proc[q]
  BY <1>2 DEF TypeOK
<1> QED
  BY <1>1, <1>2, <1>3 DEF Idle, Start

\* Every step keeps the types.
LEMMA TypeStep == TypeOK /\ [Next]_vars => TypeOK'
<1> SUFFICES ASSUME TypeOK, [Next]_vars PROVE TypeOK'
  OBVIOUS
<1> USE DEF tables, bounds, history
<1>1. ASSUME Clock PROVE TypeOK'
  BY <1>1 DEF Clock, TypeOK
<1>2. ASSUME Tick PROVE TypeOK'
  <2>1. overtaken' \subseteq Procs
    BY <1>2 DEF Tick, Procs, TypeOK
  <2>2. proc' \in [Procs -> {Idle} \cup Working(Len(runs'))]
    BY WorkingStart, <1>2 DEF Due, IsDue, Exists, Stages, TypeOK, Tick
  <2>3. served' \in [Schedules -> Nat]
    BY RowFields, <1>2 DEF Due, IsDue, Exists, TypeOK, Tick
  <2> QED
    BY <1>2, <2>1, <2>2, <2>3 DEF TypeOK, Tick
<1>3. ASSUME EndTick PROVE TypeOK'
  BY <1>3 DEF EndTick, TypeOK
<1>4. ASSUME EndLoop PROVE TypeOK'
  BY <1>4 DEF EndLoop, TypeOK
<1>5. ASSUME Stop PROVE TypeOK'
  BY <1>5 DEF Stop, TypeOK
<1>6. ASSUME Exit PROVE TypeOK'
  BY <1>6 DEF Exit, Die, TypeOK
<1>7. ASSUME Crash PROVE TypeOK'
  <2>1. UNCHANGED <<now, tables, late, requests>> /\ served' = [s \in Schedules |-> 0] /\ overtaken' = {}
    BY <1>7 DEF Crash, Die
  <2>2. up' = FALSE /\ stopping' = FALSE /\ tick' = "sleep" /\ proc' = [p \in Procs |-> Idle]
    BY <1>7 DEF Crash, Die
  <2>3. ends' \in Nat
    BY <1>7 DEF Crash, TypeOK
  <2> QED
    BY <2>1, <2>2, <2>3 DEF TypeOK
<1>8. ASSUME Restart PROVE TypeOK'
  BY <1>8 DEF Restart, TypeOK
<1>9. ASSUME NEW s \in Schedules, Spawn(s) PROVE TypeOK'
  BY <1>9, PutPc DEF Spawn, Procs, Stages, TypeOK
<1>10. ASSUME NEW s \in Schedules, Raise(s) PROVE TypeOK'
  BY <1>10, Put, AtWork DEF Raise, Procs, TypeOK
<1>11. ASSUME NEW p \in Procs, OpenRun(p) PROVE TypeOK'
  <2> DEFINE s == proc[p].schedule
  <2>1. /\ Len(runs) \in Nat /\ proc[p] \in Working(Len(runs)) /\ s \in Schedules
        /\ UNCHANGED <<now, up, stopping, tick, row, used, alerted, served, overtaken, bounds>>
    BY <1>11, AtWork DEF OpenRun
  <2>2. late' \in [Schedules -> Nat]
    BY <1>11, <2>1 DEF OpenRun, TypeOK
  <2>3. CASE Exists(s)
    <3> DEFINE new == [schedule |-> s, tick |-> ByTick(p), status |-> "running"]
    <3>1. runs' = Append(runs, new) /\ new \in RunRows
      BY <1>11, <2>1, <2>3 DEF OpenRun, RunRows, ByTick
    <3>2. runs' \in Seq(RunRows) /\ Len(runs') = Len(runs) + 1
      BY <3>1 DEF TypeOK
    <3>3. [proc[p] EXCEPT !.pc = "query", !.run = Len(runs) + 1] \in Working(Len(runs'))
      <4>1. "query" \in Stages /\ Len(runs) + 1 \in NoRun .. (Len(runs) + 1)
        BY DEF Stages, NoRun
      <4> QED
        BY <2>1, <3>2, <4>1 DEF Working
    <3>4. proc \in [Procs -> {Idle} \cup Working(Len(runs'))]
      BY <3>2, WorkingMore DEF TypeOK
    <3>5. proc' = [proc EXCEPT ![p].pc = "query", ![p].run = Len(runs) + 1]
      BY <1>11, <2>3 DEF OpenRun
    <3>6. proc' \in [Procs -> {Idle} \cup Working(Len(runs'))]
      BY <3>3, <3>4, <3>5
    <3>7. alerted' \subseteq NoRun .. Len(runs')
      BY <2>1, <3>2 DEF TypeOK
    <3> QED
      BY <2>1, <2>2, <3>2, <3>6 DEF TypeOK
  <2>4. CASE ~Exists(s)
    BY <1>11, <2>4, PutPc, <2>1, <2>2 DEF OpenRun, Advance, Stages, TypeOK
  <2> QED
    BY <2>3, <2>4
<1>12. ASSUME NEW p \in Procs, Query(p) PROVE TypeOK'
  <2>1. PICK status \in Statuses : proc' = [proc EXCEPT ![p].pc = "close", ![p].status = status]
    BY <1>12 DEF Query, Statuses
  <2>2. [proc[p] EXCEPT !.pc = "close", !.status = status] \in Working(Len(runs))
    BY <1>12, AtWork DEF Query, Stages, Working
  <2>3. proc' = [proc EXCEPT ![p] = [proc[p] EXCEPT !.pc = "close", !.status = status]]
    BY <2>1
  <2>4. proc' \in [Procs -> {Idle} \cup Working(Len(runs'))]
    BY <1>12, <2>2, <2>3, Put DEF Query
  <2> QED
    BY <1>12, <2>4 DEF Query, TypeOK
<1>13. ASSUME NEW p \in Procs, CloseRun(p) PROVE TypeOK'
  <2> DEFINE i == proc[p].run
              to == IF proc[p].status = "error" THEN "error" ELSE "success"
  <2>1. i \in NoRun .. Len(runs)
    BY <1>13, AtWork DEF CloseRun
  <2>2. runs' \in Seq(RunRows) /\ Len(runs') = Len(runs)
    <3>1. CASE i # NoRun /\ runs[i].status # "gone"
      <4>1. i \in 1 .. Len(runs)
        BY <2>1, <3>1 DEF NoRun
      <4>2. runs[i] \in RunRows
        BY <4>1 DEF TypeOK
      <4>3. [runs[i] EXCEPT !.status = to] \in RunRows
        BY <4>2 DEF RunRows
      <4>4. runs' = [runs EXCEPT ![i] = [runs[i] EXCEPT !.status = to]]
        BY <1>13, <3>1 DEF CloseRun
      <4> QED
        BY <4>1, <4>3, <4>4 DEF TypeOK
    <3>2. CASE ~(i # NoRun /\ runs[i].status # "gone")
      BY <1>13, <3>2 DEF CloseRun, TypeOK
    <3> QED
      BY <3>1, <3>2
  <2>3. proc' \in [Procs -> {Idle} \cup Working(Len(runs'))]
    BY <1>13, <2>2, PutPc DEF CloseRun, Advance, Stages
  <2> QED
    BY <1>13, <2>2, <2>3 DEF CloseRun, TypeOK
<1>14. ASSUME NEW p \in Procs, SetStatus(p) PROVE TypeOK'
  <2>1. proc[p] \in Working(Len(runs)) /\ proc[p].schedule \in Schedules /\ proc[p].snap.next \in Nat
    BY <1>14, AtWork, RowFields DEF SetStatus
  <2>2. row' \in [Schedules -> Rows \cup {NoRow}]
    BY <1>14, <2>1, PutNext DEF SetStatus
  <2>3. proc' \in [Procs -> {Idle} \cup Working(Len(runs'))]
    <3>1. CASE ByTick(p)
      <4>1. proc' = [proc EXCEPT ![p].pc = "raise"] /\ runs' = runs /\ proc[p].pc # "idle"
        BY <1>14, <3>1 DEF SetStatus
      <4>2. "raise" \in Stages
        BY DEF Stages
      <4> QED BY <4>1, <4>2, PutPc
    <3>2. CASE ~ByTick(p)
      BY <1>14, <3>2, Put DEF SetStatus
    <3> QED
      BY <3>1, <3>2
  <2>4. overtaken' \subseteq Procs
    BY <1>14, <2>1 DEF SetStatus, TypeOK, Procs
  <2> QED
    BY <1>14, <2>2, <2>3, <2>4 DEF SetStatus, TypeOK
<1>15. ASSUME NEW p \in Procs, ComputeNext(p) PROVE TypeOK'
  BY <1>15, Computed, Put DEF ComputeNext, TypeOK
<1>16. ASSUME NEW h \in Handlers, UpdateSchedule(h) PROVE TypeOK'
  <2> DEFINE s == proc[h].schedule
              edit == proc[h].snap
  <2>1. s \in Schedules /\ edit.cron \in Crons /\ edit.enabled \in BOOLEAN
    BY <1>16, AtWork, RowFields DEF UpdateSchedule, Procs
  <2>2. row' \in [Schedules -> Rows \cup {NoRow}]
    <3>1. CASE Exists(s)
      <4>1. [row[s] EXCEPT !.cron = edit.cron, !.enabled = edit.enabled] \in Rows
        BY <2>1, <3>1 DEF Exists, TypeOK, Rows
      <4>2. row' = [row EXCEPT ![s] = [row[s] EXCEPT !.cron = edit.cron, !.enabled = edit.enabled]]
        BY <1>16, <3>1 DEF UpdateSchedule
      <4> QED
        BY <4>1, <4>2 DEF TypeOK
    <3>2. CASE ~Exists(s)
      BY <1>16, <3>2 DEF UpdateSchedule, TypeOK
    <3> QED
      BY <3>1, <3>2
  <2>3. late' \in [Schedules -> Nat]
    BY <1>16 DEF UpdateSchedule, TypeOK
  <2>4. proc' \in [Procs -> {Idle} \cup Working(Len(runs'))]
    BY <1>16, PutPc DEF UpdateSchedule, Advance, Procs, Stages
  <2> QED
    BY <1>16, <2>2, <2>4 DEF UpdateSchedule, TypeOK
<1>18. ASSUME NEW h \in Handlers, NEW s \in Schedules, NEW cron \in Crons,
             Create(h, s, cron) PROVE TypeOK'
  <2>1. /\ requests' \in Nat /\ UNCHANGED <<now, up, stopping, tick, ends>>
    BY <1>18 DEF Create, Serve, TypeOK
  <2>2. /\ row' = [row EXCEPT ![s] = [cron |-> cron, enabled |-> TRUE, next |-> NoTime]]
        /\ [cron |-> cron, enabled |-> TRUE, next |-> NoTime] \in Rows
    BY <1>18 DEF Create, Rows, NoTime
  <2>3. row' \in [Schedules -> Rows \cup {NoRow}] /\ row'[s] \in Rows
    BY <2>2 DEF TypeOK
  <2>4. Start("created", s, row'[s]) \in Working(Len(runs))
    BY <2>3, WorkingStart DEF Stages
  <2>5. proc' \in [Procs -> {Idle} \cup Working(Len(runs'))]
    BY <1>18, <2>4, Put DEF Create, Procs
  <2> QED
    BY <1>18, <2>1, <2>3, <2>5 DEF Create, TypeOK
<1>19. ASSUME NEW h \in Handlers, NEW s \in Schedules, NEW cron \in Crons \cup {Keep},
             NEW enabled \in BOOLEAN \cup {Keep}, ReadForEdit(h, s, cron, enabled) PROVE TypeOK'
  <2>1. /\ requests' \in Nat /\ UNCHANGED <<now, up, stopping, tick, ends>>
    BY <1>19 DEF ReadForEdit, Serve, TypeOK
  <2>2. Merge(row[s], cron, enabled) \in Rows
    BY <1>19, RowFields DEF ReadForEdit, Exists, TypeOK, Merge, Rows
  <2>3. Start("write", s, Merge(row[s], cron, enabled)) \in Working(Len(runs))
    BY <2>2, WorkingStart DEF Stages
  <2>4. proc' \in [Procs -> {Idle} \cup Working(Len(runs'))]
    BY <1>19, <2>3, Put DEF ReadForEdit, Procs
  <2> QED
    BY <1>19, <2>1, <2>4 DEF ReadForEdit, TypeOK
<1>20. ASSUME NEW h \in Handlers, NEW s \in Schedules, Delete(h, s) PROVE TypeOK'
  <2>1. /\ requests' \in Nat /\ UNCHANGED <<now, up, stopping, tick, ends>>
    BY <1>20 DEF Delete, Serve, TypeOK
  <2>2. row' \in [Schedules -> Rows \cup {NoRow}]
    BY <1>20 DEF Delete, TypeOK
  <2>3. \A i \in 1 .. Len(runs) : runs[i] \in RunRows /\ [runs[i] EXCEPT !.status = "gone"] \in RunRows
    <3> SUFFICES ASSUME NEW i \in 1 .. Len(runs)
                 PROVE  runs[i] \in RunRows /\ [runs[i] EXCEPT !.status = "gone"] \in RunRows
      OBVIOUS
    <3>1. runs[i] \in RunRows
      BY DEF TypeOK
    <3> QED
      BY <3>1 DEF RunRows
  <2>4. runs' \in Seq(RunRows) /\ Len(runs') = Len(runs)
    <3>1. runs \in Seq(RunRows)
      BY DEF TypeOK
    <3>2. DOMAIN runs = 1 .. Len(runs) /\ Len(runs) \in Nat
      OBVIOUS
    <3>3. runs' \in [1 .. Len(runs) -> RunRows]
      BY <1>20, <2>3 DEF Delete
    <3> QED
      BY <3>3
  <2> QED
    BY <1>20, <2>1, <2>4 DEF Delete, TypeOK
<1>21. ASSUME NEW h \in Handlers, NEW s \in Schedules, ManualRun(h, s) PROVE TypeOK'
  BY <1>21, WorkingStart, Put DEF ManualRun, Serve, TypeOK, Exists, Stages, Procs
<1>22. CASE UNCHANGED vars
  BY <1>22 DEF vars, TypeOK
<1> QED
  BY <1>1, <1>2, <1>3, <1>4, <1>5, <1>6, <1>7, <1>8, <1>9, <1>10, <1>11, <1>12, <1>13, <1>14,
     <1>15, <1>16, <1>18, <1>19, <1>20, <1>21, <1>22 DEF Next, Request, Run

(***************************************************************************)
(* A tick that is not running has no goroutines left: the next one finds   *)
(* none to overwrite.  A process that is stopping has counted its end.     *)
(***************************************************************************)
Asleep == tick # "run" => \A s \in Schedules : proc[s].pc = "idle"

Owns(p, i) == proc[p].run = i /\ proc[p].pc \in {"query", "close"}

Owned == \A i \in DOMAIN runs : runs[i].status = "running" => \E p \in Procs : Owns(p, i)

OwnInv ==
    /\ stopping => ends > 0
    /\ Asleep
    /\ ends = 0 => Owned

\* The step leaves the runs, and the goroutines that own one.
RunsStay ==
    /\ runs' = runs /\ (ends' = 0 => ends = 0)
    /\ \A p \in Procs : proc[p].pc \in {"query", "close"} =>
          proc'[p].run = proc[p].run /\ proc'[p].pc \in {"query", "close"}

\* Such a step keeps every run owned.
LEMMA OwnersStay ==
    ASSUME OwnInv, RunsStay
    PROVE  (ends = 0 => Owned)'
BY DEF OwnInv, RunsStay, Owned, Owns

\* Every step keeps it.
LEMMA OwnStep == TypeOK /\ OwnInv /\ [Next]_vars => OwnInv'
<1> SUFFICES ASSUME TypeOK, OwnInv, [Next]_vars PROVE OwnInv'
  OBVIOUS
<1> USE DEF tables, bounds, history
<1>1. ASSUME Clock PROVE OwnInv'
  BY <1>1, OwnersStay DEF Clock, OwnInv, Asleep, RunsStay
<1>2. ASSUME Tick PROVE OwnInv'
  BY <1>2, OwnersStay DEF Tick, OwnInv, Asleep, Due, RunsStay
<1>3. ASSUME EndTick PROVE OwnInv'
  BY <1>3, OwnersStay DEF EndTick, OwnInv, Asleep, RunsStay
<1>4. ASSUME EndLoop PROVE OwnInv'
  BY <1>4, OwnersStay DEF EndLoop, OwnInv, Asleep, RunsStay
<1>5. ASSUME Stop PROVE OwnInv'
  BY <1>5, OwnersStay DEF Stop, TypeOK, OwnInv, Asleep, RunsStay
<1>6. ASSUME Exit PROVE OwnInv'
  BY <1>6 DEF Exit, Die, OwnInv, Asleep, Idle, Start, Procs
<1>7. ASSUME Crash PROVE OwnInv'
  BY <1>7 DEF Crash, Die, TypeOK, Asleep, Idle, Start, Procs, OwnInv
<1>8. ASSUME Restart PROVE OwnInv'
  BY <1>8, OwnersStay DEF Restart, OwnInv, Asleep, RunsStay
<1>9. ASSUME NEW s \in Schedules, Spawn(s) PROVE OwnInv'
  BY <1>9, OwnersStay DEF Spawn, OwnInv, Asleep, RunsStay
<1>10. ASSUME NEW s \in Schedules, Raise(s) PROVE OwnInv'
  BY <1>10, OwnersStay DEF Raise, OwnInv, Asleep, RunsStay
<1>11. ASSUME NEW p \in Procs, OpenRun(p) PROVE OwnInv'
  <2>1. stopping' => ends' > 0
    BY <1>11 DEF OpenRun, OwnInv
  <2>2. Asleep'
    BY <1>11 DEF OpenRun, OwnInv, Asleep, Advance, TypeOK, Procs
  <2>3. (ends = 0 => Owned)'
    <3> SUFFICES ASSUME ends' = 0, NEW i \in DOMAIN runs', runs'[i].status = "running"
                 PROVE  \E q \in Procs : Owns(q, i)'
      BY DEF Owned
    <3>1. /\ proc[p] \in Working(Len(runs)) /\ proc[p].pc = "open" /\ Len(runs) \in Nat
          /\ Owned /\ runs \in Seq(RunRows)
      BY <1>11, AtWork DEF OpenRun, OwnInv, TypeOK
    <3>2. \A q \in Procs : q # p => proc'[q] = proc[q]
      BY <1>11 DEF OpenRun, Advance, TypeOK
    <3>3. CASE i \in DOMAIN runs /\ runs'[i] = runs[i]
      <4>1. PICK q \in Procs : Owns(q, i)
        BY <3>1, <3>3 DEF Owned
      <4> QED
        BY <3>1, <3>2, <4>1 DEF Owns
    <3>4. CASE ~(i \in DOMAIN runs /\ runs'[i] = runs[i])
      <4>1. \E new : runs' = Append(runs, new)
        BY <1>11, <3>4 DEF OpenRun
      <4>2. i = Len(runs) + 1
        BY <3>4, <4>1
      <4>3. proc' = [proc EXCEPT ![p].pc = "query", ![p].run = Len(runs) + 1]
        BY <1>11, <3>4 DEF OpenRun
      <4> QED
        BY <4>2, <4>3 DEF Owns, TypeOK
    <3> QED
      BY <3>3, <3>4
  <2> QED
    BY <2>1, <2>2, <2>3 DEF OwnInv
<1>12. ASSUME NEW p \in Procs, Query(p) PROVE OwnInv'
  <2>1. stopping' => ends' > 0
    BY <1>12 DEF Query, OwnInv
  <2>2. Asleep'
    BY <1>12 DEF Query, OwnInv, Asleep, TypeOK, Procs
  <2>3. (ends = 0 => Owned)'
    <3>1. PICK status : proc' = [proc EXCEPT ![p].pc = "close", ![p].status = status]
      BY <1>12 DEF Query
    <3>2. proc[p] \in Working(Len(runs)) /\ proc \in [Procs -> {Idle} \cup Working(Len(runs))]
      BY <1>12, AtWork DEF Query, TypeOK
    <3>3. \A q \in Procs : proc[q].pc \in {"query", "close"} =>
                proc'[q].run = proc[q].run /\ proc'[q].pc \in {"query", "close"}
      BY <3>1, <3>2
    <3>4. RunsStay
      BY <1>12, <3>3 DEF Query, RunsStay
    <3> QED
      BY <3>4, OwnersStay
  <2> QED
    BY <2>1, <2>2, <2>3 DEF OwnInv
<1>13. ASSUME NEW p \in Procs, CloseRun(p) PROVE OwnInv'
  <2>1. stopping' => ends' > 0
    BY <1>13 DEF CloseRun, OwnInv
  <2>2. Asleep'
    BY <1>13 DEF CloseRun, OwnInv, Asleep, Advance
  <2>3. (ends = 0 => Owned)'
    <3> SUFFICES ASSUME ends' = 0, NEW i \in DOMAIN runs', runs'[i].status = "running"
                 PROVE  \E q \in Procs : Owns(q, i)'
      BY DEF Owned
    <3>1. /\ Owned /\ runs \in Seq(RunRows)
          /\ proc' = [proc EXCEPT ![p].pc = "status"] /\ proc[p].pc = "close"
      BY <1>13 DEF CloseRun, Advance, OwnInv, TypeOK
    <3>2. DOMAIN runs' = DOMAIN runs /\ runs[i].status = "running" /\ i # proc[p].run
      <4>1. proc[p].run \in NoRun .. Len(runs)
        BY <1>13, AtWork DEF CloseRun
      <4>2. CASE proc[p].run # NoRun /\ runs[proc[p].run].status # "gone"
        BY <1>13, <4>2, <4>1, <3>1 DEF CloseRun, NoRun
      <4>3. CASE ~(proc[p].run # NoRun /\ runs[proc[p].run].status # "gone")
        <5>1. runs' = runs
          BY <1>13, <4>3 DEF CloseRun
        <5>2. DOMAIN runs = 1 .. Len(runs)
          OBVIOUS
        <5> QED
          BY <4>3, <5>1, <5>2 DEF NoRun
      <4> QED
        BY <4>2, <4>3
    <3>3. PICK q \in Procs : Owns(q, i)
      BY <3>1, <3>2 DEF Owned
    <3>4. q # p /\ proc'[q] = proc[q]
      BY <3>1, <3>2, <3>3 DEF Owns
    <3> QED
      BY <3>3, <3>4 DEF Owns
  <2> QED
    BY <2>1, <2>2, <2>3 DEF OwnInv
<1>14. ASSUME NEW p \in Procs, SetStatus(p) PROVE OwnInv'
  BY <1>14, OwnersStay DEF SetStatus, OwnInv, Asleep, RunsStay
<1>15. ASSUME NEW p \in Procs, ComputeNext(p) PROVE OwnInv'
  <2>1. proc[p].pc \in {"status", "created", "edited"}
        /\ UNCHANGED <<stopping, tick, runs, ends>>
    BY <1>15 DEF ComputeNext
  <2>2. \A q \in Procs : q # p => proc'[q] = proc[q]
    BY <1>15, Computed DEF TypeOK
  <2> QED
    BY <2>1, <2>2, OwnersStay DEF OwnInv, Asleep, RunsStay, Procs
<1>16. ASSUME NEW h \in Handlers, UpdateSchedule(h) PROVE OwnInv'
  BY <1>16, OwnersStay DEF UpdateSchedule, OwnInv, Advance, Asleep, Procs, RunsStay
<1>18. ASSUME NEW h \in Handlers, NEW s \in Schedules, NEW cron \in Crons,
             Create(h, s, cron) PROVE OwnInv'
  BY <1>18, SchedulerAssumption, OwnersStay DEF Create, Serve, OwnInv, Asleep, RunsStay
<1>19. ASSUME NEW h \in Handlers, NEW s \in Schedules, NEW cron \in Crons \cup {Keep},
             NEW enabled \in BOOLEAN \cup {Keep}, ReadForEdit(h, s, cron, enabled) PROVE OwnInv'
  BY <1>19, SchedulerAssumption, OwnersStay DEF ReadForEdit, Serve, OwnInv, Asleep, RunsStay
<1>20. ASSUME NEW h \in Handlers, NEW s \in Schedules, Delete(h, s) PROVE OwnInv'
  <2>1. stopping' => ends' > 0
    BY <1>20 DEF Delete, Serve, OwnInv
  <2>2. Asleep'
    BY <1>20 DEF Delete, Serve, OwnInv, Asleep
  <2>3. (ends = 0 => Owned)'
    <3> SUFFICES ASSUME ends' = 0, NEW i \in DOMAIN runs', runs'[i].status = "running"
                 PROVE  \E q \in Procs : Owns(q, i)'
      BY DEF Owned
    <3>1. Owned /\ runs \in Seq(RunRows) /\ proc' = proc
      BY <1>20 DEF Delete, Serve, OwnInv, TypeOK
    <3>2. DOMAIN runs' = DOMAIN runs /\ runs[i].status = "running"
      BY <1>20, <3>1 DEF Delete
    <3> QED
      BY <3>1, <3>2 DEF Owned, Owns
  <2> QED
    BY <2>1, <2>2, <2>3 DEF OwnInv
<1>21. ASSUME NEW h \in Handlers, NEW s \in Schedules, ManualRun(h, s) PROVE OwnInv'
  BY <1>21, SchedulerAssumption, OwnersStay DEF ManualRun, Serve, OwnInv, Asleep, RunsStay
<1>22. CASE UNCHANGED vars
  BY <1>22 DEF vars, OwnInv, Asleep, Owned, Owns
<1> QED
  BY <1>1, <1>2, <1>3, <1>4, <1>5, <1>6, <1>7, <1>8, <1>9, <1>10, <1>11, <1>12, <1>13, <1>14,
     <1>15, <1>16, <1>18, <1>19, <1>20, <1>21, <1>22 DEF Next, Request, Run

(***************************************************************************)
(* What next_run_at says of a schedule whose goroutine is not running it   *)
(* is later than the occurrence it last ran for, and so is what somebody   *)
(* has computed and will write, unless a tick came between.                *)
(***************************************************************************)
Later(s) ==
    /\ served[s] <= now
    /\ proc[s].pc # "idle" => proc[s].schedule = s
    /\ proc[s].pc # "created"
    /\ Exists(s) /\ row[s].next # NoTime /\ proc[s].pc \in {"idle", "raise"}
         => served[s] < row[s].next \/ s \in overtaken
    /\ \A p \in Procs :
          proc[p].pc = "store" /\ proc[p].schedule = s /\ proc[p].snap.next # NoTime
             => served[s] < proc[p].snap.next \/ p \in overtaken \cap Handlers

LaterInv == \A s \in Schedules : Later(s)

\* A statement that sets next_run_at leaves every other row as it is.
LEMMA NextSet ==
    ASSUME TypeOK, NEW s \in Schedules, NEW n \in Nat, SetNext(s, n), NEW q \in Schedules
    PROVE  \/ row'[q] = row[q] /\ (q # s \/ ~Exists(q))
           \/ Exists(q) /\ row'[q].next = n /\ row'[q].enabled = row[q].enabled
<1>1. CASE Exists(s)
  BY <1>1 DEF SetNext, Exists, TypeOK
<1>2. CASE ~Exists(s)
  BY <1>2 DEF SetNext
<1> QED
  BY <1>1, <1>2

\* So does every other step that leaves the clock and gives nobody a minute to write.
LEMMA LaterStays ==
    ASSUME LaterInv, NEW q \in Schedules, UNCHANGED <<now, served, overtaken>>,
           row'[q] = row[q] \/ row'[q] = NoRow \/ row'[q].next = NoTime,
           proc'[q].pc # "idle" => proc'[q].schedule = q, proc'[q].pc # "created",
           proc'[q].pc \in {"idle", "raise"} => proc[q].pc \in {"idle", "raise"},
           \A p \in Procs : proc'[p] = proc[p] \/ proc'[p].pc # "store"
    PROVE  Later(q)'
BY DEF LaterInv, Later, Exists

\* Every step keeps it.
LEMMA LaterStep == TypeOK /\ OwnInv /\ LaterInv /\ [Next]_vars => LaterInv'
<1> SUFFICES ASSUME TypeOK, OwnInv, LaterInv, [Next]_vars, NEW q \in Schedules
             PROVE  Later(q)'
  BY DEF LaterInv
<1> USE DEF tables, bounds, history
<1>1. ASSUME Clock PROVE Later(q)'
  BY <1>1 DEF Clock, LaterInv, Later, Exists, TypeOK
<1>2. ASSUME Tick PROVE Later(q)'
  BY <1>2 DEF Tick, Due, IsDue, Start, LaterInv, Later, Exists, Procs
<1>3. ASSUME EndTick PROVE Later(q)'
  BY <1>3 DEF EndTick, LaterInv, Later, Exists
<1>4. ASSUME EndLoop PROVE Later(q)'
  BY <1>4 DEF EndLoop, LaterInv, Later, Exists
<1>5. ASSUME Stop PROVE Later(q)'
  BY <1>5 DEF Stop, LaterInv, Later, Exists
<1>6. ASSUME Exit PROVE Later(q)'
  <2>1. served'[q] = 0 /\ proc'[q] = Idle /\ row'[q] = row[q] /\ now' = now
        /\ \A p \in Procs : proc'[p] = Idle
    BY <1>6 DEF Exit, Die, Procs
  <2>2. now \in Nat /\ (Exists(q) => row[q].next \in Nat)
    BY RowFields DEF TypeOK, Exists
  <2>3. Idle.pc = "idle"
    BY DEF Idle, Start
  <2> QED
    BY <2>1, <2>2, <2>3 DEF Later, Exists, NoTime, Idle, Start
<1>7. ASSUME Crash PROVE Later(q)'
  <2>1. served'[q] = 0 /\ proc'[q] = Idle /\ row'[q] = row[q] /\ now' = now
        /\ \A p \in Procs : proc'[p] = Idle
    BY <1>7 DEF Crash, Die, Procs
  <2>2. now \in Nat /\ (Exists(q) => row[q].next \in Nat)
    BY RowFields DEF TypeOK, Exists
  <2>3. Idle.pc = "idle"
    BY DEF Idle, Start
  <2> QED
    BY <2>1, <2>2, <2>3 DEF Later, Exists, NoTime, Idle, Start
<1>8. ASSUME Restart PROVE Later(q)'
  BY <1>8 DEF Restart, LaterInv, Later, Exists
<1>9. ASSUME NEW s \in Schedules, Spawn(s) PROVE Later(q)'
  BY <1>9 DEF Spawn, LaterInv, Later, Exists
<1>10. ASSUME NEW s \in Schedules, Raise(s) PROVE Later(q)'
  BY <1>10 DEF Raise, Idle, Start, LaterInv, Later, Exists
<1>11. ASSUME NEW p \in Procs, OpenRun(p) PROVE Later(q)'
  <2>1. /\ \A r \in Procs : r # p => proc'[r] = proc[r]
        /\ proc[p].pc = "open" /\ proc'[p].pc = "query" /\ proc'[p].schedule = proc[p].schedule
    BY <1>11, AtWork DEF OpenRun, Advance, Working, TypeOK
  <2>2. UNCHANGED <<now, row, served, overtaken>> /\ Later(q) /\ q \in Procs
    BY <1>11 DEF OpenRun, LaterInv, Procs
  <2> QED
    BY <2>1, <2>2, LaterStays DEF Later
<1>12. ASSUME NEW p \in Procs, Query(p) PROVE Later(q)'
  BY <1>12 DEF Query, LaterInv, Later, Exists, TypeOK, Procs
<1>13. ASSUME NEW p \in Procs, CloseRun(p) PROVE Later(q)'
  BY <1>13 DEF CloseRun, Advance, LaterInv, Later, Exists
<1>14. ASSUME NEW p \in Procs, SetStatus(p) PROVE Later(q)'
  <2> DEFINE next == proc[p].snap.next
             s == proc[p].schedule
  <2>1. s \in Schedules /\ next \in Nat /\ proc[p].pc = "store"
    BY <1>14, AtWork, RowFields DEF SetStatus
  <2>2. \/ row'[q] = row[q] /\ (q # s \/ ~Exists(q))
        \/ q = s /\ Exists(q) /\ row'[q].next = next /\ row'[q].enabled = row[q].enabled
    <3>1. SetNext(s, next)
      BY <1>14 DEF SetStatus
    <3>2. CASE Exists(s)
      BY <2>1, <3>1, <3>2 DEF SetNext, Exists, TypeOK
    <3>3. CASE ~Exists(s)
      BY <3>1, <3>3 DEF SetNext
    <3> QED BY <3>2, <3>3
  <2>3. /\ \A r \in Procs : r # p => proc'[r] = proc[r]
        /\ p \in Schedules => proc'[p].pc = "raise" /\ proc'[p].schedule = s
        /\ proc'[p].pc # "store" /\ (p \in Handlers => proc'[p].pc = "idle")
    BY <1>14, SchedulerAssumption DEF SetStatus, ByTick, TypeOK, Idle, Start, Procs
  <2>4. UNCHANGED <<now, served>> /\ Later(q) /\ Later(s) /\ now \in Nat /\ served[q] \in Nat
    BY <1>14, <2>1 DEF SetStatus, LaterInv, TypeOK
  <2>5. overtaken' = (overtaken \ {p, s}) \cup IF p \in overtaken \cap Handlers THEN {s} ELSE {}
    BY <1>14 DEF SetStatus
  <2>6. next # NoTime => served[s] < next \/ p \in overtaken \cap Handlers
    BY <2>1, <2>4 DEF Later
  <2>7. p = q => q = s
    BY <2>1, <2>4 DEF Later
  <2>8. p \in Schedules => p = s
    BY <2>1 DEF LaterInv, Later
  <2> HIDE DEF next, s
  <2>9. ASSUME Exists(q)', row'[q].next # NoTime, proc'[q].pc \in {"idle", "raise"}
        PROVE  served'[q] < row'[q].next \/ q \in overtaken'
    <3>1. CASE q # s
      BY <2>2, <2>3, <2>4, <2>5, <2>7, <2>9, <3>1, SchedulerAssumption DEF Later, Exists, Procs
    <3>2. CASE q = s
      BY <2>2, <2>4, <2>5, <2>6, <2>9, <3>2 DEF Exists
    <3> QED BY <3>1, <3>2
  <2>10. ASSUME NEW r \in Procs, proc'[r].pc = "store", proc'[r].schedule = q, proc'[r].snap.next # NoTime
         PROVE  served'[q] < proc'[r].snap.next \/ r \in overtaken' \cap Handlers
    BY <2>1, <2>3, <2>4, <2>5, <2>10, SchedulerAssumption DEF Later
  <2>11. served'[q] <= now' /\ (proc'[q].pc # "idle" => proc'[q].schedule = q)
         /\ proc'[q].pc # "created"
    BY <2>3, <2>4, <2>7, SchedulerAssumption DEF Later, Procs
  <2> QED
    BY <2>9, <2>10, <2>11 DEF Later
<1>15. ASSUME NEW p \in Procs, ComputeNext(p) PROVE Later(q)'
  <2>1. PICK w \in {Idle} \cup Working(Len(runs)) :
              /\ proc' = [proc EXCEPT ![p] = w]
              /\ \/ w = Idle /\ p \in Procs /\ proc[p].pc = "created"
                 \/ /\ w.pc = "store" /\ w.schedule = proc[p].schedule /\ w.snap.next = NextAfter(p)
                    /\ w.run = proc[p].run /\ w.status = proc[p].status
    BY <1>15, Computed
  <2>2. /\ UNCHANGED <<now, row, served, overtaken>> /\ Later(q) /\ now \in Nat /\ served[q] \in Nat
        /\ NextAfter(p) \in Nat /\ (NextAfter(p) # NoTime => NextAfter(p) > now)
        /\ proc[p].pc \in {"status", "created", "edited"}
    BY <1>15, NextAfterLater DEF ComputeNext, LaterInv, TypeOK
  <2>3. proc'[p] = w /\ \A r \in Procs : r # p => proc'[r] = proc[r]
    BY <2>1 DEF TypeOK
  <2>4. w.pc \in {"idle", "store"}
    BY <2>1 DEF Idle, Start
  <2>5. q \in Procs /\ (w.pc # "idle" => w.schedule = proc[p].schedule)
        /\ (w.pc = "store" => w.snap.next = NextAfter(p))
        /\ (p \in Schedules /\ w.pc = "idle" => proc[p].pc = "created")
    BY <2>1 DEF Idle, Start, Procs
  <2>6. ASSUME NEW r \in Procs, proc'[r].pc = "store", proc'[r].schedule = q, proc'[r].snap.next # NoTime
        PROVE  served'[q] < proc'[r].snap.next \/ r \in overtaken' \cap Handlers
    BY <2>2, <2>3, <2>5, <2>6 DEF Later
  <2>7. proc'[q].pc # "idle" => proc'[q].schedule = q
    BY <2>2, <2>3, <2>4, <2>5 DEF Later
  <2>8. /\ proc'[q].pc # "created"
        /\ proc'[q].pc \in {"idle", "raise"} => proc[q].pc \in {"idle", "raise"}
    <3>1. proc[q].pc # "created"
      BY <2>2 DEF Later
    <3> QED BY <2>2, <2>3, <2>4, <2>5, <3>1
  <2> QED
    BY <2>2, <2>6, <2>7, <2>8 DEF Later, Exists
<1>16. ASSUME NEW h \in Handlers, UpdateSchedule(h) PROVE Later(q)'
  BY <1>16 DEF UpdateSchedule, Advance, LaterInv, Later, Exists, TypeOK, NoTime, Procs
<1>18. ASSUME NEW h \in Handlers, NEW s \in Schedules, NEW cron \in Crons,
             Create(h, s, cron) PROVE Later(q)'
  <2>1. /\ UNCHANGED <<now, served, overtaken>> /\ proc'[q] = proc[q]
        /\ \A p \in Procs : proc'[p] = proc[p] \/ proc'[p].pc = "created"
        /\ row'[q] = row[q] \/ row'[q].next = NoTime
    BY <1>18, SchedulerAssumption DEF Create, Serve, TypeOK, Start, Procs
  <2> QED
    BY <2>1, LaterStays DEF LaterInv, Later
<1>19. ASSUME NEW h \in Handlers, NEW s \in Schedules, NEW cron \in Crons \cup {Keep},
             NEW enabled \in BOOLEAN \cup {Keep}, ReadForEdit(h, s, cron, enabled) PROVE Later(q)'
  <2>1. /\ UNCHANGED <<now, row, served, overtaken>> /\ proc'[q] = proc[q]
        /\ \A p \in Procs : proc'[p] = proc[p] \/ proc'[p].pc = "write"
    BY <1>19, SchedulerAssumption DEF ReadForEdit, Serve, TypeOK, Start, Procs
  <2> QED
    BY <2>1, LaterStays DEF LaterInv, Later
<1>20. ASSUME NEW h \in Handlers, NEW s \in Schedules, Delete(h, s) PROVE Later(q)'
  BY <1>20 DEF Delete, Serve, LaterInv, Later, Exists
<1>21. ASSUME NEW h \in Handlers, NEW s \in Schedules, ManualRun(h, s) PROVE Later(q)'
  <2>1. /\ UNCHANGED <<now, row, served, overtaken>> /\ proc'[q] = proc[q]
        /\ \A p \in Procs : proc'[p] = proc[p] \/ proc'[p].pc = "open"
    BY <1>21, SchedulerAssumption DEF ManualRun, Serve, TypeOK, Start, Procs
  <2> QED
    BY <2>1, LaterStays DEF LaterInv, Later
<1>22. CASE UNCHANGED vars
  BY <1>22 DEF vars, LaterInv, Later, Exists
<1> QED
  BY <1>1, <1>2, <1>3, <1>4, <1>5, <1>6, <1>7, <1>8, <1>9, <1>10, <1>11, <1>12, <1>13, <1>14,
     <1>15, <1>16, <1>18, <1>19, <1>20, <1>21, <1>22 DEF Next, Request, Run

\* A goroutine that has recorded its run goes on to the query.
LEMMA OpenRunPc ==
    ASSUME TypeOK, NEW p \in Procs, OpenRun(p)
    PROVE  proc'[p].pc = "query"
<1>1. proc \in [Procs -> {Idle} \cup Working(Len(runs))] /\ proc[p] \in Working(Len(runs))
  BY AtWork DEF OpenRun, TypeOK
<1>2. \/ proc' = [proc EXCEPT ![p].pc = "query", ![p].run = Len(runs) + 1]
      \/ proc' = [proc EXCEPT ![p].pc = "query"]
  BY DEF OpenRun, Advance
<1>3. \/ proc'[p] = [proc[p] EXCEPT !.pc = "query", !.run = Len(runs) + 1]
      \/ proc'[p] = [proc[p] EXCEPT !.pc = "query"]
  BY <1>1, <1>2
<1> QED
  BY <1>1, <1>3 DEF Working

(***************************************************************************)
(* A schedule that has begun a run while it was off is still off, and no   *)
(* tick has listed it since.  Ids are only used after they were given out, *)
(* so that an id is never on, off and on again as another schedule.        *)
(***************************************************************************)
Off(s) == ~(Exists(s) /\ row[s].enabled)

Bounded(s) ==
    /\ late[s] \in {0, 1}
    /\ late[s] = 1 => s \in used /\ Off(s) /\ proc[s].pc \notin {"due", "open"}
    /\ Exists(s) => s \in used
    /\ proc[s].pc # "idle" => s \in used

LateInv == \A s \in Schedules : Bounded(s)

\* Every step keeps it.
LEMMA LateStep == TypeOK /\ LaterInv /\ LateInv /\ [Next]_vars => LateInv'
<1> SUFFICES ASSUME TypeOK, LaterInv, LateInv, [Next]_vars, NEW q \in Schedules
             PROVE  Bounded(q)'
  BY DEF LateInv
<1> USE DEF tables, bounds, history
<1>1. ASSUME Clock PROVE Bounded(q)'
  BY <1>1 DEF Clock, LateInv, Bounded, Off, Exists
<1>2. ASSUME Tick PROVE Bounded(q)'
  BY <1>2 DEF Tick, Due, IsDue, LateInv, Bounded, Off, Exists, Procs
<1>3. ASSUME EndTick PROVE Bounded(q)'
  BY <1>3 DEF EndTick, LateInv, Bounded, Off, Exists
<1>4. ASSUME EndLoop PROVE Bounded(q)'
  BY <1>4 DEF EndLoop, LateInv, Bounded, Off, Exists
<1>5. ASSUME Stop PROVE Bounded(q)'
  BY <1>5 DEF Stop, LateInv, Bounded, Off, Exists
<1>6. ASSUME Exit PROVE Bounded(q)'
  BY <1>6 DEF Exit, Die, Idle, Start, LateInv, Bounded, Off, Exists, Procs
<1>7. ASSUME Crash PROVE Bounded(q)'
  BY <1>7 DEF Crash, Die, Idle, Start, LateInv, Bounded, Off, Exists, Procs
<1>8. ASSUME Restart PROVE Bounded(q)'
  BY <1>8 DEF Restart, LateInv, Bounded, Off, Exists
<1>9. ASSUME NEW s \in Schedules, Spawn(s) PROVE Bounded(q)'
  BY <1>9 DEF Spawn, LateInv, Bounded, Off, Exists
<1>10. ASSUME NEW s \in Schedules, Raise(s) PROVE Bounded(q)'
  BY <1>10 DEF Raise, Idle, Start, LateInv, Bounded, Off, Exists
<1>11. ASSUME NEW p \in Procs, OpenRun(p) PROVE Bounded(q)'
  <2>1. proc'[q] = proc[q] \/ (proc'[q].pc = "query" /\ proc[q].pc = "open" /\ q = p)
    <3>1. q \in Procs /\ proc \in [Procs -> {Idle} \cup Working(Len(runs))] /\ proc[p].pc = "open"
      BY <1>11 DEF OpenRun, TypeOK, Procs
    <3>2. \/ proc' = [proc EXCEPT ![p].pc = "query", ![p].run = Len(runs) + 1]
          \/ proc' = [proc EXCEPT ![p].pc = "query"]
      BY <1>11 DEF OpenRun, Advance
    <3>3. CASE p = q
      BY <1>11, AtWork, <3>1, <3>2 DEF OpenRun, Working
    <3>4. CASE p # q
      BY <3>1, <3>2, <3>4
    <3> QED
      BY <3>3, <3>4
  <2>2. UNCHANGED <<row, used>> /\ Bounded(q)
    BY <1>11 DEF OpenRun, LateInv
  <2>3. \/ late'[q] = late[q]
        \/ late'[q] = late[q] + 1 /\ q = p /\ Off(q) /\ proc[q].pc = "open"
    <3>1. late' = late \/ (/\ late' = [late EXCEPT ![proc[p].schedule] = late[proc[p].schedule] + 1] /\ ByTick(p)
                           /\ proc[p].pc = "open" /\ Off(proc[p].schedule))
      <4>1. CASE ByTick(p) /\ Off(proc[p].schedule)
        BY <1>11, <4>1 DEF OpenRun, Off
      <4>2. CASE ~(ByTick(p) /\ Off(proc[p].schedule))
        BY <1>11 DEF OpenRun, Off
      <4> QED
        BY <4>1, <4>2
    <3>2. ByTick(p) /\ proc[p].pc = "open" => proc[p].schedule = p
      BY DEF ByTick, LaterInv, Later
    <3>3. late \in [Schedules -> Nat] /\ (ByTick(p) => p \in Schedules)
      BY DEF TypeOK, ByTick
    <3>4. CASE late' = late
      BY <3>4
    <3>5. CASE ~(late' = late)
      BY <3>1, <3>2, <3>3, <3>5
    <3> QED
      BY <3>5
  <2>4. CASE q = p /\ proc[q].pc = "open"
    BY <1>11, <2>2, <2>4, OpenRunPc, <2>3 DEF Bounded, Off, Exists
  <2>5. CASE ~(q = p /\ proc[q].pc = "open")
    BY <2>1, <2>2, <2>3, <2>5 DEF Bounded, Off, Exists
  <2> QED
    BY <2>4, <2>5
<1>12. ASSUME NEW p \in Procs, Query(p) PROVE Bounded(q)'
  BY <1>12 DEF Query, LateInv, Bounded, Off, Exists, TypeOK, Procs
<1>13. ASSUME NEW p \in Procs, CloseRun(p) PROVE Bounded(q)'
  BY <1>13 DEF CloseRun, Advance, LateInv, Bounded, Off, Exists
<1>14. ASSUME NEW p \in Procs, SetStatus(p) PROVE Bounded(q)'
  BY <1>14 DEF SetStatus, SetNext, ByTick, LateInv, Bounded, Off, Exists, Procs
<1>15. ASSUME NEW p \in Procs, ComputeNext(p) PROVE Bounded(q)'
  BY <1>15, ComputedPlace DEF LateInv, Bounded, Off, Exists, Procs
<1>16. ASSUME NEW h \in Handlers, UpdateSchedule(h) PROVE Bounded(q)'
  BY <1>16 DEF UpdateSchedule, Advance, LateInv, Bounded, Off, Exists, TypeOK, Procs
<1>18. ASSUME NEW h \in Handlers, NEW s \in Schedules, NEW cron \in Crons,
             Create(h, s, cron) PROVE Bounded(q)'
  BY <1>18, SchedulerAssumption DEF Create, LateInv, Bounded, Off, Exists
<1>19. ASSUME NEW h \in Handlers, NEW s \in Schedules, NEW cron \in Crons \cup {Keep},
             NEW enabled \in BOOLEAN \cup {Keep}, ReadForEdit(h, s, cron, enabled) PROVE Bounded(q)'
  BY <1>19, SchedulerAssumption DEF ReadForEdit, LateInv, Bounded, Off, Exists
<1>20. ASSUME NEW h \in Handlers, NEW s \in Schedules, Delete(h, s) PROVE Bounded(q)'
  BY <1>20 DEF Delete, LateInv, Bounded, Off, Exists
<1>21. ASSUME NEW h \in Handlers, NEW s \in Schedules, ManualRun(h, s) PROVE Bounded(q)'
  BY <1>21, SchedulerAssumption DEF ManualRun, LateInv, Bounded, Off, Exists
<1>22. CASE UNCHANGED vars
  BY <1>22 DEF vars, LateInv, Bounded, Off, Exists
<1> QED
  BY <1>1, <1>2, <1>3, <1>4, <1>5, <1>6, <1>7, <1>8, <1>9, <1>10, <1>11, <1>12, <1>13, <1>14,
     <1>15, <1>16, <1>18, <1>19, <1>20, <1>21, <1>22 DEF Next, Request, Run

(***************************************************************************)
(* A row of schedule_runs has at most one goroutine, of the kind that it   *)
(* says, and does not say error before the goroutine has found one.        *)
(***************************************************************************)
Recorded(p) ==
    /\ proc[p].pc \in {"due", "open"} => proc[p].run = NoRun
    /\ proc[p].run # NoRun =>
          /\ runs[proc[p].run].tick = ByTick(p)
          /\ proc[p].pc \in {"query", "close"} => runs[proc[p].run].status # "error"
          /\ runs[proc[p].run].status = "error" => proc[p].status = "error"

AloneOf(p) == \A q \in Procs : proc[p].run = proc[q].run /\ proc[p].run # NoRun => p = q

Alerted(i) ==
    runs[i].tick /\ runs[i].status = "error" =>
        \/ i \in alerted
        \/ \E s \in Schedules : proc[s].run = i /\ proc[s].pc \in {"status", "store", "raise"}

AlertInv ==
    /\ \A p \in Procs : Recorded(p) /\ AloneOf(p)
    /\ ends = 0 => \A i \in DOMAIN runs : Alerted(i)

\* The step of q leaves it its run and status, or leaves it no run.
RunKept(q) ==
    \/ proc'[q].run = NoRun
    \/ /\ proc'[q].run = proc[q].run
       /\ proc'[q].status = proc[q].status \/ proc[q].pc = "query"
       /\ proc'[q].pc \in {"query", "close"} => proc[q].pc \in {"query", "close"}
       /\ proc'[q].pc \in {"due", "open"} => proc[q].pc \in {"due", "open"}

\* A goroutine that may still raise an alert may still do so.
FailureKept(s) ==
    proc[s].pc \in {"status", "store", "raise"} =>
        proc'[s].run = proc[s].run /\ proc'[s].pc \in {"status", "store", "raise"}

\* A step that leaves the runs keeps AlertInv if every goroutine keeps its run
\* or gives it up, and none that owes an alert does.
LEMMA AlertsStay ==
    ASSUME AlertInv, runs' = runs, alerted \subseteq alerted', ends' = 0 => ends = 0,
           \A p \in Procs : RunKept(p),
           ends' = 0 => \A s \in Schedules :
              \/ FailureKept(s)
              \/ proc[s].run \in DOMAIN runs /\ runs[proc[s].run].status = "error"
                    => proc[s].run \in alerted'
    PROVE  AlertInv'
<1>1. ASSUME NEW p \in Procs PROVE Recorded(p)' /\ AloneOf(p)'
  BY DEF AlertInv, Recorded, RunKept, AloneOf
<1>2. ASSUME ends' = 0, NEW i \in DOMAIN runs PROVE Alerted(i)'
  BY <1>2 DEF AlertInv, Alerted, FailureKept
<1> QED
  BY <1>1, <1>2 DEF AlertInv

\* Every step keeps it.
LEMMA AlertStep == TypeOK /\ LaterInv /\ OwnInv /\ AlertInv /\ [Next]_vars => AlertInv'
<1> SUFFICES ASSUME TypeOK, LaterInv, OwnInv, AlertInv, [Next]_vars PROVE AlertInv'
  OBVIOUS
<1> USE DEF tables, bounds, history
<1>1. ASSUME Clock PROVE AlertInv'
  BY <1>1, AlertsStay DEF Clock, RunKept, FailureKept
<1>2. ASSUME Tick PROVE AlertInv'
  BY <1>2, AlertsStay DEF Tick, Start, RunKept, OwnInv, Asleep, FailureKept
<1>3. ASSUME EndTick PROVE AlertInv'
  BY <1>3, AlertsStay DEF EndTick, RunKept, FailureKept
<1>4. ASSUME EndLoop PROVE AlertInv'
  BY <1>4, AlertsStay DEF EndLoop, RunKept, FailureKept
<1>5. ASSUME Stop PROVE AlertInv'
  BY <1>5, AlertsStay DEF Stop, TypeOK, RunKept, FailureKept
<1>6. ASSUME Exit PROVE AlertInv'
  BY <1>6, AlertsStay DEF Exit, Die, OwnInv, Idle, Start, RunKept
<1>7. ASSUME Crash PROVE AlertInv'
  BY <1>7, AlertsStay DEF Crash, Die, TypeOK, Idle, Start, RunKept
<1>8. ASSUME Restart PROVE AlertInv'
  BY <1>8, AlertsStay DEF Restart, RunKept, FailureKept
<1>9. ASSUME NEW s \in Schedules, Spawn(s) PROVE AlertInv'
  BY <1>9, AlertsStay DEF Spawn, RunKept, FailureKept
<1>10. ASSUME NEW s \in Schedules, Raise(s) PROVE AlertInv'
  <2>1. /\ runs' = runs /\ ends' = ends /\ alerted \subseteq alerted' /\ proc[s].pc = "raise"
        /\ proc' = [proc EXCEPT ![s] = Idle] /\ s \in Procs /\ Schedules \subseteq Procs
    BY <1>10 DEF Raise, Procs
  <2>2. \A q \in Procs : IF q = s THEN proc'[q].run = NoRun ELSE proc'[q] = proc[q]
    BY <2>1 DEF TypeOK, Idle, Start
  <2>3. proc[s].run \in DOMAIN runs /\ runs[proc[s].run].status = "error" => proc[s].run \in alerted'
    BY <2>1, <1>10 DEF TypeOK, NoRun, AlertInv, Recorded, Raise, Raises
  <2> QED
    BY <2>1, <2>2, <2>3, AlertsStay DEF RunKept, FailureKept
<1>11. ASSUME NEW p \in Procs, OpenRun(p) PROVE AlertInv'
  <2>1. /\ proc[p] \in Working(Len(runs)) /\ proc[p].pc = "open" /\ Len(runs) \in Nat
        /\ alerted' = alerted /\ ends' = ends /\ runs \in Seq(RunRows)
        /\ proc \in [Procs -> {Idle} \cup Working(Len(runs))] /\ Schedules \subseteq Procs
    BY <1>11, AtWork DEF OpenRun, TypeOK, Procs
  <2>2. CASE Exists(proc[p].schedule)
    <3>1. PICK new : new.tick = ByTick(p) /\ new.status = "running" /\ runs' = Append(runs, new)
      <4> DEFINE row0 == [schedule |-> proc[p].schedule, tick |-> ByTick(p), status |-> "running"]
      <4>1. runs' = Append(runs, row0)
        BY <1>11, <2>2 DEF OpenRun
      <4>2. row0.tick = ByTick(p) /\ row0.status = "running"
        OBVIOUS
      <4> HIDE DEF row0
      <4> QED
        BY <4>1, <4>2
    <3>2. proc' = [proc EXCEPT ![p].pc = "query", ![p].run = Len(runs) + 1]
      BY <1>11, <2>2 DEF OpenRun
    <3>3. /\ proc'[p].run = Len(runs) + 1 /\ proc'[p].pc = "query"
          /\ \A q \in Procs : q # p => proc'[q] = proc[q] /\ proc[q].run \in NoRun .. Len(runs)
      BY <2>1, <3>2 DEF Working, Idle, Start, NoRun
    <3>4. /\ runs'[Len(runs) + 1] = new /\ DOMAIN runs' = 1 .. (Len(runs) + 1)
          /\ \A i \in 1 .. Len(runs) : runs'[i] = runs[i]
      BY <3>1
    <3>5. ASSUME NEW q \in Procs PROVE Recorded(q)' /\ AloneOf(q)'
      <4>1. Recorded(q) /\ AloneOf(q)
        BY DEF AlertInv
      <4>2. CASE q = p
        BY <3>1, <3>3, <4>2 DEF Recorded, AloneOf
      <4>3. CASE q # p
        BY <3>3, <3>4, <4>1, <4>3 DEF Recorded, NoRun, AloneOf
      <4> QED
        BY <4>2, <4>3
    <3>6. ASSUME ends' = 0, NEW i \in DOMAIN runs' PROVE Alerted(i)'
      <4>1. CASE i = Len(runs) + 1
        BY <3>1, <4>1 DEF Alerted
      <4>2. CASE i \in 1 .. Len(runs)
        BY <2>1, <3>6, <4>2, <3>3, <3>4 DEF AlertInv, Alerted
      <4> QED
        BY <3>4, <4>1, <4>2
    <3> QED
      BY <3>5, <3>6 DEF AlertInv
  <2>3. CASE ~Exists(proc[p].schedule)
    <3>1. runs' = runs /\ proc' = [proc EXCEPT ![p].pc = "query"]
      BY <1>11, <2>3 DEF OpenRun, Advance
    <3>2. \A q \in Procs : IF q = p THEN proc'[q].run = proc[q].run /\ proc'[q].pc = "query"
                                           /\ proc'[q].status = proc[q].status
                           ELSE proc'[q] = proc[q]
      BY <2>1, <3>1
    <3>3. proc[p].run = NoRun
      BY <2>1 DEF AlertInv, Recorded
    <3> QED
      BY <2>1, <3>1, <3>3, AlertsStay DEF RunKept, FailureKept
  <2> QED
    BY <2>2, <2>3
<1>12. ASSUME NEW p \in Procs, Query(p) PROVE AlertInv'
  <2>1. PICK status : proc' = [proc EXCEPT ![p].pc = "close", ![p].status = status]
    BY <1>12 DEF Query
  <2>2. /\ proc[p] \in Working(Len(runs)) /\ proc \in [Procs -> {Idle} \cup Working(Len(runs))]
        /\ proc[p].pc = "query" /\ Schedules \subseteq Procs
    BY <1>12, AtWork DEF Query, TypeOK, Procs
  <2>3. \A q \in Procs :
              /\ proc'[q].run = proc[q].run
              /\ proc'[q].status = proc[q].status \/ proc[q].pc = "query"
              /\ proc'[q].pc \in {"query", "close"} => proc[q].pc \in {"query", "close"}
              /\ proc'[q].pc \in {"due", "open"} => proc[q].pc \in {"due", "open"}
              /\ proc[q].pc \in {"status", "store", "raise"} => proc'[q].pc \in {"status", "store", "raise"}
    BY <2>1, <2>2
  <2>4. UNCHANGED <<runs, alerted, ends>>
    BY <1>12 DEF Query
  <2>5. \A q \in Procs : RunKept(q)
    BY <2>3 DEF RunKept
  <2>6. \A q \in Schedules : FailureKept(q)
    BY <2>2, <2>3 DEF FailureKept
  <2> QED
    BY <2>4, <2>5, <2>6, AlertsStay
<1>13. ASSUME NEW p \in Procs, CloseRun(p) PROVE AlertInv'
  <2> DEFINE to == IF proc[p].status = "error" THEN "error" ELSE "success"
              closes == proc[p].run # NoRun /\ runs[proc[p].run].status # "gone"
  <2>1. /\ proc[p] \in Working(Len(runs)) /\ proc[p].pc = "close" /\ proc[p].run \in NoRun .. Len(runs)
        /\ alerted' = alerted /\ ends' = ends /\ runs \in Seq(RunRows)
        /\ proc \in [Procs -> {Idle} \cup Working(Len(runs))] /\ Schedules \subseteq Procs
        /\ proc' = [proc EXCEPT ![p].pc = "status"]
    BY <1>13, AtWork DEF CloseRun, Advance, TypeOK, Procs
  <2>2. \A q \in Procs : IF q = p THEN /\ proc'[q].run = proc[q].run /\ proc'[q].pc = "status"
                                     /\ proc'[q].status = proc[q].status
                         ELSE proc'[q] = proc[q]
    BY <2>1
  <2>3. CASE closes
    <3>1. runs' = [runs EXCEPT ![proc[p].run].status = to]
      BY <1>13, <2>3 DEF CloseRun
    <3>2. proc[p].run \in DOMAIN runs /\ DOMAIN runs = 1 .. Len(runs) /\ Len(runs) \in Nat
      BY <2>1, <2>3 DEF NoRun
    <3>3. /\ DOMAIN runs' = DOMAIN runs
          /\ \A i \in DOMAIN runs : i # proc[p].run => runs'[i] = runs[i]
          /\ runs'[proc[p].run].status = to /\ runs'[proc[p].run].tick = runs[proc[p].run].tick
      BY <2>1, <3>2, <3>1
    <3>4. ASSUME NEW q \in Procs PROVE Recorded(q)' /\ AloneOf(q)'
      <4>1. Recorded(q) /\ AloneOf(q) /\ Recorded(p) /\ AloneOf(p)
        BY DEF AlertInv
      <4>2. AloneOf(q)'
        BY <2>2, <4>1 DEF AloneOf
      <4>3. Recorded(q)'
        <5>1. CASE q = p
          BY <2>2, <3>3, <4>1, <5>1 DEF Recorded
        <5>2. CASE q # p
          BY <2>1, <3>3, <4>1, <5>2, <2>2 DEF Working, Idle, Start, NoRun, AloneOf, Recorded
        <5> QED
          BY <5>1, <5>2
      <4> QED
        BY <4>2, <4>3
    <3>5. ASSUME ends' = 0, NEW i \in DOMAIN runs' PROVE Alerted(i)'
      <4>1. Alerted(i)
        BY <2>1, <3>3, <3>5 DEF AlertInv
      <4>2. CASE i = proc[p].run
        BY <2>3, <3>3, <4>2, <2>2 DEF AlertInv, Recorded, ByTick, Alerted
      <4>3. CASE i # proc[p].run
        BY <2>1, <3>3, <4>1, <4>3 DEF Alerted
      <4> QED
        BY <4>2, <4>3
    <3> QED
      BY <3>4, <3>5 DEF AlertInv
  <2>4. CASE ~closes
    BY <1>13, <2>4, <2>1, AlertsStay DEF CloseRun, RunKept, FailureKept
  <2> QED
    BY <2>3, <2>4
<1>14. ASSUME NEW p \in Procs, SetStatus(p) PROVE AlertInv'
  BY <1>14, AlertsStay DEF SetStatus, Idle, Start, Procs, RunKept, ByTick, FailureKept
<1>15. ASSUME NEW p \in Procs, ComputeNext(p) PROVE AlertInv'
  <2>1. \A q \in Procs : RunKept(q)
    BY <1>15, ComputedPlace DEF RunKept
  <2>2. \A s \in Schedules : proc[s].pc # "created" /\ s \in Procs
    BY DEF LaterInv, Later, Procs
  <2>3. \A s \in Schedules : FailureKept(s)
    BY <1>15, ComputedPlace, <2>2 DEF FailureKept
  <2> QED
    BY <1>15, ComputedPlace, <2>1, <2>3, AlertsStay
<1>16. ASSUME NEW h \in Handlers, UpdateSchedule(h) PROVE AlertInv'
  BY <1>16, AlertsStay DEF UpdateSchedule, Advance, RunKept, FailureKept
<1>18. ASSUME NEW h \in Handlers, NEW s \in Schedules, NEW cron \in Crons,
             Create(h, s, cron) PROVE AlertInv'
  BY <1>18, SchedulerAssumption, AlertsStay DEF Create, Serve, Start, RunKept, FailureKept
<1>19. ASSUME NEW h \in Handlers, NEW s \in Schedules, NEW cron \in Crons \cup {Keep},
             NEW enabled \in BOOLEAN \cup {Keep}, ReadForEdit(h, s, cron, enabled) PROVE AlertInv'
  BY <1>19, SchedulerAssumption, AlertsStay DEF ReadForEdit, Serve, Start, RunKept, FailureKept
<1>20. ASSUME NEW h \in Handlers, NEW s \in Schedules, Delete(h, s) PROVE AlertInv'
  <2>1. /\ proc' = proc /\ alerted' = alerted /\ ends' = ends /\ DOMAIN runs' = DOMAIN runs
        /\ runs \in Seq(RunRows)
    BY <1>20 DEF Delete, Serve, TypeOK
  <2>2. \A i \in DOMAIN runs : runs'[i] = runs[i] \/ (runs'[i].status = "gone" /\ runs'[i].tick = runs[i].tick)
    <3> SUFFICES ASSUME NEW i \in DOMAIN runs
                 PROVE  runs'[i] = runs[i] \/ (runs'[i].status = "gone" /\ runs'[i].tick = runs[i].tick)
      OBVIOUS
    <3>1. runs[i] \in RunRows
      BY <2>1
    <3>2. runs'[i] = IF runs[i].schedule = s THEN [runs[i] EXCEPT !.status = "gone"] ELSE runs[i]
      BY <1>20 DEF Delete
    <3> QED
      BY <3>2
  <2>3. ASSUME NEW q \in Procs PROVE Recorded(q)' /\ AloneOf(q)'
    <3>1. Recorded(q) /\ AloneOf(q)
      BY DEF AlertInv
    <3>2. proc[q].run # NoRun => proc[q].run \in DOMAIN runs
      BY WorkingFields DEF TypeOK, Idle, Start, NoRun
    <3> QED
      BY <2>1, <2>2, <3>1, <3>2 DEF Recorded, AloneOf
  <2>4. ASSUME ends' = 0, NEW i \in DOMAIN runs' PROVE Alerted(i)'
    BY <2>1, <2>4, <2>2 DEF AlertInv, Alerted
  <2> QED
    BY <2>3, <2>4 DEF AlertInv
<1>21. ASSUME NEW h \in Handlers, NEW s \in Schedules, ManualRun(h, s) PROVE AlertInv'
  BY <1>21, SchedulerAssumption, AlertsStay DEF ManualRun, Serve, Start, RunKept, FailureKept
<1>22. CASE UNCHANGED vars
  BY <1>22, AlertsStay DEF vars, RunKept, FailureKept
<1> QED
  BY <1>1, <1>2, <1>3, <1>4, <1>5, <1>6, <1>7, <1>8, <1>9, <1>10, <1>11, <1>12, <1>13, <1>14,
     <1>15, <1>16, <1>18, <1>19, <1>20, <1>21, <1>22 DEF Next, Request, Run

\* Only a tick lists a schedule.
LEMMA OnlyTickLists ==
    ASSUME TypeOK, Next, NEW q \in Schedules, proc[q].pc = "idle", proc'[q].pc = "due"
    PROVE  Tick
<1> USE SchedulerAssumption DEF TypeOK, Procs, tables, Idle, Start
<1>1. ASSUME Clock PROVE FALSE
  BY <1>1 DEF Clock
<1>2. ASSUME Tick PROVE Tick
  BY <1>2
<1>3. ASSUME EndTick PROVE FALSE
  BY <1>3 DEF EndTick
<1>4. ASSUME EndLoop PROVE FALSE
  BY <1>4 DEF EndLoop
<1>5. ASSUME Stop PROVE FALSE
  BY <1>5 DEF Stop
<1>6. ASSUME Exit PROVE FALSE
  BY <1>6 DEF Exit, Die
<1>7. ASSUME Crash PROVE FALSE
  BY <1>7 DEF Crash, Die
<1>8. ASSUME Restart PROVE FALSE
  BY <1>8 DEF Restart
<1>9. ASSUME NEW s \in Schedules, Spawn(s) PROVE FALSE
  BY <1>9 DEF Spawn
<1>10. ASSUME NEW s \in Schedules, Raise(s) PROVE FALSE
  BY <1>10 DEF Raise
<1>11. ASSUME NEW p \in Procs, OpenRun(p) PROVE FALSE
  BY <1>11 DEF OpenRun, Advance
<1>12. ASSUME NEW p \in Procs, Query(p) PROVE FALSE
  BY <1>12 DEF Query
<1>13. ASSUME NEW p \in Procs, CloseRun(p) PROVE FALSE
  BY <1>13 DEF CloseRun, Advance
<1>14. ASSUME NEW p \in Procs, SetStatus(p) PROVE FALSE
  BY <1>14 DEF SetStatus
<1>15. ASSUME NEW p \in Procs, ComputeNext(p) PROVE FALSE
  BY <1>15 DEF ComputeNext
<1>16. ASSUME NEW h \in Handlers, UpdateSchedule(h) PROVE FALSE
  BY <1>16 DEF UpdateSchedule, Advance
<1>18. ASSUME NEW h \in Handlers, NEW s \in Schedules, NEW cron \in Crons,
             Create(h, s, cron) PROVE FALSE
  BY <1>18 DEF Create
<1>19. ASSUME NEW h \in Handlers, NEW s \in Schedules, NEW cron \in Crons \cup {Keep},
             NEW enabled \in BOOLEAN \cup {Keep}, ReadForEdit(h, s, cron, enabled) PROVE FALSE
  BY <1>19 DEF ReadForEdit
<1>20. ASSUME NEW h \in Handlers, NEW s \in Schedules, Delete(h, s) PROVE FALSE
  BY <1>20 DEF Delete
<1>21. ASSUME NEW h \in Handlers, NEW s \in Schedules, ManualRun(h, s) PROVE FALSE
  BY <1>21 DEF ManualRun
<1> HIDE DEF TypeOK, Procs, tables, Idle, Start
<1> QED
  BY <1>1, <1>2, <1>3, <1>4, <1>5, <1>6, <1>7, <1>8, <1>9, <1>10, <1>11, <1>12, <1>13, <1>14,
     <1>15, <1>16, <1>18, <1>19, <1>20, <1>21 DEF Next, Request, Run

\* All of it holds in every reachable state.
LEMMA InductiveInvariant ==
    Spec => [](TypeOK /\ LaterInv /\ LateInv /\ OwnInv /\ AlertInv)
<1> DEFINE IInv == TypeOK /\ LaterInv /\ LateInv /\ OwnInv /\ AlertInv
<1>1. Init => IInv
  <2> SUFFICES ASSUME Init PROVE IInv
    OBVIOUS
  <2>1. /\ now = 0 /\ ~stopping /\ runs = <<>> /\ alerted = {} /\ ends = 0
        /\ \A p \in Procs : proc[p] = Idle
        /\ \A s \in Schedules : /\ proc[s] = Idle /\ row[s] = NoRow
                               /\ served[s] = 0 /\ late[s] = 0
    BY DEF Init, Procs
  <2>2. TypeOK
    <3>1. runs \in Seq(RunRows) /\ Len(runs) = 0
      BY <2>1
    <3> QED
      BY <3>1 DEF Init, TypeOK
  <2>3. LaterInv
    BY <2>1 DEF LaterInv, Later, Exists, Idle, Start
  <2>4. LateInv
    BY <2>1 DEF LateInv, Bounded, Exists, Idle, Start
  <2>5. OwnInv
    BY <2>1 DEF OwnInv, Asleep, Owned, Idle, Start
  <2>6. AlertInv
    BY <2>1 DEF AlertInv, Recorded, AloneOf, Idle, Start
  <2> QED
    BY <2>2, <2>3, <2>4, <2>5, <2>6
<1>2. IInv /\ [Next]_vars => IInv'
  BY TypeStep, LaterStep, LateStep, OwnStep, AlertStep
<1> QED
  BY <1>1, <1>2, PTL DEF Spec

\* Every reachable state has the types of TypeOK, whatever the sets of schedules,
\* requests and cron expressions and the bounds are.
THEOREM TypeCorrect == Spec => []TypeOK
BY InductiveInvariant, PTL

\* A process starts at most one run for an occurrence of a schedule, unless a request that
\* computed it before a tick listed it writes it after (schedules.go:280), which brings it
\* back once.
THEOREM OncePerOccurrenceHolds == Spec => OncePerOccurrence
<1>1. TypeOK /\ LaterInv /\ [Next]_vars =>
        [\A s \in Schedules :
          proc[s].pc = "idle" /\ proc'[s].pc = "due" =>
             served[s] < proc'[s].snap.next \/ s \in overtaken]_vars
  <2> SUFFICES ASSUME TypeOK, LaterInv, Next, NEW s \in Schedules,
                      proc[s].pc = "idle", proc'[s].pc = "due"
               PROVE  served[s] < proc'[s].snap.next \/ s \in overtaken
    OBVIOUS
  <2>1. Tick
    BY OnlyTickLists
  <2>2. s \in Due /\ proc'[s] = Start("due", s, row[s])
    BY <2>1 DEF Tick, Procs
  <2> QED
    BY <2>2 DEF Due, IsDue, LaterInv, Later, Start
<1> QED
  BY <1>1, InductiveInvariant, PTL DEF Spec, OncePerOccurrence

\* A schedule that is off begins at most one more run.
THEOREM DisabledRunsAtMostOnce == Spec => []DisabledRunsOnce
<1>1. LateInv => DisabledRunsOnce
  BY DEF LateInv, Bounded, DisabledRunsOnce
<1> QED
  BY <1>1, InductiveInvariant, PTL

\* Until the process ends, every row that says running has its goroutine.
THEOREM RunningRowsAreOwned == Spec => []RunningIsOwned
<1>1. OwnInv => RunningIsOwned
  BY DEF OwnInv, Owned, Owns, RunningIsOwned
<1> QED
  BY <1>1, InductiveInvariant, PTL

\* Until the process ends, every scheduled run that failed is alerted.
THEOREM FailuresAreAlerted == Spec => []FailureAlerted
<1>1. AlertInv => FailureAlerted
  BY DEF AlertInv, Alerted, FailureAlerted
<1> QED
  BY <1>1, InductiveInvariant, PTL

\* What the scheduler leaves behind, whatever requests, ticks and runs do.
THEOREM SchedulesAreKept == Spec => []ScheduleInv
<1>1. DisabledRunsOnce /\ RunningIsOwned /\ FailureAlerted => ScheduleInv
  BY DEF ScheduleInv
<1> QED
  BY <1>1, DisabledRunsAtMostOnce, RunningRowsAreOwned, FailuresAreAlerted, PTL

-----------------------------------------------------------------------------
(***************************************************************************)
(* The runs of models (ModelRunner), for every set of models, whatever     *)
(* they refer to, and for every bound.                                     *)
(*                                                                         *)
(* First what the functions of ModelGraph compute.  Their loops end, by    *)
(* induction in the form of a least counterexample, in an order in which   *)
(* each model is after what it refers to (KahnOrders), which has all the   *)
(* models exactly when some ranking of them is possible (CompleteIffRanked)*)
(* and in the least set that is closed under the references                *)
(* (ReachIsClosed).  Then the invariant of the runs, in seven parts:       *)
(*                                                                         *)
(*   ModelRows, BoundOK, TablesOK   the types of the tables;               *)
(*   JobsOK    each run has an order with everything after what it refers  *)
(*             to, has been through what is before its next model, and     *)
(*             executes a model none of whose sources failed;              *)
(*   LockInv   the lock is taken exactly while one run is under way;       *)
(*   RowInv    that run has a row, which says running, and the results in  *)
(*             it that have not ended are those of the models to come;     *)
(*   ExistInv  what was executed is in ClickHouse.                         *)
(***************************************************************************)

CONSTANTS Models, Requests, TickJob, Absent, Scenarios
VARIABLES models, running, job, modelRuns, target, lateStatements, schedule, due, bound

Build == INSTANCE ModelRunner WITH
    Tick <- TickJob, runs <- modelRuns, late <- lateStatements

\* What holds at 0 and is kept by each step up to n holds up to n.
LEMMA StepByStep ==
    ASSUME NEW n \in Nat, NEW P \in SUBSET Nat, 0 \in P, \A i \in 1 .. n : i - 1 \in P => i \in P
    PROVE  \A i \in 0 .. n : i \in P
<1> SUFFICES ASSUME {i \in 0 .. n : i \notin P} # {} PROVE FALSE
  OBVIOUS
<1>1. PICK i \in {i \in 0 .. n : i \notin P} : \A j \in {j \in 0 .. n : j \notin P} : i <= j
  <2>1. {i \in 0 .. n : i \notin P} \in SUBSET Nat
    OBVIOUS
  <2> QED BY <2>1, Least
<1>2. i \in 1 .. n /\ i - 1 \in 0 .. n
  BY <1>1
<1>3. i - 1 \in P
  BY <1>1, <1>2
<1> QED
  BY <1>1, <1>2, <1>3

\* A function that is defined by what it does with its value before.
Loops(n, S, a, step) ==
    {f \in [0 .. n -> S] : f[0] = a /\ \A i \in 1 .. n : f[i] = step[<<i, f[i - 1]>>]}

LEMMA LoopExists ==
    ASSUME NEW n \in Nat, NEW S, NEW a \in S, NEW step \in [(1 .. n) \X S -> S]
    PROVE  \E f : f \in Loops(n, S, a, step)
<1> DEFINE Upto(k) == \E f \in [0 .. k -> S] : f[0] = a /\ \A i \in 1 .. k : f[i] = step[<<i, f[i - 1]>>]
           P == {k \in 0 .. n : Upto(k)}
<1>1. 0 \in P
  <2>1. [i \in 0 .. 0 |-> a] \in [0 .. 0 -> S]
    OBVIOUS
  <2>2. [i \in 0 .. 0 |-> a][0] = a /\ 1 .. 0 = {}
    OBVIOUS
  <2>3. Upto(0)
    BY <2>1, <2>2
  <2> QED BY <2>3
<1>2. ASSUME NEW k \in 1 .. n, k - 1 \in P PROVE k \in P
  <2>1. PICK f \in [0 .. (k - 1) -> S] :
           f[0] = a /\ \A i \in 1 .. (k - 1) : f[i] = step[<<i, f[i - 1]>>]
    BY <1>2
  <2> DEFINE h == [i \in 0 .. k |-> IF i = k THEN step[<<k, f[k - 1]>>] ELSE f[i]]
  <2>2. h \in [0 .. k -> S]
    BY <1>2, <2>1
  <2>3. h[0] = a
    BY <1>2, <2>1
  <2>4. ASSUME NEW i \in 1 .. k PROVE h[i] = step[<<i, h[i - 1]>>]
    <3>1. i - 1 \in 0 .. k /\ i - 1 # k /\ i \in 0 .. k
      BY <1>2, <2>4
    <3>2. h[i - 1] = f[i - 1]
      BY <3>1
    <3>3. CASE i = k
      BY <3>1, <3>2, <3>3
    <3>4. CASE i # k
      BY <1>2, <2>4, <3>4, <3>1, <2>1, <3>2
    <3> QED BY <3>3, <3>4
  <2> HIDE DEF h
  <2>5. Upto(k)
    BY <2>2, <2>3, <2>4
  <2> QED BY <1>2, <2>5
<1>3. P \in SUBSET Nat
  OBVIOUS
<1>4. \A i \in 0 .. n : i \in P
  <2> HIDE DEF P
  <2> QED BY <1>1, <1>2, <1>3, StepByStep
<1> QED
  BY <1>4 DEF Loops

-----------------------------------------------------------------------------
(* The members of a sequence, and a sequence with each of them once. *)
Elems(s) == {s[i] : i \in 1 .. Len(s)}
Distinct(s) == \A i, j \in 1 .. Len(s) : s[i] = s[j] => i = j

\* r has what is in S of the first n of s, in the order of s: e says where they were.
Picks(s, S, r, e, n) ==
    /\ \A x, y \in 1 .. Len(r) : x < y => e[x] < e[y]
    /\ \A x \in 1 .. Len(r) : r[x] = s[e[x]] /\ r[x] \in S
    /\ \A i \in 1 .. n : s[i] \in S => \E x \in 1 .. Len(r) : e[x] = i

Filtered(f, X, s, S) ==
    /\ f \in [0 .. Len(s) -> Seq(X)]
    /\ f[0] = <<>> /\ Build!Filter(s, S) = f[Len(s)]
    /\ \A i \in 1 .. Len(s) : f[i] = IF s[i] \in S THEN Append(f[i - 1], s[i]) ELSE f[i - 1]

LEMMA FilterLoop ==
    ASSUME NEW X, NEW s \in Seq(X), NEW S
    PROVE  \E f : Filtered(f, X, s, S)
<1> DEFINE n == Len(s)
           step == [x \in (1 .. n) \X Seq(X) |->
                       IF s[x[1]] \in S THEN Append(x[2], s[x[1]]) ELSE x[2]]
           body(f) == [i \in 0 .. n |-> IF i = 0 THEN <<>>
                          ELSE IF s[i] \in S THEN Append(f[i - 1], s[i]) ELSE f[i - 1]]
           loop == CHOOSE f : f = body(f)
<1>1. n \in Nat /\ <<>> \in Seq(X) /\ \A i \in 1 .. n : s[i] \in X
  OBVIOUS
<1>2. step \in [(1 .. n) \X Seq(X) -> Seq(X)]
  <2>1. ASSUME NEW x \in (1 .. n) \X Seq(X)
        PROVE  (IF s[x[1]] \in S THEN Append(x[2], s[x[1]]) ELSE x[2]) \in Seq(X)
    BY <2>1, <1>1
  <2> QED BY <2>1
<1>3. PICK f \in [0 .. n -> Seq(X)] :
         f[0] = <<>> /\ \A i \in 1 .. n : f[i] = step[<<i, f[i - 1]>>]
  <2>1. PICK f : f \in Loops(n, Seq(X), <<>>, step)
    <3> HIDE DEF step, n
    <3> QED BY <1>1, <1>2, LoopExists
  <2> HIDE DEF step
  <2> QED BY <2>1 DEF Loops
<1>4. ASSUME NEW i \in 1 .. n
      PROVE  f[i] = IF s[i] \in S THEN Append(f[i - 1], s[i]) ELSE f[i - 1]
  <2>1. i - 1 \in 0 .. n
    BY <1>4
  <2>2. <<i, f[i - 1]>> \in (1 .. n) \X Seq(X)
    BY <1>3, <1>4, <2>1
  <2> QED BY <1>3, <1>4, <2>2
<1>5. f = body(f)
  <2>1. f = [i \in 0 .. n |-> f[i]]
    BY <1>3
  <2>2. \A i \in 0 .. n : i # 0 => i \in 1 .. n
    BY <1>1
  <2>3. \A i \in 0 .. n : f[i] = body(f)[i]
    BY <1>3, <1>4, <2>2
  <2> QED BY <2>1, <2>3
<1>6. loop = body(loop)
  <2> HIDE DEF body
  <2> QED BY <1>5
<1>7. loop[0] = <<>> /\ loop = [i \in 0 .. n |-> loop[i]]
  <2> HIDE DEF loop
  <2> QED BY <1>1, <1>6
<1>8. ASSUME NEW i \in 1 .. n
      PROVE  loop[i] = IF s[i] \in S THEN Append(loop[i - 1], s[i]) ELSE loop[i - 1]
  <2> HIDE DEF loop
  <2>1. i \in 0 .. n /\ i # 0
    BY <1>8
  <2> QED BY <1>6, <2>1
<1>9. \A i \in 0 .. n : loop[i] \in Seq(X)
  <2> DEFINE P == {i \in 0 .. n : loop[i] \in Seq(X)}
  <2>1. P \in SUBSET Nat /\ 0 \in P
    <3> HIDE DEF loop
    <3>1. 0 \in 0 .. n /\ 0 .. n \subseteq Nat
      BY <1>1
    <3>2. loop[0] \in Seq(X)
      BY <1>1, <1>7
    <3> HIDE DEF n
    <3> QED BY <3>1, <3>2
  <2>2. ASSUME NEW i \in 1 .. n, i - 1 \in P PROVE i \in P
    <3> HIDE DEF loop
    <3>1. loop[i - 1] \in Seq(X) /\ s[i] \in X
      BY <1>1, <2>2
    <3>2. loop[i] \in Seq(X)
      <4>1. Append(loop[i - 1], s[i]) \in Seq(X)
        BY <3>1
      <4> QED BY <1>8, <2>2, <3>1, <4>1
    <3> QED BY <3>2, <2>2
  <2>3. \A i \in 0 .. n : i \in P
    <3> HIDE DEF P
    <3> QED BY <1>1, <2>1, <2>2, StepByStep
  <2> QED BY <2>3
<1>10. Build!Filter(s, S) = loop[n]
  BY DEF Build!Filter
<1> HIDE DEF loop
<1>11. loop \in [0 .. n -> Seq(X)]
  BY <1>7, <1>9
<1> QED
  BY <1>7, <1>8, <1>10, <1>11 DEF Filtered

LEMMA FilterPicks ==
    ASSUME NEW X, NEW s \in Seq(X), NEW S
    PROVE  /\ Build!Filter(s, S) \in Seq(X)
           /\ \E e \in [1 .. Len(Build!Filter(s, S)) -> 1 .. Len(s)] :
                 Picks(s, S, Build!Filter(s, S), e, Len(s))
<1> DEFINE n == Len(s)
<1>1. PICK f \in [0 .. n -> Seq(X)] :
         /\ f[0] = <<>> /\ Build!Filter(s, S) = f[n]
         /\ \A i \in 1 .. n : f[i] = IF s[i] \in S THEN Append(f[i - 1], s[i]) ELSE f[i - 1]
  <2>1. PICK f : Filtered(f, X, s, S)
    BY FilterLoop
  <2> QED BY <2>1 DEF Filtered
<1> DEFINE P == {i \in 0 .. n : \E e \in [1 .. Len(f[i]) -> 1 .. i] : Picks(s, S, f[i], e, i)}
<1>2. 0 \in P
  <2>1. Len(f[0]) = 0 /\ 1 .. 0 = {} /\ 0 \in 0 .. n
    BY <1>1
  <2>2. [x \in {} |-> 0] \in [1 .. Len(f[0]) -> 1 .. 0]
    BY <2>1
  <2>3. Picks(s, S, f[0], [x \in {} |-> 0], 0)
    BY <2>1 DEF Picks
  <2> QED BY <2>1, <2>2, <2>3
<1>3. ASSUME NEW i \in 1 .. n, i - 1 \in P PROVE i \in P
  <2>1. PICK e \in [1 .. Len(f[i - 1]) -> 1 .. (i - 1)] : Picks(s, S, f[i - 1], e, i - 1)
    BY <1>3
  <2>2. i - 1 \in 0 .. n /\ i \in 0 .. n /\ f[i - 1] \in Seq(X) /\ Len(f[i - 1]) \in Nat
    BY <1>1, <1>3
  <2>3. CASE s[i] \notin S
    <3>1. f[i] = f[i - 1]
      BY <1>1, <1>3, <2>3
    <3>2. e \in [1 .. Len(f[i]) -> 1 .. i]
      BY <2>1, <2>2, <3>1
    <3>3. Picks(s, S, f[i], e, i)
      BY <2>3, <2>1, <3>1 DEF Picks
    <3> QED BY <2>2, <3>2, <3>3
  <2>4. CASE s[i] \in S
    <3> DEFINE m == Len(f[i - 1])
               d == [x \in 1 .. (m + 1) |-> IF x = m + 1 THEN i ELSE e[x]]
    <3>1. /\ f[i] = Append(f[i - 1], s[i]) /\ Len(f[i]) = m + 1 /\ f[i][m + 1] = s[i]
          /\ \A x \in 1 .. m : f[i][x] = f[i - 1][x]
      <4>1. f[i] = Append(f[i - 1], s[i])
        BY <1>1, <1>3, <2>4
      <4> QED BY <2>2, <4>1
    <3>0. m \in Nat
      BY <2>2
    <3>2. \A x \in 1 .. (m + 1) : x # m + 1 => x \in 1 .. m
      <4> HIDE DEF m
      <4> QED BY <3>0
    <3>3. d \in [1 .. Len(f[i]) -> 1 .. i]
      BY <2>1, <2>2, <3>1, <3>2
    <3>4. Picks(s, S, f[i], d, i)
      <4>1. \A x \in 1 .. m : d[x] = e[x] /\ e[x] \in 1 .. (i - 1)
        <5>1. e \in [1 .. m -> 1 .. (i - 1)]
          BY <2>1
        <5> HIDE DEF m
        <5>2. \A x \in 1 .. m : x # m + 1 /\ x \in 1 .. (m + 1)
          BY <3>0
        <5> QED BY <5>1, <5>2
      <4>2. d[m + 1] = i
        BY <2>2
      <4> HIDE DEF d
      <4>3. \A x, y \in 1 .. Len(f[i]) : x < y => d[x] < d[y]
        <5> SUFFICES ASSUME NEW x \in 1 .. (m + 1), NEW y \in 1 .. (m + 1), x < y PROVE d[x] < d[y]
          BY <3>1
        <5>1. x \in 1 .. m
          BY <2>2
        <5>2. CASE y = m + 1
          BY <4>1, <4>2, <5>1, <5>2
        <5>3. CASE y # m + 1
          BY <2>1, <3>2, <4>1, <5>1, <5>3 DEF Picks
        <5> QED BY <5>2, <5>3
      <4>4. \A x \in 1 .. Len(f[i]) : f[i][x] = s[d[x]] /\ f[i][x] \in S
        BY <2>1, <2>4, <3>1, <3>2, <4>1, <4>2 DEF Picks
      <4>5. \A j \in 1 .. i : s[j] \in S => \E x \in 1 .. Len(f[i]) : d[x] = j
        <5> SUFFICES ASSUME NEW j \in 1 .. i, s[j] \in S
                     PROVE  \E x \in 1 .. (m + 1) : d[x] = j
          BY <3>1
        <5>1. CASE j = i
          BY <2>2, <4>2, <5>1
        <5>2. CASE j # i
          <6>1. j \in 1 .. (i - 1)
            BY <5>2
          <6>2. PICK x \in 1 .. m : e[x] = j
            BY <2>1, <6>1 DEF Picks
          <6> QED BY <2>2, <4>1, <6>2
        <5> QED BY <5>1, <5>2
      <4> QED BY <4>3, <4>4, <4>5 DEF Picks
    <3> QED BY <2>2, <3>3, <3>4
  <2> QED BY <2>3, <2>4
<1>4. n \in 0 .. n /\ n \in Nat /\ P \in SUBSET Nat
  OBVIOUS
<1>5. n \in P
  <2> HIDE DEF P, n
  <2> QED BY <1>2, <1>3, <1>4, StepByStep
<1> QED
  BY <1>1, <1>4, <1>5

\* It has the members of S, each once if s has, ...
LEMMA FilterElems ==
    ASSUME NEW X, NEW s \in Seq(X), NEW S
    PROVE  /\ Build!Filter(s, S) \in Seq(S)
           /\ Elems(Build!Filter(s, S)) = Elems(s) \cap S
           /\ Distinct(s) => Distinct(Build!Filter(s, S))
<1> DEFINE r == Build!Filter(s, S)
<1>1. PICK e \in [1 .. Len(r) -> 1 .. Len(s)] : Picks(s, S, r, e, Len(s))
  BY FilterPicks
<1>2. r \in Seq(X)
  BY FilterPicks
<1> HIDE DEF r
<1>3. r \in Seq(S)
  BY <1>1, <1>2 DEF Picks
<1>4. Elems(r) = Elems(s) \cap S
  <2>1. \A v \in Elems(r) : v \in Elems(s) \cap S
    BY <1>1 DEF Picks, Elems
  <2>2. ASSUME NEW v \in Elems(s) \cap S PROVE v \in Elems(r)
    <3>1. PICK i \in 1 .. Len(s) : v = s[i] /\ s[i] \in S
      BY <2>2 DEF Elems
    <3>2. PICK x \in 1 .. Len(r) : e[x] = i
      BY <1>1, <3>1 DEF Picks
    <3> QED BY <1>1, <3>1, <3>2 DEF Picks, Elems
  <2> QED BY <2>1, <2>2
<1>5. ASSUME Distinct(s), NEW x \in 1 .. Len(r), NEW y \in 1 .. Len(r), r[x] = r[y] PROVE x = y
  <2>1. e[x] = e[y]
    BY <1>1, <1>5 DEF Picks, Distinct
  <2>2. e[x] \in Nat /\ e[y] \in Nat
    BY <1>1
  <2>3. ~(x < y) /\ ~(y < x)
    BY <1>1, <2>1, <2>2 DEF Picks
  <2>4. x \in Nat /\ y \in Nat
    BY <1>2
  <2> QED BY <2>3, <2>4
<1> QED
  BY <1>3, <1>4, <1>5 DEF r, Distinct

\* ... and what is before a member of S in s is before it here.
LEMMA FilterOrder ==
    ASSUME NEW X, NEW s \in Seq(X), NEW S, NEW x \in 1 .. Len(Build!Filter(s, S))
    PROVE  \E i \in 1 .. Len(s) :
              /\ s[i] = Build!Filter(s, S)[x]
              /\ \A j \in 1 .. (i - 1) : s[j] \in S =>
                    \E y \in 1 .. (x - 1) : Build!Filter(s, S)[y] = s[j]
<1> DEFINE r == Build!Filter(s, S)
<1>1. PICK e \in [1 .. Len(r) -> 1 .. Len(s)] : Picks(s, S, r, e, Len(s))
  BY FilterPicks
<1>2. r \in Seq(X) /\ Len(r) \in Nat /\ Len(s) \in Nat
  BY FilterPicks
<1> HIDE DEF r
<1>3. ASSUME NEW j \in 1 .. (e[x] - 1), s[j] \in S
      PROVE  \E y \in 1 .. (x - 1) : r[y] = s[j]
  <2>1. e[x] \in 1 .. Len(s)
    BY <1>1 DEF r
  <2>2. j \in 1 .. Len(s) /\ j < e[x]
    BY <1>2, <2>1
  <2>3. PICK y \in 1 .. Len(r) : e[y] = j
    BY <1>1, <1>3, <2>2 DEF Picks
  <2>4. y < x
    BY <1>1, <2>1, <2>2, <2>3, <1>2 DEF r, Picks
  <2>5. r[y] = s[j]
    BY <1>1, <2>3 DEF Picks
  <2> QED BY <1>2, <2>4, <2>5
<1>4. s[e[x]] = r[x] /\ e[x] \in 1 .. Len(s)
  BY <1>1 DEF Picks, r
<1> QED
  BY <1>3, <1>4 DEF r

-----------------------------------------------------------------------------
LEMMA ElemsAppend ==
    ASSUME NEW X, NEW s \in Seq(X), NEW x \in X
    PROVE  /\ Append(s, x) \in Seq(X) /\ Elems(Append(s, x)) = Elems(s) \cup {x}
           /\ Distinct(s) /\ x \notin Elems(s) => Distinct(Append(s, x))
<1> DEFINE n == Len(s)
           t == Append(s, x)
<1>1. n \in Nat /\ Len(t) = n + 1 /\ t[n + 1] = x /\ \A i \in 1 .. n : t[i] = s[i]
  OBVIOUS
<1>2. t \in Seq(X)
  OBVIOUS
<1> HIDE DEF t
<1>3. \A i \in 1 .. (n + 1) : i = n + 1 \/ i \in 1 .. n
  BY <1>1
<1>4. n + 1 \in 1 .. (n + 1) /\ \A i \in 1 .. n : i \in 1 .. (n + 1)
  BY <1>1
<1>5. Elems(t) = Elems(s) \cup {x}
  BY <1>1, <1>3, <1>4 DEF Elems
<1>6. ASSUME Distinct(s), x \notin Elems(s), NEW i \in 1 .. (n + 1), NEW j \in 1 .. (n + 1), t[i] = t[j]
      PROVE  i = j
  BY <1>1, <1>3, <1>6 DEF Distinct, Elems
<1> QED
  BY <1>1, <1>2, <1>5, <1>6 DEF Distinct, t

LEMMA ElemsTail ==
    ASSUME NEW X, NEW s \in Seq(X), s # <<>>
    PROVE  /\ Tail(s) \in Seq(X) /\ Head(s) \in X
           /\ Elems(s) = {Head(s)} \cup Elems(Tail(s))
           /\ Distinct(s) => Distinct(Tail(s)) /\ Head(s) \notin Elems(Tail(s))
<1> DEFINE n == Len(s)
           t == Tail(s)
<1>1. n \in Nat \ {0}
  BY EmptySeq, LenProperties
<1>2. /\ Len(t) = n - 1 /\ t \in Seq(X)
      /\ \A i \in 1 .. (n - 1) : t[i] = s[i + 1]
  BY <1>1, HeadTailProperties
<1>3. Head(s) = s[1] /\ Head(s) \in X
  BY <1>1, HeadTailProperties
<1> HIDE DEF t
<1>4. /\ 1 \in 1 .. n /\ \A i \in 1 .. (n - 1) : i + 1 \in 1 .. n
      /\ \A i \in 1 .. n : i # 1 => i - 1 \in 1 .. (n - 1) /\ (i - 1) + 1 = i
  BY <1>1
<1>5. Elems(s) = {Head(s)} \cup Elems(t)
  <2>1. \A v \in Elems(s) : v \in {Head(s)} \cup Elems(t)
    <3> SUFFICES ASSUME NEW i \in 1 .. n PROVE s[i] \in {Head(s)} \cup Elems(t)
      BY DEF Elems
    <3>1. CASE i = 1
      BY <1>3, <3>1
    <3>2. CASE i # 1
      <4>1. t[i - 1] = s[i] /\ i - 1 \in 1 .. Len(t)
        BY <1>2, <1>4, <3>2
      <4> QED BY <4>1 DEF Elems
    <3> QED BY <3>1, <3>2
  <2>2. \A v \in {Head(s)} \cup Elems(t) : v \in Elems(s)
    BY <1>2, <1>3, <1>4 DEF Elems
  <2> QED BY <2>1, <2>2
<1>6. ASSUME Distinct(s), NEW i \in 1 .. (n - 1), NEW j \in 1 .. (n - 1), t[i] = t[j] PROVE i = j
  BY <1>1, <1>2, <1>4, <1>6 DEF Distinct
<1>7. ASSUME Distinct(s), NEW i \in 1 .. (n - 1), t[i] = s[1] PROVE FALSE
  <2>1. i + 1 = 1
    BY <1>2, <1>4, <1>7 DEF Distinct
  <2> QED BY <1>1, <2>1
<1> QED
  BY <1>2, <1>3, <1>5, <1>6, <1>7 DEF Distinct, Elems, t

LEMMA ElemsConcat ==
    ASSUME NEW X, NEW s \in Seq(X), NEW t \in Seq(X)
    PROVE  /\ s \o t \in Seq(X) /\ Elems(s \o t) = Elems(s) \cup Elems(t)
           /\ Distinct(s) /\ Distinct(t) /\ Elems(s) \cap Elems(t) = {} => Distinct(s \o t)
<1> DEFINE n == Len(s)
           m == Len(t)
           u == s \o t
<1>1. n \in Nat /\ m \in Nat /\ u \in Seq(X) /\ Len(u) = n + m
  BY ConcatProperties, LenProperties
<1>2. \A i \in 1 .. (n + m) : u[i] = IF i <= n THEN s[i] ELSE t[i - n]
  BY ConcatProperties
<1> HIDE DEF u
<1>3. \A i \in 1 .. (n + m) : /\ i <= n => i \in 1 .. n
                              /\ ~(i <= n) => i - n \in 1 .. m
  BY <1>1
<1>4. /\ \A i \in 1 .. n : i \in 1 .. (n + m) /\ i <= n
      /\ \A i \in 1 .. m : n + i \in 1 .. (n + m) /\ ~(n + i <= n) /\ (n + i) - n = i
  BY <1>1
<1>5. Elems(u) = Elems(s) \cup Elems(t)
  <2>1. \A v \in Elems(u) : v \in Elems(s) \cup Elems(t)
    <3> SUFFICES ASSUME NEW i \in 1 .. (n + m) PROVE u[i] \in Elems(s) \cup Elems(t)
      BY <1>1 DEF Elems
    <3> QED BY <1>2, <1>3 DEF Elems
  <2>2. \A v \in Elems(s) : v \in Elems(u)
    <3> SUFFICES ASSUME NEW i \in 1 .. n PROVE s[i] \in Elems(u)
      BY DEF Elems
    <3>1. i \in 1 .. Len(u) /\ u[i] = s[i]
      BY <1>1, <1>2, <1>4
    <3> QED BY <3>1 DEF Elems
  <2>3. \A v \in Elems(t) : v \in Elems(u)
    <3> SUFFICES ASSUME NEW i \in 1 .. m PROVE t[i] \in Elems(u)
      BY DEF Elems
    <3>1. n + i \in 1 .. Len(u) /\ u[n + i] = t[i]
      BY <1>1, <1>2, <1>4
    <3> QED BY <3>1 DEF Elems
  <2> QED BY <2>1, <2>2, <2>3
<1>6. ASSUME Distinct(s), Distinct(t), Elems(s) \cap Elems(t) = {},
             NEW i \in 1 .. (n + m), NEW j \in 1 .. (n + m), u[i] = u[j]
      PROVE  i = j
  <2>1. CASE i <= n /\ j <= n
    BY <1>2, <1>3, <1>6, <2>1 DEF Distinct
  <2>2. CASE ~(i <= n) /\ ~(j <= n)
    <3>1. i - n = j - n
      BY <1>2, <1>3, <1>6, <2>2 DEF Distinct
    <3> QED BY <1>1, <3>1
  <2>3. ASSUME NEW x \in 1 .. (n + m), NEW y \in 1 .. (n + m), u[x] = u[y], x <= n, ~(y <= n) PROVE FALSE
    BY <1>2, <1>3, <2>3, <1>6 DEF Elems
  <2> QED BY <1>6, <2>1, <2>2, <2>3
<1> QED
  BY <1>1, <1>5, <1>6 DEF Distinct, u

-----------------------------------------------------------------------------
(* Kahn's algorithm. *)

LEMMA SameCardinality == ASSUME NEW S PROVE Build!Cardinality(S) = Cardinality(S)
  BY DEF Build!Cardinality, Cardinality

\* What the algorithm is given: finitely many models that refer to one another, and lists
\* in which each of them is once.
IsGraph(ids, deps) == IsFiniteSet(ids) /\ deps \in [ids -> SUBSET ids]
Lists(s, ids) == s \in Seq(Elems(s)) /\ Distinct(s) /\ ids \subseteq Elems(s)

\* Everything of the order and of the queue has its sources in the order, and nothing
\* else has; a model of the order has them before it.
KahnInv(k, ids, deps) ==
    /\ k \in Build!KahnStates(ids)
    /\ Distinct(k.order) /\ Distinct(k.queue) /\ Elems(k.order) \cap Elems(k.queue) = {}
    /\ \A m \in ids :
          /\ k.inDegree[m] = Cardinality(deps[m] \ Elems(k.order))
          /\ m \in Elems(k.order) \cup Elems(k.queue) <=> deps[m] \subseteq Elems(k.order)
    /\ \A i \in 1 .. Len(k.order) : deps[k.order[i]] \subseteq {k.order[j] : j \in 1 .. (i - 1)}

One(S) == \E x : S = {x}

LEMMA DepsFinite ==
    ASSUME NEW ids, NEW deps, IsGraph(ids, deps), NEW m \in ids, NEW S
    PROVE  /\ IsFiniteSet(deps[m] \ S) /\ Cardinality(deps[m] \ S) \in Nat
           /\ Cardinality(deps[m] \ S) = 1 <=> One(deps[m] \ S)
BY FS_Subset, FS_CardinalityType, FS_Singleton DEF IsGraph, One

LEMMA KahnStarts ==
    ASSUME NEW ids, NEW deps, IsGraph(ids, deps), NEW names, Lists(names, ids)
    PROVE  KahnInv(Build!KahnStart(ids, deps, names), ids, deps)
<1> DEFINE k == Build!KahnStart(ids, deps, names)
           free == {m \in ids : deps[m] = {}}
<1>1. /\ k.queue = Build!Filter(names, free) /\ k.order = <<>>
      /\ k.inDegree = [m \in ids |-> Build!Cardinality(deps[m])]
      /\ k = [queue |-> k.queue, order |-> k.order, inDegree |-> k.inDegree]
  BY DEF Build!KahnStart
<1> HIDE DEF k
<1>2. /\ k.queue \in Seq(free) /\ Elems(k.queue) = free /\ Distinct(k.queue)
  <2>1. free \subseteq Elems(names)
    BY DEF Lists
  <2> HIDE DEF free
  <2>2. names \in Seq(Elems(names)) /\ Distinct(names)
    BY DEF Lists
  <2>3. /\ Build!Filter(names, free) \in Seq(free)
        /\ Elems(Build!Filter(names, free)) = Elems(names) \cap free
        /\ Distinct(names) => Distinct(Build!Filter(names, free))
    BY <2>2, FilterElems
  <2> QED BY <1>1, <2>1, <2>2, <2>3
<1>3. Elems(k.order) = {} /\ Len(k.order) = 0
  BY <1>1 DEF Elems
<1>4. ASSUME NEW m \in ids
      PROVE  k.inDegree[m] = Cardinality(deps[m] \ Elems(k.order)) /\ k.inDegree[m] \in Int
  <2>1. k.inDegree[m] = Cardinality(deps[m])
    BY <1>1, SameCardinality
  <2>2. deps[m] \ Elems(k.order) = deps[m]
    BY <1>3
  <2>3. Cardinality(deps[m] \ Elems(k.order)) \in Nat
    BY DepsFinite
  <2> QED BY <2>1, <2>2, <2>3
<1>5. k \in Build!KahnStates(ids)
  <2>1. k.queue \in Seq(ids)
    BY <1>2
  <2>2. k.inDegree \in [ids -> Int]
    BY <1>1, <1>4
  <2>3. k.order \in Seq(ids)
    BY <1>1
  <2> QED BY <1>1, <2>1, <2>2, <2>3 DEF Build!KahnStates
<1>6. Distinct(k.order)
  BY <1>3 DEF Distinct
<1>7. ASSUME NEW m \in ids
      PROVE  m \in Elems(k.order) \cup Elems(k.queue) <=> deps[m] \subseteq Elems(k.order)
  BY <1>2, <1>3
<1>8. \A i \in 1 .. Len(k.order) : deps[k.order[i]] \subseteq {k.order[j] : j \in 1 .. (i - 1)}
  BY <1>3
<1> QED
  BY <1>2, <1>3, <1>4, <1>5, <1>6, <1>7, <1>8 DEF KahnInv, k

LEMMA KahnStepKeeps ==
    ASSUME NEW ids, NEW deps, IsGraph(ids, deps), NEW visit, Lists(visit, ids),
           NEW k, KahnInv(k, ids, deps), k.queue # <<>>
    PROVE  LET next == Build!KahnStep(ids, deps, visit)[k] IN
           KahnInv(next, ids, deps) /\ Len(next.order) = Len(k.order) + 1
<1> DEFINE next == Build!KahnStep(ids, deps, visit)[k]
           curr == Head(k.queue)
           done == Elems(k.order)
           rev == Build!RevDeps(deps, ids, curr)
           last == {d \in rev : k.inDegree[d] = 1}
           new == Build!Filter(visit, last)
<1>0. /\ k \in Build!KahnStates(ids) /\ k.queue \in Seq(ids) /\ k.order \in Seq(ids)
      /\ k.inDegree \in [ids -> Int]
  BY DEF KahnInv, Build!KahnStates
<1>1. /\ next.queue = Tail(k.queue) \o new
      /\ next.order = Append(k.order, curr)
      /\ next.inDegree = [m \in ids |-> IF m \in rev THEN k.inDegree[m] - 1 ELSE k.inDegree[m]]
      /\ next = [queue |-> next.queue, order |-> next.order, inDegree |-> next.inDegree]
  BY <1>0 DEF Build!KahnStep
<1>2. /\ curr \in ids /\ Tail(k.queue) \in Seq(ids) /\ Elems(k.queue) = {curr} \cup Elems(Tail(k.queue))
      /\ Distinct(Tail(k.queue)) /\ curr \notin Elems(Tail(k.queue))
  BY <1>0, ElemsTail DEF KahnInv
<1>3. \A m \in ids : m \in rev <=> curr \in deps[m]
  BY DEF Build!RevDeps
<1>4. rev \subseteq ids
  BY DEF Build!RevDeps
<1> HIDE DEF next, curr, rev
<1>5. curr \notin done /\ deps[curr] \subseteq done /\ curr \in Elems(k.queue)
  BY <1>2 DEF KahnInv
<1>6. /\ new \in Seq(last) /\ Elems(new) = last /\ Distinct(new)
  <2> HIDE DEF last
  <2>0. visit \in Seq(Elems(visit)) /\ Distinct(visit)
    BY DEF Lists
  <2>1. new \in Seq(last) /\ Elems(new) = Elems(visit) \cap last /\ Distinct(new)
    BY <2>0, FilterElems
  <2>2. last \subseteq Elems(visit)
    BY <1>4 DEF Lists, last
  <2> QED BY <2>1, <2>2
\* What is new waited for the current one only.
<1>7. ASSUME NEW m \in ids PROVE m \in last <=> deps[m] \ done = {curr}
  <2>1. k.inDegree[m] = Cardinality(deps[m] \ done)
    BY DEF KahnInv
  <2>2. k.inDegree[m] = 1 <=> One(deps[m] \ done)
    <3> HIDE DEF done
    <3>1. Cardinality(deps[m] \ done) = 1 <=> One(deps[m] \ done)
      BY DepsFinite
    <3> QED BY <2>1, <3>1
  <2>3. m \in last <=> curr \in deps[m] /\ One(deps[m] \ done)
    BY <1>3, <2>2
  <2> QED BY <1>5, <2>3 DEF One
<1> HIDE DEF last, new
<1>8. last \subseteq ids
  BY <1>4 DEF last
<1>9. new \in Seq(ids)
  BY <1>6, <1>8
<1>10. /\ next.order \in Seq(ids) /\ Elems(next.order) = done \cup {curr} /\ Distinct(next.order)
  BY <1>0, <1>1, <1>2, <1>5, ElemsAppend DEF KahnInv
<1>11. last \cap (Elems(k.order) \cup Elems(k.queue)) = {}
  <2> SUFFICES ASSUME NEW m \in last, m \in Elems(k.order) \cup Elems(k.queue) PROVE FALSE
    OBVIOUS
  <2>1. m \in ids /\ deps[m] \subseteq done
    BY <1>8 DEF KahnInv
  <2> QED BY <1>7, <2>1
<1>12. /\ next.queue \in Seq(ids) /\ Elems(next.queue) = Elems(Tail(k.queue)) \cup last
       /\ Distinct(next.queue)
  <2> DEFINE rest == Tail(k.queue)
  <2>1. Elems(rest) \cap Elems(new) = {} /\ rest \in Seq(ids) /\ Distinct(rest)
    BY <1>2, <1>6, <1>11
  <2>2. next.queue = rest \o new
    BY <1>1
  <2> HIDE DEF rest
  <2>3. /\ rest \o new \in Seq(ids)
        /\ Elems(rest \o new) = Elems(rest) \cup Elems(new)
        /\ Distinct(rest) /\ Distinct(new) /\ Elems(rest) \cap Elems(new) = {}
              => Distinct(rest \o new)
    BY <1>9, <2>1, ElemsConcat
  <2>4. /\ next.queue \in Seq(ids) /\ Elems(next.queue) = Elems(rest) \cup last
        /\ Distinct(next.queue)
    BY <1>6, <2>1, <2>2, <2>3
  <2> QED BY <2>4 DEF rest
<1>13. Elems(next.order) \cap Elems(next.queue) = {}
  BY <1>2, <1>5, <1>10, <1>11, <1>12 DEF KahnInv
<1>14. ASSUME NEW m \in ids
       PROVE  next.inDegree[m] = Cardinality(deps[m] \ Elems(next.order)) /\ next.inDegree[m] \in Int
  <2>1. deps[m] \ Elems(next.order) = (deps[m] \ done) \ {curr}
    BY <1>10
  <2>2. Cardinality((deps[m] \ done) \ {curr})
           = IF curr \in deps[m] \ done THEN Cardinality(deps[m] \ done) - 1 ELSE Cardinality(deps[m] \ done)
    BY DepsFinite, FS_RemoveElement
  <2>3. k.inDegree[m] = Cardinality(deps[m] \ done)
    BY DEF KahnInv
  <2>4. next.inDegree[m] = IF curr \in deps[m] THEN k.inDegree[m] - 1 ELSE k.inDegree[m]
    BY <1>1, <1>3
  <2>5. Cardinality(deps[m] \ Elems(next.order)) \in Nat
    BY DepsFinite
  <2>6. curr \in deps[m] <=> curr \in deps[m] \ done
    BY <1>5
  <2>7. next.inDegree[m] = Cardinality(deps[m] \ Elems(next.order))
    BY <2>1, <2>2, <2>3, <2>4, <2>6
  <2> QED BY <2>5, <2>7
<1>15. next \in Build!KahnStates(ids)
  BY <1>1, <1>14, <1>10, <1>12 DEF Build!KahnStates
<1>16. ASSUME NEW m \in ids
       PROVE  m \in Elems(next.order) \cup Elems(next.queue) <=> deps[m] \subseteq Elems(next.order)
  <2>1. m \in Elems(next.order) \cup Elems(next.queue)
           <=> m \in Elems(k.order) \cup Elems(k.queue) \/ m \in last
    BY <1>2, <1>10, <1>12
  <2>2. m \in Elems(k.order) \cup Elems(k.queue) <=> deps[m] \subseteq done
    BY DEF KahnInv
  <2>3. deps[m] \subseteq Elems(next.order) <=> deps[m] \subseteq done \/ deps[m] \ done = {curr}
    BY <1>5, <1>10
  <2> QED BY <1>7, <2>1, <2>2, <2>3
<1>17. Len(next.order) = Len(k.order) + 1 /\ Len(k.order) \in Nat
  BY <1>0, <1>1, <1>2
<1>18. ASSUME NEW i \in 1 .. Len(next.order)
       PROVE  deps[next.order[i]] \subseteq {next.order[j] : j \in 1 .. (i - 1)}
  <2>1. \A j \in 1 .. Len(k.order) : next.order[j] = k.order[j]
    BY <1>0, <1>1, <1>2
  <2>2. next.order[Len(k.order) + 1] = curr
    BY <1>0, <1>1, <1>2
  <2>3. CASE i \in 1 .. Len(k.order)
    <3>1. \A j \in 1 .. (i - 1) : j \in 1 .. Len(k.order)
      BY <1>17, <2>3
    <3>2. {k.order[j] : j \in 1 .. (i - 1)} = {next.order[j] : j \in 1 .. (i - 1)}
      BY <2>1, <3>1
    <3> QED BY <2>1, <2>3, <3>2 DEF KahnInv
  <2>4. CASE i = Len(k.order) + 1
    BY <1>17, <2>4, <2>1, <1>5, <2>2 DEF Elems
  <2> QED BY <1>17, <2>3, <2>4
<1> QED
  BY <1>10, <1>12, <1>13, <1>14, <1>15, <1>16, <1>17, <1>18 DEF KahnInv, next


LEMMA DistinctLen ==
    ASSUME NEW X, NEW s \in Seq(X), Distinct(s)
    PROVE  IsFiniteSet(Elems(s)) /\ Cardinality(Elems(s)) = Len(s)
<1> DEFINE n == Len(s)
<1>1. n \in Nat /\ s = [i \in 1 .. n |-> s[i]]
  BY LenProperties
<1>2. s \in Surjection(1 .. n, Elems(s))
  <2>1. s \in [1 .. n -> Elems(s)]
    BY <1>1 DEF Elems
  <2>2. \A v \in Elems(s) : \E i \in 1 .. n : s[i] = v
    BY DEF Elems
  <2> QED BY <2>1, <2>2 DEF Surjection
<1>3. s \in Injection(1 .. n, Elems(s))
  BY <1>2 DEF Surjection, Injection, Distinct, IsInjective
<1>4. IsFiniteSet(1 .. n) /\ Cardinality(1 .. n) = n
  <2> HIDE DEF n
  <2>1. 1 \in Int /\ n \in Int
    BY <1>1
  <2>2. IsFiniteSet(1 .. n) /\ Cardinality(1 .. n) = IF 1 > n THEN 0 ELSE n - 1 + 1
    BY ONLY <2>1, FS_Interval
  <2> QED BY <1>1, <2>2
<1>5. IsFiniteSet(Elems(s)) /\ (Cardinality(Elems(s)) = Cardinality(1 .. n) <=> s \in Injection(1 .. n, Elems(s)))
  BY <1>2, <1>4, FS_Surjection
<1> QED
  BY <1>3, <1>4, <1>5

\* The loop ends with an empty queue, or with every model in the order.
KahnStopped(k, ids, deps) ==
    KahnInv(k, ids, deps) /\ (k.queue = <<>> \/ Len(k.order) = Cardinality(ids))

LEMMA KahnLoop ==
    ASSUME NEW ids, NEW deps, IsGraph(ids, deps),
           NEW names, Lists(names, ids), NEW visit, Lists(visit, ids)
    PROVE  \E k : KahnStopped(k, ids, deps) /\ Build!Kahn(ids, deps, names, visit) = k.order
<1> DEFINE n == Build!Cardinality(ids)
           start == Build!KahnStart(ids, deps, names)
           next == Build!KahnStep(ids, deps, visit)
           S == {k \in Build!KahnStates(ids) : KahnInv(k, ids, deps)}
           step == [x \in (1 .. n) \X S |-> next[x[2]]]
           body(f) == [i \in 0 .. n |-> IF i = 0 THEN start ELSE next[f[i - 1]]]
           loop == CHOOSE f : f = body(f)
<1>1. n \in Nat /\ n = Cardinality(ids)
  BY SameCardinality, FS_CardinalityType DEF IsGraph
<1>2. start \in S
  <2>1. KahnInv(start, ids, deps)
    BY KahnStarts
  <2> HIDE DEF start
  <2> QED BY <2>1 DEF KahnInv
<1>3. ASSUME NEW k \in S PROVE next[k] \in S /\ (k.queue = <<>> => next[k] = k)
  <2>1. CASE k.queue = <<>>
    BY <2>1 DEF Build!KahnStep
  <2>2. CASE k.queue # <<>>
    <3>1. KahnInv(next[k], ids, deps)
      BY <2>2, KahnStepKeeps
    <3> QED BY <2>2, <3>1 DEF KahnInv
  <2> QED BY <2>1, <2>2
<1>4. PICK f \in [0 .. n -> S] : f[0] = start /\ \A i \in 1 .. n : f[i] = next[f[i - 1]]
  <2> HIDE DEF S, next, start, n
  <2>1. step \in [(1 .. n) \X S -> S]
    BY <1>3
  <2>2. PICK f : f \in Loops(n, S, start, step)
    <3> HIDE DEF step
    <3> QED BY <1>1, <1>2, <2>1, LoopExists
  <2>3. f \in [0 .. n -> S] /\ f[0] = start /\ \A i \in 1 .. n : f[i] = step[<<i, f[i - 1]>>]
    BY <2>2 DEF Loops
  <2>4. ASSUME NEW i \in 1 .. n PROVE f[i] = next[f[i - 1]]
    <3>1. i - 1 \in 0 .. n
      BY <1>1
    <3>2. <<i, f[i - 1]>> \in (1 .. n) \X S
      BY <2>3, <3>1
    <3> QED BY <2>3, <3>2
  <2> QED BY <2>3, <2>4
<1>5. f = body(f)
  <2> HIDE DEF S, next, start, n
  <2>1. f = [i \in 0 .. n |-> f[i]]
    BY <1>4
  <2>2. \A i \in 0 .. n : i # 0 => i \in 1 .. n
    BY <1>1
  <2>3. \A i \in 0 .. n : f[i] = body(f)[i]
    BY <1>4, <2>2
  <2> QED BY <2>1, <2>3
<1>6. loop = body(loop)
  <2> HIDE DEF body
  <2> QED BY <1>5
<1>7. Build!Kahn(ids, deps, names, visit) = loop[n].order
  BY DEF Build!Kahn
<1> HIDE DEF loop, S, next, start, n
<1>8. loop[0] = start /\ \A i \in 1 .. n : loop[i] = next[loop[i - 1]]
  BY <1>1, <1>6
<1> DEFINE P == {i \in 0 .. n : loop[i] \in S /\ (loop[i].queue = <<>> \/ Len(loop[i].order) = i)}
<1>9. 0 \in P
  BY <1>1, <1>2, <1>8 DEF start, Build!KahnStart
<1>10. ASSUME NEW i \in 1 .. n, i - 1 \in P PROVE i \in P
  <2> DEFINE k == loop[i - 1]
  <2>1. k \in S /\ (k.queue = <<>> \/ Len(k.order) = i - 1) /\ loop[i] = next[k]
    BY <1>8, <1>10
  <2> HIDE DEF k
  <2>2. CASE k.queue = <<>>
    BY <1>1, <1>3, <2>1, <2>2
  <2>3. CASE k.queue # <<>>
    BY <2>1, <2>3, KahnStepKeeps, <1>1, <1>3 DEF S, next
  <2> QED BY <2>2, <2>3
<1>11. n \in P
  <2>1. P \in SUBSET Nat /\ n \in 0 .. n
    BY <1>1
  <2> HIDE DEF P
  <2> QED BY <1>1, <1>9, <1>10, <2>1, StepByStep
<1>12. KahnStopped(loop[n], ids, deps)
  BY <1>1, <1>11 DEF S, KahnStopped
<1> QED
  BY <1>7, <1>12

\* Each model that refers to a model that is not placed is not placed either: an order
\* that is not complete leaves models that wait for each other.
Ordered(all, ids, deps) ==
    /\ all \in Seq(ids) /\ Distinct(all)
    /\ \A i \in 1 .. Len(all) : deps[all[i]] \subseteq {all[j] : j \in 1 .. (i - 1)}
    /\ Len(all) = Cardinality(ids) => Elems(all) = ids
    /\ Len(all) # Cardinality(ids) =>
          /\ ids \ Elems(all) # {}
          /\ \A m \in ids \ Elems(all) : deps[m] \cap (ids \ Elems(all)) # {}

LEMMA KahnOrders ==
    ASSUME NEW ids, NEW deps, IsGraph(ids, deps),
           NEW names, Lists(names, ids), NEW visit, Lists(visit, ids)
    PROVE  Ordered(Build!Kahn(ids, deps, names, visit), ids, deps)
<1>1. PICK k : KahnStopped(k, ids, deps) /\ Build!Kahn(ids, deps, names, visit) = k.order
  BY KahnLoop
<1>2. /\ k.order \in Seq(ids) /\ Distinct(k.order) /\ KahnInv(k, ids, deps)
      /\ (k.queue = <<>> \/ Len(k.order) = Cardinality(ids))
  BY <1>1 DEF KahnStopped, KahnInv, Build!KahnStates
<1>3. \A i \in 1 .. Len(k.order) : deps[k.order[i]] \subseteq {k.order[j] : j \in 1 .. (i - 1)}
  BY <1>2 DEF KahnInv
<1>4. Elems(k.order) \in SUBSET ids
  BY <1>2 DEF Elems
<1>5. /\ IsFiniteSet(Elems(k.order)) /\ Cardinality(Elems(k.order)) = Len(k.order)
      /\ (Cardinality(ids) = Len(k.order) => Elems(k.order) = ids)
  BY <1>2, <1>4, DistinctLen, FS_Subset DEF IsGraph
<1>6. ASSUME Len(k.order) # Cardinality(ids)
      PROVE  /\ ids \ Elems(k.order) # {}
             /\ \A m \in ids \ Elems(k.order) : deps[m] \cap (ids \ Elems(k.order)) # {}
  <2>1. Elems(k.order) # ids
    BY <1>5, <1>6
  <2>2. Elems(k.queue) = {}
    BY <1>2, <1>6 DEF Elems
  <2>3. \A m \in ids \ Elems(k.order) : ~(deps[m] \subseteq Elems(k.order)) /\ deps[m] \subseteq ids
    BY <1>2, <2>2 DEF KahnInv, IsGraph
  <2> QED BY <1>4, <2>1, <2>3
<1> QED
  BY <1>1, <1>2, <1>3, <1>5, <1>6 DEF Ordered

-----------------------------------------------------------------------------
(* What a search reaches. *)

Reached(S, ids, near, m) ==
    /\ m \in S /\ S \subseteq ids \cup {m}
    /\ m \notin ids => S = {m}
    /\ \A y \in S \cap ids : near[y] \subseteq S
    /\ \A T : m \in T /\ (\A y \in T \cap ids : near[y] \subseteq T) => S \subseteq T

LEMMA ReachIsClosed ==
    ASSUME NEW ids, IsFiniteSet(ids), NEW near \in [ids -> SUBSET ids], NEW m
    PROVE  Reached(Build!Reach(ids, near, m), ids, near, m)
<1> DEFINE n == Build!Cardinality(ids)
           X == ids \cup {m}
           grown(G) == G \cup UNION {near[y] : y \in G \cap ids}
           step == [x \in (1 .. n) \X SUBSET X |-> grown(x[2])]
           body(f) == [i \in 0 .. n |-> IF i = 0 THEN {m} ELSE grown(f[i - 1])]
           loop == CHOOSE f : f = body(f)
<1>1. n \in Nat /\ n = Cardinality(ids)
  BY SameCardinality, FS_CardinalityType
<1>2. ASSUME NEW G \in SUBSET X
      PROVE  /\ grown(G) \in SUBSET X /\ G \subseteq grown(G)
             /\ \A y \in G \cap ids : near[y] \subseteq grown(G)
  OBVIOUS
<1>3. PICK f \in [0 .. n -> SUBSET X] : f[0] = {m} /\ \A i \in 1 .. n : f[i] = grown(f[i - 1])
  <2> HIDE DEF X, grown, n
  <2>1. step \in [(1 .. n) \X SUBSET X -> SUBSET X]
    BY <1>2
  <2>2. {m} \in SUBSET X
    BY DEF X
  <2>3. PICK f : f \in Loops(n, SUBSET X, {m}, step)
    <3> HIDE DEF step
    <3> QED BY <1>1, <2>1, <2>2, LoopExists
  <2>4. f \in [0 .. n -> SUBSET X] /\ f[0] = {m} /\ \A i \in 1 .. n : f[i] = step[<<i, f[i - 1]>>]
    BY <2>3 DEF Loops
  <2>5. ASSUME NEW i \in 1 .. n PROVE f[i] = grown(f[i - 1])
    <3>1. i - 1 \in 0 .. n
      BY <1>1
    <3>2. <<i, f[i - 1]>> \in (1 .. n) \X SUBSET X
      BY <2>4, <3>1
    <3> QED BY <2>4, <3>2
  <2> QED BY <2>4, <2>5
<1>4. f = body(f)
  <2> HIDE DEF X, grown, n
  <2>1. f = [i \in 0 .. n |-> f[i]]
    BY <1>3
  <2>2. \A i \in 0 .. n : i # 0 => i \in 1 .. n
    BY <1>1
  <2>3. \A i \in 0 .. n : f[i] = body(f)[i]
    BY <1>3, <2>2
  <2> QED BY <2>1, <2>3
<1>5. loop = body(loop)
  <2> HIDE DEF body
  <2> QED BY <1>4
<1>6. Build!Reach(ids, near, m) = loop[n]
  BY DEF Build!Reach
<1> HIDE DEF loop, n
<1>7. loop[0] = {m} /\ \A i \in 1 .. n : loop[i] = grown(loop[i - 1])
  <2> HIDE DEF grown
  <2>1. 0 \in 0 .. n
    BY <1>1
  <2>2. \A i \in 1 .. n : i \in 0 .. n /\ i # 0
    BY <1>1
  <2> QED BY <1>5, <2>1, <2>2
\* As long as it is not closed, each round adds a member.
<1> DEFINE Closed(G) == \A y \in G \cap ids : near[y] \subseteq G
           Least1(G) == \A T : m \in T /\ (\A y \in T \cap ids : near[y] \subseteq T) => G \subseteq T
           P == {i \in 0 .. n : /\ m \in loop[i] /\ loop[i] \in SUBSET X
                                /\ m \notin ids => loop[i] = {m}
                                /\ Closed(loop[i]) \/ Cardinality(loop[i]) >= i + 1
                                /\ Least1(loop[i])}
<1>8. IsFiniteSet(X) /\ \A G \in SUBSET X : IsFiniteSet(G) /\ Cardinality(G) \in Nat
  BY FS_AddElement, FS_Subset, FS_CardinalityType
<1>9. 0 \in P
  <2>1. Cardinality({m}) >= 0 + 1
    <3>1. Cardinality({m}) = 1
      BY FS_Singleton
    <3> QED BY <3>1
  <2>2. Least1({m}) /\ {m} \in SUBSET X
    OBVIOUS
  <2>3. 0 \in 0 .. n
    BY <1>1
  <2> HIDE DEF Closed, Least1, X
  <2> QED BY <1>7, <2>1, <2>2, <2>3
<1>10. ASSUME NEW i \in 1 .. n, i - 1 \in P PROVE i \in P
  <2> DEFINE G == loop[i - 1]
  <2>1. /\ m \in G /\ G \in SUBSET X /\ (m \notin ids => G = {m})
        /\ Closed(G) \/ Cardinality(G) >= i
        /\ Least1(G) /\ loop[i] = grown(G)
    BY <1>1, <1>7, <1>10
  <2> HIDE DEF G
  <2>2. m \in grown(G) /\ grown(G) \in SUBSET X /\ (m \notin ids => grown(G) = {m})
    BY <2>1
  <2>3. Least1(grown(G))
    <3> SUFFICES ASSUME NEW T, m \in T, \A y \in T \cap ids : near[y] \subseteq T
                 PROVE  grown(G) \subseteq T
      OBVIOUS
    <3>1. G \subseteq T
      BY <2>1
    <3> QED BY <3>1
  <2>4. Closed(grown(G)) \/ Cardinality(grown(G)) >= i + 1
    <3>1. CASE Closed(G)
      BY <3>1
    <3>2. CASE ~Closed(G)
      <4>1. G \subseteq grown(G) /\ G # grown(G)
        BY <3>2
      <4> DEFINE H == grown(G)
      <4>2. IsFiniteSet(H) /\ Cardinality(H) \in Nat /\ G \in SUBSET H /\ G # H /\ Cardinality(G) \in Nat
        BY <1>8, <2>1, <2>2, <4>1
      <4> HIDE DEF H
      <4>3. Cardinality(G) <= Cardinality(H) /\ Cardinality(G) # Cardinality(H)
        BY <4>2, FS_Subset
      <4>4. Cardinality(H) >= i + 1
        BY <1>1, <2>1, <3>2, <4>2, <4>3
      <4> QED BY <4>4 DEF H
    <3> QED BY <3>1, <3>2
  <2> HIDE DEF grown, Closed, Least1
  <2> QED BY <1>1, <2>1, <2>2, <2>3, <2>4
<1>11. n \in P
  <2>1. P \in SUBSET Nat /\ n \in 0 .. n
    BY <1>1
  <2> HIDE DEF P
  <2> QED BY <1>1, <1>9, <1>10, <2>1, StepByStep
<1> DEFINE R == loop[n]
<1>12. /\ m \in R /\ R \in SUBSET X /\ (m \notin ids => R = {m})
       /\ Closed(R) \/ Cardinality(R) >= n + 1
       /\ Least1(R)
  BY <1>11
<1> HIDE DEF R
<1>13. Closed(R)
  <2>1. CASE m \notin ids
    BY <1>12, <2>1
  <2>2. CASE m \in ids
    BY <1>12, <2>2, <1>1, <1>8, FS_Subset
  <2> QED BY <2>1, <2>2
<1> QED
  BY <1>6, <1>12, <1>13 DEF Reached, R

-----------------------------------------------------------------------------
(* What a run has loaded. *)

Pcs == {"idle", "load", "create", "model", "exec", "result", "status"}
Executing == {"model", "exec", "result"}
DepSets == UNION {[D -> SUBSET D] : D \in SUBSET Build!Ids}
JobRecs ==
    [at : Pcs, kind : {"all", "pipeline", "single"}, anchor : Build!Ids \cup {Absent},
     deps : DepSets, tables : SUBSET Build!Ids, place : [Build!Ids -> Nat],
     order : Seq(Build!Ids), next : Nat \ {0}, run : Nat,
     built : SUBSET Build!Ids, failed : SUBSET Build!Ids, skipped : SUBSET Build!Ids,
     stmt : {1, 2}, ok : BOOLEAN]

\* The order of a run has each model once, after its sources.
Sound(order, deps) ==
    /\ order \in Seq(DOMAIN deps) /\ Distinct(order)
    /\ \A i \in 1 .. Len(order) : deps[order[i]] \subseteq {order[k] : k \in 1 .. (i - 1)}

\* RunsWhatItShould, of one run.
Asked(kind, m, order, deps) ==
    LET S == Elems(order)
        all == kind = "pipeline"
    IN IF kind = "all" THEN S = DOMAIN deps
       ELSE IF m \notin DOMAIN deps THEN S = {}
       ELSE /\ m \in S /\ Build!Closed(S, deps, all)
            /\ \A T \in SUBSET DOMAIN deps :
                  m \in T /\ Build!Closed(T, deps, all) => S \subseteq T

Selects(S, ids, deps, kind, m) ==
    /\ \A y \in S : deps[y] \subseteq S
    /\ kind = "all" => S = ids
    /\ kind # "all" /\ m \notin ids => S = {}
    /\ kind # "all" /\ m \in ids =>
          /\ m \in S /\ Build!Closed(S, deps, kind = "pipeline")
          /\ \A T \in SUBSET ids :
                m \in T /\ Build!Closed(T, deps, kind = "pipeline") => S \subseteq T

LEMMA SelectedIsAsked ==
    ASSUME NEW ids, NEW deps, IsGraph(ids, deps), NEW m,
           NEW kind \in {"all", "pipeline", "single"}, kind = "pipeline" => m \in ids
    PROVE  Selects(Build!Selected(kind, m, deps) \cap ids, ids, deps, kind, m)
<1> DEFINE S == Build!Selected(kind, m, deps) \cap ids
<1>1. /\ IsFiniteSet(ids) /\ deps \in [ids -> SUBSET ids] /\ DOMAIN deps = ids
  BY DEF IsGraph
<1>2. CASE kind = "all"
  BY <1>1, <1>2 DEF Build!Selected, Selects
<1>3. CASE kind = "pipeline"
  <2> DEFINE near == [y \in ids |-> {x \in ids : x \in deps[y] \/ y \in deps[x]}]
             R == Build!Reach(ids, near, m)
  <2>1. near \in [ids -> SUBSET ids]
    OBVIOUS
  <2>2. S = R \cap ids
    BY <1>1, <1>3 DEF Build!Selected, Build!ComponentContaining
  <2> HIDE DEF S
  <2>3. Reached(R, ids, near, m)
    <3> HIDE DEF near
    <3> QED BY <1>1, <2>1, ReachIsClosed
  <2> HIDE DEF R
  <2>4. /\ S = R /\ S \subseteq ids /\ m \in S
        /\ \A y \in S : near[y] \subseteq S
        /\ \A T : m \in T /\ (\A y \in T \cap ids : near[y] \subseteq T) => S \subseteq T
    BY <1>3, <2>2, <2>3 DEF Reached
  <2>5. ASSUME NEW T \in SUBSET ids
        PROVE  (\A y \in T : near[y] \subseteq T) <=> Build!Closed(T, deps, TRUE)
    BY <1>1, <2>5 DEF Build!Closed
  <2>6. \A y \in S : deps[y] \subseteq S
    BY <1>1, <2>4, <2>5 DEF Build!Closed
  <2>7. Build!Closed(S, deps, TRUE)
    <3> HIDE DEF near
    <3> QED BY <2>4, <2>5
  <2>8. \A T \in SUBSET ids : m \in T /\ Build!Closed(T, deps, TRUE) => S \subseteq T
    <3> HIDE DEF near
    <3> QED BY <2>4, <2>5
  <2> QED BY <1>3, <2>4, <2>6, <2>7, <2>8 DEF S, Selects
<1>4. CASE kind = "single"
  <2> DEFINE near == [y \in ids |-> ids \cap deps[y]]
             R == Build!Reach(ids, near, m)
  <2>1. near \in [ids -> SUBSET ids]
    OBVIOUS
  <2>2. S = R \cap ids
    BY <1>1, <1>4 DEF Build!Selected, Build!GetUpstreamDeps
  <2> HIDE DEF S
  <2>3. Reached(R, ids, near, m)
    <3> HIDE DEF near
    <3> QED BY <1>1, <2>1, ReachIsClosed
  <2> HIDE DEF R
  <2>4. \A y \in ids : near[y] = deps[y]
    BY <1>1
  <2> HIDE DEF near
  <2>5. /\ m \notin ids => S = {}
        /\ m \in ids => m \in S /\ S = R
        /\ \A y \in S : deps[y] \subseteq S
    BY <1>1, <2>2, <2>3, <2>4 DEF Reached
  <2>6. Build!Closed(S, deps, FALSE)
    BY <2>5 DEF Build!Closed
  <2>7. m \in ids => \A T \in SUBSET ids : m \in T /\ Build!Closed(T, deps, FALSE) => S \subseteq T
    BY <2>3, <2>4, <2>5 DEF Build!Closed, Reached
  <2> QED BY <1>4, <2>5, <2>6, <2>7 DEF S, Selects
<1> QED
  BY <1>2, <1>3, <1>4

LEMMA OrderIsAsked ==
    ASSUME NEW ids, NEW deps, IsGraph(ids, deps), NEW m,
           NEW kind \in {"all", "pipeline", "single"}, kind = "pipeline" => m \in ids,
           NEW all, Ordered(all, ids, deps), Len(all) = Cardinality(ids)
    PROVE  LET order == Build!Filter(all, Build!Selected(kind, m, deps)) IN
           Sound(order, deps) /\ Asked(kind, m, order, deps)
<1> DEFINE C == Build!Selected(kind, m, deps)
           order == Build!Filter(all, C)
           S == C \cap ids
<1>1. /\ IsFiniteSet(ids) /\ deps \in [ids -> SUBSET ids] /\ DOMAIN deps = ids
  BY DEF IsGraph
<1>2. /\ all \in Seq(ids) /\ Distinct(all) /\ Elems(all) = ids
      /\ \A i \in 1 .. Len(all) : deps[all[i]] \subseteq {all[j] : j \in 1 .. (i - 1)}
  BY DEF Ordered
<1>3. Selects(S, ids, deps, kind, m)
  BY SelectedIsAsked
<1> HIDE DEF C
<1>4. order \in Seq(ids) /\ Elems(order) = S /\ Distinct(order)
  <2>1. /\ order \in Seq(C) /\ Elems(order) = Elems(all) \cap C /\ Distinct(order)
    BY <1>2, FilterElems
  <2>2. \A i \in 1 .. Len(order) : order[i] \in ids
    BY <1>2, <2>1 DEF Elems
  <2> HIDE DEF order
  <2> QED BY <1>2, <2>1, <2>2
<1>5. ASSUME NEW i \in 1 .. Len(order)
      PROVE  deps[order[i]] \subseteq {order[k] : k \in 1 .. (i - 1)}
  <2> DEFINE Before(x) == \A j \in 1 .. (x - 1) : all[j] \in C =>
                             \E y \in 1 .. (i - 1) : order[y] = all[j]
  <2>0. \E x \in 1 .. Len(all) : all[x] = order[i] /\ Before(x)
    <3>1. all \in Seq(ids) /\ i \in 1 .. Len(Build!Filter(all, C))
      BY <1>2, <1>5
    <3> QED BY ONLY <3>1, FilterOrder
  <2>1. PICK x \in 1 .. Len(all) : all[x] = order[i] /\ Before(x)
    BY <2>0
  <2>2. order[i] \in S
    BY <1>4 DEF Elems
  <2> HIDE DEF order
  <2>3. ASSUME NEW d \in deps[order[i]] PROVE d \in {order[k] : k \in 1 .. (i - 1)}
    <3>1. PICK j \in 1 .. (x - 1) : all[j] = d
      BY <1>2, <2>1, <2>3
    <3>2. d \in C
      BY <1>3, <2>2, <2>3 DEF Selects
    <3> QED BY <2>1, <3>1, <3>2
  <2> QED BY <2>3
<1> HIDE DEF order, S
<1>6. Sound(order, deps)
  BY <1>1, <1>4, <1>5 DEF Sound
<1>7. Asked(kind, m, order, deps)
  BY <1>1, <1>3, <1>4 DEF Asked, Selects
<1> QED
  BY <1>6, <1>7 DEF order, C

LEMMA ModelsListed ==
    ASSUME Build!ModelAssumption
    PROVE  /\ Distinct(Models) /\ Models \in Seq(Build!Ids) /\ Elems(Models) = Build!Ids
           /\ IsFiniteSet(Build!Ids)
<1> DEFINE n == Len(Models)
<1>1. Models \in Seq(Build!Ids) /\ n \in Nat /\ Models = [i \in 1 .. n |-> Models[i]]
  BY LenProperties DEF Build!ModelAssumption
<1>2. Elems(Models) = Build!Ids
  BY DEF Elems, Build!Ids
<1>3. Cardinality(Build!Ids) = n
  BY SameCardinality DEF Build!ModelAssumption
<1>4. Models \in Surjection(1 .. n, Build!Ids)
  BY <1>1 DEF Build!Ids, Surjection
<1>5. IsFiniteSet(1 .. n) /\ Cardinality(1 .. n) = n
  <2> HIDE DEF n
  <2>1. 1 \in Int /\ n \in Int
    BY <1>1
  <2>2. IsFiniteSet(1 .. n) /\ Cardinality(1 .. n) = IF 1 > n THEN 0 ELSE n - 1 + 1
    BY ONLY <2>1, FS_Interval
  <2> QED BY <1>1, <2>2
<1>6. IsFiniteSet(Build!Ids) /\ Models \in Injection(1 .. n, Build!Ids)
  BY <1>3, <1>4, <1>5, FS_Surjection
<1>7. Distinct(Models)
  BY <1>6 DEF Distinct, Injection, IsInjective
<1> QED
  BY <1>1, <1>2, <1>6, <1>7

LEMMA OrdersListed ==
    ASSUME Build!ModelAssumption, NEW visit \in Build!Orders
    PROVE  Distinct(visit) /\ visit \in Seq(Build!Ids) /\ Elems(visit) = Build!Ids
<1> DEFINE n == Len(Models)
<1>1. /\ Distinct(Models) /\ Models \in Seq(Build!Ids) /\ Elems(Models) = Build!Ids
      /\ n \in Nat /\ DOMAIN Models = 1 .. n
  BY ModelsListed, LenProperties
<1>2. PICK p \in [1 .. n -> 1 .. n] :
         /\ \A i, k \in 1 .. n : p[i] = p[k] => i = k
         /\ visit = [i \in 1 .. n |-> Models[p[i]]]
  <2>1. PICK p \in {q \in [DOMAIN Models -> DOMAIN Models] :
                        \A i, k \in DOMAIN Models : q[i] = q[k] => i = k} :
           visit = [i \in DOMAIN Models |-> Models[p[i]]]
    BY DEF Build!Orders
  <2> QED BY <1>1, <2>1
<1>3. visit \in Seq(Build!Ids) /\ Len(visit) = n
  <2>1. ASSUME NEW i \in 1 .. n PROVE Models[p[i]] \in Build!Ids
    <3> HIDE DEF n
    <3>1. p[i] \in 1 .. n
      BY <1>2
    <3>2. \A k \in DOMAIN Models : Models[k] \in Build!Ids
      BY <1>1 DEF Elems
    <3> QED
      BY ONLY <1>1, <3>1, <3>2
  <2> QED BY <1>1, <1>2, <2>1
<1>4. Distinct(visit)
  BY <1>1, <1>2, <1>3 DEF Distinct
<1>5. \A k \in 1 .. n : \E i \in 1 .. n : p[i] = k
  <2>1. p \in Injection(1 .. n, 1 .. n)
    BY <1>2 DEF Injection, IsInjective
  <2>2. IsFiniteSet(1 .. n)
    <3> HIDE DEF n
    <3>1. 1 \in Int /\ n \in Int
      BY <1>1
    <3> QED BY ONLY <3>1, FS_Interval
  <2>3. p \in Surjection(1 .. n, 1 .. n)
    <3> HIDE DEF n
    <3> QED BY <2>1, <2>2, FS_Injection
  <2> QED BY <2>3 DEF Surjection
<1>6. Elems(visit) = Build!Ids
  <2>1. \A v \in Elems(visit) : v \in Build!Ids
    BY <1>1, <1>2, <1>3 DEF Elems
  <2>2. ASSUME NEW v \in Build!Ids PROVE v \in Elems(visit)
    <3>1. PICK k \in 1 .. n : Models[k] = v
      BY <1>1 DEF Elems
    <3>2. PICK i \in 1 .. n : p[i] = k
      BY <1>5
    <3> QED BY <1>2, <1>3, <3>1, <3>2 DEF Elems
  <2> QED BY <2>1, <2>2
<1> QED
  BY <1>3, <1>4, <1>6

ModelRows == models \in [Build!Ids -> Build!Rows \cup {Absent}]

LEMMA LoadGraph ==
    ASSUME Build!ModelAssumption, ModelRows, Build!RefsValid(Build!Present, Build!Deps)
    PROVE  /\ IsGraph(Build!Present, Build!Deps) /\ Lists(Models, Build!Present)
           /\ \A visit \in Build!Orders : Lists(visit, Build!Present)
<1>1. Build!Present \in SUBSET Build!Ids
  BY DEF Build!Present
<1>2. IsFiniteSet(Build!Present)
  BY <1>1, ModelsListed, FS_Subset
<1>3. Build!Deps \in [Build!Present -> SUBSET Build!Present]
  BY DEF Build!RefsValid, Build!Deps
<1>4. Lists(Models, Build!Present)
  BY <1>1, ModelsListed DEF Lists
<1>5. \A visit \in Build!Orders : Lists(visit, Build!Present)
  BY <1>1, OrdersListed DEF Lists
<1> QED
  BY <1>2, <1>3, <1>4, <1>5 DEF IsGraph

\* An order that is not complete contradicts every ranking of the models.
LEMMA CompleteIffRanked ==
    ASSUME NEW ids, NEW deps, IsGraph(ids, deps), NEW all, Ordered(all, ids, deps)
    PROVE  Len(all) = Cardinality(ids) <=>
              \E rank \in [ids -> 1 .. Cardinality(ids)] :
                 \A m \in ids : \A d \in deps[m] : rank[d] < rank[m]
<1> DEFINE n == Cardinality(ids)
<1>1. n \in Nat /\ deps \in [ids -> SUBSET ids] /\ all \in Seq(ids) /\ Distinct(all) /\ Len(all) \in Nat
  BY FS_CardinalityType DEF IsGraph, Ordered
<1>2. ASSUME Len(all) = n
      PROVE  \E rank \in [ids -> 1 .. n] : \A m \in ids : \A d \in deps[m] : rank[d] < rank[m]
  <2> DEFINE rank == [m \in ids |-> CHOOSE i \in 1 .. n : all[i] = m]
  <2>1. ASSUME NEW m \in ids PROVE rank[m] \in 1 .. n /\ all[rank[m]] = m
    BY <1>2 DEF Ordered, Elems
  <2>2. rank \in [ids -> 1 .. n]
    BY <2>1
  <2>3. \A i \in 1 .. n : all[i] \in ids /\ rank[all[i]] = i
    <3> SUFFICES ASSUME NEW i \in 1 .. n PROVE all[i] \in ids /\ rank[all[i]] = i
      OBVIOUS
    <3>1. all[i] \in ids
      BY <1>1, <1>2
    <3> HIDE DEF rank
    <3> QED BY <1>1, <1>2, <2>1, <3>1 DEF Distinct
  <2> HIDE DEF rank
  <2>4. ASSUME NEW m \in ids, NEW d \in deps[m] PROVE rank[d] < rank[m]
    <3>1. deps[m] \subseteq {all[j] : j \in 1 .. (rank[m] - 1)}
      BY <1>2, <2>1 DEF Ordered
    <3>2. PICK j \in 1 .. (rank[m] - 1) : d = all[j]
      BY <2>4, <3>1
    <3>3. j \in 1 .. n /\ rank[d] = j /\ rank[m] \in 1 .. n
      BY <1>1, <2>1, <2>3, <3>2
    <3> QED BY <1>1, <3>2, <3>3
  <2> QED BY <2>2, <2>4
<1>3. ASSUME Len(all) # n, NEW rank \in [ids -> 1 .. n],
             \A m \in ids : \A d \in deps[m] : rank[d] < rank[m]
      PROVE  FALSE
  <2> DEFINE U == ids \ Elems(all)
             R == {rank[m] : m \in U}
  <2>1. U # {} /\ \A m \in U : deps[m] \cap U # {}
    BY <1>3 DEF Ordered
  <2>2. R \in SUBSET Nat /\ R # {}
    BY <1>1, <1>3, <2>1
  <2>3. PICK r \in R : \A y \in R : r <= y
    <3> HIDE DEF R
    <3> QED BY <2>2, Least
  <2>4. PICK m \in U : rank[m] = r
    BY <2>3
  <2>5. PICK d \in deps[m] : d \in U
    BY <2>1
  <2>6. rank[d] < rank[m] /\ rank[d] \in R /\ rank[d] \in 1 .. n /\ rank[m] \in 1 .. n
    BY <1>3, <2>4, <2>5
  <2> HIDE DEF R, U
  <2>7. r <= rank[d]
    BY <2>3, <2>6
  <2>8. rank[d] \in Nat /\ rank[m] \in Nat
    BY <2>6
  <2> QED BY <2>4, <2>6, <2>7, <2>8
<1> QED
  BY <1>2, <1>3

-----------------------------------------------------------------------------
(* What a run has done. *)

Past(order, next) == {order[i] : i \in 1 .. (next - 1)}

LEMMA PastGrows ==
    ASSUME NEW X, NEW order \in Seq(X), Distinct(order), NEW next \in 1 .. Len(order)
    PROVE  /\ Past(order, next + 1) = Past(order, next) \cup {order[next]}
           /\ order[next] \notin Past(order, next) /\ order[next] \in X
           /\ next + 1 \in 1 .. (Len(order) + 1)
BY LenProperties DEF Past, Distinct

LEMMA PastBounds ==
    ASSUME NEW X, NEW order \in Seq(X)
    PROVE  /\ Past(order, 1) = {} /\ Past(order, Len(order) + 1) = Elems(order)
           /\ \A next \in 1 .. (Len(order) + 1) : Past(order, next) \subseteq Elems(order)
BY LenProperties DEF Past, Elems

\* Between the models of a run: each one it has been through is built, failed or
\* skipped, and something failed before something is skipped.
Accounted(x) ==
    /\ x.next \in 1 .. (Len(x.order) + 1)
    /\ x.built \cup x.failed \cup x.skipped = Past(x.order, x.next)
    /\ x.built \cap x.failed = {} /\ x.built \cap x.skipped = {} /\ x.failed \cap x.skipped = {}
    /\ x.skipped # {} => x.failed # {}

\* At a model, none of whose sources failed or were skipped.
Ready(x) ==
    /\ x.next <= Len(x.order)
    /\ x.deps[x.order[x.next]] \cap (x.failed \cup x.skipped) = {}

JobOK(x) ==
    /\ x.at \in {"idle", "load", "create", "status"} =>
          /\ x.run = 0 /\ x.next = 1
          /\ x.built = {} /\ x.failed = {} /\ x.skipped = {}
    /\ x.at \in {"create"} \cup Executing => Sound(x.order, x.deps)
    /\ x.at = "create" => Asked(x.kind, x.anchor, x.order, x.deps)
    /\ x.at \in Executing => x.run > 0 /\ Accounted(x)
    /\ x.at \in {"exec", "result"} => Ready(x)
    /\ x.at = "exec" => x.ok = TRUE /\ (x.stmt = 2 => x.order[x.next] \in x.tables)

JobsOK == job \in [Build!Jobs -> JobRecs] /\ \A j \in Build!Jobs : JobOK(job[j])

\* The fields of a run that is x but for these.
Fields(y, x, at, next, run, built, failed, skipped, stmt, ok) ==
    /\ y.at = at /\ y.kind = x.kind /\ y.anchor = x.anchor /\ y.deps = x.deps
    /\ y.tables = x.tables /\ y.place = x.place /\ y.order = x.order /\ y.next = next /\ y.run = run
    /\ y.built = built /\ y.failed = failed /\ y.skipped = skipped /\ y.stmt = stmt /\ y.ok = ok

Turned(j, y) ==
    /\ y \in JobRecs /\ job' \in [Build!Jobs -> JobRecs] /\ job'[j] = y
    /\ \A k \in Build!Jobs : k # j => job'[k] = job[k]

LEMMA PutJob ==
    ASSUME JobsOK, NEW j \in Build!Jobs, NEW y \in JobRecs, job' = [job EXCEPT ![j] = y]
    PROVE  Turned(j, y)
  BY DEF JobsOK, Turned

LEMMA IdleJob ==
    /\ Build!Idle \in JobRecs
    /\ Build!Idle.at = "idle" /\ Build!Idle.run = 0 /\ Build!Idle.next = 1
    /\ Build!Idle.built = {} /\ Build!Idle.failed = {} /\ Build!Idle.skipped = {}
    /\ JobOK(Build!Idle)
<1>1. <<>> \in DepSets
  BY DEF DepSets
<1>2. Build!Idle \in JobRecs
  BY <1>1 DEF Build!Idle, JobRecs, Pcs
<1> QED
  BY <1>2 DEF Build!Idle, JobOK, Executing

\* A run that begins, and one that is refused or over.
Began(kind, m) == [Build!Idle EXCEPT !.at = "load", !.kind = kind, !.anchor = m]
Over(kind, m, ok) ==
    [Build!Idle EXCEPT !.at = "status", !.kind = kind, !.anchor = m, !.ok = ok]

LEMMA BeganJob ==
    ASSUME NEW kind \in {"all", "pipeline", "single"}, NEW m \in Build!Ids \cup {Absent}
    PROVE  /\ Began(kind, m) \in JobRecs /\ JobOK(Began(kind, m))
           /\ Began(kind, m).at = "load" /\ Began(kind, m).run = 0
<1> DEFINE y == Began(kind, m)
<1>1. y \in JobRecs
  BY IdleJob DEF Began, JobRecs, Pcs
<1>2. /\ y.at = "load" /\ y.run = 0 /\ y.next = 1
      /\ y.built = {} /\ y.failed = {} /\ y.skipped = {}
  BY IdleJob DEF Began, JobRecs
<1> HIDE DEF y
<1>3. JobOK(y)
  BY <1>2 DEF JobOK, Executing
<1> QED
  BY <1>1, <1>2, <1>3 DEF y

LEMMA OverJob ==
    ASSUME NEW kind \in {"all", "pipeline", "single"}, NEW m \in Build!Ids \cup {Absent},
           NEW ok \in BOOLEAN
    PROVE  /\ Over(kind, m, ok) \in JobRecs /\ JobOK(Over(kind, m, ok))
           /\ Over(kind, m, ok).at = "status" /\ Over(kind, m, ok).run = 0
<1> DEFINE y == Over(kind, m, ok)
<1>1. y \in JobRecs
  BY IdleJob DEF Over, JobRecs, Pcs
<1>2. /\ y.at = "status" /\ y.run = 0 /\ y.next = 1
      /\ y.built = {} /\ y.failed = {} /\ y.skipped = {}
  BY IdleJob DEF Over, JobRecs
<1> HIDE DEF y
<1>3. JobOK(y)
  BY <1>2 DEF JobOK, Executing
<1> QED
  BY <1>1, <1>2, <1>3 DEF y

-----------------------------------------------------------------------------
(* The steps of a run, and the lock. *)

OfRecs == [models : SUBSET Build!Ids, requests : SUBSET Requests, projects : {{}},
           starts : Nat, edits : Nat, faults : Nat, late : Nat, crashes : Nat]
BoundRecs == [of : OfRecs, starts : Nat, edits : Nat, faults : Nat, late : Nat, crashes : Nat]

BoundOK == bound \in BoundRecs
Inside == {"load", "create"} \cup Executing

\* The lock is taken exactly while one run is under way.
LockInv ==
    /\ running \in BOOLEAN
    /\ running <=> \E j \in Build!Jobs : job[j].at \in Inside
    /\ \A j, k \in Build!Jobs : job[j].at \in Inside /\ job[k].at \in Inside => j = k

Enters(j) == ~running /\ running' = TRUE /\ job[j].at \notin Inside /\ job'[j].at = "load"
Leaves(j) == job[j].at \in Inside /\ running' = FALSE /\ job'[j].at \notin Inside
Stays(j) == job[j].at \in Inside /\ job'[j].at \in Inside /\ UNCHANGED running
Waits(j) == job[j].at \notin Inside /\ job'[j].at \notin Inside /\ UNCHANGED running

GoesOn(j) ==
    /\ Turned(j, job'[j]) /\ JobOK(job'[j])
    /\ Enters(j) \/ Leaves(j) \/ Stays(j) \/ Waits(j)

LEMMA EnterTurns ==
    ASSUME JobsOK, LockInv, NEW j \in Build!Jobs, NEW kind \in {"all", "pipeline", "single"},
           NEW m \in Build!Ids \cup {Absent}, Build!At(j, "idle"), Build!Enter(j, kind, m)
    PROVE  GoesOn(j) /\ job'[j].run = 0 /\ job'[j].at \in {"idle", "load", "status"}
<1>1. job[j].at \notin Inside
  BY DEF Build!At, Inside, Executing
<1>2. CASE running
  <2> DEFINE y == IF j = TickJob
                  THEN Over(kind, m, FALSE) ELSE Build!Idle
  <2>1. job' = [job EXCEPT ![j] = y] /\ UNCHANGED running
    <3>2. [[Build!Idle EXCEPT !.at = "load", !.kind = kind, !.anchor = m] EXCEPT !.at = "status", !.ok = FALSE]
          = Over(kind, m, FALSE)
      BY DEF Build!Idle, Over
    <3> QED BY <1>2, <3>2 DEF Build!Enter
  <2>2. y \in JobRecs /\ y.at \in {"idle", "status"} /\ y.run = 0 /\ JobOK(y)
    <3>1. CASE j = TickJob
      <4>1. y = Over(kind, m, FALSE) /\ FALSE \in BOOLEAN
        BY <3>1
      <4> HIDE DEF y
      <4> QED BY <4>1, OverJob
    <3>2. CASE j # TickJob
      BY <3>2, IdleJob
    <3> QED BY <3>1, <3>2
  <2> HIDE DEF y
  <2>3. Turned(j, y)
    BY <2>1, <2>2, PutJob
  <2>4. Waits(j)
    BY <1>1, <2>1, <2>2, <2>3 DEF Waits, Turned, Inside, Executing
  <2> QED BY <2>2, <2>3, <2>4 DEF GoesOn, Turned
<1>3. CASE ~running
  <2> DEFINE y == Began(kind, m)
  <2>1. job' = [job EXCEPT ![j] = y] /\ running' = TRUE
    BY <1>3 DEF Build!Enter, Began
  <2>2. y \in JobRecs /\ y.at = "load" /\ y.run = 0 /\ JobOK(y)
    BY BeganJob
  <2> HIDE DEF y
  <2>3. Turned(j, y)
    BY <2>1, <2>2, PutJob
  <2>4. Enters(j)
    BY <1>1, <1>3, <2>1, <2>2, <2>3 DEF Enters, Turned
  <2> QED BY <2>2, <2>3, <2>4 DEF GoesOn, Turned
<1> QED
  BY <1>2, <1>3

LEMMA ReturnTurns ==
    ASSUME JobsOK, NEW j \in Build!Jobs, NEW ok \in BOOLEAN, job[j].at \in Inside,
           Build!Return(j, ok), running' = FALSE
    PROVE  GoesOn(j) /\ Leaves(j) /\ job'[j].run = 0 /\ job'[j].at \in {"idle", "status"}
<1> DEFINE kind == Build!Idle.kind
           m == job[j].anchor
           y == IF j = TickJob THEN Over(kind, m, ok) ELSE Build!Idle
<1>1. job' = [job EXCEPT ![j] = y]
  <2>1. [Build!Idle EXCEPT !.at = "status", !.anchor = m, !.ok = ok]
        = Over(kind, m, ok)
    BY DEF Build!Idle, Over
  <2> QED BY <2>1 DEF Build!Return
<1>2. y \in JobRecs /\ y.at \in {"idle", "status"} /\ y.run = 0 /\ JobOK(y)
  <2>1. CASE j = TickJob
    <3>1. /\ y = Over(kind, m, ok) /\ m \in Build!Ids \cup {Absent}
          /\ kind \in {"all", "pipeline", "single"}
      BY <2>1 DEF JobsOK, JobRecs, Build!Idle
    <3> HIDE DEF y, kind, m
    <3> QED BY <3>1, OverJob
  <2>2. CASE j # TickJob
    BY <2>2, IdleJob
  <2> QED BY <2>1, <2>2
<1> HIDE DEF y
<1>3. Turned(j, y)
  BY <1>1, <1>2, PutJob
<1>4. Leaves(j)
  BY <1>2, <1>3 DEF Leaves, Turned, Inside, Executing
<1> QED
  BY <1>2, <1>3, <1>4 DEF GoesOn, Turned

\* What a run loads is sound, and what it was asked for.
LEMMA LoadTurns ==
    ASSUME Build!ModelAssumption, ModelRows, JobsOK, NEW j \in Build!Jobs, Build!Load(j)
    PROVE  /\ GoesOn(j) /\ job'[j].run = 0
           /\ \/ Leaves(j) /\ job'[j].at \in {"idle", "status"}
              \/ job'[j].at = "create" /\ Stays(j)
<1>1. job[j] \in JobRecs /\ JobOK(job[j]) /\ job[j].at = "load" /\ job[j].at \in Inside
  BY DEF JobsOK, Build!Load, Build!At, Inside
<1>2. CASE Build!Refuse(j)
  BY <1>2, <1>1, ReturnTurns DEF Build!Refuse
<1>3. CASE ~Build!Refuse(j)
  <2> DEFINE x == job[j]
             ids == Build!Present
             deps == Build!Deps
             tabled == {m \in Build!Present : models[m].table}
             place == [m \in Build!Ids |-> IF m \in Build!Present THEN models[m].place ELSE 0]
  <2>1. PICK visit \in Build!Orders :
           LET all == Build!Kahn(ids, deps, Models, visit)
               order == Build!Filter(all, Build!Selected(x.kind, x.anchor, deps))
           IN /\ Len(all) = Build!Cardinality(ids) /\ ~Build!Refused(j) /\ UNCHANGED running
              /\ job' = [job EXCEPT ![j].at = "create", ![j].deps = deps, ![j].tables = tabled,
                                    ![j].place = place, ![j].order = order]
    BY <1>3 DEF Build!Load
  <2> DEFINE all == Build!Kahn(ids, deps, Models, visit)
             order == Build!Filter(all, Build!Selected(x.kind, x.anchor, deps))
             y == [x EXCEPT !.at = "create", !.deps = deps, !.tables = tabled, !.place = place,
                         !.order = order]
  <2>2. /\ IsGraph(ids, deps) /\ Lists(Models, ids) /\ Lists(visit, ids)
        /\ x.kind = "pipeline" => x.anchor \in ids
    BY <2>1, LoadGraph DEF Build!Refused
  <2>3. ids \in SUBSET Build!Ids /\ tabled \in SUBSET Build!Ids /\ x.kind \in {"all", "pipeline", "single"}
    BY <1>1 DEF Build!Present, JobRecs
  <2>12. place \in [Build!Ids -> Nat]
    BY DEF Build!Present, ModelRows, Build!Rows
  <2> HIDE DEF ids, deps, tabled, place
  <2>4. Ordered(all, ids, deps) /\ Len(all) = Cardinality(ids)
    BY <2>1, <2>2, KahnOrders, SameCardinality
  <2>5. job' = [job EXCEPT ![j] = y] /\ UNCHANGED running
    BY <1>1, <2>1 DEF JobsOK
  <2> HIDE DEF all
  <2>6. Sound(order, deps) /\ Asked(x.kind, x.anchor, order, deps)
    BY <2>2, <2>3, <2>4, OrderIsAsked
  <2> HIDE DEF order
  <2>7. deps \in DepSets /\ order \in Seq(Build!Ids)
    BY <2>2, <2>6, <2>3 DEF IsGraph, Sound, DepSets
  <2>8. y \in JobRecs /\ y.at = "create" /\ y.run = x.run /\ y.order = order /\ y.deps = deps
        /\ y.kind = x.kind /\ y.anchor = x.anchor /\ y.next = x.next
        /\ y.built = x.built /\ y.failed = x.failed /\ y.skipped = x.skipped
    BY <1>1, <2>3, <2>7, <2>12 DEF JobRecs, Pcs
  <2> HIDE DEF y
  <2>9. JobOK(y) /\ y.run = 0
    BY <1>1, <2>6, <2>8 DEF JobOK, Executing
  <2>10. Turned(j, y)
    BY <2>5, <2>8, PutJob
  <2>11. Stays(j)
    BY <1>1, <2>5, <2>8, <2>10 DEF Stays, Turned, Inside
  <2> QED BY <2>8, <2>9, <2>10, <2>11 DEF GoesOn, Turned
<1> QED
  BY <1>2, <1>3

RunRecs ==
    [status : {"running", "success", "partial", "error"}, total : Nat, succeeded : Nat,
     failed : Nat, skipped : Nat, results : [Build!Ids -> Build!Statuses]]
RowsOK == modelRuns \in Seq(RunRecs)

\* A step within execute.
Works(j, at, next, run, built, failed, skipped, stmt, ok) ==
    /\ Turned(j, job'[j]) /\ JobOK(job'[j])
    /\ Fields(job'[j], job[j], at, next, run, built, failed, skipped, stmt, ok)

LEMMA AtWorkJob ==
    ASSUME JobsOK, NEW j \in Build!Jobs, job[j].at \in {"create"} \cup Executing
    PROVE  /\ job[j] \in JobRecs /\ JobOK(job[j])
           /\ job[j].order \in Seq(Build!Ids) /\ Distinct(job[j].order)
           /\ Sound(job[j].order, job[j].deps) /\ Len(job[j].order) \in Nat
           /\ job[j].deps \in [DOMAIN job[j].deps -> SUBSET DOMAIN job[j].deps]
           /\ Elems(job[j].order) \in SUBSET Build!Ids
           /\ job[j].order \in Seq(DOMAIN job[j].deps)
BY LenProperties DEF JobsOK, JobOK, Executing, JobRecs, Elems, DepSets, Sound

LEMMA CreateWorks ==
    ASSUME JobsOK, RowsOK, NEW j \in Build!Jobs, Build!CreateRun(j)
    PROVE  LET x == job[j] IN
           Works(j, "model", x.next, Len(modelRuns) + 1, x.built, x.failed, x.skipped, x.stmt, x.ok)
<1> DEFINE x == job[j]
           y == [x EXCEPT !.at = "model", !.run = Len(modelRuns) + 1]
<1>1. x.at = "create" /\ job[j].at \in {"create"} \cup Executing
  BY DEF Build!CreateRun, Build!At
<1>2. /\ x \in JobRecs /\ JobOK(x) /\ x.order \in Seq(Build!Ids) /\ Distinct(x.order)
      /\ Sound(x.order, x.deps) /\ Len(x.order) \in Nat
  BY <1>1, AtWorkJob
<1>3. Len(modelRuns') = Len(modelRuns) + 1 /\ Len(modelRuns) \in Nat
  BY LenProperties DEF RowsOK, Build!CreateRun
<1>4. job' = [job EXCEPT ![j] = y]
  BY <1>3 DEF Build!CreateRun, JobsOK
<1>5. y \in JobRecs
  <2>1. Len(modelRuns) + 1 \in Nat /\ "model" \in Pcs
    BY <1>3 DEF Pcs
  <2> QED BY <1>2, <2>1 DEF JobRecs
<1>6. /\ x.next = 1 /\ x.built = {} /\ x.failed = {} /\ x.skipped = {}
  BY <1>1, <1>2 DEF JobOK
<1>7. Fields(y, x, "model", x.next, Len(modelRuns) + 1, x.built, x.failed, x.skipped, x.stmt, x.ok)
  BY <1>2 DEF JobRecs, Fields
<1> HIDE DEF y
<1>8. Accounted(y)
  BY <1>2, <1>6, <1>7, PastBounds DEF Accounted, Fields
<1>9. JobOK(y)
  BY <1>2, <1>3, <1>7, <1>8 DEF JobOK, Executing, Fields
<1>10. Turned(j, y)
  BY <1>4, <1>5, PutJob
<1> QED
  BY <1>7, <1>9, <1>10 DEF Works, Turned

LEMMA SkipWorks ==
    ASSUME JobsOK, NEW j \in Build!Jobs, Build!Skip(j)
    PROVE  LET x == job[j] IN
           Works(j, "model", x.next + 1, x.run, x.built, x.failed,
                 x.skipped \cup {x.order[x.next]}, x.stmt, x.ok)
<1> DEFINE x == job[j]
           m == x.order[x.next]
           y == [x EXCEPT !.skipped = @ \cup {m}, !.next = @ + 1]
<1>1. x.at = "model" /\ job[j].at \in {"create"} \cup Executing
  BY DEF Build!Skip, Build!At, Executing
<1>2. /\ x \in JobRecs /\ JobOK(x) /\ x.order \in Seq(Build!Ids) /\ Distinct(x.order)
      /\ Sound(x.order, x.deps) /\ Len(x.order) \in Nat
  BY <1>1, AtWorkJob
<1>3. Accounted(x) /\ x.run > 0
  BY <1>1, <1>2 DEF JobOK, Executing
<1>4. x.next <= Len(x.order) /\ x.next \in 1 .. Len(x.order)
  BY <1>3, <1>2 DEF Accounted, Build!Skip, Build!More
<1>5. /\ Past(x.order, x.next + 1) = Past(x.order, x.next) \cup {m}
      /\ m \notin Past(x.order, x.next) /\ m \in Build!Ids
      /\ x.next + 1 \in 1 .. (Len(x.order) + 1)
  BY <1>2, <1>4, PastGrows
<1>6. x.failed # {}
  BY <1>3 DEF Accounted, Build!Skip, Build!MustSkip
<1>7. job' = [job EXCEPT ![j] = y]
  BY DEF Build!Skip, Build!Current, JobsOK
<1>8. y \in JobRecs
  <2>1. x.next + 1 \in Nat \ {0} /\ x.skipped \cup {m} \in SUBSET Build!Ids
    BY <1>2, <1>5 DEF JobRecs
  <2> HIDE DEF x, m
  <2> QED BY <1>2, <2>1 DEF JobRecs
<1>9. Fields(y, x, "model", x.next + 1, x.run, x.built, x.failed, x.skipped \cup {m}, x.stmt, x.ok)
  BY <1>1, <1>2 DEF JobRecs, Fields
<1> HIDE DEF y
<1>10. Accounted(y)
  BY <1>3, <1>5, <1>6, <1>9 DEF Accounted, Fields
<1>11. JobOK(y)
  BY <1>2, <1>3, <1>9, <1>10 DEF JobOK, Executing, Fields
<1>12. Turned(j, y)
  BY <1>7, <1>8, PutJob
<1> QED
  BY <1>9, <1>11, <1>12 DEF Works, Turned

LEMMA StartWorks ==
    ASSUME JobsOK, NEW j \in Build!Jobs, Build!Start(j)
    PROVE  LET x == job[j] IN
           Works(j, "exec", x.next, x.run, x.built, x.failed, x.skipped, 1, TRUE)
<1> DEFINE x == job[j]
           y == [x EXCEPT !.at = "exec", !.stmt = 1, !.ok = TRUE]
<1>1. x.at = "model" /\ job[j].at \in {"create"} \cup Executing
  BY DEF Build!Start, Build!At, Executing
<1>2. /\ x \in JobRecs /\ JobOK(x) /\ Sound(x.order, x.deps)
  BY <1>1, AtWorkJob
<1>3. Accounted(x) /\ x.run > 0
  BY <1>1, <1>2 DEF JobOK, Executing
<1>4. Ready(x)
  BY DEF Build!Start, Build!More, Build!MustSkip, Build!Current, Ready
<1>5. job' = [job EXCEPT ![j] = y]
  BY DEF Build!Start, JobsOK
<1>6. y \in JobRecs
  BY <1>2 DEF JobRecs, Pcs
<1>7. Fields(y, x, "exec", x.next, x.run, x.built, x.failed, x.skipped, 1, TRUE)
  BY <1>2 DEF JobRecs, Fields
<1> HIDE DEF y
<1>8. Accounted(y) /\ Ready(y)
  BY <1>3, <1>4, <1>7 DEF Accounted, Ready, Fields
<1>9. JobOK(y)
  BY <1>2, <1>3, <1>7, <1>8 DEF JobOK, Executing, Fields
<1>10. Turned(j, y)
  BY <1>5, <1>6, PutJob
<1> QED
  BY <1>7, <1>9, <1>10 DEF Works, Turned

\* What holds of a run at a statement or at its result.
LEMMA AtModel ==
    ASSUME JobsOK, NEW j \in Build!Jobs, job[j].at \in {"exec", "result"}
    PROVE  LET x == job[j] IN
           /\ Accounted(x) /\ Ready(x) /\ x.run > 0 /\ x.next \in 1 .. Len(x.order)
           /\ Past(x.order, x.next + 1) = Past(x.order, x.next) \cup {x.order[x.next]}
           /\ x.order[x.next] \notin Past(x.order, x.next) /\ x.order[x.next] \in Build!Ids
           /\ x.next + 1 \in 1 .. (Len(x.order) + 1)
<1> DEFINE x == job[j]
<1>1. job[j].at \in {"create"} \cup Executing /\ job[j].at \in Executing
  BY DEF Executing
<1>2. /\ x \in JobRecs /\ JobOK(x) /\ x.order \in Seq(Build!Ids) /\ Distinct(x.order)
      /\ Len(x.order) \in Nat
  BY <1>1, AtWorkJob
<1>3. Accounted(x) /\ Ready(x) /\ x.run > 0
  BY <1>1, <1>2 DEF JobOK
<1>4. x.next \in 1 .. Len(x.order)
  BY <1>2, <1>3 DEF Accounted, Ready
<1> QED
  BY <1>2, <1>3, <1>4, PastGrows

\* The next statement, or the result of a model.
LEMMA MoveWorks ==
    ASSUME JobsOK, NEW j \in Build!Jobs, job[j].at = "exec",
           NEW at \in {"exec", "result"}, NEW stmt \in {1, 2}, NEW ok \in BOOLEAN,
           job' = [job EXCEPT ![j] = [job[j] EXCEPT !.at = at, !.stmt = stmt, !.ok = ok]],
           at = "exec" => ok = TRUE /\ (stmt = 2 => job[j].order[job[j].next] \in job[j].tables)
    PROVE  LET x == job[j] IN
           Works(j, at, x.next, x.run, x.built, x.failed, x.skipped, stmt, ok)
<1> DEFINE x == job[j]
           y == [x EXCEPT !.at = at, !.stmt = stmt, !.ok = ok]
<1>1. job[j].at \in {"create"} \cup Executing /\ job[j].at \in {"exec", "result"}
  BY DEF Executing
<1>2. /\ x \in JobRecs /\ JobOK(x) /\ Sound(x.order, x.deps) /\ Accounted(x) /\ Ready(x) /\ x.run > 0
  BY <1>1, AtWorkJob, AtModel
<1>3. y \in JobRecs
  BY <1>2 DEF Pcs, JobRecs
<1>4. Fields(y, x, at, x.next, x.run, x.built, x.failed, x.skipped, stmt, ok)
  BY <1>2 DEF JobRecs, Fields
<1>5. job' = [job EXCEPT ![j] = y]
  OBVIOUS
<1> HIDE DEF y
<1>6. Accounted(y) /\ Ready(y)
  BY <1>2, <1>4 DEF Accounted, Ready, Fields
<1>7. JobOK(y)
  BY <1>2, <1>4, <1>6 DEF JobOK, Executing, Fields
<1>8. Turned(j, y)
  BY <1>3, <1>5, PutJob
<1> QED
  BY <1>4, <1>7, <1>8 DEF Works, Turned

LEMMA ExecWorks ==
    ASSUME JobsOK, NEW j \in Build!Jobs,
           Build!Executes(j) \/ Build!ExecuteFails(j) \/ Build!ExecuteTimesOut(j)
    PROVE  LET x == job[j] IN
           /\ x.at = "exec" /\ x.ok = TRUE /\ x.stmt \in {1, 2}
           /\ \/ Works(j, "exec", x.next, x.run, x.built, x.failed, x.skipped, 2, TRUE)
              \/ /\ Build!Executes(j) /\ Build!Statement(j).op # "drop"
                 /\ Works(j, "result", x.next, x.run, x.built, x.failed, x.skipped, x.stmt, TRUE)
              \/ Works(j, "result", x.next, x.run, x.built, x.failed, x.skipped, x.stmt, FALSE)
<1> DEFINE x == job[j]
           m == x.order[x.next]
<1>1. x.at = "exec" /\ job[j].at \in {"create"} \cup Executing
  BY DEF Build!Executes, Build!ExecuteFails, Build!ExecuteTimesOut, Build!At, Executing
<1>2. x \in JobRecs /\ JobOK(x)
  BY <1>1, AtWorkJob
<1>3. x.ok = TRUE /\ x.stmt \in {1, 2} /\ (x.stmt = 2 => m \in x.tables)
  BY <1>1, <1>2 DEF JobOK, JobRecs
<1>4. Build!buildDDL(j) = IF m \in x.tables THEN <<"drop", "create">> ELSE <<"view">>
  BY DEF Build!buildDDL, Build!Current
<1>5. ASSUME Build!Executes(j), x.stmt < Len(Build!buildDDL(j))
      PROVE  Works(j, "exec", x.next, x.run, x.built, x.failed, x.skipped, 2, TRUE)
  <2>1. x.stmt = 1 /\ m \in x.tables
    BY <1>3, <1>4, <1>5
  <2>2. job' = [job EXCEPT ![j].stmt = @ + 1]
    BY <1>5 DEF Build!Executes
  <2>3. job' = [job EXCEPT ![j] = [x EXCEPT !.at = "exec", !.stmt = 2, !.ok = TRUE]]
    <3>1. [x EXCEPT !.stmt = 2] = [x EXCEPT !.at = "exec", !.stmt = 2, !.ok = TRUE]
      <4> HIDE DEF x
      <4> QED BY <1>1, <1>2, <1>3 DEF JobRecs
    <3>2. job' = [job EXCEPT ![j] = [x EXCEPT !.stmt = 2]]
      BY <2>1, <2>2 DEF JobsOK
    <3> QED BY <3>1, <3>2
  <2>4. "exec" \in {"exec", "result"} /\ 2 \in {1, 2} /\ TRUE \in BOOLEAN
    OBVIOUS
  <2> QED BY <1>1, <2>1, <2>3, <2>4, MoveWorks
<1>6. ASSUME Build!Executes(j), ~(x.stmt < Len(Build!buildDDL(j)))
      PROVE  /\ Build!Statement(j).op # "drop"
             /\ Works(j, "result", x.next, x.run, x.built, x.failed, x.skipped, x.stmt, TRUE)
  <2>1. Build!Statement(j).op # "drop"
    <3>1. Build!Statement(j).op = Build!buildDDL(j)[x.stmt]
      BY DEF Build!Statement
    <3>2. CASE m \in x.tables
      BY <1>3, <1>4, <1>6, <3>2, <3>1
    <3>3. CASE m \notin x.tables
      BY <1>3, <3>3, <1>4, <3>1
    <3> QED BY <3>2, <3>3
  <2>2. job' = [job EXCEPT ![j].at = "result"]
    BY <1>6 DEF Build!Executes
  <2>3. job' = [job EXCEPT ![j] = [x EXCEPT !.at = "result", !.stmt = x.stmt, !.ok = TRUE]]
    <3>1. [x EXCEPT !.at = "result"] = [x EXCEPT !.at = "result", !.stmt = x.stmt, !.ok = TRUE]
      <4> HIDE DEF x
      <4> QED BY <1>1, <1>2, <1>3 DEF JobRecs
    <3>2. job' = [job EXCEPT ![j] = [x EXCEPT !.at = "result"]]
      BY <2>2 DEF JobsOK
    <3> QED BY <3>1, <3>2
  <2>4. "result" \in {"exec", "result"} /\ TRUE \in BOOLEAN /\ "result" # "exec"
    OBVIOUS
  <2> QED BY <1>1, <1>3, <2>1, <2>3, <2>4, MoveWorks
<1>7. ASSUME Build!ExecuteFails(j) \/ Build!ExecuteTimesOut(j)
      PROVE  Works(j, "result", x.next, x.run, x.built, x.failed, x.skipped, x.stmt, FALSE)
  <2>1. job' = [job EXCEPT ![j].at = "result", ![j].ok = FALSE]
    BY <1>7 DEF Build!ExecuteFails, Build!ExecuteTimesOut
  <2>2. job' = [job EXCEPT ![j] = [x EXCEPT !.at = "result", !.stmt = x.stmt, !.ok = FALSE]]
    <3>1. [x EXCEPT !.at = "result", !.ok = FALSE] = [x EXCEPT !.at = "result", !.stmt = x.stmt, !.ok = FALSE]
      <4> HIDE DEF x
      <4> QED BY <1>1, <1>2, <1>3 DEF JobRecs
    <3>2. job' = [job EXCEPT ![j] = [x EXCEPT !.at = "result", !.ok = FALSE]]
      BY <2>1 DEF JobsOK
    <3> QED BY <3>1, <3>2
  <2>3. "result" \in {"exec", "result"} /\ FALSE \in BOOLEAN /\ "result" # "exec"
    OBVIOUS
  <2> QED BY <1>1, <1>3, <2>2, <2>3, MoveWorks
<1> QED
  BY <1>1, <1>3, <1>5, <1>6, <1>7

LEMMA ResultWorks ==
    ASSUME JobsOK, NEW j \in Build!Jobs, Build!Result(j)
    PROVE  LET x == job[j]
               m == x.order[x.next]
           IN /\ x.at = "result" /\ x.ok \in BOOLEAN
              /\ Works(j, "model", x.next + 1, x.run,
                       IF x.ok THEN x.built \cup {m} ELSE x.built,
                       IF x.ok THEN x.failed ELSE x.failed \cup {m}, x.skipped, x.stmt, x.ok)
<1> DEFINE x == job[j]
           m == x.order[x.next]
           built == IF x.ok THEN x.built \cup {m} ELSE x.built
           failed == IF x.ok THEN x.failed ELSE x.failed \cup {m}
           y == [x EXCEPT !.at = "model", !.next = @ + 1,
                          !.built = IF x.ok THEN @ \cup {m} ELSE @,
                          !.failed = IF x.ok THEN @ ELSE @ \cup {m}]
<1>1. x.at = "result" /\ job[j].at \in {"create"} \cup Executing /\ job[j].at \in {"exec", "result"}
  BY DEF Build!Result, Build!At, Executing
<1>2. /\ x \in JobRecs /\ JobOK(x) /\ Sound(x.order, x.deps)
  BY <1>1, AtWorkJob
<1>3. /\ Accounted(x) /\ x.run > 0
      /\ Past(x.order, x.next + 1) = Past(x.order, x.next) \cup {m}
      /\ m \notin Past(x.order, x.next) /\ m \in Build!Ids
      /\ x.next + 1 \in 1 .. (Len(x.order) + 1)
  BY <1>1, AtModel
<1>4. job' = [job EXCEPT ![j] = y]
  BY DEF Build!Result, Build!Current, JobsOK
<1>5. /\ built \in SUBSET Build!Ids /\ failed \in SUBSET Build!Ids /\ x.ok \in BOOLEAN
      /\ x.next + 1 \in Nat \ {0} /\ "model" \in Pcs
  BY <1>2, <1>3 DEF JobRecs, Pcs
<1>6. y \in JobRecs
  <2> HIDE DEF x, m
  <2> QED BY <1>2, <1>5 DEF JobRecs
<1>7. Fields(y, x, "model", x.next + 1, x.run, built, failed, x.skipped, x.stmt, x.ok)
  <2> HIDE DEF x, m
  <2> QED BY <1>2 DEF JobRecs, Fields
<1> HIDE DEF y
<1>8. Accounted(y)
  <2>1. /\ x.built \cup x.failed \cup x.skipped = Past(x.order, x.next)
        /\ x.built \cap x.failed = {} /\ x.built \cap x.skipped = {} /\ x.failed \cap x.skipped = {}
        /\ x.skipped # {} => x.failed # {}
    BY <1>3 DEF Accounted
  <2>2. /\ built \cup failed \cup x.skipped = Past(x.order, x.next + 1)
        /\ built \cap failed = {} /\ built \cap x.skipped = {} /\ failed \cap x.skipped = {}
        /\ x.skipped # {} => failed # {}
    <3> HIDE DEF x, m
    <3>1. CASE x.ok
      BY <1>3, <2>1, <3>1
    <3>2. CASE ~x.ok
      BY <1>3, <2>1, <3>2
    <3> QED BY <3>1, <3>2
  <2> HIDE DEF x, m, built, failed
  <2> QED BY <1>3, <1>7, <2>2 DEF Accounted, Fields
<1>9. JobOK(y)
  <2> HIDE DEF x, m, built, failed
  <2> QED BY <1>2, <1>3, <1>7, <1>8 DEF JobOK, Executing, Fields
<1>10. Turned(j, y)
  BY <1>4, <1>6, PutJob
<1> QED
  BY <1>1, <1>5, <1>7, <1>9, <1>10 DEF Works, Turned

LEMMA FinalizeTurns ==
    ASSUME JobsOK, NEW j \in Build!Jobs, Build!Finalize(j)
    PROVE  GoesOn(j) /\ Leaves(j) /\ job'[j].run = 0 /\ job'[j].at \in {"idle", "status"}
BY ReturnTurns DEF Build!Finalize, Build!At, Inside, Executing

LEMMA StatusTurns ==
    ASSUME JobsOK, Build!UpdateSchedule
    PROVE  /\ TickJob \in Build!Jobs /\ GoesOn(TickJob) /\ Waits(TickJob)
           /\ job'[TickJob].at = "idle" /\ job'[TickJob].run = 0
BY IdleJob, PutJob DEF Build!UpdateSchedule, Build!Jobs, Waits, Turned, Inside, Executing,
   Build!At, GoesOn

\* A step within execute keeps the lock.
LEMMA WorkGoesOn ==
    ASSUME NEW j \in Build!Jobs, job[j].at \in {"create"} \cup Executing, UNCHANGED running,
           NEW at \in Executing, NEW next, NEW run, NEW built, NEW failed, NEW skipped, NEW stmt, NEW ok,
           Works(j, at, next, run, built, failed, skipped, stmt, ok)
    PROVE  GoesOn(j)
  BY DEF Works, GoesOn, Stays, Inside, Fields

LEMMA ExecuteGoesOn ==
    ASSUME Build!ModelAssumption, ModelRows, RowsOK, JobsOK, NEW j \in Build!Jobs, Build!Execute(j)
    PROVE  GoesOn(j)
<1>0. /\ "model" \in Executing /\ "exec" \in Executing /\ "result" \in Executing
  BY DEF Executing
<1>1. CASE Build!Load(j)
  BY <1>1, LoadTurns
<1>2. CASE Build!CreateRun(j)
  BY <1>2, <1>0, CreateWorks, WorkGoesOn DEF Build!CreateRun, Build!At
<1>3. CASE Build!Skip(j)
  BY <1>3, <1>0, SkipWorks, WorkGoesOn DEF Build!Skip, Build!At, Executing
<1>4. CASE Build!Start(j)
  BY <1>4, <1>0, StartWorks, WorkGoesOn DEF Build!Start, Build!At, Executing
<1>5. CASE Build!Executes(j) \/ Build!ExecuteFails(j) \/ Build!ExecuteTimesOut(j)
  BY <1>5, <1>0, ExecWorks, WorkGoesOn DEF Build!Executes, Build!ExecuteFails,
     Build!ExecuteTimesOut, Build!At, Executing
<1>6. CASE Build!Result(j)
  BY <1>6, <1>0, ResultWorks, WorkGoesOn DEF Build!Result, Build!At, Executing
<1>7. CASE Build!Finalize(j)
  BY <1>7, FinalizeTurns
<1> QED
  BY <1>1, <1>2, <1>3, <1>4, <1>5, <1>6, <1>7 DEF Build!Execute

LEMMA BoundFields ==
    ASSUME BoundOK
    PROVE  /\ bound.of.models \in SUBSET Build!Ids /\ bound.of.requests \in SUBSET Requests
           /\ bound.starts \in Nat /\ bound.edits \in Nat /\ bound.faults \in Nat
           /\ bound.late \in Nat /\ bound.crashes \in Nat
  BY DEF BoundOK, BoundRecs, OfRecs

LEMMA RequestGoesOn ==
    ASSUME BoundOK, JobsOK, LockInv, NEW j \in bound.of.requests, Build!Request(j)
    PROVE  j \in Build!Jobs /\ GoesOn(j) /\ job'[j].run = 0 /\ job'[j].at \in {"idle", "load", "status"}
<1>1. j \in Build!Jobs
  BY BoundFields DEF Build!Jobs
<1>2. Build!At(j, "idle")
  BY DEF Build!Request
<1>3. PICK kind \in {"all", "pipeline", "single"}, m \in Build!Ids \cup {Absent} : Build!Enter(j, kind, m)
  BY BoundFields DEF Build!Request
<1> QED
  BY <1>1, <1>2, <1>3, EnterTurns

LEMMA DueGoesOn ==
    ASSUME JobsOK, LockInv, NEW m \in Build!Ids, Build!RunDue(m)
    PROVE  /\ TickJob \in Build!Jobs /\ GoesOn(TickJob)
           /\ job'[TickJob].run = 0 /\ job'[TickJob].at \in {"idle", "load", "status"}
BY EnterTurns DEF Build!Jobs, Build!RunDue

LEMMA GoesOnKeeps ==
    ASSUME JobsOK, LockInv, NEW j \in Build!Jobs, GoesOn(j)
    PROVE  JobsOK' /\ LockInv'
<1>1. /\ job' \in [Build!Jobs -> JobRecs] /\ JobOK(job'[j])
      /\ \A k \in Build!Jobs : k # j => job'[k] = job[k]
  BY DEF GoesOn, Turned
<1>2. JobsOK'
  BY <1>1 DEF JobsOK
<1>3. CASE Enters(j)
  BY <1>1, <1>2, <1>3 DEF Inside, LockInv, Enters
<1>4. CASE Leaves(j)
  BY <1>1, <1>2, <1>4 DEF LockInv, Leaves
<1>5. CASE Stays(j)
  BY <1>1, <1>2, <1>5 DEF LockInv, Stays
<1>6. CASE Waits(j)
  BY <1>1, <1>2, <1>6 DEF LockInv, Waits
<1> QED
  BY <1>3, <1>4, <1>5, <1>6 DEF GoesOn

LEMMA StillKeeps ==
    ASSUME JobsOK, LockInv, UNCHANGED <<job, running>>
    PROVE  JobsOK' /\ LockInv'
  BY DEF JobsOK, LockInv

LEMMA CrashKeeps ==
    ASSUME JobsOK, Build!Crash
    PROVE  /\ JobsOK' /\ LockInv' /\ \A j \in Build!Jobs : job'[j] = Build!Idle
<1>1. job' = [j \in Build!Jobs |-> Build!Idle] /\ running' = FALSE
  BY DEF Build!Crash
<1>2. \A j \in Build!Jobs : job'[j] = Build!Idle
  BY <1>1
<1>3. Build!Idle.at \notin Inside
  BY IdleJob DEF Inside, Executing
<1>4. JobsOK'
  BY <1>2, IdleJob, <1>1 DEF JobsOK
<1>5. LockInv'
  BY <1>1, <1>2, <1>3 DEF LockInv
<1> QED
  BY <1>2, <1>4, <1>5

-----------------------------------------------------------------------------
(* The models and the statements. *)

LEMMA OrderHolds == ASSUME JobsOK PROVE Build!OrderInv
<1>1. ASSUME NEW j \in Build!Jobs, Build!At(j, "exec")
      PROVE  job[j].deps[Build!Current(j)] \subseteq job[j].built
  <2> DEFINE x == job[j]
             m == x.order[x.next]
  <2>1. x.at \in {"exec", "result"} /\ job[j].at \in {"create"} \cup Executing
    BY <1>1 DEF Build!At, Executing
  <2>2. Accounted(x) /\ Ready(x) /\ x.next \in 1 .. Len(x.order) /\ Sound(x.order, x.deps)
    BY <2>1, AtModel, AtWorkJob
  <2>3. x.deps[m] \subseteq Past(x.order, x.next)
    BY <2>2 DEF Sound, Past
  <2> QED BY <2>2, <2>3 DEF Accounted, Ready, Build!Current
<1>2. ASSUME NEW j \in Build!Jobs, Build!At(j, "create")
      PROVE  /\ Build!InOrder(j) = Elems(job[j].order)
             /\ Build!Cardinality(Build!InOrder(j)) = Len(job[j].order)
             /\ Asked(job[j].kind, job[j].anchor, job[j].order, job[j].deps)
  <2>1. job[j].at = "create" /\ job[j].at \in {"create"} \cup Executing
    BY <1>2 DEF Build!At
  <2>2. JobOK(job[j]) /\ job[j].order \in Seq(Build!Ids) /\ Distinct(job[j].order)
    BY <2>1, AtWorkJob
  <2>3. Build!InOrder(j) = Elems(job[j].order)
    BY <2>2 DEF Build!InOrder, Elems
  <2>4. Cardinality(Elems(job[j].order)) = Len(job[j].order)
    BY <2>2, DistinctLen
  <2>5. Build!Cardinality(Elems(job[j].order)) = Cardinality(Elems(job[j].order))
    BY SameCardinality
  <2>6. Asked(job[j].kind, job[j].anchor, job[j].order, job[j].deps)
    BY <2>1, <2>2 DEF JobOK
  <2> QED BY <2>3, <2>4, <2>5, <2>6
<1>3. Build!BuiltAfterItsSources
  BY <1>1 DEF Build!BuiltAfterItsSources
<1>4. Build!RunsWhatItShould
  BY <1>2 DEF Build!RunsWhatItShould, Asked
<1> QED
  BY <1>3, <1>4 DEF Build!OrderInv

Statements ==
    [op : {"drop", "create", "view"}, model : Build!Ids \X Nat,
     reads : SUBSET (Build!Ids \X Nat), run : Nat]

LEMMA StatementType ==
    ASSUME JobsOK, NEW j \in Build!Jobs, job[j].at = "exec"
    PROVE  /\ Build!Statement(j) \in Statements
           /\ Build!Statement(j).model = Build!Target(j, Build!Current(j))
<1> DEFINE x == job[j]
           m == x.order[x.next]
<1>1. x.at \in {"exec", "result"} /\ job[j].at \in {"create"} \cup Executing
  BY DEF Executing
<1>2. /\ x \in JobRecs /\ JobOK(x) /\ x.order \in Seq(Build!Ids) /\ Sound(x.order, x.deps)
      /\ x.deps \in [DOMAIN x.deps -> SUBSET DOMAIN x.deps] /\ x.order \in Seq(DOMAIN x.deps)
  BY <1>1, AtWorkJob
<1>3. x.next \in 1 .. Len(x.order) /\ m \in Build!Ids
  BY <1>1, AtModel
<1>4. /\ Build!Target(j, m) \in Build!Ids \X Nat
      /\ {Build!Target(j, d) : d \in x.deps[m]} \in SUBSET (Build!Ids \X Nat)
  <2>1. x.deps[m] \in SUBSET Build!Ids /\ x.place \in [Build!Ids -> Nat]
    BY <1>2, <1>3 DEF JobRecs, DepSets
  <2> QED BY <1>3, <2>1 DEF Build!Target
<1>5. Build!buildDDL(j)[x.stmt] \in {"drop", "create", "view"}
  <2>1. x.stmt \in {1, 2} /\ (x.stmt = 2 => m \in x.tables)
    BY <1>2 DEF JobOK, JobRecs
  <2>2. Build!buildDDL(j) = IF m \in x.tables THEN <<"drop", "create">> ELSE <<"view">>
    BY DEF Build!buildDDL, Build!Current
  <2> HIDE DEF x, m
  <2>3. CASE x.stmt = 1
    BY <2>2, <2>3
  <2>4. CASE x.stmt = 2
    BY <2>1, <2>2, <2>4
  <2> QED BY <2>1, <2>3, <2>4
<1>6. x.run \in Nat
  BY <1>2 DEF JobRecs
<1> QED
  BY <1>3, <1>4, <1>5, <1>6 DEF Build!Statement, Build!Current, Statements

\* The status of a model that is there.
LEMMA SetStatusType ==
    ASSUME Build!ModelAssumption, ModelRows, NEW m \in Build!Ids,
           NEW s \in {"draft", "success", "error"}, Build!SetStatus(m, s)
    PROVE  /\ ModelRows' /\ Build!Present' = Build!Present
           /\ \A k \in Build!Present : models'[k].status = IF k = m THEN s ELSE models[k].status
<1>1. Absent \notin Build!Rows
  BY DEF Build!ModelAssumption
<1>2. CASE m \notin Build!Present
  BY <1>2 DEF Build!SetStatus, ModelRows, Build!Present
<1>3. CASE m \in Build!Present
  <2> DEFINE y == [models[m] EXCEPT !.status = s]
  <2>1. models[m] \in Build!Rows
    BY <1>3 DEF ModelRows, Build!Present
  <2>2. y \in Build!Rows /\ y.status = s
    BY <2>1 DEF Build!Rows
  <2>3. models' = [models EXCEPT ![m] = y]
    BY <1>3 DEF Build!SetStatus
  <2> HIDE DEF y
  <2>4. /\ models'[m] = y /\ models' \in [Build!Ids -> Build!Rows \cup {Absent}]
        /\ \A k \in Build!Ids : k # m => models'[k] = models[k]
    BY <2>2, <2>3 DEF ModelRows
  <2>5. y # Absent /\ models[m] # Absent
    BY <1>1, <2>1, <2>2
  <2>6. Build!Present' = Build!Present
    BY <2>4, <2>5 DEF Build!Present
  <2>7. \A k \in Build!Present : models'[k].status = IF k = m THEN s ELSE models[k].status
    BY <2>2, <2>4 DEF Build!Present
  <2> QED BY <2>4, <2>6, <2>7 DEF ModelRows
<1> QED
  BY <1>2, <1>3

LEMMA BoundStep ==
    ASSUME BoundOK, Build!Next
    PROVE  /\ BoundOK' /\ (bound'.crashes = 0 => bound.crashes = 0)
           /\ (bound'.late = 0 => bound.late = 0)
<1>1. CASE bound' = bound
  BY <1>1 DEF BoundOK
<1>2. CASE Build!Edit \/ Build!Count \/ Build!Fault
  BY <1>2 DEF BoundOK, BoundRecs, Build!Edit, Build!Count, Build!Fault
<1>3. CASE bound' = [bound EXCEPT !.late = @ + 1] \/ bound' = [bound EXCEPT !.crashes = @ + 1]
  BY <1>3 DEF BoundOK, BoundRecs
<1>4. CASE \E j \in bound.of.requests : Build!Request(j)
  BY <1>2, <1>4 DEF Build!Request
<1>5. CASE \E j \in Build!Jobs : Build!Execute(j)
  BY <1>1, <1>2, <1>3, <1>5 DEF Build!Execute, Build!Load, Build!CreateRun, Build!Skip, Build!Start,
       Build!Executes, Build!ExecuteFails, Build!ExecuteTimesOut, Build!Result, Build!Finalize
<1>6. CASE Build!Schedule
  BY <1>1, <1>6 DEF Build!Schedule, Build!ReadDue, Build!UpdateSchedule, Build!RunDue
<1>7. CASE \E x \in lateStatements : Build!LateStatement(x)
  BY <1>1, <1>7 DEF Build!LateStatement
<1>8. CASE \E m \in Build!Ids : \/ Build!Elapse(m) \/ Build!UpsertSchedule(m) \/ Build!DeleteSchedule(m)
                                \/ Build!UpdateModel(m) \/ Build!DeleteModel(m)
  BY <1>2, <1>8 DEF Build!Elapse, Build!UpsertSchedule, Build!DeleteSchedule, Build!UpdateModel,
       Build!DeleteModel
<1>9. CASE Build!Crash
  BY <1>3, <1>9 DEF Build!Crash
<1> QED
  BY <1>4, <1>5, <1>6, <1>7, <1>8, <1>9 DEF Build!Next

\* What an edit does to the table of models: no model comes back.
LEMMA UpdateModelType ==
    ASSUME Build!ModelAssumption, ModelRows, BoundOK, NEW m \in Build!Ids, Build!UpdateModel(m)
    PROVE  /\ ModelRows' /\ Build!Present' = Build!Present
           /\ \A k \in Build!Present : models'[k].status = models[k].status
<1>1. m \in Build!Present /\ models[m] \in Build!Rows /\ Absent \notin Build!Rows
  BY DEF Build!UpdateModel, Build!Present, ModelRows, Build!ModelAssumption
<1>2. PICK refs \in SUBSET bound.of.models, table \in BOOLEAN, change \in {"none", "name", "database"} :
         models' = [d \in Build!Ids |->
            IF d = m THEN [models[m] EXCEPT !.refs = refs, !.table = table,
                               !.place = IF change = "none" THEN @ ELSE @ + 1]
            ELSE IF change = "name" /\ d \in Build!Present /\ m \in models[d].refs
            THEN [models[d] EXCEPT !.refs = (@ \ {m}) \cup {Absent}] ELSE models[d]]
  BY DEF Build!UpdateModel
<1>3. refs \in SUBSET Build!Ids
  BY BoundFields
<1>4. /\ models'[m] \in Build!Rows /\ models'[m].status = models[m].status
      /\ \A d \in Build!Ids : d # m /\ models'[d] # models[d] =>
            /\ d \in Build!Present /\ models'[d] \in Build!Rows
            /\ models'[d].status = models[d].status
  <2> DEFINE n == IF change = "none" THEN models[m].place ELSE models[m].place + 1
             y == [models[m] EXCEPT !.refs = refs, !.table = table, !.place = n]
             z(d) == [models[d] EXCEPT !.refs = (@ \ {m}) \cup {Absent}]
  <2>1. n \in Nat
    BY <1>1 DEF Build!Rows
  <2>2. models'[m] = y
    BY <1>2
  <2> HIDE DEF n
  <2>3. y \in Build!Rows /\ y.status = models[m].status
    BY <1>1, <1>3, <2>1 DEF Build!Rows
  <2>4. ASSUME NEW d \in Build!Ids, d # m, models'[d] # models[d]
        PROVE  d \in Build!Present /\ models'[d] \in Build!Rows /\ models'[d].status = models[d].status
    <3>1. d \in Build!Present /\ models'[d] = z(d)
      BY <1>2, <2>4
    <3>2. models[d] \in Build!Rows
      BY <3>1 DEF ModelRows, Build!Present
    <3>3. z(d) \in Build!Rows /\ z(d).status = models[d].status
      BY <3>2 DEF Build!Rows
    <3> QED BY <3>1, <3>3
  <2> QED BY <2>2, <2>3, <2>4
<1>5. DOMAIN models' = Build!Ids
  BY <1>2
<1>6. models' \in [Build!Ids -> Build!Rows \cup {Absent}]
  <2>1. \A d \in Build!Ids : models'[d] \in Build!Rows \cup {Absent}
    BY <1>4 DEF ModelRows
  <2>2. models' = [d \in Build!Ids |-> models'[d]]
    BY <1>2
  <2> QED BY <2>1, <2>2
<1>7. Build!Present' = Build!Present
  BY <1>1, <1>4 DEF ModelRows, Build!Present
<1> QED
  BY <1>1, <1>4, <1>6, <1>7 DEF ModelRows, Build!Present

LEMMA DeleteModelType ==
    ASSUME ModelRows, NEW m \in Build!Ids, Build!DeleteModel(m)
    PROVE  /\ ModelRows' /\ Build!Present' = Build!Present \ {m}
           /\ \A k \in Build!Present' : models'[k] = models[k]
BY DEF Build!DeleteModel, ModelRows, Build!Present

\* The statuses that the steps of a run set.
Settles(m, s) == m \in Build!Ids /\ s \in {"success", "error"} /\ Build!SetStatus(m, s)

LEMMA SkipSettles ==
    ASSUME JobsOK, NEW j \in Build!Jobs, Build!Skip(j)
    PROVE  /\ Settles(Build!Current(j), "error")
           /\ job[j].next \in 1 .. Len(job[j].order)
<1> DEFINE x == job[j]
<1>1. x.at = "model" /\ job[j].at \in {"create"} \cup Executing
  BY DEF Build!Skip, Build!At, Executing
<1>2. /\ JobOK(x) /\ x.order \in Seq(Build!Ids) /\ Len(x.order) \in Nat
  BY <1>1, AtWorkJob
<1>3. x.next \in 1 .. (Len(x.order) + 1) /\ x.next <= Len(x.order)
  BY <1>1, <1>2 DEF JobOK, Executing, Accounted, Build!Skip, Build!More
<1>4. x.next \in 1 .. Len(x.order)
  BY <1>2, <1>3
<1>5. x.order[x.next] \in Build!Ids
  BY <1>2, <1>4
<1> QED
  BY <1>4, <1>5 DEF Settles, Build!Skip, Build!Current

LEMMA ResultSettles ==
    ASSUME JobsOK, NEW j \in Build!Jobs, Build!Result(j)
    PROVE  Settles(Build!Current(j), IF job[j].ok THEN "success" ELSE "error")
BY AtModel DEF Build!Result, Build!At, Settles, Build!Current

LEMMA ModelsStep ==
    ASSUME Build!ModelAssumption, ModelRows, BoundOK, JobsOK, Build!Next
    PROVE  ModelRows' /\ Build!Present' \subseteq Build!Present
<1>1. CASE UNCHANGED models
  BY <1>1 DEF ModelRows, Build!Present
<1>2. ASSUME NEW m, NEW s, Settles(m, s)
      PROVE  ModelRows' /\ Build!Present' \subseteq Build!Present
  BY <1>2, SetStatusType DEF Settles
<1>3. CASE \E j \in Build!Jobs : Build!Skip(j) \/ Build!Result(j)
  BY <1>2, <1>3, SkipSettles, ResultSettles
<1>4. CASE \E j \in bound.of.requests : Build!Request(j)
  BY <1>1, <1>4 DEF Build!Request
<1>5. CASE \E j \in Build!Jobs : Build!Execute(j)
  BY <1>1, <1>3, <1>5 DEF Build!Execute, Build!Load, Build!CreateRun, Build!Start,
       Build!Executes, Build!ExecuteFails, Build!ExecuteTimesOut, Build!Finalize
<1>6. CASE Build!Schedule
  BY <1>1, <1>6 DEF Build!Schedule, Build!ReadDue, Build!UpdateSchedule, Build!RunDue
<1>7. CASE \E x \in lateStatements : Build!LateStatement(x)
  BY <1>1, <1>7 DEF Build!LateStatement
<1>8. CASE \E m \in Build!Ids : Build!Elapse(m) \/ Build!UpsertSchedule(m) \/ Build!DeleteSchedule(m)
  BY <1>1, <1>8 DEF Build!Elapse, Build!UpsertSchedule, Build!DeleteSchedule
<1>9. CASE \E m \in Build!Ids : Build!UpdateModel(m) \/ Build!DeleteModel(m)
  BY <1>9, UpdateModelType, DeleteModelType
<1>10. CASE Build!Crash
  BY <1>1, <1>10 DEF Build!Crash
<1> QED
  BY <1>4, <1>5, <1>6, <1>7, <1>8, <1>9, <1>10 DEF Build!Next

TablesOK ==
    /\ lateStatements \in SUBSET Statements
    /\ target \in SUBSET (Build!Ids \X Nat) /\ due \in SUBSET Build!Ids
    /\ schedule \in [Build!Ids -> Build!Times \cup {Absent}]

LEMMA TablesStep ==
    ASSUME TablesOK, JobsOK, Build!Next
    PROVE  TablesOK'
<1> USE DEF TablesOK
<1>2. TablesOK
  OBVIOUS
<1>3. CASE UNCHANGED <<lateStatements, target, due, schedule>>
  BY <1>2, <1>3
<1>4. ASSUME NEW j \in bound.of.requests, Build!Request(j) PROVE TablesOK'
  BY <1>3, <1>4 DEF Build!Request
<1>5. ASSUME NEW j \in Build!Jobs, Build!Execute(j) PROVE TablesOK'
  <2>1. CASE Build!Executes(j)
    BY <2>1, <1>2, StatementType DEF Build!Executes, Build!Effect, Build!At, Statements
  <2>2. CASE Build!ExecuteTimesOut(j)
    BY <2>2, <1>2, StatementType DEF Build!ExecuteTimesOut, Build!At
  <2>3. CASE UNCHANGED <<lateStatements, target, due, schedule>>
    BY <1>3, <2>3
  <2> QED BY <1>5, <2>1, <2>2, <2>3 DEF Build!Execute, Build!Load, Build!CreateRun, Build!Skip,
            Build!Start, Build!ExecuteFails, Build!Result, Build!Finalize
<1>6. CASE Build!ReadDue
  BY <1>2, <1>6 DEF Build!ReadDue
<1>7. CASE Build!UpdateSchedule
  <2>1. TickJob \in Build!Jobs /\ job[TickJob].ok \in BOOLEAN
    BY DEF Build!Jobs, JobsOK, JobRecs
  <2> DEFINE s == [due |-> FALSE, ok |-> job[TickJob].ok]
  <2>2. s \in Build!Times
    BY <2>1 DEF Build!Times
  <2>3. /\ UNCHANGED <<lateStatements, target, due>>
        /\ \/ schedule' = schedule
           \/ schedule' = [schedule EXCEPT ![job[TickJob].anchor] = s]
    BY <1>7 DEF Build!UpdateSchedule
  <2> HIDE DEF s
  <2> QED BY <1>2, <2>2, <2>3
<1>8. ASSUME NEW m \in Build!Ids, Build!RunDue(m) PROVE TablesOK'
  BY <1>2, <1>8 DEF Build!RunDue
<1>9. ASSUME NEW x \in lateStatements, Build!LateStatement(x) PROVE TablesOK'
  BY <1>9, <1>2 DEF Build!LateStatement, Build!Effect, Statements
<1>10. ASSUME NEW m \in Build!Ids, Build!Elapse(m) PROVE TablesOK'
  <2> DEFINE s == [schedule[m] EXCEPT !.due = TRUE]
  <2>1. s \in Build!Times
    BY <1>2, <1>10 DEF Build!Elapse, Build!Times
  <2>2. UNCHANGED <<lateStatements, target, due>> /\ schedule' = [schedule EXCEPT ![m] = s]
    BY <1>2, <1>10 DEF Build!Elapse
  <2> HIDE DEF s
  <2> QED BY <1>2, <2>1, <2>2
<1>11. ASSUME NEW m \in Build!Ids,
              Build!UpsertSchedule(m) \/ Build!DeleteSchedule(m) \/ Build!DeleteModel(m)
       PROVE  TablesOK'
  <2> DEFINE s == [due |-> FALSE, ok |-> TRUE]
  <2>1. s \in Build!Times
    BY DEF Build!Times
  <2>2. /\ UNCHANGED <<lateStatements, target, due>>
        /\ \/ schedule' = [schedule EXCEPT ![m] = s] \/ schedule' = [schedule EXCEPT ![m] = Absent]
    BY <1>11 DEF Build!UpsertSchedule, Build!DeleteSchedule, Build!DeleteModel
  <2> HIDE DEF s
  <2> QED BY <1>2, <2>1, <2>2
<1>12. ASSUME NEW m \in Build!Ids, Build!UpdateModel(m) PROVE TablesOK'
  BY <1>3, <1>12 DEF Build!UpdateModel
<1>13. CASE Build!Crash
  BY <1>2, <1>13 DEF Build!Crash
<1> QED
  BY <1>4, <1>5, <1>6, <1>7, <1>8, <1>9, <1>10, <1>11, <1>12, <1>13 DEF Build!Next, Build!Schedule

-----------------------------------------------------------------------------
(* The tables of the runs. *)

\* What the row of a run that ended says.
Outcome(w) ==
    w.status # "running" =>
       /\ w.succeeded + w.failed + w.skipped = w.total
       /\ w.status = IF w.succeeded = 0 THEN "error"
                       ELSE IF w.succeeded = w.total THEN "success" ELSE "partial"
       /\ \A m \in Build!Ids : w.results[m] \in {"none", "success", "error", "skipped"}

\* The row of a run that is under way.
OwnsRow(x) ==
    x.at \in Executing =>
       /\ x.run \in 1 .. Len(modelRuns)
       /\ modelRuns[x.run].status = "running" /\ modelRuns[x.run].total = Len(x.order)
       /\ \A m \in Build!Ids : modelRuns[x.run].results[m] \in {"pending", "running"} =>
             m \in Elems(x.order) \ Past(x.order, x.next)

RowInv ==
    /\ RowsOK
    /\ \A j \in Build!Jobs : OwnsRow(job[j])
    /\ bound.crashes = 0 =>
          \A r \in 1 .. Len(modelRuns) : modelRuns[r].status = "running" =>
             \E j \in Build!Jobs : job[j].at \in Executing /\ job[j].run = r
    /\ \A r \in 1 .. Len(modelRuns) :
          /\ \A m \in Build!Ids \ Build!Present : modelRuns[r].results[m] = "none"
          /\ Outcome(modelRuns[r])

\* Steps that leave these tables alone.
LEMMA RowsStay ==
    ASSUME RowInv, BoundOK, Build!Next, modelRuns' = modelRuns, Build!Present' = Build!Present,
           \A j \in Build!Jobs :
              /\ job'[j].at \in Executing <=> job[j].at \in Executing
              /\ job[j].at \in Executing =>
                    /\ job'[j].run = job[j].run /\ job'[j].order = job[j].order
                    /\ job'[j].next = job[j].next
    PROVE  RowInv'
<1>1. bound'.crashes = 0 => bound.crashes = 0
  BY BoundStep
<1>2. RowsOK'
  BY DEF RowInv, RowsOK
<1>3. \A j \in Build!Jobs : OwnsRow(job[j])'
  BY DEF RowInv, OwnsRow
<1> QED
  BY <1>1, <1>2, <1>3 DEF RowInv, Outcome

LEMMA PutRow ==
    ASSUME RowsOK, NEW r \in 1 .. Len(modelRuns), NEW y \in RunRecs,
           modelRuns' = [modelRuns EXCEPT ![r] = y]
    PROVE  /\ RowsOK' /\ Len(modelRuns') = Len(modelRuns) /\ modelRuns'[r] = y
           /\ \A k \in 1 .. Len(modelRuns) : k # r => modelRuns'[k] = modelRuns[k]
  BY DEF RowsOK

LEMMA SetResultRow ==
    ASSUME RowsOK, NEW j \in Build!Jobs, job[j].run \in 1 .. Len(modelRuns), NEW m \in Build!Ids,
           NEW s \in Build!Statuses, Build!SetResult(j, m, s)
    PROVE  LET r == job[j].run IN
           /\ RowsOK' /\ Len(modelRuns') = Len(modelRuns)
           /\ \A k \in 1 .. Len(modelRuns) : k # r => modelRuns'[k] = modelRuns[k]
           /\ modelRuns'[r].status = modelRuns[r].status /\ modelRuns'[r].total = modelRuns[r].total
           /\ modelRuns'[r].succeeded = modelRuns[r].succeeded
           /\ modelRuns'[r].failed = modelRuns[r].failed /\ modelRuns'[r].skipped = modelRuns[r].skipped
           /\ \A k \in Build!Ids : modelRuns'[r].results[k] =
                 IF k = m /\ m \in Build!Present THEN s ELSE modelRuns[r].results[k]
<1> DEFINE r == job[j].run
<1>1. CASE m \notin Build!Present
  BY <1>1 DEF Build!SetResult, RowsOK
<1>2. CASE m \in Build!Present
  <2> DEFINE z == [modelRuns[r].results EXCEPT ![m] = s]
             y == [modelRuns[r] EXCEPT !.results = z]
  <2>1. modelRuns[r] \in RunRecs /\ modelRuns \in Seq(RunRecs)
    BY DEF RowsOK
  <2>2. modelRuns[r].results \in [Build!Ids -> Build!Statuses]
    BY <2>1 DEF RunRecs
  <2>3. z \in [Build!Ids -> Build!Statuses] /\ \A k \in Build!Ids : z[k] = IF k = m THEN s ELSE modelRuns[r].results[k]
    BY <2>2
  <2>4. modelRuns' = [modelRuns EXCEPT ![r] = y]
    BY <1>2, <2>1 DEF Build!SetResult
  <2> HIDE DEF z
  <2>5. /\ y \in RunRecs /\ y.results = z /\ y.status = modelRuns[r].status
        /\ y.total = modelRuns[r].total /\ y.succeeded = modelRuns[r].succeeded
        /\ y.failed = modelRuns[r].failed /\ y.skipped = modelRuns[r].skipped
    BY <2>1, <2>3 DEF RunRecs
  <2> HIDE DEF y
  <2>6. /\ RowsOK' /\ Len(modelRuns') = Len(modelRuns) /\ modelRuns'[r] = y
        /\ \A k \in 1 .. Len(modelRuns) : k # r => modelRuns'[k] = modelRuns[k]
    BY <2>4, <2>5, PutRow
  <2> QED BY <1>2, <2>3, <2>5, <2>6
<1> QED
  BY <1>1, <1>2

\* A run writes the result of its current model.
LEMMA SettleRows ==
    ASSUME RowInv, LockInv, JobsOK, BoundOK, Build!Next, Build!Present' = Build!Present,
           NEW j \in Build!Jobs, job[j].at \in Executing, job[j].next \in 1 .. Len(job[j].order),
           Turned(j, job'[j]), job'[j].at \in Executing,
           job'[j].run = job[j].run, job'[j].order = job[j].order,
           NEW s \in Build!Statuses, Build!SetResult(j, Build!Current(j), s),
           \/ s = "running" /\ job'[j].next = job[j].next
           \/ s \notin {"pending", "running"} /\ job'[j].next = job[j].next + 1
    PROVE  RowInv'
<1> DEFINE x == job[j]
           m == x.order[x.next]
           r == x.run
<1>1. job[j].at \in {"create"} \cup Executing /\ job[j].at \in Inside /\ Build!Current(j) = m
  BY DEF Inside, Build!Current
<1>2. /\ x.order \in Seq(Build!Ids) /\ Distinct(x.order) /\ Len(x.order) \in Nat
  BY <1>1, AtWorkJob
<1>3. /\ Past(x.order, x.next + 1) = Past(x.order, x.next) \cup {m}
      /\ m \notin Past(x.order, x.next) /\ m \in Build!Ids /\ m \in Elems(x.order)
  BY <1>2, PastGrows DEF Elems
<1>4. OwnsRow(x) /\ RowsOK
  BY DEF RowInv
<1>5. r \in 1 .. Len(modelRuns) /\ job[j].run \in 1 .. Len(modelRuns)
  BY <1>4 DEF OwnsRow
<1>6. /\ RowsOK' /\ Len(modelRuns') = Len(modelRuns)
      /\ \A k \in 1 .. Len(modelRuns) : k # r => modelRuns'[k] = modelRuns[k]
      /\ modelRuns'[r].status = modelRuns[r].status /\ modelRuns'[r].total = modelRuns[r].total
      /\ \A k \in Build!Ids : modelRuns'[r].results[k] =
            IF k = m /\ m \in Build!Present THEN s ELSE modelRuns[r].results[k]
  <2>1. Build!SetResult(j, m, s)
    BY <1>1
  <2> HIDE DEF m
  <2> QED BY <1>3, <1>4, <1>5, <2>1, SetResultRow
<1>7. \A k \in Build!Jobs : k # j => job'[k] = job[k] /\ job'[k].at \notin Executing
  BY <1>1 DEF Inside, LockInv, Turned
<1>8. modelRuns[r].status = "running" /\ modelRuns[r].total = Len(x.order)
  BY <1>4 DEF OwnsRow
<1>9. OwnsRow(job[j])'
  <2>1. ASSUME NEW k \in Build!Ids, modelRuns'[r].results[k] \in {"pending", "running"}
        PROVE  k \in Elems(x.order) \ Past(x.order, job'[j].next)
    <3>1. CASE k = m /\ m \in Build!Present
      BY <1>6, <2>1, <3>1, <1>3
    <3>2. CASE ~(k = m /\ m \in Build!Present)
      <4>1. modelRuns[r].results[k] \in {"pending", "running"}
        BY <1>6, <2>1, <3>2
      <4>2. k \in Elems(x.order) \ Past(x.order, x.next)
        BY <1>4, <4>1 DEF OwnsRow
      <4>3. k \in Build!Present
        BY <1>5, <4>1 DEF RowInv
      <4>4. k # m
        BY <3>2, <4>3
      <4> QED BY <1>3, <4>2, <4>4
    <3> QED BY <3>1, <3>2
  <2> HIDE DEF x, r
  <2>2. job'[j].run = r /\ job'[j].order = x.order
    BY DEF x, r
  <2> QED BY <1>5, <1>6, <1>8, <2>1, <2>2 DEF OwnsRow
<1>10. \A k \in Build!Jobs : OwnsRow(job[k])'
  BY <1>7, <1>9 DEF OwnsRow
<1>11. bound'.crashes = 0 =>
         \A k \in 1 .. Len(modelRuns') : modelRuns'[k].status = "running" =>
            \E i \in Build!Jobs : job'[i].at \in Executing /\ job'[i].run = k
  <2> SUFFICES ASSUME bound'.crashes = 0, NEW k \in 1 .. Len(modelRuns'), modelRuns'[k].status = "running"
               PROVE  \E i \in Build!Jobs : job'[i].at \in Executing /\ job'[i].run = k
    OBVIOUS
  <2>1. bound.crashes = 0 /\ k \in 1 .. Len(modelRuns) /\ modelRuns[k].status = "running"
    BY <1>6, <1>8, BoundStep
  <2>2. PICK i \in Build!Jobs : job[i].at \in Executing /\ job[i].run = k
    BY <2>1 DEF RowInv
  <2> QED BY <1>7, <2>2 DEF Turned
<1>12. \A k \in 1 .. Len(modelRuns') :
         /\ \A i \in Build!Ids \ Build!Present' : modelRuns'[k].results[i] = "none"
         /\ Outcome(modelRuns'[k])
  <2> SUFFICES ASSUME NEW k \in 1 .. Len(modelRuns)
               PROVE  /\ \A i \in Build!Ids \ Build!Present : modelRuns'[k].results[i] = "none"
                      /\ Outcome(modelRuns'[k])
    BY <1>6
  <2>1. CASE k # r
    BY <1>6, <2>1 DEF RowInv
  <2>2. CASE k = r
    <3>1. Outcome(modelRuns'[k])
      BY <1>6, <1>8, <2>2 DEF Outcome
    <3>2. \A i \in Build!Ids \ Build!Present : modelRuns[r].results[i] = "none"
      BY <1>5 DEF RowInv
    <3> QED BY <1>6, <2>2, <3>1, <3>2
  <2> QED BY <2>1, <2>2
<1> QED
  BY <1>6, <1>10, <1>11, <1>12 DEF RowInv

LEMMA CreateRows ==
    ASSUME RowInv, LockInv, JobsOK, BoundOK, Build!Next, NEW j \in Build!Jobs, Build!CreateRun(j)
    PROVE  RowInv'
<1> DEFINE x == job[j]
           n == Len(modelRuns)
           w == [status |-> "running", total |-> Len(x.order), succeeded |-> 0, failed |-> 0,
                 skipped |-> 0,
                 results |-> [m \in Build!Ids |-> IF m \in Build!InOrder(j) \cap Build!Present
                                                  THEN "pending" ELSE "none"]]
<1>1. x.at = "create" /\ job[j].at \in {"create"} \cup Executing /\ job[j].at \in Inside
  BY DEF Build!CreateRun, Build!At, Inside
<1>2. /\ x.order \in Seq(Build!Ids) /\ Len(x.order) \in Nat /\ JobOK(x)
      /\ DOMAIN x.order = 1 .. Len(x.order)
  BY <1>1, AtWorkJob
<1>3. RowsOK /\ n \in Nat /\ modelRuns' = Append(modelRuns, w)
  BY DEF RowInv, RowsOK, Build!CreateRun
<1>4. /\ w \in RunRecs /\ w.status = "running" /\ w.total = Len(x.order)
      /\ w.results = [m \in Build!Ids |-> IF m \in Build!InOrder(j) \cap Build!Present
                                          THEN "pending" ELSE "none"]
  BY <1>2 DEF RunRecs, Build!Statuses
<1> HIDE DEF w
<1>5. /\ RowsOK' /\ Len(modelRuns') = n + 1 /\ modelRuns'[n + 1] = w
      /\ \A k \in 1 .. n : modelRuns'[k] = modelRuns[k]
  BY <1>3, <1>4 DEF RowsOK
<1>6. /\ Turned(j, job'[j]) /\ job'[j].at = "model" /\ job'[j].run = n + 1
      /\ job'[j].order = x.order /\ job'[j].next = 1
  BY <1>1, <1>2, <1>3, CreateWorks DEF JobOK, Works, Fields
<1>7. \A k \in Build!Jobs : job[k].at \notin Executing
  BY <1>1 DEF Inside, LockInv, Executing
<1>8. \A k \in Build!Jobs : k # j => job'[k].at \notin Executing
  BY <1>6, <1>7 DEF Turned
<1>9. OwnsRow(job[j])'
  <2>1. Past(x.order, 1) = {}
    BY <1>2, PastBounds
  <2>2. Build!InOrder(j) = Elems(x.order)
    BY <1>2 DEF Build!InOrder, Elems
  <2>3. \A m \in Build!Ids : w.results[m] \in {"pending", "running"} => m \in Elems(x.order)
    BY <1>4, <2>2
  <2>4. n + 1 \in 1 .. Len(modelRuns')
    BY <1>3, <1>5
  <2> HIDE DEF x
  <2> QED BY <1>4, <1>5, <1>6, <2>1, <2>3, <2>4 DEF OwnsRow
<1>10. \A k \in Build!Jobs : OwnsRow(job[k])'
  BY <1>8, <1>9 DEF OwnsRow
<1>11. \A k \in 1 .. Len(modelRuns') : k = n + 1 \/ k \in 1 .. n
  BY <1>3, <1>5
<1>12. bound'.crashes = 0 =>
         \A k \in 1 .. Len(modelRuns') : modelRuns'[k].status = "running" =>
            \E i \in Build!Jobs : job'[i].at \in Executing /\ job'[i].run = k
  <2> SUFFICES ASSUME bound'.crashes = 0, NEW k \in 1 .. Len(modelRuns'), modelRuns'[k].status = "running"
               PROVE  \E i \in Build!Jobs : job'[i].at \in Executing /\ job'[i].run = k
    OBVIOUS
  <2>1. CASE k = n + 1
    BY <1>6, <2>1 DEF Executing
  <2>2. CASE k \in 1 .. n
    BY <1>5, <2>2, BoundStep, <1>7 DEF RowInv
  <2> QED BY <1>11, <2>1, <2>2
<1>13. Build!Present' = Build!Present
  BY DEF Build!CreateRun, Build!Present
<1>14. \A k \in 1 .. Len(modelRuns') :
         /\ \A m \in Build!Ids \ Build!Present' : modelRuns'[k].results[m] = "none"
         /\ Outcome(modelRuns'[k])
  BY <1>4, <1>5, <1>11, <1>13 DEF Outcome, RowInv
<1> QED
  BY <1>5, <1>10, <1>12, <1>14 DEF RowInv

LEMMA DisjointSum ==
    ASSUME NEW S, NEW T, IsFiniteSet(S), IsFiniteSet(T), S \cap T = {}
    PROVE  IsFiniteSet(S \cup T) /\ Cardinality(S \cup T) = Cardinality(S) + Cardinality(T)
<1>1. /\ IsFiniteSet(S \cup T)
      /\ Cardinality(S \cup T) = Cardinality(S) + Cardinality(T) - Cardinality(S \cap T)
  BY ONLY IsFiniteSet(S), IsFiniteSet(T), FS_Union
<1>2. Cardinality(S \cap T) = 0
  BY FS_EmptySet
<1>3. Cardinality(S) \in Nat /\ Cardinality(T) \in Nat
  BY FS_CardinalityType
<1> QED BY <1>1, <1>2, <1>3

\* A run that is over has accounted for every model of its order.
LEMMA AllAccounted ==
    ASSUME Build!ModelAssumption, NEW x \in JobRecs, Sound(x.order, x.deps), Accounted(x),
           x.next = Len(x.order) + 1
    PROVE  /\ Cardinality(x.built) \in Nat /\ Cardinality(x.failed) \in Nat /\ Cardinality(x.skipped) \in Nat
           /\ Cardinality(x.built) + Cardinality(x.failed) + Cardinality(x.skipped) = Len(x.order)
           /\ Cardinality(x.built) = 0 <=> x.built = {}
           /\ Cardinality(x.failed) = 0 <=> x.failed = {}
           /\ Cardinality(x.skipped) = 0 <=> x.skipped = {}
           /\ Past(x.order, x.next) = Elems(x.order)
<1> DEFINE B == x.built
           F == x.failed
           K == x.skipped
<1>1. /\ B \in SUBSET Build!Ids /\ F \in SUBSET Build!Ids /\ K \in SUBSET Build!Ids
      /\ x.order \in Seq(Build!Ids) /\ Distinct(x.order)
  BY DEF JobRecs, Sound
<1>2. IsFiniteSet(B) /\ IsFiniteSet(F) /\ IsFiniteSet(K)
  BY <1>1, ModelsListed, FS_Subset
<1>3. Past(x.order, x.next) = Elems(x.order)
  BY <1>1, PastBounds
<1>4. /\ (B \cup F) \cup K = Elems(x.order)
      /\ B \cap F = {} /\ (B \cup F) \cap K = {}
  BY <1>3 DEF Accounted
<1>5. Cardinality(Elems(x.order)) = Len(x.order)
  BY <1>1, DistinctLen
<1> HIDE DEF B, F, K
<1>6. /\ Cardinality(B) \in Nat /\ Cardinality(F) \in Nat /\ Cardinality(K) \in Nat
      /\ Cardinality({}) = 0
  BY <1>2, FS_CardinalityType, FS_EmptySet
<1>7. /\ IsFiniteSet(B \cup F) /\ Cardinality(B \cup F) = Cardinality(B) + Cardinality(F)
  BY <1>2, <1>4, <1>6, DisjointSum
<1>8. Cardinality((B \cup F) \cup K) = Cardinality(B) + Cardinality(F) + Cardinality(K)
  <2> DEFINE U == B \cup F
  <2>1. IsFiniteSet(U) /\ U \cap K = {} /\ Cardinality(U) = Cardinality(B) + Cardinality(F)
    BY <1>4, <1>7
  <2> HIDE DEF U
  <2>2. Cardinality(U \cup K) = Cardinality(U) + Cardinality(K)
    BY <1>2, <2>1, DisjointSum
  <2> QED BY <2>1, <2>2 DEF U
<1>9. /\ Cardinality(B) = 0 <=> B = {}
      /\ Cardinality(F) = 0 <=> F = {}
      /\ Cardinality(K) = 0 <=> K = {}
  BY <1>2, FS_EmptySet
<1> QED
  BY <1>3, <1>4, <1>5, <1>6, <1>8, <1>9 DEF B, F, K

LEMMA FinalRow ==
    ASSUME Build!ModelAssumption, JobsOK, RowInv, NEW j \in Build!Jobs, Build!Finalize(j)
    PROVE  LET x == job[j] IN
           /\ x.run \in 1 .. Len(modelRuns) /\ RowsOK' /\ Len(modelRuns') = Len(modelRuns)
           /\ \A k \in 1 .. Len(modelRuns) : k # x.run => modelRuns'[k] = modelRuns[k]
           /\ modelRuns'[x.run].status # "running" /\ Outcome(modelRuns'[x.run])
           /\ modelRuns'[x.run].results = modelRuns[x.run].results
<1> DEFINE x == job[j]
           r == x.run
           b == Cardinality(x.built)
           f == Cardinality(x.failed)
           k == Cardinality(x.skipped)
           s == Build!RunStatus(j)
           y == [modelRuns[r] EXCEPT !.status = s, !.succeeded = b, !.failed = f, !.skipped = k]
<1>1. x.at = "model" /\ job[j].at \in {"create"} \cup Executing /\ x.at \in Executing
  BY DEF Build!Finalize, Build!At, Executing
<1>2. /\ x \in JobRecs /\ JobOK(x) /\ Sound(x.order, x.deps) /\ Len(x.order) \in Nat
      /\ Accounted(x)
  BY <1>1, AtWorkJob DEF JobOK
<1>3. x.next = Len(x.order) + 1
  BY <1>2 DEF Accounted, Build!Finalize, Build!More
<1>4. /\ b \in Nat /\ f \in Nat /\ k \in Nat /\ b + f + k = Len(x.order)
      /\ (b = 0 <=> x.built = {}) /\ (f = 0 <=> x.failed = {}) /\ (k = 0 <=> x.skipped = {})
      /\ Past(x.order, x.next) = Elems(x.order)
  BY <1>2, <1>3, AllAccounted
<1>5. x.skipped # {} => x.failed # {}
  BY <1>2 DEF Accounted
<1>6. OwnsRow(x) /\ RowsOK
  BY DEF RowInv
<1>7. /\ r \in 1 .. Len(modelRuns) /\ modelRuns[r] \in RunRecs /\ modelRuns[r].total = Len(x.order)
      /\ \A m \in Build!Ids : modelRuns[r].results[m] \notin {"pending", "running"}
      /\ modelRuns[r].results \in [Build!Ids -> Build!Statuses]
  <2>1. r \in 1 .. Len(modelRuns) /\ modelRuns[r].total = Len(x.order)
    BY <1>1, <1>6 DEF OwnsRow
  <2>2. modelRuns[r] \in RunRecs
    BY <1>6, <2>1 DEF RowsOK
  <2>3. \A m \in Build!Ids : modelRuns[r].results[m] \notin {"pending", "running"}
    BY <1>1, <1>4, <1>6 DEF OwnsRow
  <2> QED BY <2>1, <2>2, <2>3 DEF RunRecs
<1>8. s = IF x.failed # {} /\ x.built # {} THEN "partial"
          ELSE IF x.failed # {} \/ k = Len(x.order) THEN "error" ELSE "success"
  BY SameCardinality DEF Build!RunStatus
<1> HIDE DEF s, b, f, k
<1>9. /\ s \in {"success", "partial", "error"}
      /\ s = IF b = 0 THEN "error" ELSE IF b = Len(x.order) THEN "success" ELSE "partial"
  <2> HIDE DEF x
  <2> QED BY <1>2, <1>4, <1>5, <1>8
<1>10. /\ y \in RunRecs /\ y.status = s /\ y.succeeded = b /\ y.failed = f /\ y.skipped = k
       /\ y.total = Len(x.order) /\ y.results = modelRuns[r].results
  <2> HIDE DEF x, r
  <2> QED BY <1>4, <1>7, <1>9 DEF RunRecs
<1>11. modelRuns' = [modelRuns EXCEPT ![r] = y]
  BY SameCardinality, <1>6 DEF Build!Finalize, b, f, k, s
<1> HIDE DEF y
<1>12. /\ RowsOK' /\ Len(modelRuns') = Len(modelRuns) /\ modelRuns'[r] = y
       /\ \A i \in 1 .. Len(modelRuns) : i # r => modelRuns'[i] = modelRuns[i]
  <2> HIDE DEF r
  <2> QED BY <1>6, <1>7, <1>10, <1>11, PutRow
<1>13. Outcome(y)
  <2>1. \A m \in Build!Ids : y.results[m] \in {"none", "success", "error", "skipped"}
    BY <1>7, <1>10 DEF Build!Statuses
  <2>2. y.succeeded + y.failed + y.skipped = y.total
    BY <1>4, <1>10
  <2> HIDE DEF x
  <2> QED BY <1>9, <1>10, <2>1, <2>2 DEF Outcome
<1>14. y.status # "running"
  BY <1>9, <1>10
<1> QED
  BY <1>7, <1>10, <1>12, <1>13, <1>14

LEMMA FinalizeRows ==
    ASSUME Build!ModelAssumption, RowInv, LockInv, JobsOK, BoundOK, Build!Next,
           NEW j \in Build!Jobs, Build!Finalize(j)
    PROVE  RowInv'
<1> DEFINE r == job[j].run
<1>1. /\ r \in 1 .. Len(modelRuns) /\ RowsOK' /\ Len(modelRuns') = Len(modelRuns)
      /\ \A k \in 1 .. Len(modelRuns) : k # r => modelRuns'[k] = modelRuns[k]
      /\ modelRuns'[r].status # "running" /\ Outcome(modelRuns'[r])
      /\ modelRuns'[r].results = modelRuns[r].results
  BY FinalRow
<1>2. job[j].at \in Inside /\ Turned(j, job'[j]) /\ job'[j].at \notin Executing
  BY FinalizeTurns DEF GoesOn, Leaves, Inside
<1>3. \A k \in Build!Jobs : k # j => job[k].at \notin Executing /\ job'[k].at \notin Executing
  BY <1>2 DEF Inside, LockInv, Turned
<1>4. \A k \in Build!Jobs : OwnsRow(job[k])'
  BY <1>2, <1>3 DEF OwnsRow
<1>5. bound'.crashes = 0 =>
         \A k \in 1 .. Len(modelRuns') : modelRuns'[k].status = "running" =>
            \E i \in Build!Jobs : job'[i].at \in Executing /\ job'[i].run = k
  <2> SUFFICES ASSUME bound'.crashes = 0, NEW k \in 1 .. Len(modelRuns), modelRuns'[k].status = "running"
               PROVE  FALSE
    BY <1>1
  <2>1. k # r /\ bound.crashes = 0 /\ modelRuns[k].status = "running"
    BY <1>1, BoundStep
  <2>2. PICK i \in Build!Jobs : job[i].at \in Executing /\ job[i].run = k
    BY <2>1 DEF RowInv
  <2> QED BY <1>3, <2>1, <2>2
<1>6. Build!Present' = Build!Present
  BY DEF Build!Finalize, Build!Present
<1>7. \A k \in 1 .. Len(modelRuns') :
         /\ \A m \in Build!Ids \ Build!Present' : modelRuns'[k].results[m] = "none"
         /\ Outcome(modelRuns'[k])
  <2> SUFFICES ASSUME NEW k \in 1 .. Len(modelRuns)
               PROVE  /\ \A m \in Build!Ids \ Build!Present : modelRuns'[k].results[m] = "none"
                      /\ Outcome(modelRuns'[k])
    BY <1>1, <1>6
  <2>1. CASE k = r
    BY <1>1, <2>1 DEF RowInv
  <2>2. CASE k # r
    BY <1>1, <2>2 DEF RowInv
  <2> QED BY <2>1, <2>2
<1> QED
  BY <1>1, <1>4, <1>5, <1>7 DEF RowInv

LEMMA DeleteRows ==
    ASSUME RowInv, ModelRows, BoundOK, Build!Next, NEW m \in Build!Ids, Build!DeleteModel(m)
    PROVE  RowInv'
<1>1. RowsOK /\ Len(modelRuns) \in Nat /\ DOMAIN modelRuns = 1 .. Len(modelRuns)
  BY DEF RowInv, RowsOK
<1>2. modelRuns' = [r \in 1 .. Len(modelRuns) |-> [modelRuns[r] EXCEPT !.results[m] = "none"]]
  BY <1>1 DEF Build!DeleteModel
<1>3. ASSUME NEW r \in 1 .. Len(modelRuns)
      PROVE  LET y == modelRuns'[r] IN
             /\ y \in RunRecs /\ y.status = modelRuns[r].status /\ y.total = modelRuns[r].total
             /\ y.succeeded = modelRuns[r].succeeded /\ y.failed = modelRuns[r].failed
             /\ y.skipped = modelRuns[r].skipped
             /\ \A k \in Build!Ids : y.results[k] = IF k = m THEN "none" ELSE modelRuns[r].results[k]
  <2> DEFINE w == modelRuns[r]
             z == [w.results EXCEPT ![m] = "none"]
  <2>1. w \in RunRecs
    BY <1>1 DEF RowsOK
  <2>0. w.results \in [Build!Ids -> Build!Statuses]
    BY <2>1 DEF RunRecs
  <2>2. modelRuns'[r] = [w EXCEPT !.results = z]
    BY <1>2, <2>1 DEF RunRecs
  <2>3. /\ z \in [Build!Ids -> Build!Statuses]
        /\ \A k \in Build!Ids : z[k] = IF k = m THEN "none" ELSE w.results[k]
    BY <2>0 DEF Build!Statuses
  <2> HIDE DEF w, z
  <2>4. LET y == [w EXCEPT !.results = z] IN
        /\ y \in RunRecs /\ y.status = w.status /\ y.total = w.total
        /\ y.succeeded = w.succeeded /\ y.failed = w.failed /\ y.skipped = w.skipped
        /\ y.results = z
    BY <2>1, <2>3 DEF RunRecs
  <2> QED BY <2>2, <2>3, <2>4 DEF w
<1>4. Len(modelRuns') = Len(modelRuns) /\ RowsOK'
  <2>1. modelRuns' \in Seq(RunRecs)
    <3> DEFINE n == Len(modelRuns)
    <3>1. modelRuns' = [r \in 1 .. n |-> modelRuns'[r]] /\ n \in Nat
      BY <1>1, <1>2
    <3>2. \A r \in 1 .. n : modelRuns'[r] \in RunRecs
      BY <1>3
    <3> HIDE DEF n
    <3>3. modelRuns' \in [1 .. n -> RunRecs]
      BY <3>1, <3>2
    <3> QED BY <3>1, <3>3, SeqDef
  <2> QED BY <1>1, <1>2, <2>1 DEF RowsOK
<1>5. job' = job /\ Build!Present' = Build!Present \ {m}
  BY DeleteModelType DEF Build!DeleteModel
<1>6. \A j \in Build!Jobs : OwnsRow(job[j])'
  <2> SUFFICES ASSUME NEW j \in Build!Jobs, job[j].at \in Executing
               PROVE  OwnsRow(job[j])'
    BY <1>5 DEF OwnsRow
  <2>1. OwnsRow(job[j])
    BY DEF RowInv
  <2> QED BY <1>3, <1>4, <1>5, <2>1 DEF OwnsRow
<1>7. bound'.crashes = 0 =>
         \A k \in 1 .. Len(modelRuns') : modelRuns'[k].status = "running" =>
            \E i \in Build!Jobs : job'[i].at \in Executing /\ job'[i].run = k
  BY <1>3, <1>4, <1>5, BoundStep DEF RowInv
<1>8. \A k \in 1 .. Len(modelRuns') :
         /\ \A i \in Build!Ids \ Build!Present' : modelRuns'[k].results[i] = "none"
         /\ Outcome(modelRuns'[k])
  <2> SUFFICES ASSUME NEW k \in 1 .. Len(modelRuns)
               PROVE  /\ \A i \in Build!Ids \ Build!Present' : modelRuns'[k].results[i] = "none"
                      /\ Outcome(modelRuns'[k])
    BY <1>4
  <2>1. /\ \A i \in Build!Ids \ Build!Present : modelRuns[k].results[i] = "none"
        /\ Outcome(modelRuns[k])
    BY DEF RowInv
  <2>2. \A i \in Build!Ids \ Build!Present' : modelRuns'[k].results[i] = "none"
    BY <1>3, <1>5, <2>1
  <2>3. Outcome(modelRuns'[k])
    BY <1>3, <2>1 DEF Outcome
  <2> QED BY <2>2, <2>3
<1> QED
  BY <1>4, <1>6, <1>7, <1>8 DEF RowInv

\* Steps of a run that is not within execute.
LEMMA QuietRows ==
    ASSUME RowInv, BoundOK, Build!Next, modelRuns' = modelRuns, Build!Present' = Build!Present,
           NEW j \in Build!Jobs, GoesOn(j), job[j].at \notin Executing, job'[j].at \notin Executing
    PROVE  RowInv'
BY RowsStay DEF GoesOn, Turned

\* Steps that are none of a run.
LEMMA StillRows ==
    ASSUME RowInv, BoundOK, Build!Next, modelRuns' = modelRuns, Build!Present' = Build!Present,
           job' = job
    PROVE  RowInv'
  BY RowsStay

LEMMA ExecuteRows ==
    ASSUME Build!ModelAssumption, ModelRows, RowInv, LockInv, JobsOK, BoundOK, Build!Next,
           NEW j \in Build!Jobs, Build!Execute(j)
    PROVE  RowInv'
<1>0. RowsOK /\ GoesOn(j)
  BY ExecuteGoesOn DEF RowInv
<1>1. CASE Build!Load(j)
  BY <1>1, LoadTurns, <1>0, QuietRows DEF Build!Load, Build!Present, Build!At, Executing
<1>2. CASE Build!CreateRun(j)
  BY <1>2, CreateRows
<1>3. CASE Build!Skip(j)
  <2> DEFINE x == job[j]
             s == "skipped"
  <2>1. /\ Settles(Build!Current(j), "error") /\ job[j].next \in 1 .. Len(job[j].order)
    BY <1>3, SkipSettles
  <2>2. Build!Present' = Build!Present
    BY <2>1, SetStatusType DEF Settles
  <2>3. Works(j, "model", x.next + 1, x.run, x.built, x.failed,
              x.skipped \cup {x.order[x.next]}, x.stmt, x.ok)
    BY <1>3, SkipWorks
  <2>4. /\ Turned(j, job'[j]) /\ job'[j].at \in Executing
        /\ job'[j].run = job[j].run /\ job'[j].order = job[j].order /\ job'[j].next = job[j].next + 1
    BY <2>3 DEF Works, Fields, Executing
  <2>5. /\ job[j].at \in Executing /\ Build!SetResult(j, Build!Current(j), s)
        /\ s \in Build!Statuses /\ s \notin {"pending", "running"}
    BY <1>3 DEF Build!Skip, Build!At, Executing, Build!Statuses
  <2> HIDE DEF s
  <2> QED BY <2>1, <2>2, <2>4, <2>5, SettleRows
<1>4. CASE Build!Start(j)
  <2> DEFINE x == job[j]
             s == "running"
  <2>1. Build!Present' = Build!Present
    BY <1>4 DEF Build!Start, Build!Present
  <2>2. Works(j, "exec", x.next, x.run, x.built, x.failed, x.skipped, 1, TRUE)
    BY <1>4, StartWorks
  <2>3. /\ Turned(j, job'[j]) /\ job'[j].at \in Executing
        /\ job'[j].run = job[j].run /\ job'[j].order = job[j].order /\ job'[j].next = job[j].next
    BY <2>2 DEF Works, Fields, Executing
  <2>4. /\ job[j].at \in Executing /\ Build!SetResult(j, Build!Current(j), s)
        /\ s \in Build!Statuses /\ s = "running" /\ job[j].at \in {"create"} \cup Executing
    BY <1>4 DEF Build!Start, Build!At, Executing, Build!Statuses
  <2>5. job[j].next \in 1 .. Len(job[j].order)
    <3>1. JobOK(job[j]) /\ Len(job[j].order) \in Nat
      BY <2>4, AtWorkJob
    <3>2. job[j].next \in 1 .. (Len(job[j].order) + 1) /\ job[j].next <= Len(job[j].order)
      BY <1>4, <2>4, <3>1 DEF JobOK, Accounted, Build!Start, Build!More
    <3> QED BY <3>1, <3>2
  <2> HIDE DEF s
  <2> QED BY <2>1, <2>3, <2>4, <2>5, SettleRows
<1>5. CASE Build!Executes(j) \/ Build!ExecuteFails(j) \/ Build!ExecuteTimesOut(j)
  <2>1. modelRuns' = modelRuns /\ Build!Present' = Build!Present /\ job[j].at \in Executing
    BY <1>5 DEF Build!Executes, Build!ExecuteFails, Build!ExecuteTimesOut, Build!Present, Build!At, Executing
  <2>2. /\ Turned(j, job'[j]) /\ job'[j].at \in Executing
        /\ job'[j].run = job[j].run /\ job'[j].order = job[j].order /\ job'[j].next = job[j].next
    BY <1>5, ExecWorks DEF Works, Fields, Executing
  <2> QED BY <2>1, <2>2, RowsStay DEF Turned
<1>6. CASE Build!Result(j)
  <2> DEFINE x == job[j]
             s == IF x.ok THEN "success" ELSE "error"
  <2>1. Settles(Build!Current(j), s)
    BY <1>6, ResultSettles
  <2>2. Build!Present' = Build!Present
    BY <2>1, SetStatusType DEF Settles
  <2>3. /\ Turned(j, job'[j]) /\ job'[j].at \in Executing
        /\ job'[j].run = job[j].run /\ job'[j].order = job[j].order /\ job'[j].next = job[j].next + 1
    BY <1>6, ResultWorks DEF Works, Fields, Executing
  <2>4. /\ job[j].at \in Executing /\ Build!SetResult(j, Build!Current(j), s)
        /\ s \in Build!Statuses /\ s \notin {"pending", "running"} /\ job[j].at \in {"exec", "result"}
    BY <1>6 DEF Build!Result, Build!At, Executing, Build!Statuses
  <2>5. job[j].next \in 1 .. Len(job[j].order)
    BY <2>4, AtModel
  <2> HIDE DEF s
  <2> QED BY <2>2, <2>3, <2>4, <2>5, SettleRows
<1>7. CASE Build!Finalize(j)
  BY <1>7, FinalizeRows
<1> QED
  BY <1>1, <1>2, <1>3, <1>4, <1>5, <1>6, <1>7 DEF Build!Execute

LEMMA RowsStep ==
    ASSUME Build!ModelAssumption, ModelRows, RowInv, LockInv, JobsOK, BoundOK, Build!Next
    PROVE  RowInv'
<1>1. ASSUME NEW j \in bound.of.requests, Build!Request(j) PROVE RowInv'
  BY <1>1, RequestGoesOn, QuietRows DEF Build!Request, Build!Present, Build!At, Executing
<1>2. ASSUME NEW j \in Build!Jobs, Build!Execute(j) PROVE RowInv'
  BY <1>2, ExecuteRows
<1>3. CASE Build!ReadDue
  BY <1>3, StillRows DEF Build!ReadDue, Build!Present
<1>4. CASE Build!UpdateSchedule
  BY <1>4, StatusTurns, QuietRows DEF Build!UpdateSchedule, Build!Present, Build!At, Executing
<1>5. ASSUME NEW m \in Build!Ids, Build!RunDue(m) PROVE RowInv'
  BY <1>5, DueGoesOn, QuietRows DEF Build!RunDue, Build!Present, Build!At, Executing
<1>6. ASSUME NEW x \in lateStatements, Build!LateStatement(x) PROVE RowInv'
  BY <1>6, StillRows DEF Build!LateStatement, Build!Present
<1>7. ASSUME NEW m \in Build!Ids,
             Build!Elapse(m) \/ Build!UpsertSchedule(m) \/ Build!DeleteSchedule(m)
      PROVE  RowInv'
  BY <1>7, StillRows DEF Build!Elapse, Build!UpsertSchedule, Build!DeleteSchedule, Build!Present
<1>8. ASSUME NEW m \in Build!Ids, Build!UpdateModel(m) PROVE RowInv'
  BY <1>8, UpdateModelType, StillRows DEF Build!UpdateModel
<1>9. ASSUME NEW m \in Build!Ids, Build!DeleteModel(m) PROVE RowInv'
  BY <1>9, DeleteRows
<1>10. CASE Build!Crash
  <2>1. modelRuns' = modelRuns /\ Build!Present' = Build!Present /\ bound'.crashes # 0
    BY <1>10, BoundFields DEF Build!Crash, BoundOK, BoundRecs, Build!Present
  <2>2. \A j \in Build!Jobs : job'[j].at \notin Executing
    BY <1>10, CrashKeeps, IdleJob DEF Executing
  <2>3. RowsOK'
    BY <2>1 DEF RowInv, RowsOK
  <2>4. \A j \in Build!Jobs : OwnsRow(job[j])'
    BY <2>2 DEF OwnsRow
  <2> QED BY <2>1, <2>3, <2>4 DEF RowInv, Outcome
<1> QED
  BY <1>1, <1>2, <1>3, <1>4, <1>5, <1>6, <1>7, <1>8, <1>9, <1>10 DEF Build!Next, Build!Schedule

LEMMA JobsStep ==
    ASSUME Build!ModelAssumption, ModelRows, RowsOK, LockInv, JobsOK, BoundOK, Build!Next
    PROVE  JobsOK' /\ LockInv'
<1>1. ASSUME NEW j \in bound.of.requests, Build!Request(j) PROVE JobsOK' /\ LockInv'
  BY <1>1, RequestGoesOn, GoesOnKeeps
<1>2. ASSUME NEW j \in Build!Jobs, Build!Execute(j) PROVE JobsOK' /\ LockInv'
  BY <1>2, ExecuteGoesOn, GoesOnKeeps
<1>3. CASE Build!ReadDue
  BY <1>3, StillKeeps DEF Build!ReadDue
<1>4. CASE Build!UpdateSchedule
  BY <1>4, StatusTurns, GoesOnKeeps
<1>5. ASSUME NEW m \in Build!Ids, Build!RunDue(m) PROVE JobsOK' /\ LockInv'
  BY <1>5, DueGoesOn, GoesOnKeeps
<1>6. ASSUME NEW x \in lateStatements, Build!LateStatement(x) PROVE JobsOK' /\ LockInv'
  BY <1>6, StillKeeps DEF Build!LateStatement
<1>7. ASSUME NEW m \in Build!Ids,
             \/ Build!Elapse(m) \/ Build!UpsertSchedule(m) \/ Build!DeleteSchedule(m)
             \/ Build!UpdateModel(m) \/ Build!DeleteModel(m)
      PROVE  JobsOK' /\ LockInv'
  BY <1>7, StillKeeps DEF Build!Elapse, Build!UpsertSchedule, Build!DeleteSchedule,
     Build!UpdateModel, Build!DeleteModel
<1>8. CASE Build!Crash
  BY <1>8, CrashKeeps
<1> QED
  BY <1>1, <1>2, <1>3, <1>4, <1>5, <1>6, <1>7, <1>8 DEF Build!Next, Build!Schedule

-----------------------------------------------------------------------------
(* What is in ClickHouse. *)

AtStatement == {"exec", "result"}

\* What a run builds now.
Here(j) == Build!Target(j, Build!Current(j))

\* While no statement was given up on: a model that was executed without an error
\* exists, and so does, but for restarts, each model that says success and is not
\* being replaced.
ExistInv ==
    bound.late = 0 =>
       /\ lateStatements = {}
       /\ \A j \in Build!Jobs : job[j].at = "result" /\ job[j].ok => Here(j) \in target
       /\ bound.crashes = 0 =>
             \A m \in Build!Present : models[m].status = "success" =>
                \/ Build!Built(m)
                \/ \E j \in Build!Jobs : job[j].at \in AtStatement /\ Build!Current(j) = m

LEMMA SuccessHolds == ASSUME ExistInv PROVE Build!SuccessExists
  BY DEF ExistInv, Build!SuccessExists, AtStatement

LEMMA AtStatementAlone ==
    ASSUME LockInv, NEW j \in Build!Jobs, job[j].at \in Executing, NEW k \in Build!Jobs, k # j
    PROVE  job[k].at \notin AtStatement
  BY DEF LockInv, Inside, Executing, AtStatement

\* Steps that execute nothing and set no status to success.
LEMMA ExistStays ==
    ASSUME ExistInv, BoundOK, Build!Next, lateStatements' = lateStatements, target' = target,
           \A m \in Build!Present' :
              m \in Build!Present /\ (models'[m].status = "success" => models[m].status = "success"),
           \A j \in Build!Jobs :
              /\ job[j].at \in AtStatement => job'[j] = job[j]
              /\ job'[j].at = "result" => job'[j] = job[j]
    PROVE  ExistInv'
<1> SUFFICES ASSUME bound'.late = 0
             PROVE  /\ lateStatements' = {}
                    /\ \A j \in Build!Jobs : job'[j].at = "result" /\ job'[j].ok =>
                          Here(j)' \in target'
                    /\ bound'.crashes = 0 =>
                          \A m \in Build!Present' : models'[m].status = "success" =>
                             \/ Build!Built(m)'
                             \/ \E j \in Build!Jobs : job'[j].at \in AtStatement /\ Build!Current(j)' = m
  BY DEF ExistInv
<1>1. bound.late = 0 /\ (bound'.crashes = 0 => bound.crashes = 0)
  BY BoundStep
<1>2. \A j \in Build!Jobs : job'[j] = job[j] => Build!Current(j)' = Build!Current(j) /\ Here(j)' = Here(j)
  BY DEF Build!Current, Here, Build!Target
<1>3. \A j \in Build!Jobs : job'[j].at = "result" /\ job'[j].ok => Here(j)' \in target'
  BY <1>1, <1>2 DEF ExistInv
<1>4. ASSUME bound'.crashes = 0, NEW m \in Build!Present', models'[m].status = "success"
      PROVE  \/ Build!Built(m)'
             \/ \E j \in Build!Jobs : job'[j].at \in AtStatement /\ Build!Current(j)' = m
  BY <1>4, <1>1, <1>2 DEF ExistInv, Build!Built
<1> QED
  BY <1>1, <1>3, <1>4 DEF ExistInv

\* Steps of a run that is at no statement and goes to none of them.
LEMMA ExistQuiet ==
    ASSUME ExistInv, BoundOK, Build!Next, lateStatements' = lateStatements, target' = target,
           models' = models, NEW j \in Build!Jobs, Turned(j, job'[j]),
           job[j].at \notin AtStatement, job'[j].at # "result"
    PROVE  ExistInv'
BY ExistStays DEF Turned, Build!Present

LEMMA ExecExist ==
    ASSUME ExistInv, LockInv, BoundOK, JobsOK, TablesOK, Build!Next, NEW j \in Build!Jobs,
           Build!Executes(j) \/ Build!ExecuteFails(j) \/ Build!ExecuteTimesOut(j)
    PROVE  ExistInv'
<1> DEFINE m == Build!Current(j)
<1>1. /\ job[j].at = "exec" /\ Turned(j, job'[j]) /\ job'[j].at \in AtStatement
      /\ job'[j].order = job[j].order /\ job'[j].next = job[j].next /\ job'[j].place = job[j].place
      /\ job'[j].at = "result" /\ job'[j].ok => Build!Executes(j) /\ Build!Statement(j).op # "drop"
  BY ExecWorks DEF Works, Fields, AtStatement
<1>2. Build!Current(j)' = m /\ Here(j)' = Here(j) /\ Here(j)[1] = m
  BY <1>1 DEF Build!Current, Here, Build!Target
<1>3. \A k \in Build!Jobs : k # j =>
         job[k].at \notin AtStatement /\ job'[k].at \notin AtStatement
  BY <1>1, AtStatementAlone DEF Executing, Turned
<1>4. Build!Statement(j).model = Here(j) /\ m \in Build!Ids
  BY <1>1, StatementType, AtModel DEF Here, Build!Current
<1>5. CASE Build!ExecuteTimesOut(j)
  BY <1>5, BoundFields DEF Build!ExecuteTimesOut, BoundOK, BoundRecs, ExistInv
<1>6. CASE Build!Executes(j) \/ Build!ExecuteFails(j)
  <2>1. lateStatements' = lateStatements /\ models' = models /\ Build!Present' = Build!Present
    BY <1>6 DEF Build!Executes, Build!ExecuteFails, Build!Present
  <2>2. /\ \A k \in Build!Ids : k # m => (Build!Built(k)' <=> Build!Built(k))
        /\ job'[j].at = "result" /\ job'[j].ok => Here(j) \in target'
    <3>1. CASE Build!Executes(j)
      <4>1. target' = IF Build!Statement(j).op = "drop" THEN target \ {Here(j)}
                      ELSE target \cup {Here(j)}
        BY <1>4, <3>1 DEF Build!Executes, Build!Effect
      <4> HIDE DEF m
      <4> QED BY <1>1, <1>2, <4>1 DEF Build!Built
    <3>2. CASE ~Build!Executes(j)
      BY <1>1, <1>6, <3>2 DEF Build!ExecuteFails, Build!Built
    <3> QED BY <3>1, <3>2
  <2> HIDE DEF m
  <2> SUFFICES ASSUME bound'.late = 0
               PROVE  /\ lateStatements' = {}
                      /\ \A k \in Build!Jobs : job'[k].at = "result" /\ job'[k].ok =>
                            Here(k)' \in target'
                      /\ bound'.crashes = 0 =>
                            \A k \in Build!Present' : models'[k].status = "success" =>
                               \/ Build!Built(k)'
                               \/ \E i \in Build!Jobs : job'[i].at \in AtStatement /\ Build!Current(i)' = k
    BY DEF ExistInv
  <2>3. bound.late = 0 /\ (bound'.crashes = 0 => bound.crashes = 0)
    BY BoundStep
  <2>4. \A k \in Build!Jobs : job'[k].at = "result" => k = j
    BY <1>3 DEF AtStatement
  <2>5. ASSUME bound'.crashes = 0, NEW k \in Build!Present', models'[k].status = "success"
        PROVE  \/ Build!Built(k)'
               \/ \E i \in Build!Jobs : job'[i].at \in AtStatement /\ Build!Current(i)' = k
    <3>1. CASE k = m
      BY <1>1, <1>2, <3>1
    <3>2. CASE k # m
      BY <2>1, <2>3, <2>5, <1>3, <2>2, <3>2 DEF ExistInv, m, Build!Present
    <3> QED BY <3>1, <3>2
  <2> QED BY <1>2, <2>1, <2>2, <2>3, <2>4, <2>5 DEF ExistInv
<1> QED
  BY <1>5, <1>6

LEMMA ResultExist ==
    ASSUME Build!ModelAssumption, ModelRows, ExistInv, LockInv, BoundOK, JobsOK, Build!Next,
           NEW j \in Build!Jobs, Build!Result(j)
    PROVE  ExistInv'
<1> DEFINE m == Build!Current(j)
           s == IF job[j].ok THEN "success" ELSE "error"
<1>1. /\ job[j].at = "result" /\ Turned(j, job'[j]) /\ job'[j].at = "model"
  BY ResultWorks DEF Works, Fields
<1>2. \A k \in Build!Jobs :
         /\ k # j => job[k].at \notin AtStatement /\ job'[k].at \notin AtStatement
         /\ job'[k].at # "result"
  BY <1>1, AtStatementAlone DEF Executing, AtStatement, Turned
<1>3. /\ Build!Present' = Build!Present
      /\ \A k \in Build!Present : models'[k].status = IF k = m THEN s ELSE models[k].status
  <2>1. Settles(m, s)
    BY ResultSettles
  <2> HIDE DEF m, s
  <2> QED BY <2>1, SetStatusType DEF Settles
<1>4. lateStatements' = lateStatements /\ target' = target
  BY DEF Build!Result
<1> SUFFICES ASSUME bound'.late = 0
             PROVE  /\ lateStatements' = {}
                    /\ bound'.crashes = 0 =>
                          \A k \in Build!Present' : models'[k].status = "success" => Build!Built(k)'
  BY <1>2 DEF ExistInv
<1>5. bound.late = 0 /\ (bound'.crashes = 0 => bound.crashes = 0)
  BY BoundStep
<1>6. ASSUME bound'.crashes = 0, NEW k \in Build!Present, models'[k].status = "success"
      PROVE  Build!Built(k)
  <2>1. CASE k = m
    BY <1>3, <1>6, <2>1, <1>1, <1>5 DEF ExistInv, Build!Built, Here, Build!Target
  <2>2. CASE k # m
    BY <1>3, <1>6, <2>2, <1>5, <1>2 DEF ExistInv
  <2> QED BY <2>1, <2>2
<1> QED
  BY <1>3, <1>4, <1>5, <1>6 DEF ExistInv, Build!Built

LEMMA ExecuteExist ==
    ASSUME Build!ModelAssumption, ModelRows, RowsOK, ExistInv, LockInv, BoundOK, JobsOK, TablesOK,
           Build!Next, NEW j \in Build!Jobs, Build!Execute(j)
    PROVE  ExistInv'
<1>0. GoesOn(j) /\ Turned(j, job'[j])
  BY ExecuteGoesOn DEF GoesOn
<1>1. CASE Build!Load(j)
  BY <1>1, LoadTurns, <1>0, ExistQuiet DEF Build!Load, Build!At, AtStatement
<1>2. CASE Build!CreateRun(j)
  BY <1>2, CreateWorks, <1>0, ExistQuiet DEF Build!CreateRun, Build!At, AtStatement, Works, Fields
<1>3. CASE Build!Skip(j)
  <2>1. /\ lateStatements' = lateStatements /\ target' = target /\ job[j].at \notin AtStatement
    BY <1>3 DEF Build!Skip, Build!At, AtStatement
  <2>2. job'[j].at # "result"
    BY <1>3, SkipWorks DEF Works, Fields
  <2>3. /\ Build!Present' = Build!Present
        /\ \A k \in Build!Present : models'[k].status =
              IF k = Build!Current(j) THEN "error" ELSE models[k].status
    BY <1>3, SkipSettles, SetStatusType DEF Settles
  <2>4. \A k \in Build!Jobs : k # j => job'[k] = job[k]
    BY <1>0 DEF Turned
  <2> QED BY <2>1, <2>2, <2>3, <2>4, ExistStays
<1>4. CASE Build!Start(j)
  BY <1>4, StartWorks, <1>0, ExistQuiet DEF Build!Start, Build!At, AtStatement, Works, Fields
<1>5. CASE Build!Executes(j) \/ Build!ExecuteFails(j) \/ Build!ExecuteTimesOut(j)
  BY <1>5, ExecExist
<1>6. CASE Build!Result(j)
  BY <1>6, ResultExist
<1>7. CASE Build!Finalize(j)
  BY <1>7, FinalizeTurns, <1>0, ExistQuiet DEF Build!Finalize, Build!At, AtStatement
<1> QED
  BY <1>1, <1>2, <1>3, <1>4, <1>5, <1>6, <1>7 DEF Build!Execute

LEMMA ExistStep ==
    ASSUME Build!ModelAssumption, ModelRows, RowsOK, ExistInv, LockInv, BoundOK, JobsOK, TablesOK,
           Build!Next
    PROVE  ExistInv'
<1>1. ASSUME NEW j \in bound.of.requests, Build!Request(j) PROVE ExistInv'
  BY <1>1, RequestGoesOn, ExistQuiet DEF Build!Request, Build!At, AtStatement, GoesOn
<1>2. ASSUME NEW j \in Build!Jobs, Build!Execute(j) PROVE ExistInv'
  BY <1>2, ExecuteExist
<1>3. CASE Build!UpdateSchedule
  BY <1>3, StatusTurns, ExistQuiet DEF Build!UpdateSchedule, Build!At, AtStatement, GoesOn
<1>4. ASSUME NEW m \in Build!Ids, Build!RunDue(m) PROVE ExistInv'
  BY <1>4, DueGoesOn, ExistQuiet DEF Build!RunDue, Build!At, AtStatement, GoesOn
<1>5. ASSUME lateStatements' = lateStatements, target' = target, job' = job,
             \A m \in Build!Present' :
                m \in Build!Present /\ (models'[m].status = "success" => models[m].status = "success")
      PROVE  ExistInv'
  BY <1>5, ExistStays
<1>6. CASE Build!ReadDue \/ \E m \in Build!Ids : Build!Elapse(m) \/ Build!UpsertSchedule(m) \/ Build!DeleteSchedule(m)
  BY <1>6, <1>5 DEF Build!ReadDue, Build!Elapse, Build!UpsertSchedule, Build!DeleteSchedule,
     Build!Present
<1>7. ASSUME NEW x \in lateStatements, Build!LateStatement(x) PROVE ExistInv'
  BY <1>7 DEF Build!LateStatement, ExistInv
<1>8. ASSUME NEW m \in Build!Ids, Build!UpdateModel(m) PROVE ExistInv'
  BY <1>8, <1>5, UpdateModelType DEF Build!UpdateModel
<1>9. ASSUME NEW m \in Build!Ids, Build!DeleteModel(m) PROVE ExistInv'
  BY <1>9, <1>5, DeleteModelType DEF Build!DeleteModel
<1>10. CASE Build!Crash
  <2>1. lateStatements' = lateStatements /\ target' = target /\ bound'.crashes # 0
    BY <1>10, BoundFields DEF Build!Crash, BoundOK, BoundRecs
  <2>2. \A j \in Build!Jobs : job'[j].at # "result"
    BY <1>10, CrashKeeps, IdleJob
  <2>3. bound'.late = 0 => bound.late = 0
    BY BoundStep
  <2> QED BY <2>1, <2>2, <2>3 DEF ExistInv
<1> QED
  BY <1>1, <1>2, <1>3, <1>4, <1>6, <1>7, <1>8, <1>9, <1>10 DEF Build!Next, Build!Schedule

-----------------------------------------------------------------------------
(* The model runs: the theorems. *)

BuildIInv ==
    /\ ModelRows /\ BoundOK /\ TablesOK
    /\ JobsOK /\ LockInv /\ RowInv /\ ExistInv

LEMMA BuildInit == ASSUME Build!ModelAssumption, Build!Init PROVE BuildIInv
<1>1. PICK sc \in Scenarios : \E p \in sc.projects :
         /\ models = [m \in Build!Ids |-> IF m \in sc.models
                        THEN [refs |-> p[m].refs, table |-> p[m].table, place |-> 0, status |-> "draft"]
                        ELSE Absent]
         /\ bound = [of |-> [sc EXCEPT !.projects = {}], starts |-> 0, edits |-> 0,
                     faults |-> 0, late |-> 0, crashes |-> 0]
  BY DEF Build!Init
<1>2. PICK p \in sc.projects :
         /\ models = [m \in Build!Ids |-> IF m \in sc.models
                        THEN [refs |-> p[m].refs, table |-> p[m].table, place |-> 0, status |-> "draft"]
                        ELSE Absent]
         /\ bound = [of |-> [sc EXCEPT !.projects = {}], starts |-> 0, edits |-> 0,
                     faults |-> 0, late |-> 0, crashes |-> 0]
  BY <1>1
<1>3. /\ running = FALSE /\ job = [j \in Build!Jobs |-> Build!Idle] /\ modelRuns = <<>>
      /\ target = {} /\ lateStatements = {}
      /\ schedule = [m \in Build!Ids |-> Absent] /\ due = {}
  BY DEF Build!Init
<1>4. /\ sc \in [models : SUBSET Build!Ids, requests : SUBSET Requests,
                 projects : SUBSET [sc.models -> [refs : SUBSET sc.models, table : BOOLEAN]],
                 starts : Nat, edits : Nat, faults : Nat, late : Nat, crashes : Nat]
      /\ Absent \notin Build!Rows
  BY <1>1 DEF Build!ModelAssumption
<1>5. BoundOK
  <2>1. [sc EXCEPT !.projects = {}] \in OfRecs
    BY <1>4 DEF OfRecs
  <2> DEFINE of == [sc EXCEPT !.projects = {}]
  <2> HIDE DEF of
  <2> QED BY <1>2, <2>1 DEF BoundOK, BoundRecs, of
<1>6. ModelRows /\ \A m \in Build!Present : models[m].status = "draft"
  <2>1. p \in [sc.models -> [refs : SUBSET sc.models, table : BOOLEAN]] /\ sc.models \in SUBSET Build!Ids
    BY <1>2, <1>4
  <2>2. ASSUME NEW m \in sc.models
        PROVE  [refs |-> p[m].refs, table |-> p[m].table, place |-> 0, status |-> "draft"] \in Build!Rows
    BY <2>1 DEF Build!Rows
  <2>3. ModelRows
    BY <1>2, <2>2 DEF ModelRows
  <2>4. \A m \in Build!Present : models[m].status = "draft"
    BY <1>2 DEF Build!Present
  <2> QED BY <2>3, <2>4
<1>7. \A j \in Build!Jobs : job[j] = Build!Idle
  BY <1>3
<1>8. Build!Idle.at \notin Inside \cup Executing \cup AtStatement
  BY IdleJob DEF Inside, Executing, AtStatement
<1>9. JobsOK
  BY <1>3, IdleJob, <1>7 DEF JobsOK
<1>10. LockInv
  BY <1>3, <1>7, <1>8 DEF LockInv
<1>11. RowInv
  BY <1>3, <1>7, <1>8 DEF RowInv, RowsOK, OwnsRow
<1>12. ExistInv
  BY <1>3, <1>6, <1>7, IdleJob DEF ExistInv
<1>13. TablesOK
  BY <1>3 DEF TablesOK
<1> QED
  BY <1>5, <1>6, <1>9, <1>10, <1>11, <1>12, <1>13 DEF BuildIInv

LEMMA BuildNext == ASSUME Build!ModelAssumption, BuildIInv, [Build!Next]_Build!vars PROVE BuildIInv'
<1>1. CASE Build!Next
  <2>1. ModelRows /\ BoundOK /\ TablesOK /\ JobsOK /\ LockInv /\ RowInv /\ ExistInv /\ RowsOK
    BY DEF BuildIInv, RowInv
  <2>2. ModelRows' /\ BoundOK' /\ TablesOK'
    BY <1>1, <2>1, ModelsStep, BoundStep, TablesStep
  <2>3. JobsOK' /\ LockInv'
    BY <1>1, <2>1, JobsStep
  <2>4. RowInv'
    BY <1>1, <2>1, RowsStep
  <2>5. ExistInv'
    BY <1>1, <2>1, ExistStep
  <2> QED BY <2>2, <2>3, <2>4, <2>5 DEF BuildIInv
<1>2. CASE UNCHANGED Build!vars
  <2>1. UNCHANGED <<models, running, job, modelRuns, target, lateStatements, schedule, due, bound>>
    BY <1>2 DEF Build!vars
  <2>2. ModelRows' /\ BoundOK' /\ TablesOK'
    BY <2>1 DEF BuildIInv, ModelRows, BoundOK, TablesOK
  <2>3. JobsOK' /\ LockInv'
    BY <2>1, StillKeeps DEF BuildIInv
  <2>4. RowInv'
    BY <2>1 DEF BuildIInv, RowInv, RowsOK, OwnsRow, Outcome, Build!Present
  <2>5. ExistInv'
    BY <2>1 DEF BuildIInv, ExistInv, Build!Present, Build!Current, Build!Built, Here, Build!Target
  <2> QED BY <2>2, <2>3, <2>4, <2>5 DEF BuildIInv
<1> QED
  BY <1>1, <1>2

LEMMA BuildHolds == ASSUME Build!ModelAssumption, BuildIInv PROVE Build!BuildInv
<1>1. ModelRows /\ TablesOK /\ JobsOK /\ LockInv /\ RowInv /\ ExistInv /\ RowsOK
  BY DEF BuildIInv, RowInv
<1>2. /\ Len(modelRuns) \in Nat /\ DOMAIN modelRuns = 1 .. Len(modelRuns)
      /\ \A r \in 1 .. Len(modelRuns) : modelRuns[r] \in RunRecs
  BY <1>1 DEF RowsOK
<1>3. ASSUME NEW j \in Build!Jobs
      PROVE  /\ job[j].at \in Pcs /\ job[j].anchor \in Build!Ids \cup {Absent}
             /\ job[j].run \in 0 .. Len(modelRuns)
             /\ job[j].at \notin Executing => job[j].run = 0
             /\ job[j].at \in Executing =>
                   /\ job[j].run > 0
                   /\ job[j].built \cup job[j].failed \cup job[j].skipped
                         = {job[j].order[i] : i \in 1 .. job[j].next - 1}
  <2>1. job[j] \in JobRecs /\ JobOK(job[j]) /\ OwnsRow(job[j])
    BY <1>1 DEF JobsOK, RowInv
  <2>2. job[j].at \in Pcs /\ job[j].anchor \in Build!Ids \cup {Absent}
    BY <2>1 DEF JobRecs
  <2>3. CASE job[j].at \in Executing
    BY <1>2, <2>1, <2>2, <2>3 DEF JobOK, OwnsRow, Accounted, Past
  <2>4. CASE job[j].at \notin Executing
    BY <2>1, <2>2, <2>4, <1>2 DEF JobOK, Pcs, Executing
  <2> QED BY <2>3, <2>4
<1>4. Build!TypeOK
  BY <1>1, <1>2, <1>3 DEF ModelRows, Build!Present, LockInv, RunRecs, TablesOK, Build!TypeOK, Pcs,
     Executing
<1>5. Build!StatusTellsOutcome
  BY <1>1, <1>2 DEF RowInv, Outcome, Build!StatusTellsOutcome
<1>6. Build!RunningIsLive
  <2> SUFFICES ASSUME bound.crashes = 0, NEW r \in 1 .. Len(modelRuns), modelRuns[r].status = "running"
               PROVE  running /\ \E j \in Build!Jobs :
                         job[j].run = r /\ \A k \in Build!Jobs \ {j} : job[k].run = 0
    BY <1>2 DEF Build!RunningIsLive
  <2>1. PICK j \in Build!Jobs : job[j].at \in Executing /\ job[j].run = r
    BY <1>1 DEF RowInv
  <2>2. \A k \in Build!Jobs : job[k].at \in Executing => job[k].at \in Inside
    BY DEF Inside
  <2>3. running /\ \A k \in Build!Jobs \ {j} : job[k].at \notin Executing
    BY <1>1, <2>1, <2>2 DEF LockInv
  <2> QED BY <1>3, <2>1, <2>3
<1>7. Build!OrderInv /\ Build!SuccessExists
  BY <1>1, OrderHolds, SuccessHolds
<1> QED
  BY <1>4, <1>5, <1>6, <1>7 DEF Build!BuildInv, Build!RecordInv

LEMMA BuildInvariant == ASSUME Build!ModelAssumption PROVE Build!Spec => []BuildIInv
<1>1. Build!Init => BuildIInv
  BY BuildInit
<1>2. BuildIInv /\ [Build!Next]_Build!vars => BuildIInv'
  BY BuildNext
<1> QED
  BY <1>1, <1>2, PTL DEF Build!Spec

\* What a run of models executes are the models asked for, each after its sources, and
\* what the database says of runs and models is what happened to them.
THEOREM ModelsAreBuilt == ASSUME Build!ModelAssumption PROVE Build!Spec => []Build!BuildInv
<1>1. BuildIInv => Build!BuildInv
  BY BuildHolds
<1> QED
  BY <1>1, BuildInvariant, PTL

\* The lock of the connection is taken exactly while one run, and no other, is between
\* acquireLock and releaseLock.
THEOREM OneBuildAtATime == ASSUME Build!ModelAssumption PROVE Build!Spec => []LockInv
<1>1. BuildIInv => LockInv
  BY DEF BuildIInv
<1> QED
  BY <1>1, BuildInvariant, PTL

\* Only the load of a request takes it on from there.
LEMMA OnlyLoad ==
    ASSUME Build!ModelAssumption, BuildIInv, Build!Next, NEW j \in Requests,
           job[j].at = "load", bound' = bound, job'[j] # job[j]
    PROVE  j \in Build!Jobs /\ Build!Load(j)
<1>1. j \in Build!Jobs /\ j # TickJob /\ BoundOK /\ JobsOK /\ LockInv /\ ModelRows /\ RowsOK
  BY DEF Build!Jobs, Build!ModelAssumption, BuildIInv, RowInv
<1>2. ASSUME NEW i \in Build!Jobs, GoesOn(i) PROVE i = j
  BY <1>1, <1>2 DEF GoesOn, Turned
<1>3. ASSUME NEW i \in bound.of.requests, Build!Request(i) PROVE FALSE
  BY <1>1, <1>2, <1>3, RequestGoesOn DEF Build!Request, Build!At
<1>4. ASSUME NEW i \in Build!Jobs, Build!Execute(i) PROVE Build!Load(j)
  <2>1. i = j
    BY <1>1, <1>2, <1>4, ExecuteGoesOn
  <2> QED BY <1>4, <2>1 DEF Build!Execute, Build!CreateRun, Build!Skip, Build!Start, Build!Executes,
            Build!ExecuteFails, Build!ExecuteTimesOut, Build!Result, Build!Finalize, Build!At
<1>5. CASE Build!UpdateSchedule
  BY <1>1, <1>2, <1>5, StatusTurns
<1>6. ASSUME NEW m \in Build!Ids, Build!RunDue(m) PROVE FALSE
  BY <1>1, <1>2, <1>6, DueGoesOn
<1>7. CASE job' = job
  BY <1>7
<1>8. CASE Build!ReadDue
  BY <1>7, <1>8 DEF Build!ReadDue
<1>9. ASSUME NEW x \in lateStatements, Build!LateStatement(x) PROVE FALSE
  BY <1>7, <1>9 DEF Build!LateStatement
<1>10. ASSUME NEW m \in Build!Ids,
              \/ Build!Elapse(m) \/ Build!UpsertSchedule(m) \/ Build!DeleteSchedule(m)
              \/ Build!UpdateModel(m) \/ Build!DeleteModel(m)
       PROVE  FALSE
  BY <1>7, <1>10 DEF Build!Elapse, Build!UpsertSchedule, Build!DeleteSchedule,
     Build!UpdateModel, Build!DeleteModel
<1>11. ~Build!Crash
  <2> SUFFICES ASSUME Build!Crash PROVE FALSE
    OBVIOUS
  <2>1. bound' = [bound EXCEPT !.crashes = @ + 1] /\ bound.crashes \in Nat
    BY <1>1, BoundFields DEF Build!Crash
  <2>2. bound'.crashes = bound.crashes + 1
    BY <1>1, <2>1 DEF BoundOK, BoundRecs
  <2> QED BY <2>1, <2>2
<1> QED
  BY <1>1, <1>3, <1>4, <1>5, <1>6, <1>8, <1>9, <1>10, <1>11 DEF Build!Next, Build!Schedule

LEMMA LoadRefuses ==
    ASSUME Build!ModelAssumption, BuildIInv, NEW j \in Build!Jobs, Build!Load(j),
           bound' = bound, ~Build!Refused(j)
    PROVE  job'[j].at = "create" <=>
              \E rank \in [Build!Present -> 1 .. Build!Cardinality(Build!Present)] :
                 \A m \in Build!Present : \A d \in Build!Deps[m] : rank[d] < rank[m]
<1> DEFINE ids == Build!Present
           deps == Build!Deps
           Ranked == \E rank \in [ids -> 1 .. Cardinality(ids)] :
                        \A m \in ids : \A d \in deps[m] : rank[d] < rank[m]
<1>1. BoundOK /\ JobsOK /\ ModelRows /\ job[j].at = "load" /\ job[j].at \in Inside
  BY DEF BuildIInv, Build!Load, Build!At, Inside
<1>2. ~Build!Fault
  <2> SUFFICES ASSUME Build!Fault PROVE FALSE
    OBVIOUS
  <2>1. bound' = [bound EXCEPT !.faults = @ + 1] /\ bound.faults \in Nat
    BY <1>1, BoundFields DEF Build!Fault
  <2>2. bound'.faults = bound.faults + 1
    BY <1>1, <2>1 DEF BoundOK, BoundRecs
  <2> QED BY <2>1, <2>2
<1> DEFINE tabled == {m \in Build!Present : models[m].table}
           place == [m \in Build!Ids |-> IF m \in Build!Present THEN models[m].place ELSE 0]
<1>3. PICK visit \in Build!Orders :
         LET all == Build!Kahn(ids, deps, Models, visit)
         IN IF Len(all) # Build!Cardinality(ids) THEN Build!Refuse(j)
            ELSE job' = [job EXCEPT ![j].at = "create", ![j].deps = Build!Deps,
                                   ![j].tables = tabled, ![j].place = place,
                                   ![j].order = Build!Filter(all, Build!Selected(job[j].kind, job[j].anchor, Build!Deps))]
  BY <1>2 DEF Build!Load
<1> DEFINE all == Build!Kahn(ids, deps, Models, visit)
<1>4. IsGraph(ids, deps) /\ Lists(Models, ids) /\ Lists(visit, ids)
  BY <1>1, LoadGraph DEF Build!Refused
<1>5. /\ Len(all) = Cardinality(ids) <=> Ranked
      /\ Build!Cardinality(ids) = Cardinality(ids)
  <2> HIDE DEF ids, deps
  <2>1. Ordered(all, ids, deps)
    BY <1>4, KahnOrders
  <2> HIDE DEF all
  <2> QED BY <1>4, <2>1, CompleteIffRanked, SameCardinality
<1>6. CASE Len(all) # Cardinality(ids)
  BY <1>3, <1>5, <1>6, <1>1, ReturnTurns DEF Build!Refuse
<1>7. CASE Len(all) = Cardinality(ids)
  <2>1. job'[j].at = "create"
    <3>1. job[j] \in JobRecs /\ job \in [Build!Jobs -> JobRecs]
      BY <1>1 DEF JobsOK
    <3>2. job' = [job EXCEPT ![j].at = "create", ![j].deps = Build!Deps,
                             ![j].tables = tabled, ![j].place = place,
                             ![j].order = Build!Filter(all, Build!Selected(job[j].kind, job[j].anchor, Build!Deps))]
      BY <1>3, <1>5, <1>7
    <3>3. job'[j] = [job[j] EXCEPT !.at = "create", !.deps = Build!Deps,
                             !.tables = tabled, !.place = place,
                             !.order = Build!Filter(all, Build!Selected(job[j].kind, job[j].anchor, Build!Deps))]
      BY <3>1, <3>2
    <3> HIDE DEF all
    <3> QED BY <3>1, <3>3 DEF JobRecs
  <2> QED BY <1>5, <1>7, <2>1
<1> QED
  BY <1>5, <1>6, <1>7

\* The references of the models are refused exactly when they go round in a circle.
THEOREM CyclesAreRefused == ASSUME Build!ModelAssumption PROVE Build!Spec => Build!RefusesCycles
<1> DEFINE A == \A j \in Requests :
              (Build!At(j, "load") /\ bound' = bound /\ job'[j] # job[j] /\ ~Build!Refused(j)) =>
                 (job'[j].at = "create" <=>
                     \E rank \in [Build!Present -> 1 .. Build!Cardinality(Build!Present)] :
                        \A m \in Build!Present : \A d \in Build!Deps[m] : rank[d] < rank[m])
<1>1. BuildIInv /\ [Build!Next]_Build!vars => [A]_Build!vars
  <2> SUFFICES ASSUME BuildIInv, Build!Next, NEW j \in Requests,
                      Build!At(j, "load"), bound' = bound, job'[j] # job[j], ~Build!Refused(j)
               PROVE  job'[j].at = "create" <=>
                        \E rank \in [Build!Present -> 1 .. Build!Cardinality(Build!Present)] :
                           \A m \in Build!Present : \A d \in Build!Deps[m] : rank[d] < rank[m]
    OBVIOUS
  <2>1. j \in Build!Jobs /\ Build!Load(j)
    BY OnlyLoad DEF Build!At
  <2> QED BY <2>1, LoadRefuses
<1>2. Build!RefusesCycles <=> [][A]_Build!vars
  BY DEF Build!RefusesCycles
<1> QED
  BY <1>1, <1>2, BuildInvariant, PTL DEF Build!Spec

-----------------------------------------------------------------------------
(***************************************************************************)
(* The sync with GitHub: ModelsKept, and SyncInv.  ModelsKept rests on what *)
(* a sync knows of the rows: the row of its own model and those it has     *)
(* found belong to models of a sync (OwnedInv), rows are never given twice   *)
(* (RowsInv), and a file it did not parse was removed since the commit it  *)
(* is at (FoundInv).  SyncInv needs in addition how far the only sync of   *)
(* an undisturbed connection has come (AloneInv): what it has parsed, what *)
(* it has applied, and that last_sync_sha is older than its commit.        *)
(***************************************************************************)
CONSTANTS Files, Contents, Unparsable, Syncs, Users
VARIABLES scenario, repo, settings, last, sync, user, made, trouble

GitHub == INSTANCE GitHubSync

RepoTree == [Files -> Contents \cup {Absent}]
Parsed == [Files -> (Contents \ Unparsable) \cup {Absent}]
Existing == [Files -> GitHub!RepoRow \cup {Absent}]
Applying == {"apply", "source", "delete"}
SyncRecord == [at : {"idle", "sha", "tree", "file"} \cup Applying, path : SUBSET Files, last : Nat,
               sha : Nat, todo : SUBSET Files, tree : SUBSET Files, parsed : Parsed,
               existing : Existing, row : Nat]
UserRecord == [at : {"idle", "write"}, name : Files \cup {Absent}, row : Nat]
RepoShape ==
    /\ scenario \in Scenarios
    /\ repo \in Seq(RepoTree) /\ Len(repo) <= scenario.commits
    /\ settings \in [configured : BOOLEAN, path : SUBSET Files]
    /\ last \in Nat /\ last <= Len(repo)
    /\ models \in Existing
    /\ sync \in [Syncs -> SyncRecord]
    /\ user \in [Users -> UserRecord]
    /\ made \in Nat /\ made <= scenario.models
    /\ trouble \in [faults : Nat, saves : Nat, crashes : Nat]

\* A sync is at a commit that exists, has left to do what it has parsed, and knows rows
\* that were given.
SyncFits(s) ==
    /\ sync[s].sha <= Len(repo) /\ sync[s].last <= Len(repo) /\ sync[s].row <= made
    /\ sync[s].at \in {"tree", "file"} \cup Applying => sync[s].sha > 0
    /\ sync[s].at \in {"apply", "source"} => \A f \in sync[s].todo : sync[s].parsed[f] # Absent
    /\ sync[s].at = "delete" => \A f \in sync[s].todo : sync[s].existing[f] # Absent
    /\ \A f \in Files : sync[s].existing[f] # Absent => sync[s].existing[f].row <= made

RowsInv ==
    /\ \A f \in Files : models[f] # Absent => models[f].row \in 1 .. made
    /\ \A f, g \in Files :
          models[f] # Absent /\ models[g] # Absent /\ models[f].row = models[g].row => f = g
    /\ \A s \in Syncs : SyncFits(s)
    /\ \A u \in Users : user[u].at = "write" => user[u].name \in Files

\* What a sync has to do with was made by a sync.
OfSync(r) == \A f \in Files : models[f] # Absent /\ models[f].row = r => models[f].by \in Syncs

SourcesInv ==
    \A f \in Files : models[f] # Absent /\ models[f].source = "github" => models[f].by \in Syncs

KnowsOwn(s) ==
    /\ sync[s].at = "source" => OfSync(sync[s].row)
    /\ \A f \in Files : sync[s].existing[f] # Absent => OfSync(sync[s].existing[f].row)

OwnedInv == SourcesInv /\ \A s \in Syncs : KnowsOwn(s)

\* A file below the path that a sync did not parse was removed, or broken, since the
\* commit the sync is at.
Removed(s, f) == \E n \in sync[s].sha .. Len(repo) : repo[n][f] \in {Absent} \cup Unparsable

FoundBy(s) ==
    /\ sync[s].at = "file" =>
          \A f \in sync[s].path : f \in sync[s].todo \/ sync[s].parsed[f] # Absent \/ Removed(s, f)
    /\ sync[s].at \in Applying =>
          \A f \in sync[s].path : sync[s].parsed[f] # Absent \/ Removed(s, f)
    /\ sync[s].at = "delete" => \A f \in sync[s].todo : sync[s].parsed[f] = Absent

FoundInv == "file" \notin scenario.canFail => \A s \in Syncs : FoundBy(s)

\* What a sync of the tip parses, and what it has applied.
Wanted(path, f) ==
    IF f \in path /\ repo[Len(repo)][f] \notin Unparsable THEN repo[Len(repo)][f] ELSE Absent

ReadBy(s) ==
    /\ sync[s].at \in {"sha", "tree"} => sync[s].parsed = [f \in Files |-> Absent]
    /\ sync[s].at = "file" => sync[s].todo \subseteq sync[s].path
    /\ sync[s].at = "file" /\ sync[s].sha = Len(repo) =>
          \A f \in Files \ sync[s].todo : sync[s].parsed[f] = Wanted(sync[s].path, f)
    /\ sync[s].at \in Applying /\ sync[s].sha = Len(repo) =>
          \A f \in Files : sync[s].parsed[f] = Wanted(sync[s].path, f)

Applied(s, f) == models[f] # Absent /\ models[f].body = sync[s].parsed[f]

AppliedBy(s) ==
    /\ sync[s].at \in {"apply", "source"} =>
          \A f \in Files :
             /\ f \in sync[s].todo \/ sync[s].parsed[f] = Absent => models[f] = sync[s].existing[f]
             /\ f \notin sync[s].todo /\ sync[s].parsed[f] # Absent => Applied(s, f)
    /\ sync[s].at = "source" =>
          \A f \in Files : models[f] # Absent /\ models[f].row = sync[s].row =>
             f \notin sync[s].todo /\ sync[s].parsed[f] # Absent
    /\ sync[s].at = "delete" =>
          \A f \in Files :
             /\ f \in sync[s].todo =>
                   sync[s].parsed[f] = Absent /\ models[f] = sync[s].existing[f] /\ models[f] # Absent
             /\ sync[s].parsed[f] # Absent => Applied(s, f)
             /\ f \notin sync[s].todo /\ sync[s].parsed[f] = Absent => models[f] = Absent

Current(f) ==
    IF Wanted(settings.path, f) = Absent THEN models[f] = Absent
    ELSE models[f] # Absent /\ models[f].body = Wanted(settings.path, f)

\* What an undisturbed sync relies on: the others do nothing, every model is its own or one of
\* GitHub, and last_sync_sha is the commit that the models have.
Quiet(a) == \A s \in Syncs : s # a => sync[s].at = "idle"

Unsaved(a) == trouble.saves = 0 => ~settings.configured /\ last = 0 /\ sync[a].at = "idle"

Manuals(a) ==
    \A f \in Files : models[f] # Absent /\ models[f].source = "manual" =>
       sync[a].at = "source" /\ sync[a].row = models[f].row

Synced(a) ==
    settings.configured =>
       /\ sync[a].at # "idle" => sync[a].path = settings.path /\ sync[a].last = last
       /\ sync[a].at \in {"tree", "file"} \cup Applying => last < sync[a].sha
       /\ last > 0 /\ last = Len(repo) => \A f \in Files : Current(f)

AloneAt(a) == Quiet(a) /\ Unsaved(a) /\ Manuals(a) /\ ReadBy(a) /\ AppliedBy(a) /\ Synced(a)

AloneInv == GitHub!Undisturbed => \A a \in scenario.syncs : AloneAt(a)


NoFile == [f \in Files |-> Absent]

\* A step leaves one sync with these local variables, and the others as they were.
Turns(s, at, path, seen, sha, todo, parsed, existing, id) ==
    /\ sync'[s].at = at /\ sync'[s].path = path /\ sync'[s].last = seen /\ sync'[s].sha = sha
    /\ sync'[s].todo = todo /\ sync'[s].parsed = parsed /\ sync'[s].existing = existing
    /\ sync'[s].row = id
    /\ \A r \in Syncs : r # s => sync'[r] = sync[r]
    /\ sync' \in [Syncs -> SyncRecord]

Ends(s) == Turns(s, "idle", {}, 0, 0, {}, NoFile, NoFile, 0)

\* The variables of a sync but its at and its todo.
Goes(s, at, todo) ==
    Turns(s, at, sync[s].path, sync[s].last, sync[s].sha, todo, sync[s].parsed,
          sync[s].existing, sync[s].row)

LEMMA NoFileType == GitHub!GitHubAssumption => NoFile \in Parsed /\ NoFile \in Existing
BY DEF GitHub!GitHubAssumption, NoFile, Parsed, Existing

LEMMA EndTurns == ASSUME GitHub!GitHubAssumption, RepoShape, NEW s \in Syncs, GitHub!End(s) PROVE Ends(s)
<1> DEFINE i == [at |-> "idle", path |-> {}, last |-> 0, sha |-> 0, todo |-> {}, tree |-> {},
                 parsed |-> NoFile, existing |-> NoFile, row |-> 0]
<1>1. sync' = [sync EXCEPT ![s] = i]
  BY DEF GitHub!End, GitHub!Idle, GitHub!NoFiles, NoFile
<1>2. i \in SyncRecord
  BY NoFileType DEF SyncRecord
<1>3. sync \in [Syncs -> SyncRecord]
  BY DEF RepoShape
<1> HIDE DEF i
<1>4. sync'[s] = i /\ sync' \in [Syncs -> SyncRecord] /\ \A r \in Syncs : r # s => sync'[r] = sync[r]
  BY <1>1, <1>2, <1>3
<1> QED
  BY <1>4 DEF i, Ends, Turns

LEMMA StartTurns ==
    ASSUME GitHub!GitHubAssumption, RepoShape, NEW s \in Syncs, GitHub!Start(s)
    PROVE  Turns(s, "sha", settings.path, last, 0, {}, NoFile, NoFile, 0)
<1> DEFINE i == GitHub!Idle
           x == [i EXCEPT !.at = "sha", !.path = settings.path, !.last = last]
<1>1. sync' = [sync EXCEPT ![s] = x]
  BY DEF GitHub!Start
<1>2. /\ i \in SyncRecord /\ i.sha = 0 /\ i.todo = {} /\ i.parsed = NoFile
      /\ i.existing = NoFile /\ i.row = 0
  BY NoFileType DEF SyncRecord, GitHub!Idle, GitHub!NoFiles, NoFile
<1> HIDE DEF i
<1>3. settings.path \in SUBSET Files /\ last \in Nat /\ sync \in [Syncs -> SyncRecord]
  BY DEF RepoShape
<1>4. x \in SyncRecord
  BY <1>2, <1>3 DEF SyncRecord
<1>5. /\ x.at = "sha" /\ x.path = settings.path /\ x.last = last /\ x.sha = 0 /\ x.todo = {}
      /\ x.parsed = NoFile /\ x.existing = NoFile /\ x.row = 0
  BY <1>2, <1>3 DEF SyncRecord
<1> HIDE DEF x
<1>6. sync'[s] = x /\ sync' \in [Syncs -> SyncRecord] /\ \A r \in Syncs : r # s => sync'[r] = sync[r]
  BY <1>1, <1>3, <1>4
<1> QED
  BY <1>5, <1>6 DEF Turns

LEMMA BranchTurns ==
    ASSUME GitHub!GitHubAssumption, RepoShape, NEW s \in Syncs, GitHub!GetBranchSHA(s)
    PROVE  \/ Ends(s)
           \/ /\ Len(repo) \notin {0, sync[s].last}
              /\ Turns(s, "tree", sync[s].path, sync[s].last, Len(repo), sync[s].todo,
                       sync[s].parsed, sync[s].existing, sync[s].row)
<1>1. CASE GitHub!End(s)
  BY <1>1, EndTurns
<1>2. CASE ~GitHub!End(s)
  <2>1. /\ sync' = [sync EXCEPT ![s].at = "tree", ![s].sha = Len(repo)]
        /\ Len(repo) \notin {0, sync[s].last}
    BY <1>2 DEF GitHub!GetBranchSHA, GitHub!Tip
  <2>2. sync \in [Syncs -> SyncRecord] /\ sync[s] \in SyncRecord /\ Len(repo) \in Nat
    BY DEF RepoShape
  <2>3. /\ sync'[s] = [sync[s] EXCEPT !.at = "tree", !.sha = Len(repo)]
        /\ \A r \in Syncs : r # s => sync'[r] = sync[r]
    BY <2>1, <2>2
  <2>4. [sync[s] EXCEPT !.at = "tree", !.sha = Len(repo)] \in SyncRecord
    BY <2>2 DEF SyncRecord
  <2>5. sync' \in [Syncs -> SyncRecord]
    BY <2>1, <2>2, <2>3, <2>4
  <2> QED
    BY <2>1, <2>2, <2>3, <2>5 DEF Turns, SyncRecord
<1> QED
  BY <1>1, <1>2

LEMMA TreeTurns ==
    ASSUME GitHub!GitHubAssumption, RepoShape, NEW s \in Syncs, GitHub!GetTree(s)
    PROVE  Ends(s) \/ Goes(s, "file", GitHub!FilterSQLFiles(s))
<1> DEFINE t == GitHub!FilterSQLFiles(s)
<1>1. CASE GitHub!End(s)
  BY <1>1, EndTurns
<1>2. CASE ~GitHub!End(s)
  <2>1. sync' = [sync EXCEPT ![s].at = "file", ![s].tree = t, ![s].todo = t]
    BY <1>2 DEF GitHub!GetTree
  <2>2. sync \in [Syncs -> SyncRecord] /\ sync[s] \in SyncRecord
    BY DEF RepoShape
  <2>e. t \in SUBSET Files
    BY DEF GitHub!FilterSQLFiles, GitHub!Listed
  <2> HIDE DEF t
  <2>3. /\ sync'[s] = [sync[s] EXCEPT !.at = "file", !.tree = t, !.todo = t]
        /\ \A r \in Syncs : r # s => sync'[r] = sync[r]
    BY <2>1, <2>2
  <2>4. [sync[s] EXCEPT !.at = "file", !.tree = t, !.todo = t] \in SyncRecord
    BY <2>2, <2>e DEF SyncRecord
  <2>5. sync' \in [Syncs -> SyncRecord]
    BY <2>1, <2>2, <2>3, <2>4
  <2>6. Goes(s, "file", t)
    BY <2>2, <2>3, <2>5 DEF Goes, Turns, SyncRecord
  <2> QED
    BY <2>6 DEF t
<1> QED
  BY <1>1, <1>2

\* The steps that change only what is left to do.
LEMMA TodoTurns ==
    ASSUME GitHub!GitHubAssumption, RepoShape, NEW s \in Syncs, NEW T \in SUBSET Files,
           sync' = [sync EXCEPT ![s].todo = T]
    PROVE  Goes(s, sync[s].at, T)
<1>2. sync \in [Syncs -> SyncRecord] /\ sync[s] \in SyncRecord
  BY DEF RepoShape
<1>3. sync'[s] = [sync[s] EXCEPT !.todo = T] /\ \A r \in Syncs : r # s => sync'[r] = sync[r]
  BY <1>2
<1>4. [sync[s] EXCEPT !.todo = T] \in SyncRecord
  BY <1>2 DEF SyncRecord
<1>5. sync' \in [Syncs -> SyncRecord]
  BY <1>2, <1>3, <1>4
<1> QED
  BY <1>2, <1>3, <1>5 DEF Goes, Turns, SyncRecord

LEMMA ApartTurns ==
    ASSUME GitHub!GitHubAssumption, RepoShape, NEW s \in Syncs, NEW f, sync' = [sync EXCEPT ![s].todo = @ \ {f}]
    PROVE  Goes(s, sync[s].at, sync[s].todo \ {f})
BY TodoTurns DEF RepoShape, SyncRecord

\* What GetFile parses.
Parses(f) == IF repo[Len(repo)][f] \in Unparsable THEN Absent ELSE repo[Len(repo)][f]

LEMMA FileTurns ==
    ASSUME GitHub!GitHubAssumption, RepoShape, NEW s \in Syncs, NEW f \in Files, GitHub!GetFile(s, f),
           Len(repo) > 0
    PROVE  \/ "file" \in scenario.canFail /\ Goes(s, "file", sync[s].todo \ {f})
           \/ Turns(s, "file", sync[s].path, sync[s].last, sync[s].sha, sync[s].todo \ {f},
                    [sync[s].parsed EXCEPT ![f] = Parses(f)], sync[s].existing, sync[s].row)
<1>1. sync[s].at = "file" /\ sync \in [Syncs -> SyncRecord] /\ sync[s] \in SyncRecord
  BY DEF GitHub!GetFile, GitHub!Step, RepoShape
<1>2. CASE sync' = [sync EXCEPT ![s].todo = @ \ {f}] /\ "file" \in scenario.canFail
  BY <1>1, <1>2, ApartTurns
<1>3. CASE sync' = [sync EXCEPT ![s].todo = @ \ {f}, ![s].parsed[f] = Parses(f)]
  <2> DEFINE T == sync[s].todo \ {f}
             P == [sync[s].parsed EXCEPT ![f] = Parses(f)]
  <2>1. repo[Len(repo)] \in RepoTree
    BY DEF RepoShape
  <2>2. Parses(f) \in (Contents \ Unparsable) \cup {Absent}
    BY <2>1 DEF Parses, RepoTree
  <2>3. T \in SUBSET Files /\ sync[s].parsed \in Parsed
    BY <1>1 DEF SyncRecord
  <2>4. P \in Parsed
    BY <2>2, <2>3 DEF Parsed
  <2>5. sync' = [sync EXCEPT ![s].todo = T, ![s].parsed = P]
    BY <1>1, <1>3
  <2> HIDE DEF T, P
  <2>6. /\ sync'[s] = [sync[s] EXCEPT !.todo = T, !.parsed = P]
        /\ \A r \in Syncs : r # s => sync'[r] = sync[r]
    BY <1>1, <2>5
  <2>7. [sync[s] EXCEPT !.todo = T, !.parsed = P] \in SyncRecord
    BY <1>1, <2>3, <2>4 DEF SyncRecord, T
  <2>8. sync' \in [Syncs -> SyncRecord]
    BY <1>1, <2>5, <2>6, <2>7
  <2>9. Turns(s, "file", sync[s].path, sync[s].last, sync[s].sha, T, P, sync[s].existing,
              sync[s].row)
    BY <1>1, <2>6, <2>8 DEF Turns, SyncRecord
  <2> QED
    BY <2>9 DEF T, P
<1> QED
  BY <1>2, <1>3 DEF GitHub!GetFile, GitHub!Fault, Parses, GitHub!Tip

\* The models that a sync takes for its own.
OfGitHub(f) == models[f] # Absent /\ models[f].source = "github"
OwnModels == [f \in Files |-> IF OfGitHub(f) THEN models[f] ELSE Absent]
FoundFiles(s) == {f \in Files : sync[s].parsed[f] # Absent}

LEMMA ExistingTurns ==
    ASSUME GitHub!GitHubAssumption, RepoShape, NEW s \in Syncs, GitHub!GetExisting(s)
    PROVE  Turns(s, "apply", sync[s].path, sync[s].last, sync[s].sha, FoundFiles(s), sync[s].parsed,
                 OwnModels, sync[s].row)
<1>1. sync \in [Syncs -> SyncRecord] /\ sync[s] \in SyncRecord /\ models \in Existing
  BY DEF RepoShape
<1>2. OwnModels \in Existing /\ FoundFiles(s) \in SUBSET Files
  BY <1>1 DEF OwnModels, Existing, FoundFiles
<1>3. sync' = [sync EXCEPT ![s].at = "apply", ![s].todo = FoundFiles(s), ![s].existing = OwnModels]
  BY DEF GitHub!GetExisting, GitHub!Listed, GitHub!Managed, OwnModels, OfGitHub, FoundFiles
<1>4. /\ sync'[s] = [sync[s] EXCEPT !.at = "apply", !.todo = FoundFiles(s), !.existing = OwnModels]
      /\ \A r \in Syncs : r # s => sync'[r] = sync[r]
  BY <1>1, <1>3
<1>5. [sync[s] EXCEPT !.at = "apply", !.todo = FoundFiles(s), !.existing = OwnModels] \in SyncRecord
  BY <1>1, <1>2 DEF SyncRecord, Applying
<1>6. sync' \in [Syncs -> SyncRecord]
  BY <1>1, <1>3, <1>4, <1>5
<1> QED
  BY <1>1, <1>4, <1>6 DEF Turns, SyncRecord

\* CreateModel: a row of its own, or the name is taken.
NewRow(s, f) == [row |-> made + 1, body |-> sync[s].parsed[f], source |-> "manual", by |-> s]

LEMMA CreateTurns ==
    ASSUME GitHub!GitHubAssumption, RepoShape, NEW s \in Syncs, NEW f \in Files, GitHub!Create(s, f)
    PROVE  \/ /\ models[f] = Absent /\ made < scenario.models /\ made' = made + 1
              /\ models' = [models EXCEPT ![f] = NewRow(s, f)]
              /\ Turns(s, "source", sync[s].path, sync[s].last, sync[s].sha, sync[s].todo \ {f},
                       sync[s].parsed, sync[s].existing, made + 1)
           \/ /\ models[f] # Absent /\ models' = models /\ made' = made
              /\ Goes(s, "apply", sync[s].todo \ {f})
<1>1. /\ sync[s].at = "apply" /\ sync \in [Syncs -> SyncRecord] /\ sync[s] \in SyncRecord
      /\ made + 1 \in Nat
  BY DEF GitHub!Create, GitHub!Step, RepoShape
<1>2. CASE models[f] = Absent
  <2> DEFINE T == sync[s].todo \ {f}
  <2>1. /\ made < scenario.models /\ made' = made + 1
        /\ models' = [models EXCEPT ![f] = NewRow(s, f)]
    BY <1>2 DEF GitHub!Create, NewRow
  <2>2. sync' = [sync EXCEPT ![s].at = "source", ![s].row = made + 1, ![s].todo = T]
    BY <1>1, <1>2, <2>1 DEF GitHub!Create
  <2>3. T \in SUBSET Files
    BY <1>1 DEF SyncRecord
  <2> HIDE DEF T
  <2>4. /\ sync'[s] = [sync[s] EXCEPT !.at = "source", !.row = made + 1, !.todo = T]
        /\ \A r \in Syncs : r # s => sync'[r] = sync[r]
    BY <1>1, <2>2
  <2>5. [sync[s] EXCEPT !.at = "source", !.row = made + 1, !.todo = T] \in SyncRecord
    BY <1>1, <2>3 DEF SyncRecord, Applying
  <2>6. sync' \in [Syncs -> SyncRecord]
    BY <1>1, <2>2, <2>4, <2>5
  <2>7. Turns(s, "source", sync[s].path, sync[s].last, sync[s].sha, T, sync[s].parsed,
              sync[s].existing, made + 1)
    BY <1>1, <2>4, <2>6 DEF Turns, SyncRecord
  <2> QED
    BY <1>2, <2>1, <2>7 DEF T
<1>3. CASE models[f] # Absent
  BY <1>1, <1>3, ApartTurns DEF GitHub!Create
<1> QED
  BY <1>2, <1>3

\* The model with that row is a model of GitHub from now on.
Sourced(s, f) ==
    IF models[f] # Absent /\ models[f].row = sync[s].row
    THEN [models[f] EXCEPT !.source = "github"] ELSE models[f]

LEMMA SourceTurns ==
    ASSUME GitHub!GitHubAssumption, RepoShape, NEW s \in Syncs, GitHub!SetModelSource(s)
    PROVE  /\ models' = [f \in Files |-> Sourced(s, f)]
           /\ Turns(s, "apply", sync[s].path, sync[s].last, sync[s].sha, sync[s].todo,
                    sync[s].parsed, sync[s].existing, 0)
<1>1. sync \in [Syncs -> SyncRecord] /\ sync[s] \in SyncRecord
  BY DEF RepoShape
<1>2. sync' = [sync EXCEPT ![s].at = "apply", ![s].row = 0]
  BY DEF GitHub!SetModelSource
<1>3. /\ sync'[s] = [sync[s] EXCEPT !.at = "apply", !.row = 0]
      /\ \A r \in Syncs : r # s => sync'[r] = sync[r]
  BY <1>1, <1>2
<1>4. [sync[s] EXCEPT !.at = "apply", !.row = 0] \in SyncRecord
  BY <1>1 DEF SyncRecord, Applying
<1>5. sync' \in [Syncs -> SyncRecord]
  BY <1>1, <1>2, <1>3, <1>4
<1>6. Turns(s, "apply", sync[s].path, sync[s].last, sync[s].sha, sync[s].todo, sync[s].parsed,
            sync[s].existing, 0)
  BY <1>1, <1>3, <1>5 DEF Turns, SyncRecord
<1> QED
  BY <1>6 DEF GitHub!SetModelSource, GitHub!IsRow, Sourced

LEMMA DeletingTurns ==
    ASSUME GitHub!GitHubAssumption, RepoShape, NEW s \in Syncs, GitHub!StartDeleting(s)
    PROVE  Goes(s, "delete", GitHub!Stale(s))
<1> DEFINE T == GitHub!Stale(s)
<1>1. sync \in [Syncs -> SyncRecord] /\ sync[s] \in SyncRecord
  BY DEF RepoShape
<1>2. sync' = [sync EXCEPT ![s].at = "delete", ![s].todo = T]
  BY DEF GitHub!StartDeleting
<1>3. T \in SUBSET Files
  BY DEF GitHub!Stale, GitHub!Listed
<1> HIDE DEF T
<1>4. /\ sync'[s] = [sync[s] EXCEPT !.at = "delete", !.todo = T]
      /\ \A r \in Syncs : r # s => sync'[r] = sync[r]
  BY <1>1, <1>2
<1>5. [sync[s] EXCEPT !.at = "delete", !.todo = T] \in SyncRecord
  BY <1>1, <1>3 DEF SyncRecord, Applying
<1>6. sync' \in [Syncs -> SyncRecord]
  BY <1>1, <1>2, <1>4, <1>5
<1>7. Goes(s, "delete", T)
  BY <1>1, <1>4, <1>6 DEF Goes, Turns, SyncRecord
<1> QED
  BY <1>7 DEF T

\* The steps that touch the models, row by row.
RowsKept ==
    /\ made' = made
    /\ \A f \in Files : models'[f] # Absent =>
          models[f] # Absent /\ models'[f].row = models[f].row /\ models'[f].by = models[f].by

NewAt(g) ==
    /\ made' = made + 1 /\ models[g] = Absent /\ models'[g].row = made + 1
    /\ \A f \in Files : f # g => models'[f] = models[f]

RowsMove == RowsKept \/ \E g \in Files : NewAt(g)

LEMMA ModelsSame == models' = models /\ made' = made => RowsKept
BY DEF RowsKept

LEMMA CreatedMove ==
    ASSUME GitHub!GitHubAssumption, RepoShape, NEW f \in Files, models[f] = Absent, made' = made + 1,
           NEW b, NEW o, models' = [models EXCEPT ![f] = [row |-> made + 1, body |-> b, source |-> "manual", by |-> o]]
    PROVE  NewAt(f)
BY DEF RepoShape, Existing, NewAt

LEMMA DroppedMove ==
    ASSUME RepoShape, NEW f \in Files, models' = [models EXCEPT ![f] = Absent], made' = made
    PROVE  RowsKept
BY DEF RepoShape, Existing, RowsKept

LEMMA WrittenMove ==
    ASSUME GitHub!GitHubAssumption, RepoShape, NEW f \in Files, models[f] # Absent, made' = made,
           NEW b, models' = [models EXCEPT ![f].body = b]
    PROVE  /\ RowsKept /\ models'[f] = [models[f] EXCEPT !.body = b]
           /\ models[f] \in GitHub!RepoRow /\ \A g \in Files : g # f => models'[g] = models[g]
BY DEF RepoShape, Existing, GitHub!RepoRow, RowsKept

LEMMA SourcedMove ==
    ASSUME GitHub!GitHubAssumption, RepoShape, NEW s \in Syncs, made' = made,
           models' = [f \in Files |-> Sourced(s, f)]
    PROVE  /\ RowsKept
           /\ \A f \in Files : models'[f] = Sourced(s, f) /\ (models'[f] = Absent <=> models[f] = Absent)
           /\ models' \in Existing
<1>1. models \in [Files -> GitHub!RepoRow \cup {Absent}] /\ Absent \notin GitHub!RepoRow
  BY DEF RepoShape, Existing, GitHub!GitHubAssumption
<1>2. ASSUME NEW f \in Files PROVE
        /\ models'[f] = Sourced(s, f)
        /\ models[f] = Absent => models'[f] = Absent
        /\ models[f] # Absent => /\ models'[f] \in GitHub!RepoRow
                                 /\ models'[f].row = models[f].row /\ models'[f].by = models[f].by
  <2>1. models'[f] = Sourced(s, f)
    OBVIOUS
  <2>2. CASE models[f] # Absent /\ models[f].row = sync[s].row
    BY <1>1, <2>1, <2>2 DEF Sourced, GitHub!RepoRow
  <2>3. CASE ~(models[f] # Absent /\ models[f].row = sync[s].row)
    BY <2>1, <2>3, <1>1 DEF Sourced
  <2> QED
    BY <2>2, <2>3
<1>3. models' \in [Files -> GitHub!RepoRow \cup {Absent}]
  BY <1>1, <1>2
<1>4. \A f \in Files : models'[f] = Absent <=> models[f] = Absent
  BY <1>1, <1>2
<1> QED
  BY <1>2, <1>3, <1>4 DEF RowsKept, Existing

\* UpdateModel and DeleteModel of a sync, by the id of the row it read.
Theirs(s, f) == models[f] # Absent /\ models[f].row = sync[s].existing[f].row

LEMMA UpdateTurns ==
    ASSUME GitHub!GitHubAssumption, RepoShape, NEW s \in Syncs, NEW f \in Files, GitHub!Update(s, f)
    PROVE  /\ sync[s].at = "apply" /\ f \in sync[s].todo /\ sync[s].existing[f] # Absent
           /\ Goes(s, "apply", sync[s].todo \ {f})
           /\ \/ models' = models
              \/ Theirs(s, f) /\ models' = [models EXCEPT ![f].body = sync[s].parsed[f]]
           /\ sync[s].existing[f].body # sync[s].parsed[f] /\ Theirs(s, f) =>
                 models' = [models EXCEPT ![f].body = sync[s].parsed[f]]
           /\ sync[s].existing[f].body = sync[s].parsed[f] => models' = models
BY ApartTurns DEF GitHub!Update, GitHub!Step, GitHub!IsRow, Theirs

LEMMA DeleteTurns ==
    ASSUME GitHub!GitHubAssumption, RepoShape, NEW s \in Syncs, NEW f \in Files, GitHub!Delete(s, f)
    PROVE  /\ sync[s].at = "delete" /\ f \in sync[s].todo
           /\ Goes(s, "delete", sync[s].todo \ {f})
           /\ Theirs(s, f) => models' = [models EXCEPT ![f] = Absent]
           /\ ~Theirs(s, f) => models' = models
BY ApartTurns DEF GitHub!Delete, GitHub!Step, GitHub!IsRow, Theirs

\* A user's request.
UserTheirs(u) ==
    models[user[u].name] # Absent /\ models[user[u].name].row = user[u].row

LEMMA UserWritesMove ==
    ASSUME GitHub!GitHubAssumption, RepoShape, RowsInv, NEW u \in Users, GitHub!UserWrites(u)
    PROVE  /\ user[u].at = "write" /\ user[u].name \in Files /\ user' = [user EXCEPT ![u] = GitHub!NoRequest]
           /\ \/ models' = models
              \/ /\ UserTheirs(u)
                 /\ \/ \E c \in scenario.contents : models' = [models EXCEPT ![user[u].name].body = c]
                    \/ models' = [models EXCEPT ![user[u].name] = Absent]
           /\ UNCHANGED <<scenario, repo, settings, last, sync, made, trouble>>
BY DEF GitHub!UserWrites, GitHub!IsRow, UserTheirs, RowsInv

-----------------------------------------------------------------------------
LEMMA RowsMoved ==
    ASSUME GitHub!GitHubAssumption, RepoShape, RowsInv, [GitHub!Next]_GitHub!vars
    PROVE  RowsMove
<1>s. scenario.files \subseteq Files /\ scenario.syncs \subseteq Syncs /\ scenario.users \subseteq Users
  BY DEF RepoShape, GitHub!GitHubAssumption, GitHub!RepoScenario
<1>1. ASSUME NEW s \in Syncs, NEW f \in Files, GitHub!Create(s, f) PROVE RowsMove
  <2>1. CASE models' = models /\ made' = made
    BY <2>1, ModelsSame DEF RowsMove
  <2>2. CASE /\ models[f] = Absent /\ made' = made + 1
             /\ models' = [models EXCEPT ![f] = NewRow(s, f)]
    BY <2>2, CreatedMove DEF NewRow, RowsMove
  <2> QED
    BY <1>1, <2>1, <2>2, CreateTurns
<1>2. ASSUME NEW s \in Syncs, GitHub!SetModelSource(s) PROVE RowsMove
  BY <1>2, SourceTurns, SourcedMove DEF GitHub!SetModelSource, RowsMove
<1>3. ASSUME NEW s \in Syncs, NEW f \in Files, GitHub!Update(s, f) PROVE RowsMove
  BY <1>3, ModelsSame, WrittenMove, UpdateTurns DEF GitHub!Update, RowsMove, Theirs
<1>4. ASSUME NEW s \in Syncs, NEW f \in Files, GitHub!Delete(s, f) PROVE RowsMove
  BY <1>4, DeleteTurns, ModelsSame, DroppedMove DEF GitHub!Delete, RowsMove
<1>5. ASSUME NEW u \in Users, NEW f \in Files, GitHub!UserCreates(u, f) PROVE RowsMove
  <2>1. models[f] = Absent /\ made' = made + 1
    BY <1>5 DEF GitHub!UserCreates
  <2>2. PICK c \in scenario.contents :
          models' = [models EXCEPT ![f] = [row |-> made + 1, body |-> c, source |-> "manual", by |-> u]]
    BY <1>5, <2>1 DEF GitHub!UserCreates
  <2>3. NewAt(f)
    BY <2>1, <2>2, CreatedMove
  <2> QED
    BY <2>3 DEF RowsMove
<1>6. ASSUME NEW u \in Users, GitHub!UserWrites(u) PROVE RowsMove
  <2> DEFINE f == user[u].name
  <2>1. f \in Files /\ made' = made
    BY <1>6, UserWritesMove
  <2>2. CASE models' = models
    BY <2>1, <2>2, ModelsSame DEF RowsMove
  <2>3. ASSUME NEW c \in scenario.contents, UserTheirs(u), models' = [models EXCEPT ![f].body = c]
        PROVE  RowsMove
    BY <2>1, <2>3, WrittenMove DEF RowsMove, UserTheirs
  <2>4. CASE models' = [models EXCEPT ![f] = Absent]
    BY <2>1, <2>4, DroppedMove DEF RowsMove
  <2> QED
    BY <1>6, <2>2, <2>3, <2>4, UserWritesMove
<1>7. CASE models' = models /\ made' = made
  BY <1>7, ModelsSame DEF RowsMove
<1>8. ASSUME NEW s \in Syncs, GitHub!SyncStep(s) PROVE RowsMove
  <2>1. GitHub!Start(s) \/ GitHub!GetBranchSHA(s) \/ GitHub!GetTree(s) \/ GitHub!GetExisting(s)
        \/ GitHub!StartDeleting(s) \/ GitHub!Finish(s) \/ (\E f \in Files : GitHub!GetFile(s, f))
        => models' = models /\ made' = made
    BY DEF GitHub!Start, GitHub!GetBranchSHA, GitHub!GetTree, GitHub!GetExisting,
           GitHub!StartDeleting, GitHub!Finish, GitHub!GetFile
  <2> QED
    BY <1>s, <1>1, <1>2, <1>3, <1>4, <1>7, <1>8, <2>1 DEF GitHub!SyncStep
<1>9. ASSUME NEW u \in Users, GitHub!UserStep(u) PROVE RowsMove
  BY <1>s, <1>5, <1>6, <1>7, <1>9 DEF GitHub!UserReads, GitHub!UserStep
<1>10. GitHub!SaveGitHubIntegration \/ GitHub!DeleteGitHubIntegration \/ GitHub!Push
       \/ GitHub!Crash \/ UNCHANGED GitHub!vars => models' = models /\ made' = made
  BY DEF GitHub!SaveGitHubIntegration, GitHub!DeleteGitHubIntegration, GitHub!Push, GitHub!Crash,
         GitHub!vars
<1> QED
  BY <1>s, <1>7, <1>8, <1>9, <1>10 DEF GitHub!Next

-----------------------------------------------------------------------------
Troubles == [faults : Nat, saves : Nat, crashes : Nat]

LEMMA FaultType == ASSUME RepoShape, NEW c, GitHub!Fault(c) PROVE trouble' \in Troubles
BY DEF GitHub!Fault, RepoShape, Troubles

LEMMA NewRowType ==
    ASSUME GitHub!GitHubAssumption, RepoShape, NEW f \in Files, NEW b \in Contents, NEW o \in Syncs \cup Users
    PROVE  [models EXCEPT ![f] = [row |-> made + 1, body |-> b, source |-> "manual", by |-> o]] \in Existing
BY DEF RepoShape, Existing, GitHub!RepoRow

LEMMA WrittenType ==
    ASSUME GitHub!GitHubAssumption, RepoShape, NEW f \in Files, models[f] # Absent, NEW b \in Contents
    PROVE  [models EXCEPT ![f].body = b] \in Existing
BY DEF RepoShape, Existing, GitHub!RepoRow

LEMMA DroppedType ==
    ASSUME RepoShape, NEW f \in Files PROVE [models EXCEPT ![f] = Absent] \in Existing
BY DEF RepoShape, Existing

\* Every variable keeps its type.
LEMMA RepoShapeStep ==
    ASSUME GitHub!GitHubAssumption, RepoShape, RowsInv, [GitHub!Next]_GitHub!vars
    PROVE  RepoShape'
<1>s. /\ scenario.files \subseteq Files /\ scenario.syncs \subseteq Syncs
      /\ scenario.users \subseteq Users /\ scenario.contents \subseteq Contents
      /\ scenario.models \in Nat
  BY DEF RepoShape, GitHub!GitHubAssumption, GitHub!RepoScenario
<1>t. trouble \in Troubles /\ made \in Nat /\ models \in Existing /\ made <= scenario.models
      /\ last \in Nat /\ last <= Len(repo) /\ repo \in Seq(RepoTree)
      /\ user \in [Users -> UserRecord] /\ sync \in [Syncs -> SyncRecord]
  BY DEF RepoShape, Troubles
<1>k. ASSUME UNCHANGED <<scenario, repo, settings, last, user>>, sync' \in [Syncs -> SyncRecord],
             models' \in Existing, made' \in Nat, made' <= scenario.models, trouble' \in Troubles
      PROVE  RepoShape'
  BY <1>k DEF RepoShape, Troubles
<1>1. ASSUME NEW s \in Syncs, GitHub!Start(s) PROVE RepoShape'
  BY <1>1, StartTurns, <1>k, <1>t DEF Turns, GitHub!Start
<1>2. ASSUME NEW s \in Syncs, GitHub!GetBranchSHA(s) PROVE RepoShape'
  BY <1>2, BranchTurns, <1>t, FaultType, <1>k DEF Turns, Ends, GitHub!GetBranchSHA
<1>3. ASSUME NEW s \in Syncs, GitHub!GetTree(s) PROVE RepoShape'
  BY <1>3, TreeTurns, <1>t, FaultType, <1>k DEF Turns, Ends, Goes, GitHub!GetTree
<1>4. ASSUME NEW s \in Syncs, NEW f \in Files, GitHub!GetFile(s, f) PROVE RepoShape'
  <2>1. Len(repo) > 0
    BY <1>4, <1>t DEF GitHub!GetFile, GitHub!Step, RowsInv, SyncFits, SyncRecord
  <2>2. sync' \in [Syncs -> SyncRecord]
    BY <1>4, <2>1, FileTurns DEF Turns, Goes
  <2>3. trouble' \in Troubles
    BY <1>4, <1>t, FaultType DEF GitHub!GetFile
  <2> QED
    BY <1>4, <1>k, <1>t, <2>2, <2>3 DEF GitHub!GetFile
<1>5. ASSUME NEW s \in Syncs, GitHub!GetExisting(s) PROVE RepoShape'
  BY <1>5, ExistingTurns, <1>k, <1>t DEF Turns, GitHub!GetExisting
<1>6. ASSUME NEW s \in Syncs, NEW f \in Files, GitHub!Create(s, f) PROVE RepoShape'
  <2>1. sync[s].parsed[f] \in Contents
    BY <1>6, <1>t DEF GitHub!Create, GitHub!Step, RowsInv, SyncFits, SyncRecord, Parsed
  <2>2. UNCHANGED <<scenario, repo, settings, last, user, trouble>>
    BY <1>6 DEF GitHub!Create
  <2>3. CASE /\ models[f] = Absent /\ made < scenario.models /\ made' = made + 1
             /\ models' = [models EXCEPT ![f] = NewRow(s, f)]
             /\ sync' \in [Syncs -> SyncRecord]
    <3>1. models' \in Existing
      BY <2>1, <2>3, NewRowType DEF NewRow
    <3> QED
      BY <1>k, <1>s, <1>t, <2>2, <2>3, <3>1
  <2>4. CASE models' = models /\ made' = made /\ sync' \in [Syncs -> SyncRecord]
    BY <1>k, <1>t, <2>2, <2>4
  <2> QED
    BY <1>6, <2>3, <2>4, CreateTurns DEF Turns, Goes
<1>7. ASSUME NEW s \in Syncs, GitHub!SetModelSource(s) PROVE RepoShape'
  BY <1>7, SourceTurns, SourcedMove, <1>k, <1>t DEF Turns, GitHub!SetModelSource
<1>8. ASSUME NEW s \in Syncs, NEW f \in Files, GitHub!Update(s, f) PROVE RepoShape'
  <2>1. sync' \in [Syncs -> SyncRecord]
    BY <1>8, UpdateTurns DEF Turns, Goes
  <2>2. sync[s].parsed[f] \in Contents
    <3>1. sync[s] \in SyncRecord /\ sync[s].at = "apply" /\ f \in sync[s].todo /\ SyncFits(s)
      BY <1>8, <1>t, UpdateTurns DEF RowsInv
    <3> QED
      BY <3>1 DEF SyncFits, SyncRecord, Parsed
  <2>3. CASE Theirs(s, f) /\ models' = [models EXCEPT ![f].body = sync[s].parsed[f]]
    <3>1. models' \in Existing
      BY <2>2, <2>3, WrittenType DEF Theirs
    <3> QED
      BY <1>8, <1>k, <1>t, <2>1, <3>1 DEF GitHub!Update
  <2>4. CASE models' = models
    BY <1>8, <1>k, <1>t, <2>1, <2>4 DEF GitHub!Update
  <2> QED
    BY <1>8, <2>3, <2>4, UpdateTurns
<1>9. ASSUME NEW s \in Syncs, GitHub!StartDeleting(s) PROVE RepoShape'
  BY <1>9, DeletingTurns, <1>k, <1>t DEF Turns, Goes, GitHub!StartDeleting
<1>10. ASSUME NEW s \in Syncs, NEW f \in Files, GitHub!Delete(s, f) PROVE RepoShape'
  BY <1>10, DeleteTurns, <1>t, DroppedType, <1>k DEF Turns, Goes, GitHub!Delete
<1>11. ASSUME NEW s \in Syncs, GitHub!Finish(s) PROVE RepoShape'
  <2>1. sync' \in [Syncs -> SyncRecord]
    BY <1>11, EndTurns DEF GitHub!Finish, Turns, Ends
  <2>2. last' \in Nat /\ last' <= Len(repo)
    BY <1>11, <1>t DEF GitHub!Finish, RowsInv, SyncFits, SyncRecord
  <2> QED
    BY <1>11, <1>t, <2>1, <2>2 DEF GitHub!Finish, RepoShape, Troubles
<1>12. ASSUME NEW u \in Users, NEW f \in Files, GitHub!UserCreates(u, f) PROVE RepoShape'
  <2>1. models[f] = Absent /\ made < scenario.models /\ made' = made + 1
    BY <1>12 DEF GitHub!UserCreates
  <2>2. PICK c \in scenario.contents :
          models' = [models EXCEPT ![f] = [row |-> made + 1, body |-> c, source |-> "manual", by |-> u]]
    BY <1>12, <2>1 DEF GitHub!UserCreates
  <2>3. models' \in Existing
    BY <1>s, <2>2, NewRowType
  <2> QED
    BY <1>12, <1>k, <1>s, <1>t, <2>1, <2>3 DEF GitHub!UserCreates
<1>13. ASSUME NEW u \in Users, NEW f \in Files, GitHub!UserReads(u, f) PROVE RepoShape'
  BY <1>13, <1>t DEF GitHub!UserReads, Existing, GitHub!RepoRow, UserRecord, RepoShape, Troubles
<1>14. ASSUME NEW u \in Users, GitHub!UserWrites(u) PROVE RepoShape'
  <2>1. user' \in [Users -> UserRecord]
    BY <1>14, <1>t, UserWritesMove DEF UserRecord, GitHub!NoRequest
  <2>2. PICK f : f = user[u].name
    OBVIOUS
  <2>3. f \in Files /\ user[u].at = "write"
    BY <1>14, <2>2, UserWritesMove
  <2>4. ASSUME NEW c \in scenario.contents, UserTheirs(u), models' = [models EXCEPT ![f].body = c]
        PROVE  models' \in Existing
    BY <1>s, <2>2, <2>3, <2>4, WrittenType DEF UserTheirs
  <2>5. ASSUME models' = [models EXCEPT ![f] = Absent] PROVE models' \in Existing
    <3>1. [models EXCEPT ![f] = Absent] \in Existing
      BY <2>3, DroppedType
    <3> QED
      BY ONLY <2>5, <3>1
  <2>8. \/ models' = models
        \/ UserTheirs(u) /\ \E c \in scenario.contents : models' = [models EXCEPT ![f].body = c]
        \/ models' = [models EXCEPT ![f] = Absent]
    BY <1>14, <2>2, UserWritesMove
  <2>6. models' \in Existing
    BY <1>t, <2>4, <2>5, <2>8
  <2>7. UNCHANGED <<scenario, repo, settings, last, sync, made, trouble>>
    BY <1>14, UserWritesMove
  <2> QED
    BY <1>k, <1>t, <2>1, <2>6, <2>7 DEF RepoShape, Troubles
<1>15. ASSUME GitHub!SaveGitHubIntegration PROVE RepoShape'
  BY <1>15, <1>t, <1>s DEF GitHub!SaveGitHubIntegration, Troubles, RepoShape
<1>16. ASSUME GitHub!DeleteGitHubIntegration PROVE RepoShape'
  BY <1>16, <1>t DEF GitHub!DeleteGitHubIntegration, RepoShape
<1>17. ASSUME GitHub!Push PROVE RepoShape'
  <2>1. PICK tree \in [Files -> scenario.contents \cup {Absent}] : repo' = Append(repo, tree)
    BY <1>17 DEF GitHub!Push
  <2>2. tree \in RepoTree
    BY <1>s DEF RepoTree
  <2>3. repo' \in Seq(RepoTree) /\ Len(repo') = Len(repo) + 1 /\ Len(repo) \in Nat
    BY <1>t, <2>1, <2>2
  <2>4. Len(repo) < scenario.commits /\ scenario.commits \in Nat
    BY <1>17 DEF GitHub!Push, GitHub!Tip, RepoShape, GitHub!GitHubAssumption, GitHub!RepoScenario
  <2>5. Len(repo') <= scenario.commits /\ last <= Len(repo')
    BY <1>t, <2>3, <2>4
  <2> QED
    BY <1>17, <1>t, <2>3, <2>5 DEF GitHub!Push, RepoShape
<1>18. ASSUME GitHub!Crash PROVE RepoShape'
  <2>1. trouble' \in Troubles
    BY <1>18, <1>t DEF GitHub!Crash, Troubles
  <2>2. GitHub!Idle \in SyncRecord
    BY NoFileType DEF SyncRecord, GitHub!Idle, GitHub!NoFiles, NoFile
  <2>3. sync' \in [Syncs -> SyncRecord]
    BY <1>18, <2>2 DEF GitHub!Crash
  <2>4. user' \in [Users -> UserRecord]
    BY <1>18 DEF GitHub!Crash, UserRecord, GitHub!NoRequest
  <2> QED
    BY <1>18, <1>t, <2>1, <2>3, <2>4 DEF GitHub!Crash, RepoShape, Troubles
<1>19. CASE UNCHANGED GitHub!vars
  BY <1>19 DEF GitHub!vars, RepoShape
<1>20. ASSUME NEW s \in Syncs, GitHub!SyncStep(s) PROVE RepoShape'
  BY <1>s, <1>1, <1>2, <1>3, <1>4, <1>5, <1>6, <1>7, <1>8, <1>9, <1>10, <1>11, <1>20
     DEF GitHub!SyncStep
<1>21. ASSUME NEW u \in Users, GitHub!UserStep(u) PROVE RepoShape'
  BY <1>s, <1>12, <1>13, <1>14, <1>21 DEF GitHub!UserStep
<1> QED
  BY <1>s, <1>15, <1>16, <1>17, <1>18, <1>19, <1>20, <1>21 DEF GitHub!Next

-----------------------------------------------------------------------------
\* Rows keep their numbers.
LEMMA RowsUnique ==
    ASSUME GitHub!GitHubAssumption, RepoShape, RowsInv, RowsMove
    PROVE  /\ made <= made' /\ made \in Nat /\ made' \in Nat
           /\ \A f \in Files : models'[f] # Absent => models'[f].row \in 1 .. made'
           /\ \A f, g \in Files :
                 models'[f] # Absent /\ models'[g] # Absent /\ models'[f].row = models'[g].row
                    => f = g
           /\ \A r \in Nat : r <= made /\ OfSync(r) => OfSync(r)'
<1>1. /\ made \in Nat
      /\ \A f \in Files : models[f] # Absent => models[f].row \in 1 .. made
      /\ \A f, g \in Files :
            models[f] # Absent /\ models[g] # Absent /\ models[f].row = models[g].row => f = g
  BY DEF RepoShape, RowsInv
<1>2. CASE RowsKept
  BY <1>1, <1>2 DEF RowsKept, OfSync
<1>3. ASSUME NEW g \in Files, NewAt(g) PROVE
           /\ made <= made' /\ made' \in Nat
           /\ \A f \in Files : models'[f] # Absent => models'[f].row \in 1 .. made'
           /\ \A e, f \in Files :
                 models'[e] # Absent /\ models'[f] # Absent /\ models'[e].row = models'[f].row
                    => e = f
           /\ \A r \in Nat : r <= made /\ OfSync(r) => OfSync(r)'
  BY <1>3, <1>1 DEF NewAt, OfSync
<1> QED
  BY <1>1, <1>2, <1>3 DEF RowsMove

\* What the steps of a sync and of a user leave alone.
LEMMA SyncFrame ==
    ASSUME NEW s, GitHub!SyncStep(s) PROVE UNCHANGED <<scenario, repo, settings, user>>
<1>1. ASSUME GitHub!Start(s) PROVE UNCHANGED <<scenario, repo, settings, user>>
  BY <1>1 DEF GitHub!Start
<1>2. ASSUME GitHub!GetBranchSHA(s) PROVE UNCHANGED <<scenario, repo, settings, user>>
  BY <1>2 DEF GitHub!GetBranchSHA
<1>3. ASSUME GitHub!GetTree(s) PROVE UNCHANGED <<scenario, repo, settings, user>>
  BY <1>3 DEF GitHub!GetTree
<1>4. ASSUME NEW f, GitHub!GetFile(s, f) PROVE UNCHANGED <<scenario, repo, settings, user>>
  BY <1>4 DEF GitHub!GetFile
<1>5. ASSUME GitHub!GetExisting(s) PROVE UNCHANGED <<scenario, repo, settings, user>>
  BY <1>5 DEF GitHub!GetExisting
<1>6. ASSUME NEW f, GitHub!Create(s, f) PROVE UNCHANGED <<scenario, repo, settings, user>>
  BY <1>6 DEF GitHub!Create
<1>7. ASSUME GitHub!SetModelSource(s) PROVE UNCHANGED <<scenario, repo, settings, user>>
  BY <1>7 DEF GitHub!SetModelSource
<1>8. ASSUME NEW f, GitHub!Update(s, f) PROVE UNCHANGED <<scenario, repo, settings, user>>
  BY <1>8 DEF GitHub!Update
<1>9. ASSUME GitHub!StartDeleting(s) PROVE UNCHANGED <<scenario, repo, settings, user>>
  BY <1>9 DEF GitHub!StartDeleting
<1>10. ASSUME NEW f, GitHub!Delete(s, f) PROVE UNCHANGED <<scenario, repo, settings, user>>
  BY <1>10 DEF GitHub!Delete
<1>11. ASSUME GitHub!Finish(s) PROVE UNCHANGED <<scenario, repo, settings, user>>
  BY <1>11 DEF GitHub!Finish
<1> QED
  BY <1>1, <1>2, <1>3, <1>4, <1>5, <1>6, <1>7, <1>8, <1>9, <1>10, <1>11 DEF GitHub!SyncStep

LEMMA UserFrame ==
    ASSUME NEW u, GitHub!UserStep(u)
    PROVE  UNCHANGED <<scenario, repo, settings, last, sync, trouble>>
BY DEF GitHub!UserCreates, GitHub!UserReads, GitHub!UserWrites, GitHub!UserStep

\* The repository only grows.
LEMMA RepoGrows ==
    ASSUME RepoShape, [GitHub!Next]_GitHub!vars
    PROVE  /\ Len(repo) <= Len(repo') /\ Len(repo) \in Nat /\ Len(repo') \in Nat
           /\ \A n \in 1 .. Len(repo) : repo'[n] = repo[n]
           /\ scenario' = scenario
BY SyncFrame, UserFrame DEF RepoShape, GitHub!Push, GitHub!SaveGitHubIntegration,
   GitHub!DeleteGitHubIntegration, GitHub!Crash, GitHub!vars, GitHub!Next

\* Every step of the specification, by who takes it.
SyncMoves(s) ==
    \/ GitHub!Start(s) \/ GitHub!GetBranchSHA(s) \/ GitHub!GetTree(s) \/ GitHub!GetExisting(s)
    \/ GitHub!SetModelSource(s) \/ GitHub!StartDeleting(s) \/ GitHub!Finish(s)
    \/ \E f \in Files : \/ GitHub!GetFile(s, f) \/ GitHub!Create(s, f)
                        \/ GitHub!Update(s, f) \/ GitHub!Delete(s, f)

LEMMA RepoCases ==
    ASSUME GitHub!GitHubAssumption, RepoShape, [GitHub!Next]_GitHub!vars
    PROVE  \/ \E s \in Syncs : SyncMoves(s)
           \/ /\ sync' = sync /\ made <= made'
              /\ user' = user \/ \E u \in Users : GitHub!UserStep(u)
           \/ GitHub!Crash
<1>1. scenario.files \subseteq Files /\ scenario.syncs \subseteq Syncs /\ scenario.users \subseteq Users
      /\ made \in Nat
  BY DEF RepoShape, GitHub!GitHubAssumption, GitHub!RepoScenario
<1>2. ASSUME NEW u \in Users, GitHub!UserStep(u) PROVE sync' = sync /\ made <= made'
  BY <1>1, <1>2 DEF GitHub!UserStep, GitHub!UserCreates, GitHub!UserReads, GitHub!UserWrites
<1>3. GitHub!SaveGitHubIntegration \/ GitHub!DeleteGitHubIntegration \/ GitHub!Push
      \/ UNCHANGED GitHub!vars => sync' = sync /\ made' = made /\ user' = user
  BY DEF GitHub!SaveGitHubIntegration, GitHub!DeleteGitHubIntegration, GitHub!Push, GitHub!vars
<1>4. ASSUME NEW s \in Syncs, GitHub!SyncStep(s) PROVE SyncMoves(s)
  BY <1>1, <1>4 DEF GitHub!SyncStep, SyncMoves
<1> QED
  BY <1>1, <1>2, <1>3, <1>4 DEF GitHub!Next

LEMMA OthersStay ==
    ASSUME RepoShape, NEW s \in Syncs, SyncMoves(s)
    PROVE  \A q \in Syncs : q # s => sync'[q] = sync[q]
<1>1. sync \in [Syncs -> SyncRecord]
  BY DEF RepoShape
<1> QED
  BY <1>1 DEF SyncMoves, GitHub!Start, GitHub!GetBranchSHA, GitHub!GetTree, GitHub!GetFile,
     GitHub!GetExisting, GitHub!Create, GitHub!SetModelSource, GitHub!Update,
     GitHub!StartDeleting, GitHub!Delete, GitHub!Finish, GitHub!End

LEMMA UserNames ==
    ASSUME GitHub!GitHubAssumption, RepoShape, RowsInv, [GitHub!Next]_GitHub!vars
    PROVE  \A u \in Users : user'[u].at = "write" => user'[u].name \in Files
<1>s. scenario.files \subseteq Files /\ scenario.users \subseteq Users /\ user \in [Users -> UserRecord]
      /\ \A u \in Users : user[u].at = "write" => user[u].name \in Files
  BY DEF RepoShape, GitHub!GitHubAssumption, GitHub!RepoScenario, RowsInv
<1>1. ASSUME NEW u \in Users, NEW f \in Files, GitHub!UserReads(u, f)
      PROVE  \A v \in Users : user'[v].at = "write" => user'[v].name \in Files
  BY <1>s, <1>1 DEF GitHub!UserReads
<1>2. ASSUME NEW u \in Users, GitHub!UserWrites(u)
      PROVE  \A v \in Users : user'[v].at = "write" => user'[v].name \in Files
  BY <1>s, <1>2 DEF GitHub!UserWrites, GitHub!NoRequest
<1>3. ASSUME GitHub!Crash PROVE \A v \in Users : user'[v].at = "write" => user'[v].name \in Files
  BY <1>3 DEF GitHub!Crash, GitHub!NoRequest
<1>4. ASSUME NEW u \in Users, GitHub!UserStep(u)
      PROVE  user' = user \/ GitHub!UserWrites(u) \/ \E f \in Files : GitHub!UserReads(u, f)
  BY <1>s, <1>4 DEF GitHub!UserStep, GitHub!UserCreates
<1>5. (\E s \in Syncs : GitHub!SyncStep(s)) => user' = user
  BY SyncFrame
<1>6. GitHub!SaveGitHubIntegration \/ GitHub!DeleteGitHubIntegration \/ GitHub!Push
      \/ UNCHANGED GitHub!vars => user' = user
  BY DEF GitHub!SaveGitHubIntegration, GitHub!DeleteGitHubIntegration, GitHub!Push, GitHub!vars
<1>7. scenario.syncs \subseteq Syncs
  BY DEF RepoShape, GitHub!GitHubAssumption, GitHub!RepoScenario
<1> QED
  BY <1>s, <1>1, <1>2, <1>3, <1>4, <1>5, <1>6, <1>7 DEF GitHub!Next

\* A sync keeps to commits, files and rows that exist.
LEMMA FitsStep ==
    ASSUME GitHub!GitHubAssumption, RepoShape, RowsInv, [GitHub!Next]_GitHub!vars
    PROVE  \A r \in Syncs : SyncFits(r)'
<1>g. /\ Len(repo) <= Len(repo') /\ Len(repo) \in Nat /\ Len(repo') \in Nat
  BY RepoGrows
<1>m. made \in Nat /\ made' \in Nat /\ made <= made' /\ last \in Nat /\ last <= Len(repo)
  BY RowsMoved, RowsUnique DEF RepoShape
<1>t. \A r \in Syncs : sync[r] \in SyncRecord /\ SyncFits(r)
  BY DEF RepoShape, RowsInv
<1>k. ASSUME NEW r \in Syncs, sync'[r] = sync[r] PROVE SyncFits(r)'
  BY <1>g, <1>m, <1>t, <1>k DEF SyncFits, SyncRecord, Existing, GitHub!RepoRow
<1> SUFFICES ASSUME NEW r \in Syncs PROVE SyncFits(r)'
  OBVIOUS
<1>o. ASSUME NEW s \in Syncs, \A q \in Syncs : q # s => sync'[q] = sync[q], s # r PROVE SyncFits(r)'
  BY <1>k, <1>o
<1>n. \A f \in Files : NoFile[f] = Absent
  BY DEF NoFile
<1>e. Ends(r) => SyncFits(r)'
  BY <1>g, <1>m, <1>n DEF Ends, Turns, SyncFits, Applying
<1>1. ASSUME GitHub!Start(r) PROVE SyncFits(r)'
  BY <1>1, <1>g, <1>m, <1>n, StartTurns DEF Turns, SyncFits, Applying
<1>2. ASSUME GitHub!GetBranchSHA(r) PROVE SyncFits(r)'
  BY <1>g, <1>m, <1>t, <1>2, <1>e, BranchTurns DEF SyncFits, SyncRecord, Existing, GitHub!RepoRow,
     Applying, Turns
<1>3. ASSUME GitHub!GetTree(r) PROVE SyncFits(r)'
  <2>1. sync[r].at = "tree"
    BY <1>3 DEF GitHub!GetTree, GitHub!Step
  <2>2. CASE /\ sync'[r].at = "file" /\ sync'[r].last = sync[r].last
             /\ sync'[r].sha = sync[r].sha /\ sync'[r].existing = sync[r].existing
             /\ sync'[r].row = sync[r].row
    BY <1>g, <1>m, <1>t, <2>1, <2>2 DEF SyncFits, SyncRecord, Existing, GitHub!RepoRow, Applying
  <2> QED
    BY <1>3, <1>e, <2>2, TreeTurns DEF Turns, Goes
<1>4. ASSUME NEW f \in Files, GitHub!GetFile(r, f) PROVE SyncFits(r)'
  <2>1. sync[r].at = "file"
    BY <1>4 DEF GitHub!GetFile, GitHub!Step
  <2>2. Len(repo) > 0
    BY <1>g, <1>t, <2>1 DEF SyncFits, SyncRecord
  <2>3. /\ sync'[r].at = "file" /\ sync'[r].last = sync[r].last
        /\ sync'[r].sha = sync[r].sha /\ sync'[r].existing = sync[r].existing
        /\ sync'[r].row = sync[r].row
    BY <1>4, <2>2, FileTurns DEF Turns, Goes
  <2> QED
    BY <1>g, <1>m, <1>t, <2>1, <2>3 DEF SyncFits, SyncRecord, Existing, GitHub!RepoRow, Applying
<1>5. ASSUME GitHub!GetExisting(r) PROVE SyncFits(r)'
  <2>1. sync[r].at = "file"
    BY <1>5 DEF GitHub!GetExisting, GitHub!Step
  <2>2. /\ sync'[r].at = "apply" /\ sync'[r].last = sync[r].last /\ sync'[r].sha = sync[r].sha
        /\ sync'[r].todo = FoundFiles(r) /\ sync'[r].parsed = sync[r].parsed
        /\ sync'[r].existing = OwnModels /\ sync'[r].row = sync[r].row
    BY <1>5, ExistingTurns DEF Turns
  <2>3. \A f \in Files : OwnModels[f] # Absent => OwnModels[f].row <= made
    BY <1>m DEF RowsInv, OwnModels, OfGitHub
  <2>4. \A f \in Files : OwnModels[f] # Absent => OwnModels[f].row \in Nat
    BY DEF OwnModels, OfGitHub, RepoShape, Existing, GitHub!RepoRow
  <2> QED
    BY <1>g, <1>m, <1>t, <2>1, <2>2, <2>3, <2>4 DEF SyncFits, SyncRecord, FoundFiles, Applying
<1>6. ASSUME NEW f \in Files, GitHub!Create(r, f) PROVE SyncFits(r)'
  <2>1. sync[r].at = "apply"
    BY <1>6 DEF GitHub!Create, GitHub!Step
  <2>2. /\ sync'[r].at \in {"source", "apply"} /\ sync'[r].last = sync[r].last
        /\ sync'[r].sha = sync[r].sha /\ sync'[r].existing = sync[r].existing
        /\ sync'[r].parsed = sync[r].parsed /\ sync'[r].todo = sync[r].todo \ {f}
        /\ \/ sync'[r].row = sync[r].row
           \/ sync'[r].row = made + 1 /\ made' = made + 1
    BY <1>6, CreateTurns DEF Turns, Goes
  <2> QED
    BY <1>g, <1>m, <1>t, <2>1, <2>2 DEF SyncFits, SyncRecord, Existing, GitHub!RepoRow, Applying
<1>7. ASSUME GitHub!SetModelSource(r) PROVE SyncFits(r)'
  <2>1. sync[r].at = "source"
    BY <1>7 DEF GitHub!SetModelSource, GitHub!Step
  <2>2. /\ sync'[r].at = "apply" /\ sync'[r].last = sync[r].last
        /\ sync'[r].sha = sync[r].sha /\ sync'[r].existing = sync[r].existing
        /\ sync'[r].parsed = sync[r].parsed /\ sync'[r].todo = sync[r].todo
        /\ sync'[r].row = 0
    BY <1>7, SourceTurns DEF Turns
  <2> QED
    BY <1>g, <1>m, <1>t, <2>1, <2>2 DEF SyncFits, SyncRecord, Existing, GitHub!RepoRow, Applying
<1>8. ASSUME NEW T, sync[r].at \in Applying, Goes(r, sync[r].at, T), T \subseteq sync[r].todo
      PROVE  SyncFits(r)'
  BY <1>8, <1>g, <1>m, <1>t DEF Goes, Turns, SyncFits, SyncRecord, Existing, GitHub!RepoRow, Applying
<1>9. ASSUME GitHub!StartDeleting(r) PROVE SyncFits(r)'
  <2>1. sync[r].at = "apply"
    BY <1>9 DEF GitHub!StartDeleting, GitHub!Step
  <2>2. /\ sync'[r].at = "delete" /\ sync'[r].last = sync[r].last
        /\ sync'[r].sha = sync[r].sha /\ sync'[r].existing = sync[r].existing
        /\ sync'[r].row = sync[r].row
        /\ \A f \in sync'[r].todo : sync[r].existing[f] # Absent
    BY <1>9, DeletingTurns DEF Turns, Goes, GitHub!Stale, GitHub!Listed
  <2> QED
    BY <1>g, <1>m, <1>t, <2>1, <2>2 DEF SyncFits, SyncRecord, Existing, GitHub!RepoRow, Applying
<1>10. ASSUME NEW f \in Files, GitHub!Update(r, f) \/ GitHub!Delete(r, f) PROVE SyncFits(r)'
  <2>1. sync[r].todo \ {f} \subseteq sync[r].todo /\ {"apply", "delete"} \subseteq Applying
    BY DEF Applying
  <2>2. CASE GitHub!Update(r, f)
    <3>1. sync[r].at = "apply" /\ Goes(r, "apply", sync[r].todo \ {f})
      BY <2>2, UpdateTurns
    <3> QED
      BY <1>8, <2>1, <3>1
  <2>3. CASE GitHub!Delete(r, f)
    <3>1. sync[r].at = "delete" /\ Goes(r, "delete", sync[r].todo \ {f})
      BY <2>3, DeleteTurns
    <3> QED
      BY <1>8, <2>1, <3>1
  <2> QED
    BY <1>10, <2>2, <2>3
<1>11. ASSUME GitHub!Finish(r) PROVE SyncFits(r)'
  BY <1>11, <1>e, EndTurns DEF GitHub!Finish
<1>12. ASSUME GitHub!Crash PROVE SyncFits(r)'
  BY <1>12, <1>g, <1>m DEF GitHub!Crash, GitHub!Idle, GitHub!NoFiles, SyncFits, Applying
<1> QED
  BY <1>k, <1>o, <1>1, <1>2, <1>3, <1>4, <1>5, <1>6, <1>7, <1>9, <1>10, <1>11, <1>12, OthersStay,
     RepoCases DEF SyncMoves

-----------------------------------------------------------------------------
\* A model keeps its source and its maker, or is a manual one.
SourceMoves ==
    \A f \in Files : models'[f] # Absent =>
       \/ models'[f].source = "manual"
       \/ /\ models[f] # Absent /\ models'[f].source = models[f].source
          /\ models'[f].by = models[f].by

LEMMA CreatedSource ==
    ASSUME GitHub!GitHubAssumption, RepoShape, NEW f \in Files,
           NEW r, NEW b, NEW o, models' = [models EXCEPT ![f] = [row |-> r, body |-> b, source |-> "manual", by |-> o]]
    PROVE  SourceMoves
BY DEF RepoShape, Existing, SourceMoves

LEMMA WrittenSource ==
    ASSUME GitHub!GitHubAssumption, RepoShape, NEW f \in Files, models[f] # Absent, made' = made,
           NEW b, models' = [models EXCEPT ![f].body = b]
    PROVE  SourceMoves
BY WrittenMove DEF GitHub!RepoRow, SourceMoves

LEMMA DroppedSource ==
    ASSUME RepoShape, NEW f \in Files, models' = [models EXCEPT ![f] = Absent] PROVE SourceMoves
BY DEF RepoShape, Existing, SourceMoves

LEMMA SourcesStep ==
    ASSUME GitHub!GitHubAssumption, RepoShape, RowsInv, OwnedInv, [GitHub!Next]_GitHub!vars
    PROVE  SourcesInv'
<1>s. scenario.files \subseteq Files /\ scenario.syncs \subseteq Syncs /\ scenario.users \subseteq Users
  BY DEF RepoShape, GitHub!GitHubAssumption, GitHub!RepoScenario
<1>k. SourceMoves => SourcesInv'
  BY DEF SourceMoves, OwnedInv, SourcesInv
<1>0. models' = models => SourcesInv'
  BY DEF OwnedInv, SourcesInv
<1>1. ASSUME NEW s \in Syncs, NEW f \in Files, GitHub!Create(s, f) PROVE SourcesInv'
  BY <1>k, CreatedSource, <1>0, <1>1, CreateTurns DEF NewRow
<1>2. ASSUME NEW s \in Syncs, GitHub!SetModelSource(s) PROVE SourcesInv'
  <2>1. made' = made /\ sync[s].at = "source" /\ models' = [f \in Files |-> Sourced(s, f)]
    BY <1>2, SourceTurns DEF GitHub!SetModelSource, GitHub!Step
  <2>2. RowsKept /\ \A f \in Files : models'[f] = Sourced(s, f)
    BY <2>1, SourcedMove
  <2>3. OfSync(sync[s].row) /\ SourcesInv
    BY <2>1 DEF OwnedInv, KnowsOwn
  <2>4. ASSUME NEW f \in Files, models'[f] # Absent, models'[f].source = "github"
        PROVE  models'[f].by \in Syncs
    BY <2>2, <2>4, <2>3 DEF RowsKept, OfSync, Sourced, SourcesInv
  <2> QED
    BY <2>4 DEF SourcesInv
<1>3. ASSUME NEW s \in Syncs, NEW f \in Files, GitHub!Update(s, f) PROVE SourcesInv'
  BY <1>3, <1>k, WrittenSource, <1>0, UpdateTurns DEF GitHub!Update, Theirs
<1>4. ASSUME NEW s \in Syncs, NEW f \in Files, GitHub!Delete(s, f) PROVE SourcesInv'
  BY <1>0, <1>k, <1>4, DeleteTurns, DroppedSource
<1>5. ASSUME NEW u \in Users, NEW f \in Files, GitHub!UserCreates(u, f) PROVE SourcesInv'
  <2>1. PICK c \in scenario.contents :
          models' = [models EXCEPT ![f] = [row |-> made', body |-> c, source |-> "manual", by |-> u]]
    BY <1>5 DEF GitHub!UserCreates
  <2>2. SourceMoves
    BY <2>1, CreatedSource
  <2> QED
    BY <1>k, <2>2
<1>6. ASSUME NEW u \in Users, GitHub!UserWrites(u) PROVE SourcesInv'
  <2>1. PICK f : f = user[u].name
    OBVIOUS
  <2>2. f \in Files /\ made' = made
    BY <1>6, <2>1, UserWritesMove
  <2>3. ASSUME NEW c \in scenario.contents, UserTheirs(u), models' = [models EXCEPT ![f].body = c]
        PROVE  SourceMoves
    BY <2>1, <2>2, <2>3, WrittenSource DEF UserTheirs
  <2>4. ASSUME models' = [models EXCEPT ![f] = Absent] PROVE SourceMoves
    BY <2>2, <2>4, DroppedSource
  <2>5. \/ models' = models
        \/ UserTheirs(u) /\ \E c \in scenario.contents : models' = [models EXCEPT ![f].body = c]
        \/ models' = [models EXCEPT ![f] = Absent]
    BY <1>6, <2>1, UserWritesMove
  <2> QED
    BY <1>0, <1>k, <2>3, <2>4, <2>5
<1>7. ASSUME NEW s \in Syncs, GitHub!SyncStep(s) PROVE SourcesInv'
  <2>1. GitHub!Start(s) \/ GitHub!GetBranchSHA(s) \/ GitHub!GetTree(s) \/ GitHub!GetExisting(s)
        \/ GitHub!StartDeleting(s) \/ GitHub!Finish(s) \/ (\E f \in Files : GitHub!GetFile(s, f))
        => models' = models
    BY DEF GitHub!Start, GitHub!GetBranchSHA, GitHub!GetTree, GitHub!GetExisting,
           GitHub!StartDeleting, GitHub!Finish, GitHub!GetFile
  <2> QED
    BY <1>s, <1>0, <1>1, <1>2, <1>3, <1>4, <1>7, <2>1 DEF GitHub!SyncStep
<1>8. ASSUME NEW u \in Users, GitHub!UserStep(u) PROVE SourcesInv'
  BY <1>s, <1>0, <1>5, <1>6, <1>8 DEF GitHub!UserReads, GitHub!UserStep
<1>9. GitHub!SaveGitHubIntegration \/ GitHub!DeleteGitHubIntegration \/ GitHub!Push
      \/ GitHub!Crash \/ UNCHANGED GitHub!vars => models' = models
  BY DEF GitHub!SaveGitHubIntegration, GitHub!DeleteGitHubIntegration, GitHub!Push, GitHub!Crash,
         GitHub!vars
<1> QED
  BY <1>s, <1>0, <1>7, <1>8, <1>9 DEF GitHub!Next

\* What a sync has to do with stays its own.
LEMMA OwnedStep ==
    ASSUME GitHub!GitHubAssumption, RepoShape, RowsInv, OwnedInv, [GitHub!Next]_GitHub!vars
    PROVE  OwnedInv'
<1>m. /\ made \in Nat /\ made' \in Nat
      /\ \A r \in Nat : r <= made /\ OfSync(r) => OfSync(r)'
  BY RowsMoved, RowsUnique
<1>t. \A r \in Syncs : sync[r] \in SyncRecord /\ SyncFits(r) /\ KnowsOwn(r)
  BY DEF RepoShape, RowsInv, OwnedInv
<1>n. \A f \in Files : NoFile[f] = Absent
  BY DEF NoFile
<1> SUFFICES ASSUME NEW r \in Syncs PROVE KnowsOwn(r)'
  BY SourcesStep DEF OwnedInv
<1>q. ASSUME sync'[r].at = "source" => \E k : k = sync'[r].row /\ OfSync(k)',
             \A f \in Files : sync'[r].existing[f] # Absent =>
                \E k : k = sync'[r].existing[f].row /\ OfSync(k)'
      PROVE  KnowsOwn(r)'
  BY <1>q DEF KnowsOwn, OfSync
\* What it knew before is still its own.
<1>x. ASSUME NEW f \in Files, sync[r].existing[f] # Absent
      PROVE  \E k : k = sync[r].existing[f].row /\ OfSync(k)'
  <2>1. PICK k : k = sync[r].existing[f].row
    OBVIOUS
  <2>2. k \in Nat /\ k <= made
    BY <1>t, <1>x, <2>1 DEF SyncFits, SyncRecord, Existing, GitHub!RepoRow
  <2>3. OfSync(k)
    BY <1>t, <1>x, <2>1 DEF KnowsOwn
  <2> QED
    BY <1>m, <2>1, <2>2, <2>3
<1>y. ASSUME sync[r].at = "source" PROVE \E k : k = sync[r].row /\ OfSync(k)'
  <2>1. PICK k : k = sync[r].row
    OBVIOUS
  <2>2. k \in Nat /\ k <= made
    BY <1>t, <2>1 DEF SyncFits, SyncRecord
  <2>3. OfSync(k)
    BY <1>t, <1>y, <2>1 DEF KnowsOwn
  <2> QED
    BY <1>m, <2>1, <2>2, <2>3
<1>z. ASSUME sync'[r].existing = sync[r].existing, sync'[r].at # "source" PROVE KnowsOwn(r)'
  BY <1>q, <1>x, <1>z
<1>k. ASSUME sync'[r] = sync[r] PROVE KnowsOwn(r)'
  BY <1>q, <1>x, <1>y, <1>k
<1>e. ASSUME sync'[r].existing = NoFile, sync'[r].at # "source" PROVE KnowsOwn(r)'
  BY <1>n, <1>q, <1>e
<1>1. ASSUME GitHub!Start(r) PROVE KnowsOwn(r)'
  BY <1>1, <1>e, StartTurns DEF Turns
<1>2. ASSUME GitHub!GetBranchSHA(r) PROVE KnowsOwn(r)'
  BY <1>2, <1>e, <1>z, BranchTurns DEF Turns, Ends
<1>3. ASSUME GitHub!GetTree(r) PROVE KnowsOwn(r)'
  BY <1>3, <1>e, <1>z, TreeTurns DEF Turns, Ends, Goes
<1>4. ASSUME NEW f \in Files, GitHub!GetFile(r, f) PROVE KnowsOwn(r)'
  <2>1. Len(repo) > 0
    BY <1>4, <1>t DEF GitHub!GetFile, GitHub!Step, RepoShape, SyncFits, SyncRecord
  <2> QED
    BY <1>4, <1>z, <2>1, FileTurns DEF Turns, Goes
<1>5. ASSUME GitHub!GetExisting(r) PROVE KnowsOwn(r)'
  <2>1. sync'[r].at = "apply" /\ sync'[r].existing = OwnModels
    BY <1>5, ExistingTurns DEF Turns
  <2>2. models' = models
    BY <1>5 DEF GitHub!GetExisting
  <2>3. ASSUME NEW f \in Files, OwnModels[f] # Absent
        PROVE  \E k : k = OwnModels[f].row /\ OfSync(k)'
    <3>1. models[f] # Absent /\ models[f].source = "github" /\ OwnModels[f] = models[f]
      BY <2>3 DEF OwnModels, OfGitHub
    <3>2. models[f].by \in Syncs
      BY <3>1 DEF OwnedInv, SourcesInv
    <3>3. \A g \in Files : models[g] # Absent /\ models[g].row = models[f].row => g = f
      BY <3>1 DEF RowsInv
    <3>4. PICK k : k = models[f].row
      OBVIOUS
    <3>5. OfSync(k)'
      BY <2>2, <3>2, <3>3, <3>4 DEF OfSync
    <3> QED
      BY <3>1, <3>4, <3>5
  <2> QED
    BY <1>q, <2>1, <2>3
<1>6. ASSUME NEW f \in Files, GitHub!Create(r, f) PROVE KnowsOwn(r)'
  <2>1. sync'[r].existing = sync[r].existing
    BY <1>6, CreateTurns DEF Turns, Goes
  <2>2. CASE /\ models[f] = Absent /\ made' = made + 1
             /\ models' = [models EXCEPT ![f] = NewRow(r, f)] /\ sync'[r].row = made + 1
    <3>1. models \in [Files -> GitHub!RepoRow \cup {Absent}]
      BY DEF RepoShape, Existing
    <3>2. PICK k : k = made + 1
      OBVIOUS
    <3>3. \A g \in Files : g # f => models'[g] = models[g]
      BY <2>2, <3>1
    <3>4. models'[f].by = r
      BY <2>2, <3>1 DEF NewRow
    <3>5. \A g \in Files : models[g] # Absent => models[g].row # k
      BY <1>m, <3>2 DEF RowsInv
    <3>6. OfSync(k)'
      BY <3>3, <3>4, <3>5 DEF OfSync
    <3> QED
      BY <1>q, <1>x, <2>1, <2>2, <3>2, <3>6
  <2>3. CASE sync'[r].at = "apply"
    BY <1>z, <2>1, <2>3
  <2> QED
    BY <1>6, <2>2, <2>3, CreateTurns DEF Turns, Goes
<1>7. ASSUME GitHub!SetModelSource(r) PROVE KnowsOwn(r)'
  BY <1>7, <1>z, SourceTurns DEF Turns
<1>8. ASSUME NEW f \in Files, GitHub!Update(r, f) PROVE KnowsOwn(r)'
  BY <1>8, <1>z, UpdateTurns DEF Turns, Goes
<1>9. ASSUME NEW f \in Files, GitHub!Delete(r, f) PROVE KnowsOwn(r)'
  BY <1>9, <1>z, DeleteTurns DEF Turns, Goes
<1>10. ASSUME GitHub!StartDeleting(r) PROVE KnowsOwn(r)'
  BY <1>10, <1>z, DeletingTurns DEF Turns, Goes
<1>11. ASSUME GitHub!Finish(r) PROVE KnowsOwn(r)'
  BY <1>11, <1>e, EndTurns DEF GitHub!Finish, Ends, Turns
<1>12. ASSUME GitHub!Crash PROVE KnowsOwn(r)'
  BY <1>12, <1>e DEF GitHub!Crash, GitHub!Idle, GitHub!NoFiles, NoFile
<1> QED
  BY <1>k, <1>1, <1>2, <1>3, <1>4, <1>5, <1>6, <1>7, <1>8, <1>9, <1>10, <1>11, <1>12, OthersStay,
     RepoCases DEF SyncMoves

-----------------------------------------------------------------------------
\* What a sync did not parse was removed.
LEMMA FoundStep ==
    ASSUME GitHub!GitHubAssumption, RepoShape, RowsInv, FoundInv, [GitHub!Next]_GitHub!vars
    PROVE  FoundInv'
<1>g. /\ Len(repo) <= Len(repo') /\ Len(repo) \in Nat /\ Len(repo') \in Nat
      /\ \A n \in 1 .. Len(repo) : repo'[n] = repo[n]
      /\ scenario' = scenario
  BY RepoGrows
<1> SUFFICES ASSUME "file" \notin scenario.canFail, NEW r \in Syncs PROVE FoundBy(r)'
  BY <1>g DEF FoundInv
<1>t. sync[r] \in SyncRecord /\ SyncFits(r) /\ FoundBy(r)
  BY DEF RepoShape, RowsInv, FoundInv
<1>a. sync[r].at \in {"tree", "file"} \cup Applying => sync[r].sha \in 1 .. Len(repo)
  BY <1>g, <1>t DEF SyncFits, SyncRecord
\* What was removed stays removed.
<1>r. ASSUME NEW f \in Files, Removed(r, f), sync[r].sha > 0, sync'[r].sha = sync[r].sha
      PROVE  Removed(r, f)'
  <2>1. PICK n \in sync[r].sha .. Len(repo) : repo[n][f] \in {Absent} \cup Unparsable
    BY <1>r DEF Removed
  <2>2. n \in 1 .. Len(repo) /\ n \in sync'[r].sha .. Len(repo')
    BY <1>g, <1>r, <1>t, <2>1 DEF SyncRecord
  <2> QED
    BY <1>g, <2>1, <2>2 DEF Removed
<1>p. sync[r].path \subseteq Files
  BY <1>t DEF SyncRecord
<1>k. ASSUME sync'[r] = sync[r] PROVE FoundBy(r)'
  BY <1>a, <1>r, <1>t, <1>p, <1>k DEF FoundBy, Applying
<1>e. ASSUME sync'[r].at \in {"idle", "sha", "tree"} PROVE FoundBy(r)'
  BY <1>e DEF FoundBy, Applying
<1>1. ASSUME GitHub!Start(r) PROVE FoundBy(r)'
  BY <1>1, <1>e, StartTurns DEF Turns
<1>2. ASSUME GitHub!GetBranchSHA(r) PROVE FoundBy(r)'
  BY <1>2, <1>e, BranchTurns DEF Turns, Ends
<1>3. ASSUME GitHub!GetTree(r) PROVE FoundBy(r)'
  <2>1. sync[r].at = "tree" /\ repo' = repo
    BY <1>3 DEF GitHub!GetTree, GitHub!Step
  <2>2. CASE /\ sync'[r].at = "file" /\ sync'[r].path = sync[r].path /\ sync'[r].sha = sync[r].sha
             /\ sync'[r].todo = GitHub!FilterSQLFiles(r)
    <3>1. ASSUME NEW f \in sync[r].path, f \notin sync'[r].todo PROVE Removed(r, f)'
      BY <1>p, <2>2, <3>1, <1>a, <1>g, <2>1 DEF GitHub!FilterSQLFiles, GitHub!Listed, GitHub!Tip,
         Removed
    <3> QED
      BY <2>2, <3>1 DEF FoundBy, Applying
  <2> QED
    BY <1>3, <1>e, <2>2, TreeTurns DEF Turns, Ends, Goes
<1>4. ASSUME NEW f \in Files, GitHub!GetFile(r, f) PROVE FoundBy(r)'
  <2>1. sync[r].at = "file" /\ repo' = repo
    BY <1>4 DEF GitHub!GetFile, GitHub!Step
  <2>2. Len(repo) > 0 /\ Len(repo) \in sync[r].sha .. Len(repo)
    BY <1>a, <1>g, <2>1
  <2>3. /\ sync'[r].at = "file" /\ sync'[r].path = sync[r].path /\ sync'[r].sha = sync[r].sha
        /\ sync'[r].todo = sync[r].todo \ {f}
        /\ sync'[r].parsed = [sync[r].parsed EXCEPT ![f] = Parses(f)]
    BY <1>4, <2>2, FileTurns DEF Turns
  <2>4. /\ sync[r].parsed \in [Files -> (Contents \ Unparsable) \cup {Absent}]
    BY <1>t DEF SyncRecord, Parsed
  <2>5. ASSUME NEW g \in sync[r].path, g \notin sync'[r].todo, sync'[r].parsed[g] = Absent
        PROVE  Removed(r, g)'
    <3>1. CASE g = f
      BY <2>3, <2>4, <2>5, <3>1, <2>1, <2>2 DEF Parses, Removed
    <3>2. CASE g # f
      <4>1. g \notin sync[r].todo /\ sync[r].parsed[g] = Absent /\ g \in Files
        BY <1>p, <2>3, <2>4, <2>5, <3>2
      <4> QED
        BY <1>a, <1>r, <1>t, <2>1, <2>3, <2>5, <4>1 DEF FoundBy
    <3> QED
      BY <3>1, <3>2
  <2> QED
    BY <2>3, <2>5 DEF FoundBy, Applying
<1>5. ASSUME GitHub!GetExisting(r) PROVE FoundBy(r)'
  <2>1. sync[r].at = "file" /\ sync[r].todo = {}
    BY <1>5 DEF GitHub!GetExisting, GitHub!Step
  <2>2. /\ sync'[r].at = "apply" /\ sync'[r].path = sync[r].path /\ sync'[r].sha = sync[r].sha
        /\ sync'[r].parsed = sync[r].parsed
    BY <1>5, ExistingTurns DEF Turns
  <2> QED
    BY <1>a, <1>p, <1>r, <1>t, <2>1, <2>2 DEF FoundBy, Applying
\* The steps that apply.
<1>6. ASSUME sync[r].at \in Applying, sync'[r].at \in Applying, sync'[r].path = sync[r].path,
             sync'[r].sha = sync[r].sha, sync'[r].parsed = sync[r].parsed,
             sync'[r].at = "delete" => \A f \in sync'[r].todo : sync[r].parsed[f] = Absent
      PROVE  FoundBy(r)'
  BY <1>6, <1>a, <1>p, <1>r, <1>t DEF FoundBy, Applying
<1>7. ASSUME NEW f \in Files, GitHub!Create(r, f) PROVE FoundBy(r)'
  BY <1>7, <1>6, CreateTurns DEF GitHub!Create, GitHub!Step, Turns, Goes, Applying
<1>8. ASSUME GitHub!SetModelSource(r) PROVE FoundBy(r)'
  BY <1>8, <1>6, SourceTurns DEF GitHub!SetModelSource, GitHub!Step, Turns, Applying
<1>9. ASSUME NEW f \in Files, GitHub!Update(r, f) PROVE FoundBy(r)'
  BY <1>6, <1>9, UpdateTurns DEF Turns, Goes, Applying
<1>10. ASSUME GitHub!StartDeleting(r) PROVE FoundBy(r)'
  <2>1. sync[r].at = "apply"
    BY <1>10 DEF GitHub!StartDeleting, GitHub!Step
  <2>2. \A f \in GitHub!Stale(r) : sync[r].parsed[f] = Absent
    BY DEF GitHub!Stale
  <2> QED
    BY <1>6, <1>10, <2>1, <2>2, DeletingTurns DEF Turns, Goes, Applying
<1>11. ASSUME NEW f \in Files, GitHub!Delete(r, f) PROVE FoundBy(r)'
  BY <1>11, DeleteTurns, <1>t, <1>6 DEF FoundBy, Turns, Goes, Applying
<1>12. ASSUME GitHub!Finish(r) PROVE FoundBy(r)'
  BY <1>12, <1>e, EndTurns DEF GitHub!Finish, Ends, Turns
<1>13. ASSUME GitHub!Crash PROVE FoundBy(r)'
  BY <1>13, <1>e DEF GitHub!Crash, GitHub!Idle
<1> QED
  BY <1>k, <1>1, <1>2, <1>3, <1>4, <1>5, <1>7, <1>8, <1>9, <1>10, <1>11, <1>12, <1>13, OthersStay,
     RepoCases DEF SyncMoves

-----------------------------------------------------------------------------
\* The models of users.
UsersKept(f) ==
    models[f] # Absent /\ models[f].by \in Users /\ models'[f] # models[f]
    => \E u \in Users : user[u].row = models[f].row /\ user'[u] # user[u]

LEMMA UsersKeptStep ==
    ASSUME GitHub!GitHubAssumption, RepoShape, RowsInv, OwnedInv, [GitHub!Next]_GitHub!vars
    PROVE  GitHub!UsersModelsKept
<1> SUFFICES ASSUME NEW f \in Files PROVE UsersKept(f)
  BY DEF GitHub!UsersModelsKept, UsersKept
<1>s. scenario.files \subseteq Files /\ scenario.syncs \subseteq Syncs /\ scenario.users \subseteq Users
  BY DEF RepoShape, GitHub!GitHubAssumption, GitHub!RepoScenario
<1>t. /\ \A s \in Syncs : KnowsOwn(s) /\ SyncFits(s)
      /\ models \in [Files -> GitHub!RepoRow \cup {Absent}] /\ Syncs \cap Users = {}
  BY DEF OwnedInv, RowsInv, GitHub!GitHubAssumption, RepoShape, Existing
<1>0. models'[f] = models[f] => UsersKept(f)
  BY DEF UsersKept
\* A model that a sync knows was not made by a user.
<1>o. ASSUME models[f] # Absent, OfSync(models[f].row) PROVE models[f].by \notin Users
  BY <1>o, <1>t DEF OfSync
<1>1. ASSUME NEW s \in Syncs, NEW g \in Files, GitHub!Create(s, g) PROVE UsersKept(f)
  <2>1. CASE models[g] = Absent /\ models' = [models EXCEPT ![g] = NewRow(s, g)]
    BY <1>t, <2>1, <1>0 DEF UsersKept
  <2> QED
    BY <1>0, <1>1, <2>1, CreateTurns
<1>2. ASSUME NEW s \in Syncs, GitHub!SetModelSource(s) PROVE UsersKept(f)
  <2>1. sync[s].at = "source" /\ models' = [g \in Files |-> Sourced(s, g)]
    BY <1>2, SourceTurns DEF GitHub!SetModelSource, GitHub!Step
  <2>2. models'[f] = Sourced(s, f)
    BY <2>1
  <2>3. CASE models[f] # Absent /\ models[f].row = sync[s].row
    BY <1>t, <2>1, <2>3, <1>o DEF KnowsOwn, UsersKept
  <2>4. CASE ~(models[f] # Absent /\ models[f].row = sync[s].row)
    BY <1>0, <2>2, <2>4 DEF Sourced
  <2> QED
    BY <2>3, <2>4
\* A row that a sync found.
<1>x. ASSUME NEW s \in Syncs, Theirs(s, f), sync[s].existing[f] # Absent PROVE UsersKept(f)
  BY <1>t, <1>x, <1>o DEF KnowsOwn, Theirs, UsersKept
<1>3. ASSUME NEW s \in Syncs, NEW g \in Files, GitHub!Update(s, g) PROVE UsersKept(f)
  <2>1. CASE Theirs(s, g) /\ models' = [models EXCEPT ![g].body = sync[s].parsed[g]]
    <3>1. sync[s].existing[g] # Absent
      BY <1>3, UpdateTurns
    <3>2. g # f => models'[f] = models[f]
      BY <1>t, <2>1
    <3> QED
      BY <1>0, <1>x, <2>1, <3>1, <3>2
  <2> QED
    BY <1>0, <1>3, <2>1, UpdateTurns
<1>4. ASSUME NEW s \in Syncs, NEW g \in Files, GitHub!Delete(s, g) PROVE UsersKept(f)
  <2>1. CASE Theirs(s, g) /\ models' = [models EXCEPT ![g] = Absent]
    <3>1. sync[s].existing[g] # Absent
      BY <1>4, <1>t, DeleteTurns DEF SyncFits
    <3>2. g # f => models'[f] = models[f]
      BY <1>t, <2>1
    <3> QED
      BY <1>0, <1>x, <2>1, <3>1, <3>2
  <2> QED
    BY <1>0, <1>4, <2>1, DeleteTurns
<1>5. ASSUME NEW u \in Users, NEW g \in Files, GitHub!UserCreates(u, g) PROVE UsersKept(f)
  BY <1>5, <1>t, <1>0 DEF GitHub!UserCreates, UsersKept
<1>6. ASSUME NEW u \in Users, GitHub!UserWrites(u) PROVE UsersKept(f)
  <2>1. user[u].at = "write" /\ user' = [user EXCEPT ![u] = GitHub!NoRequest]
    BY <1>6, UserWritesMove
  <2>2. user'[u] # user[u]
    BY <2>1 DEF RepoShape, GitHub!NoRequest
  <2>3. PICK g : g = user[u].name
    OBVIOUS
  <2>4. \/ models' = models
        \/ UserTheirs(u) /\ \E c \in scenario.contents : models' = [models EXCEPT ![g].body = c]
        \/ UserTheirs(u) /\ models' = [models EXCEPT ![g] = Absent]
    BY <1>6, <2>3, UserWritesMove
  <2>5. g # f => models'[f] = models[f]
    BY <1>t, <2>4
  <2>6. g = f /\ UserTheirs(u) => UsersKept(f)
    BY <2>2, <2>3 DEF UserTheirs, UsersKept
  <2> QED
    BY <1>0, <2>4, <2>5, <2>6
<1>7. ASSUME NEW s \in Syncs, GitHub!SyncStep(s) PROVE UsersKept(f)
  <2>1. GitHub!Start(s) \/ GitHub!GetBranchSHA(s) \/ GitHub!GetTree(s) \/ GitHub!GetExisting(s)
        \/ GitHub!StartDeleting(s) \/ GitHub!Finish(s) \/ (\E g \in Files : GitHub!GetFile(s, g))
        => models' = models
    BY DEF GitHub!Start, GitHub!GetBranchSHA, GitHub!GetTree, GitHub!GetExisting,
           GitHub!StartDeleting, GitHub!Finish, GitHub!GetFile
  <2> QED
    BY <1>s, <1>0, <1>1, <1>2, <1>3, <1>4, <1>7, <2>1 DEF GitHub!SyncStep
<1>8. ASSUME NEW u \in Users, GitHub!UserStep(u) PROVE UsersKept(f)
  BY <1>s, <1>0, <1>5, <1>6, <1>8 DEF GitHub!UserReads, GitHub!UserStep
<1>9. GitHub!SaveGitHubIntegration \/ GitHub!DeleteGitHubIntegration \/ GitHub!Push
      \/ GitHub!Crash \/ UNCHANGED GitHub!vars => models' = models
  BY DEF GitHub!SaveGitHubIntegration, GitHub!DeleteGitHubIntegration, GitHub!Push, GitHub!Crash,
         GitHub!vars
<1> QED
  BY <1>s, <1>0, <1>7, <1>8, <1>9 DEF GitHub!Next

LEMMA DeletedIfRemovedStep ==
    ASSUME GitHub!GitHubAssumption, RepoShape, RowsInv, FoundInv
    PROVE  GitHub!DeletedIfRemoved
<1> SUFFICES ASSUME NEW s \in Syncs, NEW f \in Files, GitHub!Delete(s, f),
                    "file" \notin scenario.canFail, f \in sync[s].path
             PROVE  \E n \in sync[s].sha .. Len(repo) : repo[n][f] \in {Absent} \cup Unparsable
  BY DEF GitHub!DeletedIfRemoved, GitHub!Tip
<1>1. sync[s].at = "delete" /\ f \in sync[s].todo /\ FoundBy(s)
  BY DeleteTurns DEF FoundInv
<1> QED
  BY <1>1 DEF FoundBy, Applying, Removed

RepoRows == RepoShape /\ RowsInv /\ OwnedInv /\ FoundInv

LEMMA RepoRowsInit == GitHub!GitHubAssumption /\ GitHub!Init => RepoRows
<1> SUFFICES ASSUME GitHub!GitHubAssumption, GitHub!Init PROVE RepoRows
  OBVIOUS
<1> USE DEF GitHub!Init, GitHub!NoFiles, GitHub!Idle, GitHub!NoRequest
<1>1. Len(repo) = 0 /\ repo \in Seq(RepoTree)
  OBVIOUS
<1>2. scenario \in GitHub!RepoScenario
  BY DEF GitHub!GitHubAssumption
<1>3. scenario.commits \in Nat /\ scenario.models \in Nat
  BY <1>2 DEF GitHub!RepoScenario
<1>4. models \in Existing
  BY DEF Existing
<1>5. GitHub!Idle \in SyncRecord
  BY NoFileType DEF SyncRecord, NoFile
<1>6. sync \in [Syncs -> SyncRecord]
  BY <1>5
<1>7. user \in [Users -> UserRecord]
  BY DEF UserRecord
<1>12. /\ settings \in [configured : BOOLEAN, path : SUBSET Files]
       /\ trouble \in [faults : Nat, saves : Nat, crashes : Nat]
  OBVIOUS
<1>13. /\ scenario \in Scenarios /\ last = 0 /\ made = 0
  OBVIOUS
<1>8. RepoShape
  BY ONLY <1>1, <1>3, <1>4, <1>6, <1>7, <1>12, <1>13 DEF RepoShape
<1>9. RowsInv
  BY <1>1 DEF RowsInv, SyncFits, Applying
<1>10. OwnedInv
  BY DEF OwnedInv, SourcesInv, KnowsOwn
<1>11. FoundInv
  BY DEF FoundInv, FoundBy, Applying
<1> QED
  BY <1>8, <1>9, <1>10, <1>11 DEF RepoRows

LEMMA RepoRowsStep ==
    ASSUME GitHub!GitHubAssumption, RepoRows, [GitHub!Next]_GitHub!vars PROVE RepoRows'
<1> USE DEF RepoRows
<1>1. RepoShape'
  BY RepoShapeStep
<1>2. RowsInv'
  BY RowsMoved, RowsUnique, FitsStep, UserNames DEF RowsInv
<1>3. OwnedInv'
  BY OwnedStep
<1>4. FoundInv'
  BY FoundStep
<1> QED
  BY <1>1, <1>2, <1>3, <1>4

THEOREM ModelsOfUsersAreKept ==
    ASSUME GitHub!GitHubAssumption PROVE GitHub!Spec => [][GitHub!ModelsKept]_GitHub!vars
<1>1. GitHub!Init => RepoRows
  BY RepoRowsInit
<1>2. RepoRows /\ [GitHub!Next]_GitHub!vars => RepoRows'
  BY RepoRowsStep
<1>3. RepoRows /\ [GitHub!Next]_GitHub!vars => [GitHub!ModelsKept]_GitHub!vars
  BY UsersKeptStep, DeletedIfRemovedStep DEF RepoRows, GitHub!ModelsKept
<1> QED
  BY <1>1, <1>2, <1>3, PTL DEF GitHub!Spec

-----------------------------------------------------------------------------
LEMMA OnlyOne ==
    ASSUME GitHub!GitHubAssumption, scenario.syncs \subseteq Syncs, GitHub!Undisturbed
    PROVE  \E a \in Syncs : scenario.syncs = {a}
<1>1. GitHub!Cardinality(scenario.syncs) = Cardinality(scenario.syncs)
  BY DEF GitHub!Cardinality, Cardinality
<1>2. IsFiniteSet(scenario.syncs)
  <2>1. GitHub!IsFiniteSet(Syncs) = IsFiniteSet(Syncs)
    BY DEF GitHub!IsFiniteSet, IsFiniteSet
  <2> QED
    BY <2>1, FS_Subset DEF GitHub!GitHubAssumption
<1> QED
  BY <1>1, <1>2, FS_Singleton DEF GitHub!Undisturbed

\* Nothing takes back a save or a crash.
LEMMA TroubleGrows ==
    ASSUME RepoShape, [GitHub!Next]_GitHub!vars
    PROVE  trouble.crashes <= trouble'.crashes /\ trouble.saves <= trouble'.saves
<1>t. trouble \in Troubles
  BY DEF RepoShape, Troubles
<1>0. trouble' = trouble => trouble.crashes <= trouble'.crashes /\ trouble.saves <= trouble'.saves
  BY <1>t DEF Troubles
<1>f. ASSUME NEW c, GitHub!Fault(c)
      PROVE  trouble.crashes <= trouble'.crashes /\ trouble.saves <= trouble'.saves
  BY <1>t, <1>f DEF Troubles, GitHub!Fault
<1>1. ASSUME NEW s, GitHub!SyncStep(s)
      PROVE  trouble' = trouble \/ \E c : GitHub!Fault(c)
  <2>1. GitHub!Start(s) \/ GitHub!GetExisting(s) \/ GitHub!SetModelSource(s)
        \/ GitHub!StartDeleting(s) \/ GitHub!Finish(s) => trouble' = trouble
    BY DEF GitHub!Start, GitHub!GetExisting, GitHub!SetModelSource, GitHub!StartDeleting,
           GitHub!Finish
  <2>2. ASSUME NEW f, GitHub!Create(s, f) \/ GitHub!Update(s, f) \/ GitHub!Delete(s, f)
        PROVE  trouble' = trouble
    BY <2>2 DEF GitHub!Create, GitHub!Update, GitHub!Delete
  <2>3. ASSUME NEW f, GitHub!GetFile(s, f) PROVE trouble' = trouble \/ GitHub!Fault("file")
    BY <2>3 DEF GitHub!GetFile
  <2>4. GitHub!GetBranchSHA(s) => trouble' = trouble \/ GitHub!Fault("sha")
    BY DEF GitHub!GetBranchSHA
  <2>5. GitHub!GetTree(s) => trouble' = trouble \/ GitHub!Fault("tree")
    BY DEF GitHub!GetTree
  <2> QED
    BY <1>1, <2>1, <2>2, <2>3, <2>4, <2>5 DEF GitHub!SyncStep
<1>2. ASSUME GitHub!SaveGitHubIntegration
      PROVE  trouble.crashes <= trouble'.crashes /\ trouble.saves <= trouble'.saves
  BY <1>t, <1>2 DEF GitHub!SaveGitHubIntegration, Troubles
<1>3. ASSUME GitHub!Crash
      PROVE  trouble.crashes <= trouble'.crashes /\ trouble.saves <= trouble'.saves
  BY <1>t, <1>3 DEF GitHub!Crash, Troubles
<1>4. GitHub!DeleteGitHubIntegration \/ GitHub!Push \/ UNCHANGED GitHub!vars => trouble' = trouble
  BY DEF GitHub!DeleteGitHubIntegration, GitHub!Push, GitHub!vars
<1> QED
  BY <1>0, <1>f, <1>1, <1>2, <1>3, <1>4, UserFrame DEF GitHub!Next

\* One step of the only sync.
LEMMA SoloSync ==
    ASSUME GitHub!GitHubAssumption, RepoRows, RepoRows', NEW a \in Syncs, AloneAt(a),
           "file" \notin scenario.canFail, GitHub!SyncStep(a), [GitHub!Next]_GitHub!vars
    PROVE  AloneAt(a)'
<1>m. SyncMoves(a)
  BY DEF RepoRows, RepoShape, GitHub!GitHubAssumption, GitHub!RepoScenario, GitHub!SyncStep,
     SyncMoves
<1>s. RepoShape /\ RowsInv
  BY DEF RepoRows
<1>f. UNCHANGED <<scenario, repo, settings>>
  BY SyncFrame
<1>t. /\ sync[a] \in SyncRecord /\ SyncFits(a) /\ models \in [Files -> GitHub!RepoRow \cup {Absent}]
      /\ Len(repo) \in Nat /\ last \in Nat /\ last <= Len(repo) /\ Absent \notin GitHub!RepoRow
  BY <1>s DEF RepoShape, RowsInv, Existing, GitHub!GitHubAssumption
<1>a. /\ Quiet(a) /\ Unsaved(a) /\ Manuals(a) /\ ReadBy(a) /\ AppliedBy(a) /\ Synced(a)
  BY DEF AloneAt
<1>1. Quiet(a)'
  BY <1>a, <1>m, <1>s, OthersStay DEF Quiet
<1>2. trouble.saves # 0
  <2>1. sync[a].at # "idle" \/ settings.configured
    BY <1>m DEF SyncMoves, GitHub!Start, GitHub!GetBranchSHA, GitHub!GetTree, GitHub!GetFile,
       GitHub!GetExisting, GitHub!Create, GitHub!SetModelSource, GitHub!Update,
       GitHub!StartDeleting, GitHub!Delete, GitHub!Finish, GitHub!Step
  <2> QED
    BY <1>a, <2>1 DEF Unsaved
<1>3. Unsaved(a)'
  BY <1>s, TroubleGrows, <1>2 DEF RepoRows, RepoShape, Unsaved
<1> SUFFICES Manuals(a)' /\ ReadBy(a)' /\ AppliedBy(a)' /\ Synced(a)'
  BY <1>1, <1>3 DEF AloneAt
\* The models are the same, and the sync does not stand at "source".
<1>q. ASSUME models' = models, sync[a].at # "source" PROVE Manuals(a)'
  BY <1>a, <1>q DEF Manuals
<1>c. ASSUME models' = models, NEW f \in Files, Current(f) PROVE Current(f)'
  BY <1>f, <1>c DEF Wanted, Current
\* A sync under way is past what was synced.
<1>b. ASSUME last' = last, sync[a].at \in {"tree", "file"} \cup Applying,
             \/ sync'[a].at = "idle"
             \/ /\ sync'[a].path = sync[a].path /\ sync'[a].last = sync[a].last
                /\ sync'[a].sha = sync[a].sha
      PROVE  Synced(a)'
  BY <1>a, <1>b, <1>t, <1>f DEF Synced, Applying, SyncFits, SyncRecord
\* The end of a sync that has changed nothing.
<1>e. ASSUME Ends(a), models' = models, last' = last, sync[a].at # "source"
      PROVE  Manuals(a)' /\ ReadBy(a)' /\ AppliedBy(a)' /\ Synced(a)'
  BY <1>e, <1>q, <1>a, <1>c, <1>f DEF Ends, Turns, ReadBy, AppliedBy, Applying, Synced
<1>4. ASSUME GitHub!Start(a) PROVE Manuals(a)' /\ ReadBy(a)' /\ AppliedBy(a)' /\ Synced(a)'
  <2>1. models' = models /\ last' = last /\ sync[a].at = "idle"
    BY <1>4 DEF GitHub!Start, GitHub!Step
  <2>2. /\ sync'[a].at = "sha" /\ sync'[a].path = settings.path /\ sync'[a].last = last
        /\ sync'[a].parsed = NoFile
    BY <1>4, <1>s, StartTurns DEF Turns
  <2>3. Manuals(a)'
    BY <1>q, <2>1
  <2>4. ReadBy(a)' /\ AppliedBy(a)'
    BY <2>2 DEF ReadBy, AppliedBy, Applying, NoFile
  <2>5. Synced(a)'
    BY <1>a, <1>c, <1>f, <2>1, <2>2 DEF Synced, Applying
  <2> QED
    BY <2>3, <2>4, <2>5
<1>5. ASSUME GitHub!GetBranchSHA(a) PROVE Manuals(a)' /\ ReadBy(a)' /\ AppliedBy(a)' /\ Synced(a)'
  <2>1. models' = models /\ last' = last /\ sync[a].at = "sha"
    BY <1>5 DEF GitHub!GetBranchSHA, GitHub!Step
  <2>2. CASE /\ Len(repo) \notin {0, sync[a].last} /\ sync'[a].at = "tree"
             /\ sync'[a].path = sync[a].path /\ sync'[a].last = sync[a].last
             /\ sync'[a].sha = Len(repo) /\ sync'[a].parsed = sync[a].parsed
    <3>1. Manuals(a)'
      BY <1>q, <2>1
    <3>2. ReadBy(a)' /\ AppliedBy(a)'
      BY <1>a, <2>1, <2>2 DEF ReadBy, AppliedBy, Applying
    <3>3. settings.configured => last < Len(repo) /\ sync[a].path = settings.path
                                 /\ sync[a].last = last
      BY <1>a, <1>t, <2>1, <2>2 DEF Synced
    <3>4. Synced(a)'
      BY <1>a, <1>c, <1>f, <2>1, <2>2, <3>3 DEF Synced, Applying
    <3> QED
      BY <3>1, <3>2, <3>4
  <2> QED
    BY <1>5, <1>e, <1>s, <2>1, <2>2, BranchTurns DEF Turns
<1>6. ASSUME GitHub!GetTree(a) PROVE Manuals(a)' /\ ReadBy(a)' /\ AppliedBy(a)' /\ Synced(a)'
  <2>1. models' = models /\ last' = last /\ sync[a].at = "tree"
    BY <1>6 DEF GitHub!GetTree, GitHub!Step
  <2>2. CASE /\ sync'[a].at = "file" /\ sync'[a].todo = GitHub!FilterSQLFiles(a)
             /\ sync'[a].path = sync[a].path /\ sync'[a].last = sync[a].last
             /\ sync'[a].sha = sync[a].sha /\ sync'[a].parsed = sync[a].parsed
    <3>1. Manuals(a)'
      BY <1>q, <2>1
    <3>2. sync'[a].parsed = NoFile
      BY <1>a, <2>1, <2>2 DEF ReadBy, NoFile
    <3>3. sync'[a].todo \subseteq sync'[a].path
      BY <2>2 DEF GitHub!FilterSQLFiles
    <3>4. ASSUME NEW f \in Files, f \notin sync'[a].todo
          PROVE  Absent = Wanted(sync[a].path, f)
      BY <2>2, <3>4 DEF GitHub!FilterSQLFiles, GitHub!Listed, GitHub!Tip, Wanted
    <3>5. ReadBy(a)'
      BY <1>f, <2>2, <3>2, <3>3, <3>4 DEF ReadBy, Applying, NoFile, Wanted
    <3>6. AppliedBy(a)'
      BY <2>2 DEF AppliedBy
    <3>7. Synced(a)'
      BY <1>b, <2>1, <2>2
    <3> QED
      BY <3>1, <3>5, <3>6, <3>7
  <2> QED
    BY <1>6, <1>e, <1>s, <2>1, <2>2, TreeTurns DEF Turns, Goes
<1>7. ASSUME NEW f \in Files, GitHub!GetFile(a, f)
      PROVE  Manuals(a)' /\ ReadBy(a)' /\ AppliedBy(a)' /\ Synced(a)'
  <2>1. models' = models /\ last' = last /\ sync[a].at = "file" /\ f \in sync[a].todo
    BY <1>7 DEF GitHub!GetFile, GitHub!Step
  <2>2. Len(repo) > 0
    BY <1>t, <2>1 DEF SyncFits, SyncRecord
  <2>3. /\ sync'[a].at = "file" /\ sync'[a].todo = sync[a].todo \ {f}
        /\ sync'[a].path = sync[a].path /\ sync'[a].last = sync[a].last
        /\ sync'[a].sha = sync[a].sha
        /\ sync'[a].parsed = [sync[a].parsed EXCEPT ![f] = Parses(f)]
    BY <1>7, <1>s, <2>2, FileTurns DEF Turns
  <2>4. sync[a].todo \subseteq sync[a].path /\ sync[a].parsed \in [Files -> (Contents \ Unparsable) \cup {Absent}]
    BY <1>a, <1>t, <2>1 DEF ReadBy, SyncRecord, Parsed
  <2>5. ASSUME NEW g \in Files, g \notin sync'[a].todo, sync[a].sha = Len(repo)
        PROVE  sync'[a].parsed[g] = Wanted(sync[a].path, g)
    BY <2>1, <2>3, <2>4, <1>a, <2>5 DEF Wanted, Parses, ReadBy
  <2>6. ReadBy(a)'
    BY <1>f, <2>3, <2>4, <2>5 DEF ReadBy, Applying, Wanted
  <2>7. Manuals(a)'
    BY <1>q, <2>1
  <2>8. AppliedBy(a)'
    BY <2>3 DEF AppliedBy
  <2>9. Synced(a)'
    BY <1>b, <2>1, <2>3
  <2> QED
    BY <2>6, <2>7, <2>8, <2>9
\* What was read stays what is wanted.
<1>r. ASSUME sync'[a].at \in Applying, sync'[a].path = sync[a].path, sync'[a].sha = sync[a].sha,
             sync'[a].parsed = sync[a].parsed, sync[a].at \in Applying
      PROVE  ReadBy(a)'
  BY <1>a, <1>f, <1>r DEF ReadBy, Wanted, Applying
<1>8. ASSUME GitHub!GetExisting(a) PROVE Manuals(a)' /\ ReadBy(a)' /\ AppliedBy(a)' /\ Synced(a)'
  <2>1. models' = models /\ last' = last /\ sync[a].at = "file" /\ sync[a].todo = {}
    BY <1>8 DEF GitHub!GetExisting, GitHub!Step
  <2>2. /\ sync'[a].at = "apply" /\ sync'[a].todo = FoundFiles(a)
        /\ sync'[a].path = sync[a].path /\ sync'[a].last = sync[a].last
        /\ sync'[a].sha = sync[a].sha /\ sync'[a].parsed = sync[a].parsed
        /\ sync'[a].existing = OwnModels
    BY <1>8, <1>s, ExistingTurns DEF Turns
  <2>3. ReadBy(a)'
    BY <1>a, <1>f, <2>1, <2>2 DEF ReadBy, Wanted, Applying
  <2>4. Manuals(a)'
    BY <1>q, <2>1
  <2>5. ASSUME NEW f \in Files PROVE models[f] = OwnModels[f]
    BY <1>a, <1>t, <2>1 DEF Manuals, GitHub!RepoRow, OwnModels, OfGitHub
  <2>6. AppliedBy(a)'
    BY <2>1, <2>2, <2>5 DEF AppliedBy, FoundFiles
  <2>7. Synced(a)'
    BY <1>b, <2>1, <2>2
  <2> QED
    BY <2>3, <2>4, <2>6, <2>7
<1>9. ASSUME NEW f \in Files, GitHub!Create(a, f)
      PROVE  Manuals(a)' /\ ReadBy(a)' /\ AppliedBy(a)' /\ Synced(a)'
  <2>1. last' = last /\ sync[a].at = "apply" /\ f \in sync[a].todo /\ sync[a].existing[f] = Absent
    BY <1>9 DEF GitHub!Create, GitHub!Step
  <2>2. models[f] = Absent
    BY <1>a, <2>1 DEF AppliedBy
  <2>3. /\ models' = [models EXCEPT ![f] = NewRow(a, f)] /\ sync'[a].at = "source"
        /\ sync'[a].todo = sync[a].todo \ {f} /\ sync'[a].path = sync[a].path
        /\ sync'[a].last = sync[a].last /\ sync'[a].sha = sync[a].sha
        /\ sync'[a].parsed = sync[a].parsed /\ sync'[a].existing = sync[a].existing
        /\ sync'[a].row = made + 1
    BY <1>9, <1>s, <2>2, CreateTurns DEF Turns
  <2>4. models'[f] = NewRow(a, f) /\ \A g \in Files : g # f => models'[g] = models[g]
    BY <1>t, <2>3
  <2>5. /\ models'[f].row = made + 1 /\ models'[f].body = sync[a].parsed[f] /\ models'[f] # Absent
        /\ sync[a].parsed[f] # Absent
    <3>1. sync[a].parsed[f] # Absent
      BY <1>t, <2>1 DEF SyncFits
    <3>2. NewRow(a, f) \in GitHub!RepoRow
      BY <1>s, <1>t, <3>1 DEF SyncRecord, Parsed, RepoShape, NewRow, GitHub!RepoRow
    <3> QED
      BY <1>t, <2>4, <3>1, <3>2 DEF NewRow
  <2>6. Manuals(a)'
    BY <1>a, <2>1, <2>3, <2>4, <2>5 DEF Manuals
  <2>7. ReadBy(a)'
    BY <1>r, <2>1, <2>3 DEF Applying
  <2>8. \A g \in Files : models[g] # Absent => models[g].row # made + 1
    BY <1>s DEF RepoShape, RowsInv
  <2>9. AppliedBy(a)'
    BY <1>a, <2>1, <2>3, <2>4, <2>5, <2>8 DEF AppliedBy, Applied
  <2>10. Synced(a)'
    BY <1>b, <2>1, <2>3 DEF Applying
  <2> QED
    BY <2>6, <2>7, <2>9, <2>10
<1>10. ASSUME GitHub!SetModelSource(a)
       PROVE  Manuals(a)' /\ ReadBy(a)' /\ AppliedBy(a)' /\ Synced(a)'
  <2>1. last' = last /\ sync[a].at = "source" /\ made' = made
    BY <1>10 DEF GitHub!SetModelSource, GitHub!Step
  <2>2. /\ models' = [f \in Files |-> Sourced(a, f)] /\ sync'[a].at = "apply"
        /\ sync'[a].todo = sync[a].todo /\ sync'[a].path = sync[a].path
        /\ sync'[a].last = sync[a].last /\ sync'[a].sha = sync[a].sha
        /\ sync'[a].parsed = sync[a].parsed /\ sync'[a].existing = sync[a].existing
    BY <1>10, <1>s, SourceTurns DEF Turns
  <2>3. \A f \in Files : models'[f] = Sourced(a, f) /\ (models'[f] = Absent <=> models[f] = Absent)
    BY <1>s, <2>1, <2>2, SourcedMove
  <2>4. ASSUME NEW f \in Files, models[f] # Absent, models[f].row = sync[a].row
        PROVE  models'[f].source = "github" /\ models'[f].body = models[f].body
    BY <1>t, <2>3, <2>4 DEF Sourced, GitHub!RepoRow
  <2>5. ASSUME NEW f \in Files, models[f] = Absent \/ models[f].row # sync[a].row
        PROVE  models'[f] = models[f]
    BY <2>3, <2>5 DEF Sourced
  <2>6. Manuals(a)'
    BY <1>a, <2>3, <2>4, <2>5 DEF Manuals
  <2>7. ReadBy(a)'
    BY <1>r, <2>1, <2>2 DEF Applying
  <2>8. AppliedBy(a)'
    BY <1>a, <2>1, <2>2, <2>3, <2>4, <2>5 DEF AppliedBy, Applied
  <2>9. Synced(a)'
    BY <1>b, <2>1, <2>2 DEF Applying
  <2> QED
    BY <2>6, <2>7, <2>8, <2>9
<1>11. ASSUME NEW f \in Files, GitHub!Update(a, f)
       PROVE  Manuals(a)' /\ ReadBy(a)' /\ AppliedBy(a)' /\ Synced(a)'
  <2>1. /\ last' = last /\ made' = made /\ sync[a].at = "apply" /\ f \in sync[a].todo
        /\ sync[a].existing[f] # Absent
    BY <1>11, <1>s, UpdateTurns DEF GitHub!Update
  <2>2. /\ sync'[a].at = "apply"
        /\ sync'[a].todo = sync[a].todo \ {f} /\ sync'[a].path = sync[a].path
        /\ sync'[a].last = sync[a].last /\ sync'[a].sha = sync[a].sha
        /\ sync'[a].parsed = sync[a].parsed /\ sync'[a].existing = sync[a].existing
    BY <1>11, <1>s, UpdateTurns DEF Turns, Goes
  <2>3. models[f] = sync[a].existing[f] /\ models[f] # Absent /\ Theirs(a, f)
    BY <1>a, <2>1 DEF AppliedBy, Theirs
  <2>4. /\ models'[f] # Absent /\ models'[f].body = sync[a].parsed[f]
        /\ models'[f].source = models[f].source
        /\ \A g \in Files : g # f => models'[g] = models[g]
    <3>1. CASE sync[a].existing[f].body = sync[a].parsed[f]
      BY <1>11, <1>s, <2>3, <3>1, UpdateTurns
    <3>2. CASE models' = [models EXCEPT ![f].body = sync[a].parsed[f]]
      <4>1. models[f] \in GitHub!RepoRow
        BY <1>t, <2>3
      <4>2. models'[f] = [models[f] EXCEPT !.body = sync[a].parsed[f]]
            /\ \A g \in Files : g # f => models'[g] = models[g]
        BY <1>t, <3>2
      <4>3. models'[f].body = sync[a].parsed[f] /\ models'[f].source = models[f].source
            /\ models'[f].row = models[f].row
        BY <4>1, <4>2 DEF GitHub!RepoRow
      <4>4. models'[f] # Absent
        BY <1>t, <2>1, <4>1, <4>2 DEF SyncFits, SyncRecord, Parsed, GitHub!RepoRow
      <4> QED
        BY <4>2, <4>3, <4>4
    <3> QED
      BY <1>11, <1>s, <2>3, <3>1, <3>2, UpdateTurns
  <2>5. sync[a].parsed[f] # Absent
    BY <1>t, <2>1 DEF SyncFits
  <2>6. Manuals(a)'
    BY <1>a, <2>1, <2>3, <2>4 DEF Manuals
  <2>7. ReadBy(a)'
    BY <1>r, <2>1, <2>2 DEF Applying
  <2>8. AppliedBy(a)'
    BY <1>a, <2>1, <2>2, <2>4, <2>5 DEF AppliedBy, Applied
  <2>9. Synced(a)'
    BY <1>b, <2>1, <2>2 DEF Applying
  <2> QED
    BY <2>6, <2>7, <2>8, <2>9
<1>12. ASSUME GitHub!StartDeleting(a)
       PROVE  Manuals(a)' /\ ReadBy(a)' /\ AppliedBy(a)' /\ Synced(a)'
  <2>1. models' = models /\ last' = last /\ sync[a].at = "apply" /\ sync[a].todo = {}
    BY <1>12 DEF GitHub!StartDeleting, GitHub!Step
  <2>2. /\ sync'[a].at = "delete" /\ sync'[a].path = sync[a].path
        /\ sync'[a].todo = {f \in Files : sync[a].existing[f] # Absent /\ sync[a].parsed[f] = Absent}
        /\ sync'[a].last = sync[a].last /\ sync'[a].sha = sync[a].sha
        /\ sync'[a].parsed = sync[a].parsed /\ sync'[a].existing = sync[a].existing
    BY <1>12, <1>s, DeletingTurns DEF Turns, Goes, GitHub!Stale, GitHub!Listed
  <2>3. Manuals(a)'
    BY <1>q, <2>1
  <2>4. ReadBy(a)'
    BY <1>r, <2>1, <2>2 DEF Applying
  <2>5. AppliedBy(a)'
    BY <1>a, <2>1, <2>2 DEF AppliedBy, Applied
  <2>6. Synced(a)'
    BY <1>b, <2>1, <2>2 DEF Applying
  <2> QED
    BY <2>3, <2>4, <2>5, <2>6
<1>13. ASSUME NEW f \in Files, GitHub!Delete(a, f)
       PROVE  Manuals(a)' /\ ReadBy(a)' /\ AppliedBy(a)' /\ Synced(a)'
  <2>1. last' = last /\ sync[a].at = "delete" /\ f \in sync[a].todo
    BY <1>13 DEF GitHub!Delete, GitHub!Step
  <2>2. /\ sync'[a].at = "delete" /\ sync'[a].path = sync[a].path
        /\ sync'[a].todo = sync[a].todo \ {f}
        /\ sync'[a].last = sync[a].last /\ sync'[a].sha = sync[a].sha
        /\ sync'[a].parsed = sync[a].parsed /\ sync'[a].existing = sync[a].existing
    BY <1>13, <1>s, DeleteTurns DEF Turns, Goes
  <2>3. /\ models[f] = sync[a].existing[f] /\ models[f] # Absent /\ Theirs(a, f)
        /\ sync[a].parsed[f] = Absent
    BY <1>a, <2>1 DEF AppliedBy, Theirs
  <2>4. models' = [models EXCEPT ![f] = Absent]
    BY <1>13, <1>s, <2>3, DeleteTurns
  <2>5. models'[f] = Absent /\ \A g \in Files : g # f => models'[g] = models[g]
    BY <1>t, <2>4
  <2>6. Manuals(a)'
    BY <1>a, <2>1, <2>5 DEF Manuals
  <2>7. ReadBy(a)'
    BY <1>r, <2>1, <2>2 DEF Applying
  <2>8. AppliedBy(a)'
    BY <1>a, <2>1, <2>2, <2>3, <2>5 DEF AppliedBy, Applied
  <2>9. Synced(a)'
    BY <1>b, <2>1, <2>2 DEF Applying
  <2> QED
    BY <2>6, <2>7, <2>8, <2>9
<1>14. ASSUME GitHub!Finish(a) PROVE Manuals(a)' /\ ReadBy(a)' /\ AppliedBy(a)' /\ Synced(a)'
  <2>1. /\ models' = models /\ last' = sync[a].sha /\ sync[a].at = "delete" /\ sync[a].todo = {}
        /\ GitHub!End(a)
    BY <1>14 DEF GitHub!Finish, GitHub!Step
  <2>2. sync'[a].at = "idle"
    BY <1>s, <2>1, EndTurns DEF Ends, Turns
  <2>3. Manuals(a)'
    BY <1>q, <2>1
  <2>4. ReadBy(a)' /\ AppliedBy(a)'
    BY <2>2 DEF ReadBy, AppliedBy, Applying
  <2>5. ASSUME settings.configured, sync[a].sha = Len(repo), NEW f \in Files PROVE Current(f)'
    BY <1>a, <2>1, <2>5, <1>c DEF Synced, ReadBy, Applying, AppliedBy, Applied, Current
  <2>6. Synced(a)'
    BY <1>f, <2>1, <2>2, <2>5 DEF Synced, Applying
  <2> QED
    BY <2>3, <2>4, <2>6
<1> QED
  BY <1>m, <1>4, <1>5, <1>6, <1>7, <1>8, <1>9, <1>10, <1>11, <1>12, <1>13, <1>14 DEF SyncMoves

\* What nobody disturbs stays current.
LEMMA AloneStep ==
    ASSUME GitHub!GitHubAssumption, RepoRows, RepoRows', AloneInv, [GitHub!Next]_GitHub!vars
    PROVE  AloneInv'
<1> SUFFICES ASSUME GitHub!Undisturbed' PROVE \A a \in scenario'.syncs : AloneAt(a)'
  BY DEF AloneInv
<1>s. RepoShape /\ RowsInv /\ RepoShape'
  BY DEF RepoRows
<1>g. scenario' = scenario /\ Len(repo) \in Nat
  BY <1>s, RepoGrows
<1>t. trouble \in Troubles /\ trouble' \in Troubles
  BY <1>s DEF RepoShape, Troubles
<1>1. GitHub!Undisturbed /\ trouble'.crashes = 0 /\ trouble'.saves <= 1
  BY <1>s, TroubleGrows, <1>t, <1>g DEF GitHub!Undisturbed, Troubles, GitHub!Cardinality
<1>2. scenario.syncs \subseteq Syncs /\ scenario.users = {} /\ "file" \notin scenario.canFail
  BY <1>1, <1>s DEF GitHub!Undisturbed, RepoShape, GitHub!GitHubAssumption, GitHub!RepoScenario
<1>3. PICK a \in Syncs : scenario.syncs = {a}
  BY <1>1, <1>2, OnlyOne
<1>4. AloneAt(a)
  BY <1>1, <1>3 DEF AloneInv
<1> SUFFICES AloneAt(a)'
  BY <1>3, <1>g
<1>a. /\ Quiet(a) /\ Unsaved(a) /\ Manuals(a) /\ ReadBy(a) /\ AppliedBy(a) /\ Synced(a)
  BY <1>4 DEF AloneAt
<1>5. ASSUME GitHub!SyncStep(a) PROVE AloneAt(a)'
  BY <1>2, <1>4, <1>5, SoloSync
<1>6. ASSUME GitHub!SaveGitHubIntegration PROVE AloneAt(a)'
  <2>1. trouble'.saves = trouble.saves + 1 /\ UNCHANGED <<repo, last, models, sync>>
    BY <1>6, <1>t DEF GitHub!SaveGitHubIntegration, Troubles
  <2>2. trouble.saves = 0 /\ trouble'.saves # 0
    BY <1>1, <1>t, <2>1 DEF Troubles
  <2>3. last = 0 /\ sync[a].at = "idle"
    BY <1>a, <2>2 DEF Unsaved
  <2>4. Quiet(a)' /\ Unsaved(a)' /\ Manuals(a)'
    BY <1>a, <2>1, <2>2 DEF Quiet, Unsaved, Manuals
  <2>5. ReadBy(a)' /\ AppliedBy(a)'
    BY <2>1, <2>3 DEF ReadBy, AppliedBy, Applying
  <2>6. Synced(a)'
    BY <2>1, <2>3 DEF Synced, Applying
  <2> QED
    BY <2>4, <2>5, <2>6 DEF AloneAt
<1>7. ASSUME GitHub!DeleteGitHubIntegration PROVE AloneAt(a)'
  <2>1. /\ settings.configured /\ ~settings'.configured
        /\ UNCHANGED <<repo, models, sync, trouble>>
    BY <1>7 DEF GitHub!DeleteGitHubIntegration
  <2>2. Quiet(a)' /\ Unsaved(a)' /\ Manuals(a)'
    BY <1>a, <2>1 DEF Quiet, Unsaved, Manuals
  <2>3. ReadBy(a)'
    BY <1>a, <2>1 DEF ReadBy, Applying, Wanted
  <2>4. AppliedBy(a)'
    BY <1>a, <2>1 DEF AppliedBy, Applied
  <2>5. Synced(a)'
    BY <2>1 DEF Synced
  <2> QED
    BY <2>2, <2>3, <2>4, <2>5 DEF AloneAt
<1>8. ASSUME GitHub!Push PROVE AloneAt(a)'
  <2>1. UNCHANGED <<settings, last, models, sync, trouble>>
    BY <1>8 DEF GitHub!Push
  <2>2. Len(repo') = Len(repo) + 1
    <3>1. PICK tree : repo' = Append(repo, tree)
      BY <1>8 DEF GitHub!Push
    <3> QED
      BY <1>s, <3>1 DEF RepoShape
  <2>3. sync[a].sha # Len(repo') /\ last # Len(repo')
    <3>1. sync[a].sha <= Len(repo) /\ last <= Len(repo) /\ sync[a].sha \in Nat /\ last \in Nat
      BY <1>s DEF RepoShape, RowsInv, SyncFits, SyncRecord
    <3> QED
      BY <1>g, <2>2, <3>1
  <2>4. Quiet(a)' /\ Unsaved(a)' /\ Manuals(a)'
    BY <1>a, <2>1 DEF Quiet, Unsaved, Manuals
  <2>5. ReadBy(a)'
    BY <1>a, <2>1, <2>3 DEF ReadBy, Applying
  <2>6. AppliedBy(a)'
    BY <1>a, <2>1 DEF AppliedBy, Applied
  <2>7. Synced(a)'
    BY <1>a, <2>1, <2>3 DEF Synced
  <2> QED
    BY <2>4, <2>5, <2>6, <2>7 DEF AloneAt
<1>9. ASSUME UNCHANGED GitHub!vars PROVE AloneAt(a)'
  <2>1. UNCHANGED <<settings, repo, last, models, sync, trouble>>
    BY <1>9 DEF GitHub!vars
  <2>2. Quiet(a)' /\ Unsaved(a)' /\ Manuals(a)'
    BY <1>a, <2>1 DEF Quiet, Unsaved, Manuals
  <2>3. ReadBy(a)'
    BY <1>a, <2>1 DEF ReadBy, Applying, Wanted
  <2>4. AppliedBy(a)'
    BY <1>a, <2>1 DEF AppliedBy, Applied
  <2>5. Synced(a)'
    BY <1>a, <2>1 DEF Synced, Applying, Current, Wanted
  <2> QED
    BY <2>2, <2>3, <2>4, <2>5 DEF AloneAt
<1>10. ~GitHub!Crash
  BY <1>t, <1>1 DEF GitHub!Crash, Troubles
<1> QED
  BY <1>2, <1>3, <1>5, <1>6, <1>7, <1>8, <1>9, <1>10 DEF GitHub!Next

LEMMA AloneInit == GitHub!GitHubAssumption /\ GitHub!Init => AloneInv
<1> SUFFICES ASSUME GitHub!GitHubAssumption, GitHub!Init, NEW a \in scenario.syncs PROVE AloneAt(a)
  BY DEF AloneInv
<1>1. a \in Syncs
  BY DEF GitHub!Init, GitHub!GitHubAssumption, GitHub!RepoScenario
<1>2. /\ sync = [s \in Syncs |-> GitHub!Idle] /\ ~settings.configured /\ last = 0
      /\ \A f \in Files : models[f] = Absent
  BY DEF GitHub!Init, GitHub!NoFiles
<1>3. \A s \in Syncs : sync[s].at = "idle"
  BY <1>2 DEF GitHub!Idle
<1>4. Quiet(a) /\ Unsaved(a) /\ Manuals(a)
  BY <1>1, <1>2, <1>3 DEF Quiet, Unsaved, Manuals
<1>5. ReadBy(a) /\ AppliedBy(a)
  BY <1>1, <1>3 DEF ReadBy, AppliedBy, Applying
<1>6. Synced(a)
  BY <1>2 DEF Synced
<1> QED
  BY <1>4, <1>5, <1>6 DEF AloneAt

LEMMA SyncedIsCurrent ==
    ASSUME GitHub!GitHubAssumption, RepoRows, AloneInv PROVE GitHub!CurrentWhenSynced
<1> SUFFICES ASSUME GitHub!Undisturbed, settings.configured, Len(repo) > 0, last = Len(repo),
                    \A s \in Syncs : sync[s].at = "idle", NEW f \in Files
             PROVE  LET file == IF f \in settings.path THEN repo[Len(repo)][f] ELSE Absent IN
                    IF file \in {Absent} \cup Unparsable THEN ~GitHub!Managed(f)
                    ELSE GitHub!Managed(f) /\ models[f].body = file
  BY DEF GitHub!CurrentWhenSynced, GitHub!Tip
<1>1. scenario.syncs \subseteq Syncs /\ models \in [Files -> GitHub!RepoRow \cup {Absent}]
      /\ Absent \notin Unparsable
  BY DEF RepoRows, RepoShape, GitHub!GitHubAssumption, GitHub!RepoScenario, Existing
<1>2. PICK a \in Syncs : scenario.syncs = {a}
  BY <1>1, OnlyOne
<1>3. Manuals(a) /\ Synced(a)
  BY <1>2 DEF AloneInv, AloneAt
<1>4. models[f] # Absent => models[f].source = "github"
  BY <1>1, <1>2, <1>3 DEF Manuals, GitHub!RepoRow
<1>5. Current(f)
  BY <1>3 DEF Synced
<1> QED
  BY <1>1, <1>4, <1>5 DEF Current, Wanted, GitHub!Managed

LEMMA RepoTypes ==
    ASSUME GitHub!GitHubAssumption, RepoRows PROVE GitHub!TypeOK
<1>s. RepoShape /\ RowsInv
  BY DEF RepoRows
<1>1. repo \in Seq([Files -> Contents \cup {Absent}]) /\ GitHub!Tip <= scenario.commits
  BY <1>s DEF RepoShape, RepoTree, GitHub!Tip
<1>2. settings \in [configured : BOOLEAN, path : SUBSET Files] /\ last \in 0 .. GitHub!Tip
  BY <1>s DEF RepoShape, GitHub!Tip
<1>3. \A f \in GitHub!Listed(models) :
         models[f] \in [row : 1 .. made, body : Contents, source : {"manual", "github"},
                        by : Syncs \cup Users]
  <2> SUFFICES ASSUME NEW f \in Files, models[f] # Absent
               PROVE  models[f] \in [row : 1 .. made, body : Contents,
                                     source : {"manual", "github"}, by : Syncs \cup Users]
    BY DEF GitHub!Listed
  <2>1. models[f] \in GitHub!RepoRow /\ models[f].row \in 1 .. made
    BY <1>s DEF RepoShape, Existing, RowsInv
  <2> QED
    BY <2>1 DEF GitHub!RepoRow
<1>4. \A f, g \in GitHub!Listed(models) : models[f].row = models[g].row => f = g
  BY <1>s DEF RowsInv, GitHub!Listed
<1>5. ASSUME NEW s \in Syncs
      PROVE  /\ sync[s].at \in {"idle", "sha", "tree", "file", "apply", "source", "delete"}
             /\ sync[s].path \in SUBSET Files /\ sync[s].todo \in SUBSET Files
             /\ sync[s].tree \in SUBSET Files
             /\ sync[s].sha \in 0 .. GitHub!Tip /\ sync[s].last \in 0 .. GitHub!Tip
             /\ \A f \in Files : sync[s].parsed[f] \in (Contents \ Unparsable) \cup {Absent}
  BY <1>s DEF RepoShape, RowsInv, SyncRecord, SyncFits, GitHub!Tip, Applying, Parsed
<1>6. made \in 0 .. scenario.models
  BY <1>s DEF RepoShape, GitHub!GitHubAssumption, GitHub!RepoScenario
<1> QED
  BY <1>1, <1>2, <1>3, <1>4, <1>5, <1>6 DEF GitHub!TypeOK

THEOREM SyncedModelsAreCurrent == ASSUME GitHub!GitHubAssumption PROVE GitHub!Spec => []GitHub!SyncInv
<1>1. GitHub!Init => RepoRows /\ AloneInv
  BY RepoRowsInit, AloneInit
<1>2. RepoRows /\ AloneInv /\ [GitHub!Next]_GitHub!vars => (RepoRows /\ AloneInv)'
  BY RepoRowsStep, AloneStep
<1>3. RepoRows /\ AloneInv => GitHub!SyncInv
  BY RepoTypes, SyncedIsCurrent DEF GitHub!SyncInv
<1> QED
  BY <1>1, <1>2, <1>3, PTL DEF GitHub!Spec
=============================================================================
