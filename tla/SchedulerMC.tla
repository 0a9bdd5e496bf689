----------------------------- MODULE SchedulerMC -----------------------------
(* Values for Scheduler: every minute and every second minute.     *)
EXTENDS Scheduler

OneAndTwo == {[every |-> 1, at |-> 0], [every |-> 2, at |-> 0]}
=============================================================================
