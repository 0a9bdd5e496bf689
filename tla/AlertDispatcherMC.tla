------------------------- MODULE AlertDispatcherMC -------------------------
(* Routes and settings for the model checking of AlertDispatcher. *)
EXTENDS AlertDispatcher

CONSTANTS mail, sum

Rule == [fingerprint |-> TRUE, cooldown |-> 1, window |-> 1, escalateAfter |-> 1,
         time |-> 2, crashes |-> 0, edits |-> 0]

TheScenarios ==
    {\* a crash or a stop between any two statements
     [Rule EXCEPT !.crashes = 1],
     \* the rule is saved meanwhile; every event has a job of its own
     [Rule EXCEPT !.fingerprint = FALSE, !.cooldown = 0, !.time = 1, !.edits = 1],
     \* a window that lasts for several ticks
     [Rule EXCEPT !.window = 2, !.escalateAfter = 0]}
=============================================================================
