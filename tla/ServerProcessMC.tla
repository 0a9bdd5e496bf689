--------------------------- MODULE ServerProcessMC ---------------------------
(* Small instances of ServerProcess. *)
EXTENDS ServerProcess

CONSTANTS p1, p2, p3, p4, p5, p6, p7, d1, d2, d3

All == {"start", "detach", "stop", "restart", "update"}
Patient == [commands |-> All, requests |-> 3, patient |-> TRUE, reuse |-> FALSE, crashes |-> 0,
            faults |-> FALSE, file |-> None, other |-> None]
Hasty == [Patient EXCEPT !.patient = FALSE]

TheScenarios ==
    { Patient,
      [Patient EXCEPT !.faults = TRUE],
      [Patient EXCEPT !.crashes = 2],
      \* the PID file of a server that crashed: its id is free, or another process has it
      [Patient EXCEPT !.requests = 2, !.file = p1, !.reuse = TRUE],
      [Patient EXCEPT !.requests = 2, !.file = p1, !.other = p1, !.reuse = TRUE],
      \* starts that overlap
      [Hasty EXCEPT !.commands = {"start", "detach"}],
      [Hasty EXCEPT !.commands = {"start", "stop"}],
      [Hasty EXCEPT !.commands = {"stop", "restart"}] }
=============================================================================
