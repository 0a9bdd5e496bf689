----------------------------- MODULE AccessSyncMC -----------------------------
(* Instances of AccessSync for TLC. *)
EXTENDS AccessSync

CONSTANTS u1, r1, s1, f1, l1, l2, a1, q1

Quiet == [singles |-> {}, fulls |-> {}, loops |-> {l1}, admins |-> {}, queries |-> {},
          changes |-> 0, edits |-> 0, faults |-> 0, rows |-> 0, crashes |-> 0]

TheScenarios ==
    {\* a request for a full sync, a query, changes of grants and policies, a failure
     [Quiet EXCEPT !.fulls = {f1}, !.queries = {q1}, !.changes = 1, !.edits = 1, !.faults = 1],
     \* failures of every kind and a restart while a query waits
     [Quiet EXCEPT !.queries = {q1}, !.faults = 1, !.rows = 1, !.crashes = 1],
     \* a sync of the access data alone beside the background sync, with failures
     [Quiet EXCEPT !.singles = {s1}, !.changes = 1, !.faults = 1],
     [Quiet EXCEPT !.singles = {s1}, !.rows = 1],
     \* an administrator turns the background sync off and on, and a restart
     [Quiet EXCEPT !.loops = {l1, l2}, !.admins = {a1}, !.edits = 3, !.crashes = 1]}
=============================================================================
