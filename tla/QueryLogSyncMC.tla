---------------------------- MODULE QueryLogSyncMC ----------------------------
(* Instances of QueryLogSync for TLC. *)
EXTENDS QueryLogSync

CONSTANTS q1, q2, q3, f1, s1, b1, m1, e1, e2

Log == [queries |-> {q1, q2}, violating |-> {q1, q2}, fulls |-> {f1}, singles |-> {},
        blocked |-> {}, manuals |-> {}, edits |-> {}, wanted |-> {"triaged", "resolved", Keep},
        limit |-> 1, prompt |-> TRUE, perSecond |-> 1, time |-> 2, faults |-> 0, crashes |-> 0]

TheScenarios ==
    {\* two kinds of syncs, batches smaller than the log, and a restart
     [Log EXCEPT !.violating = {q2}, !.singles = {s1}, !.crashes = 1],
     \* one sync at a time over three queries, and two edits of the incidents
     [Log EXCEPT !.queries = {q1, q2, q3}, !.edits = {e1, e2}, !.limit = 2, !.time = 3],
     \* a sync, a blocked query, a request of a user and an edit write the incidents
     [Log EXCEPT !.blocked = {b1}, !.manuals = {m1}, !.edits = {e1}, !.limit = 2,
                 !.perSecond = 2, !.time = 1, !.crashes = 1],
     \* one sync and an edit, with a log that is late, a failure and a restart
     [Log EXCEPT !.edits = {e1}, !.prompt = FALSE, !.perSecond = 2, !.faults = 1,
                 !.crashes = 1]}
=============================================================================
