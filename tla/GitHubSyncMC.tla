---------------------------- MODULE GitHubSyncMC ----------------------------
(***************************************************************************)
(* The sync with GitHub on one or two files.                               *)
(***************************************************************************)
EXTENDS GitHubSync, TLC

CONSTANTS f1, f2, v1, v2, v3, s1, s2, u1

\* One sync at a time over two files; the commit or the list may not be read.  One file
\* that goes and comes back.
Solo == [files |-> {f1, f2}, contents |-> {v1, v2}, syncs |-> {s1}, users |-> {},
         canFail |-> {"sha", "tree"}, commits |-> 2, faults |-> 1, models |-> 4,
         saves |-> 1, crashes |-> 0]
Reverted == [Solo EXCEPT !.files = {f1}, !.contents = {v1}, !.commits = 3]

\* Two syncs of one file.
Pushes == [files |-> {f1}, contents |-> {v1}, syncs |-> {s1, s2}, users |-> {},
           canFail |-> {}, commits |-> 3, faults |-> 0, models |-> 3,
           saves |-> 1, crashes |-> 0]

\* Two syncs and a user of the same name.
Shared == [files |-> {f1}, contents |-> {v1}, syncs |-> {s1, s2}, users |-> {u1},
           canFail |-> {}, commits |-> 2, faults |-> 0, models |-> 2,
           saves |-> 1, crashes |-> 0]

\* The server is restarted; beside the user, the file may be broken or not be read, too.
PushesRestarted == [Pushes EXCEPT !.commits = 2, !.crashes = 1]
SharedRestarted == [Shared EXCEPT !.contents = {v1, v3}, !.canFail = {"file"}, !.faults = 1,
                                  !.commits = 1, !.crashes = 1]

TheScenarios == {Solo, Reverted, Pushes, Shared, PushesRestarted, SharedRestarted}
=============================================================================
