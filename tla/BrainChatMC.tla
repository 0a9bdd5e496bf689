----------------------------- MODULE BrainChatMC -----------------------------
(* The instances of BrainChat: which streams and users meet, and what goes wrong. *)
EXTENDS BrainChat

CONSTANTS s1, s2, u1, u2, k1, k2

Case == [streams |-> {s1}, users |-> {u1}, ops |-> {}, bodies |-> {}, pro |-> TRUE, 
         replies |-> {<<k1>>}, faults |-> FALSE, crashes |-> 0, edits |-> 2]

\* One setting, none of value, and those that clear others.
ChatEdits ==
    {[title |-> TRUE], [archived |-> TRUE], [model |-> TRUE], [model |-> FALSE],
     [database |-> TRUE], [database |-> TRUE, table |-> TRUE], [tables |-> TRUE],
     [title |-> FALSE, tables |-> FALSE]}

ChatScenarios ==
    {[Case EXCEPT !.users = {u1, u2}, !.edits = 3],
     [Case EXCEPT !.replies = {<<k1>>, <<k2>>, <<k2, k1>>}, !.edits = 1],
     [Case EXCEPT !.users = {u1, u2}, !.ops = {"update", "delete", "artifact"},
                  !.bodies = ChatEdits, !.pro = FALSE],
     [Case EXCEPT !.faults = TRUE, !.ops = {"delete", "artifact"}, !.edits = 1],
     [Case EXCEPT !.crashes = 1, !.edits = 2],
     [Case EXCEPT !.streams = {s1, s2}, !.ops = {"delete"}]}
=============================================================================
