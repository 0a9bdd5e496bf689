---------------------------- MODULE ModelRunnerMC ----------------------------
(***************************************************************************)
(* Runs of two or three models.                                            *)
(***************************************************************************)
EXTENDS ModelRunner

CONSTANTS q1, q2

ThreeModels == <<1, 2, 3>>

Project(refs, tables) ==
    [m \in DOMAIN refs |-> [refs |-> refs[m], table |-> m \in tables]]

Scenario(ids, projects, requests, starts, edits, faults, timeouts, crashes) ==
    [models |-> ids, projects |-> projects, requests |-> requests, starts |-> starts,
     edits |-> edits, faults |-> faults, late |-> timeouts, crashes |-> crashes]

\* Every graph of three models.
AllGraphs == {Project(refs, {}) : refs \in [1 .. 3 -> SUBSET (1 .. 3)]}

\* A chain and a fork, of tables and views.
ChainAndFork == {Project(<<{}, {1}, {2}>>, {1}), Project(<<{}, {1}, {1}>>, {2})}

\* A table and a view of it, and two models that refer to one another.
Pair == {Project(<<{}, {1}>>, {1})}
Pairs == Pair \cup {Project(<<{2}, {1}>>, {1})}

TheScenarios ==
    {\* every graph, run once
     Scenario(1 .. 3, AllGraphs, {q1}, 1, 0, 0, 0, 0),
     \* two runs and two failures
     Scenario(1 .. 3, ChainAndFork, {q1}, 2, 0, 2, 0, 0),
     \* two requests and the scheduler, an edit, a statement given up on
     Scenario(1 .. 2, Pair, {q1, q2}, 2, 1, 0, 1, 0),
     \* a schedule that is made and deleted
     Scenario(1 .. 2, Pair, {q1}, 1, 2, 0, 0, 0),
     \* the scheduler and a request, an edit, a failure and a restart
     Scenario(1 .. 2, Pairs, {q1}, 2, 1, 1, 0, 1)}
=============================================================================
