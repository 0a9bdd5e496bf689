------------------------------ MODULE ModelGraph ------------------------------
(***************************************************************************)
(* The dependency graph of SQL models (internal/models/dag.go).  ids is a  *)
(* set of models, deps[m] the models that m refers to, names the order in  *)
(* which the models are read from the table, visit the order in which Go   *)
(* iterates over the map of references, which is any.                      *)
(***************************************************************************)
EXTENDS Integers, Sequences, FiniteSets

\* The members of S, in the order of s.
Filter(s, S) ==
    LET Loop[i \in 0 .. Len(s)] ==
            IF i = 0 THEN <<>>
            ELSE IF s[i] \in S THEN Append(Loop[i - 1], s[i]) ELSE Loop[i - 1]
    IN Loop[Len(s)]

\* Faulty: the models that m refers to.
RevDepsSwapped(deps, ids, m) == {d \in ids : d \in deps[m]}

\* The models that refer to m.
RevDeps(deps, ids, m) == {d \in ids : m \in deps[d]}

\* Kahn's algorithm: the state of its loop, ...
KahnStates(ids) == [queue : Seq(ids), order : Seq(ids), inDegree : [ids -> Int]]

KahnStart(ids, deps, names) ==
    [queue |-> Filter(names, {m \in ids : deps[m] = {}}),
     order |-> <<>>,
     inDegree |-> [m \in ids |-> Cardinality(deps[m])]]

KahnStep(ids, deps, visit) ==
    [k \in KahnStates(ids) |->
        LET rev == RevDeps(deps, ids, Head(k.queue)) IN
        IF k.queue = <<>> THEN k
        ELSE [queue |-> Tail(k.queue) \o Filter(visit, {d \in rev : k.inDegree[d] = 1}),
              order |-> Append(k.order, Head(k.queue)),
              inDegree |-> [m \in ids |-> IF m \in rev THEN k.inDegree[m] - 1
                                          ELSE k.inDegree[m]]]]

\* ... which takes each model once at most.
Kahn(ids, deps, names, visit) ==
    LET Loop[n \in 0 .. Cardinality(ids)] ==
            IF n = 0 THEN KahnStart(ids, deps, names)
            ELSE KahnStep(ids, deps, visit)[Loop[n - 1]]
    IN Loop[Cardinality(ids)].order

\* BuildDAG refuses a reference to a model that is not there, or to itself.
RefsValid(ids, deps) == \A m \in ids : deps[m] \subseteq ids \ {m}

\* The models that a breadth-first search from m reaches, near[y] being the ones it goes
\* to from y.
Reach(ids, near, m) ==
    LET Grow[n \in 0 .. Cardinality(ids)] ==
            IF n = 0 THEN {m}
            ELSE Grow[n - 1] \cup UNION {near[y] : y \in Grow[n - 1] \cap ids}
    IN Grow[Cardinality(ids)]

ComponentContaining(ids, deps, m) ==
    Reach(ids, [y \in ids |-> {x \in ids : x \in deps[y] \/ y \in deps[x]}], m)

GetUpstreamDeps(ids, deps, m) == Reach(ids, [y \in ids |-> ids \cap deps[y]], m)
=============================================================================
