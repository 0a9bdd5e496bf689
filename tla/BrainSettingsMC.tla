-------------------------- MODULE BrainSettingsMC --------------------------
(* The instances of BrainSettings: one administrator, one with failing statements, two. *)
EXTENDS BrainSettings, TLC

CONSTANTS i1, i2, i3, a1, a2, gpt5, llama

Empty == [id \in Ids |-> None]
Flag(active, default) == [active |-> active, default |-> default]
Model(name, active, default) == [of |-> i1, name |-> name] @@ Flag(active, default)
Tables ==
    [providers |-> i1 :> Flag(TRUE, TRUE) @@ i2 :> Flag(TRUE, FALSE) @@ Empty,
     models |-> i1 :> Model(llama, TRUE, TRUE) @@ i2 :> Model(gpt5, FALSE, FALSE) @@ Empty,
     skills |-> i1 :> Flag(TRUE, TRUE) @@ Empty]
NoModels == [Tables EXCEPT !.models = Empty]

BestFirst == <<gpt5, llama>>

ModelOps == {"UpdateModel", "BulkUpdate", "Sync"}
ProviderOps == {"CreateProvider", "UpdateProvider", "DeleteProvider"}
SkillOps == {"CreateSkill", "UpdateSkill"}

Scenario(who, ops, n, faults, rows) ==
    [admins |-> who, ops |-> ops, requests |-> n, faults |-> faults, tables |-> rows]

TheScenarios ==
    {Scenario({a1}, ModelOps, 3, FALSE, Tables),
     Scenario({a1}, ModelOps \cup ProviderOps, 2, TRUE, NoModels),
     Scenario({a1, a2}, ModelOps \cup {"DeleteProvider"}, 2, FALSE, Tables),
     Scenario({a1, a2}, ProviderOps, 3, FALSE, Tables),
     Scenario({a1, a2}, SkillOps, 3, TRUE, Tables)}
=============================================================================
