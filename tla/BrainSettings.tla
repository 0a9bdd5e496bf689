---------------------------- MODULE BrainSettings ----------------------------
(***************************************************************************)
(* The providers, models and skills of the assistant, and the              *)
(* administrators who set them (handlers/admin_brain.go, database/brain.go).*)
(* Every operator on the tables is one statement or one transaction.       *)
(***************************************************************************)
EXTENDS Naturals, Sequences

CONSTANTS
    Ids,            \* of providers, models and skills
    Admins,
    Preferred,      \* names of models: by scoreRecommendedModel, then by name
    None, Gone,
    Scenarios       \* bound: [admins, ops, requests, faults, tables]

VARIABLES
    tables,         \* brain_providers, brain_models, brain_skills
    admin,          \* what the request of each administrator has read
    scenario, requests

vars == <<tables, admin, scenario, requests>>

Names == {Preferred[i] : i \in DOMAIN Preferred}
Has(t, id) == t[id] \notin {None, Gone}
Rows(t) == {id \in Ids : Has(t, id)}
New(t) == {id \in Ids : t[id] = None}
ModelsOf(s, p) == {m \in Rows(s.models) : s.models[m].of = p}

\* A row, a row that was never there, and one that is deleted.
FlagRow == [active : BOOLEAN, default : BOOLEAN]
ModelRow == [of : Ids, name : Names, active : BOOLEAN, default : BOOLEAN]
Table(rows) == [Ids -> rows \cup {None, Gone}]
AllTables == [providers : Table(FlagRow), models : Table(ModelRow), skills : Table(FlagRow)]

AtMostOne(x) == \A i, j \in x : i = j

\* One default provider, one default model in each provider, one active and one default
\* skill, no two models of a name, and no model without its provider.
OneOfEachIn(s) ==
    /\ AtMostOne({p \in Rows(s.providers) : s.providers[p].default})
    /\ \A p \in Ids : AtMostOne({m \in ModelsOf(s, p) : s.models[m].default})
    /\ AtMostOne({k \in Rows(s.skills) : s.skills[k].active})
    /\ AtMostOne({k \in Rows(s.skills) : s.skills[k].default})
    /\ \A m, n \in Rows(s.models) : m # n =>
          <<s.models[m].of, s.models[m].name>> # <<s.models[n].of, s.models[n].name>>
    /\ \A m \in Rows(s.models) : Has(s.providers, s.models[m].of)

DefaultIsActiveIn(s) == \A m \in Rows(s.models) : s.models[m].default => s.models[m].active

\* What all models of a provider are asked for.
Actions == {"deactivate_all", "activate_all", "activate_recommended"}

\* What the proofs assume of the constants: the tables are empty or have been set here.
SettingsAssumption ==
    /\ {None, Gone} \cap (FlagRow \cup ModelRow) = {} /\ None \notin Ids \cup Actions \cup {"sync"}
    /\ Preferred \in Seq(Names)
    /\ \A sc \in Scenarios :
          /\ sc.tables \in AllTables
          /\ OneOfEachIn(sc.tables) /\ DefaultIsActiveIn(sc.tables)

Idle == [at |-> "idle", done |-> None]

Init ==
    /\ scenario \in Scenarios
    /\ tables = scenario.tables
    /\ admin = [a \in Admins |-> Idle]
    /\ requests = scenario.requests

----------------------------------------------------------------------------
(* database/brain.go. *)

\* is_default = 0 in the rows x of a table.
Cleared(t, x) == [id \in Ids |-> IF id \in x THEN [t[id] EXCEPT !.default = FALSE] ELSE t[id]]

CreateBrainProvider(s, p, active, default) ==
    LET t == IF default THEN Cleared(s.providers, Rows(s.providers)) ELSE s.providers IN
    [s EXCEPT !.providers = [t EXCEPT ![p] = [active |-> active, default |-> default]]]

\* The other rows are cleared even if the row itself is gone.
UpdateBrainProvider(s, p, active, default) ==
    LET t == IF default THEN Cleared(s.providers, Rows(s.providers)) ELSE s.providers IN
    [s EXCEPT !.providers = IF Has(t, p)
        THEN [t EXCEPT ![p] = [active |-> active, default |-> default]] ELSE t]

DeleteBrainProvider(s, p) ==
    [s EXCEPT !.providers = [id \in Ids |-> IF id = p /\ Has(@, p) THEN Gone ELSE @[id]],
              !.models = [id \in Ids |-> IF id \in ModelsOf(s, p) THEN Gone ELSE @[id]]]

\* A model has one name in its provider.
InsertModel(s, p, name) ==
    IF New(s.models) = {} \/ ~Has(s.providers, p) THEN s
    ELSE LET m == CHOOSE id \in New(s.models) : TRUE IN
         [s EXCEPT !.models[m] = [of |-> p, name |-> name, active |-> FALSE, default |-> FALSE]]

\* Faulty: other models of the provider keep the flag.
UpdateBrainModelOnly(s, m, active, default) ==
    IF ~Has(s.models, m) THEN s
    ELSE [s EXCEPT !.models[m] = [@ EXCEPT !.active = active, !.default = default]]

UpdateBrainModel(s, m, active, default) ==
    IF ~Has(s.models, m) THEN s
    ELSE LET t == IF default THEN Cleared(s.models, ModelsOf(s, s.models[m].of)) ELSE s.models IN
         [s EXCEPT !.models = [t EXCEPT ![m] = [@ EXCEPT !.active = active, !.default = default]]]

SetBrainModelActive(s, m, active) ==
    IF Has(s.models, m) THEN [s EXCEPT !.models[m].active = active] ELSE s

ClearDefaultBrainModelsByProvider(s, p) == [s EXCEPT !.models = Cleared(@, ModelsOf(s, p))]

\* One skill is active, one is the default.
Skill(s, k, active, default) ==
    LET t == [id \in Ids |-> IF Has(s.skills, id)
                THEN [active |-> s.skills[id].active /\ ~active,
                      default |-> s.skills[id].default /\ ~default]
                ELSE s.skills[id]]
    IN  [s EXCEPT !.skills = [t EXCEPT ![k] = [active |-> active, default |-> default]]]

\* What the assistant uses when a chat names no model: the order of the query.
GetDefaultBrainModelRuntime(s) ==
    LET usable == {m \in Rows(s.models) :
                     s.models[m].active /\ s.providers[s.models[m].of].active}
        best == {m \in usable : s.models[m].default}
        first == IF best = {} THEN usable ELSE best
        ofDefault == {m \in first : s.providers[s.models[m].of].default}
    IN  IF ofDefault = {} THEN first ELSE ofDefault

----------------------------------------------------------------------------
(* The requests. *)

Free(a, op) ==
    a \in scenario.admins /\ admin[a].at = "idle" /\ requests > 0 /\ op \in scenario.ops

\* What was read is in the record.
Ask(a, request) ==
    /\ Free(a, request.at)
    /\ requests' = requests - 1
    /\ admin' = [admin EXCEPT ![a] = request]
    /\ UNCHANGED <<tables, scenario>>

\* One more statement of a request, which may fail: then the request is over.
Faults == IF scenario.faults THEN BOOLEAN ELSE {FALSE}
Statement(a, result, next) ==
    \E fails \in Faults :
        /\ tables' = IF fails THEN tables ELSE result
        /\ admin' = [admin EXCEPT ![a] = IF fails THEN Idle ELSE next]
        /\ UNCHANGED <<scenario, requests>>

Once(a, op, result) ==
    /\ Free(a, op)
    /\ requests' = requests - 1
    /\ \E fails \in Faults : tables' = IF fails THEN tables ELSE result
    /\ admin' = [admin EXCEPT ![a] = Idle]
    /\ UNCHANGED scenario

CreateProvider(a) ==
    \E p \in New(tables.providers), active, default \in BOOLEAN :
        Once(a, "CreateProvider", CreateBrainProvider(tables, p, active, default))

DeleteProvider(a) ==
    \E p \in Rows(tables.providers) : Once(a, "DeleteProvider", DeleteBrainProvider(tables, p))

\* A flag that is not named is written back as it was read.
Flags == {"active", "default"}
Given == [Flags -> BOOLEAN \cup {None}]
Take(given, seen) == [f \in Flags |-> IF given[f] = None THEN seen[f] ELSE given[f]]

UpdateProvider(a) ==
    \/ \E p \in Rows(tables.providers), given \in Given :
          Ask(a, [at |-> "UpdateProvider", id |-> p, flags |-> Take(given, tables.providers[p])])
    \/ /\ admin[a].at = "UpdateProvider"
       /\ Statement(a, UpdateBrainProvider(tables, admin[a].id, admin[a].flags.active,
                                           admin[a].flags.default), Idle)

\* A default is active.
UpdateModel(a) ==
    \/ \E m \in Rows(tables.models), given \in Given :
          LET f == Take(given, tables.models[m])  active == f.active \/ f.default IN
          Ask(a, [at |-> "UpdateModel", id |-> m,
                  flags |-> [active |-> active, default |-> f.default /\ active]])
    \/ /\ admin[a].at = "UpdateModel"
       /\ Statement(a, UpdateBrainModel(tables, admin[a].id, admin[a].flags.active,
                                        admin[a].flags.default), Idle)

\* Skills are never deleted.
CreateSkill(a) ==
    \E k \in New(tables.skills), active, default \in BOOLEAN :
        Once(a, "CreateSkill", Skill(tables, k, active, default))

UpdateSkill(a) ==
    \/ \E k \in Rows(tables.skills), given \in Given :
          Ask(a, [at |-> "UpdateSkill", id |-> k, flags |-> Take(given, tables.skills[k])])
    \/ /\ admin[a].at = "UpdateSkill"
       /\ Statement(a, Skill(tables, admin[a].id, admin[a].flags.active,
                             admin[a].flags.default), Idle)

----------------------------------------------------------------------------
(* All models of a provider. *)

pickRecommendedModel(s, models) ==
    LET names == {s.models[m].name : m \in models}
        i == CHOOSE i \in DOMAIN Preferred :
                Preferred[i] \in names /\ \A j \in 1 .. i - 1 : Preferred[j] \notin names
    IN  IF models = {} THEN None ELSE CHOOSE m \in models : s.models[m].name = Preferred[i]

DefaultOf(s, models) ==
    LET d == {m \in models : s.models[m].default} IN
    IF d = {} THEN None ELSE CHOOSE m \in d : TRUE

\* BulkUpdateBrainModels reads the models, ...
BulkUpdate(a) ==
    \E p \in Rows(tables.providers), action \in Actions :
        LET models == ModelsOf(tables, p)
            rec == pickRecommendedModel(tables, models)
            default == DefaultOf(tables, models) IN
        /\ models # {}
        /\ Ask(a, [at |-> "BulkUpdate", of |-> p, action |-> action, todo |-> models,
                   clear |-> action # "activate_all",
                   chosen |-> IF action = "activate_all" /\ default # None THEN default ELSE rec])

\* ... then writes them one by one.
Finished(a) == [at |-> "idle", done |-> admin[a].action, of |-> admin[a].of]
AfterModel(a, m) ==
    IF admin[a].todo = {m} THEN Finished(a) ELSE [admin[a] EXCEPT !.todo = @ \ {m}]
WrittenModel(a, m) ==
    CASE admin[a].action = "deactivate_all" -> SetBrainModelActive(tables, m, FALSE)
      [] admin[a].action = "activate_all" ->
            UpdateBrainModel(tables, m, TRUE, m = admin[a].chosen)
      [] admin[a].action = "activate_recommended" ->
            UpdateBrainModel(tables, m, m = admin[a].chosen, m = admin[a].chosen)

applyModelBulkAction(a) ==
    /\ admin[a].at = "BulkUpdate"
    /\ \/ /\ admin[a].clear
          /\ Statement(a, ClearDefaultBrainModelsByProvider(tables, admin[a].of),
                       [admin[a] EXCEPT !.clear = FALSE])
       \/ /\ ~admin[a].clear
          /\ \E m \in admin[a].todo : Statement(a, WrittenModel(a, m), AfterModel(a, m))

\* SyncBrainProviderModels: the names come from the provider itself.
Sync(a) ==
    \E p \in Rows(tables.providers), names \in SUBSET Names \ {{}} :
        Ask(a, [at |-> "Sync", of |-> p, action |-> "sync", todo |-> names])

\* EnsureBrainModel; a name that fails is left out.
Ensure(a) ==
    /\ admin[a].at = "Sync" /\ admin[a].todo # {}
    /\ \E name \in admin[a].todo, fails \in Faults :
          /\ tables' =
                IF fails \/ \E m \in ModelsOf(tables, admin[a].of) : tables.models[m].name = name
                THEN tables ELSE InsertModel(tables, admin[a].of, name)
          /\ admin' = [admin EXCEPT ![a].todo = @ \ {name}]
    /\ UNCHANGED <<scenario, requests>>

\* Without a default, or without an active model, the recommended one is both.
NeedsDefault(s, models) ==
    DefaultOf(s, models) = None \/ \A m \in models : ~s.models[m].active

Choose(a) ==
    LET models == ModelsOf(tables, admin[a].of) IN
    /\ admin[a].at = "Sync" /\ admin[a].todo = {}
    /\ admin' = [admin EXCEPT ![a] =
          IF NeedsDefault(tables, models) /\ models # {}
          THEN [at |-> "clear", of |-> admin[a].of, action |-> "sync",
                chosen |-> pickRecommendedModel(tables, models)]
          ELSE Finished(a)]
    /\ UNCHANGED <<tables, scenario, requests>>

\* The errors of both are ignored.
Recommend(a) ==
    \E fails \in Faults :
        /\ \/ /\ admin[a].at = "clear"
              /\ tables' = IF fails THEN tables
                           ELSE ClearDefaultBrainModelsByProvider(tables, admin[a].of)
              /\ admin' = [admin EXCEPT ![a].at = "recommend"]
           \/ /\ admin[a].at = "recommend"
              /\ tables' = IF fails THEN tables
                           ELSE UpdateBrainModel(tables, admin[a].chosen, TRUE, TRUE)
              /\ admin' = [admin EXCEPT ![a] = Finished(a)]
        /\ UNCHANGED <<scenario, requests>>

Next ==
    \E a \in Admins :
        \/ CreateProvider(a) \/ UpdateProvider(a) \/ DeleteProvider(a)
        \/ UpdateModel(a) \/ CreateSkill(a) \/ UpdateSkill(a)
        \/ BulkUpdate(a) \/ applyModelBulkAction(a)
        \/ Sync(a) \/ Ensure(a) \/ Choose(a) \/ Recommend(a)

Spec == Init /\ [][Next]_vars

----------------------------------------------------------------------------
(* Properties. *)

\* However requests overlap and wherever one stops, the tables agree.
OneOfEach == OneOfEachIn(tables)

Alone == AtMostOne(scenario.admins)

\* One administrator at a time keeps every default model active, even when a request
\* stops halfway.  (Two do not: one may turn all models off while the other makes
\* one the default.)
DefaultIsActive ==
    Alone => DefaultIsActiveIn(tables)

\* What a request r for all models of a provider leaves: none active; all active and one
\* the default; only the recommended one; after a sync, a default that the assistant can
\* use, if the provider has a model at all.
IsDone(s, r) ==
    LET models == ModelsOf(s, r.of)
        active == {m \in models : s.models[m].active}
        default == DefaultOf(s, models) IN
    r.at = "idle" =>
        /\ r.done = "deactivate_all" => active = {} /\ default = None
        /\ r.done = "activate_all" => active = models /\ default # None
        /\ r.done = "activate_recommended" =>
              active = {default} /\ default = pickRecommendedModel(s, models)
        /\ r.done = "sync" => models = {} \/ default \in active

\* Such a request does what it says, when nobody and nothing gets in its way.
BulkDone ==
    Alone /\ ~scenario.faults => \A a \in Admins : IsDone(tables, admin[a])

\* Whoever names no model gets the default of the provider that is the default, if
\* there is one that can be used.
DefaultIsUsed ==
    \A m \in GetDefaultBrainModelRuntime(tables), n \in Rows(tables.models) :
        LET own(i) == tables.providers[tables.models[i].of] IN
        tables.models[n].active /\ tables.models[n].default /\ own(n).active =>
            tables.models[m].default /\ (own(n).default => own(m).default)

SettingsInv == OneOfEach /\ DefaultIsActive /\ BulkDone /\ DefaultIsUsed
=============================================================================
