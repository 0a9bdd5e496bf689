---------------------------- MODULE WorkspaceStore ----------------------------
(***************************************************************************)
(* The tables of what users make: dashboards with panels, share links and  *)
(* invites, saved queries with schedules, models with schedules, and       *)
(* pipelines.  One operator per function of internal/database that writes  *)
(* them: it takes the tables s and returns them, with ok = FALSE for an    *)
(* error.  Every function is one statement or one transaction.             *)
(*                                                                         *)
(* A field holds the actor who wrote it last: two fields, name and body,   *)
(* stand for those that an edit may name or leave out, and of a model the  *)
(* description is a third.                                                 *)
(***************************************************************************)
EXTENDS Naturals, FiniteSets, TLC

CONSTANTS Ids,       \* what uuid.NewString returns; no id is used twice
          Emails,
          Authors,   \* who may have written a field
          None,      \* no row of this id yet
          Gone       \* a row that was deleted

Fields == {"name", "body"}
ModelFields == Fields \cup {"description"}

\* The author of the dashboard that ListDashboards makes.
System == "system"

Has(table, id) == table[id] \notin {None, Gone}
Live(table) == {id \in Ids : Has(table, id)}

\* The rows of the tables.
Dashboards == [name : Authors, body : Authors, by : Authors]
Panels == [name : Authors, body : Authors, of : Ids]
Shares == [of : Ids, visibility : {"public", "private"}, emails : SUBSET Emails,
           expires : {"never", "later", "past"}]
Invites == [of : Ids, email : Emails, expired : BOOLEAN]
Texts == [name : Authors, body : Authors]
Models == [name : Authors, body : Authors, description : Authors]
Timers == [of : Ids]
Pipelines == [name : Authors, body : Authors, graph : Authors \cup {None},
              status : {"draft", "running", "stopped", "success", "error"}]

Rows(rows) == [Ids -> rows \cup {None, Gone}]
Tables ==
    [dashboards : Rows(Dashboards), panels : Rows(Panels), shares : Rows(Shares),
     invites : Rows(Invites), queries : Rows(Texts), models : Rows(Models),
     timers : Rows(Timers), pipelines : Rows(Pipelines)]

Done(s) == [ok |-> TRUE, db |-> s]
Failed(s) == [ok |-> FALSE, db |-> s]

\* DELETE of the rows x of a table, and what ON DELETE CASCADE takes with it.
Without(table, x) == [id \in Ids |-> IF id \in x THEN Gone ELSE table[id]]
Of(table, parents) == {id \in Live(table) : table[id].of \in parents}

\* Nothing outlives what it belongs to: a panel or a link its dashboard, an invite
\* its link, which has its address, a schedule its query or model, however requests overlap.
Attached(s) ==
    /\ \A p \in Live(s.panels) : Has(s.dashboards, s.panels[p].of)
    /\ \A x \in Live(s.shares) : Has(s.dashboards, s.shares[x].of)
    /\ \A i \in Live(s.invites) :
          Has(s.shares, s.invites[i].of) /\ s.invites[i].email \in s.shares[s.invites[i].of].emails
    /\ \A t \in Live(s.timers) :
          Has(s.models, s.timers[t].of) \/ Has(s.queries, s.timers[t].of)

\* No two models have one name, and there is one dashboard of the system, although
\* every list of the dashboards makes sure that there is one.
Unique(s) ==
    /\ \A m, n \in Live(s.models) : s.models[m].name = s.models[n].name => m = n
    /\ \A d, e \in Live(s.dashboards) :
          s.dashboards[d].by = System /\ s.dashboards[e].by = System => d = e

----------------------------------------------------------------------------
(* Dashboards, panels, share links, invites.                               *)

CreateDashboard(s, d, who) ==
    Done([s EXCEPT !.dashboards[d] = [name |-> who, body |-> who, by |-> who]])

UpdateDashboard(s, d, row) ==
    Done(IF Has(s.dashboards, d)
         THEN [s EXCEPT !.dashboards[d] = [@ EXCEPT !.name = row.name, !.body = row.body]]
         ELSE s)

\* Faulty: the invites stay.
DeleteSharesOnly(s, x) == [s EXCEPT !.shares = Without(@, x)]
DeleteShares(s, x) ==
    [s EXCEPT !.shares = Without(@, x), !.invites = Without(@, Of(@, x))]

DeleteDashboard(s, d) ==
    Done(DeleteShares([s EXCEPT !.dashboards = Without(@, {d} \cap Live(@)),
                                !.panels = Without(@, Of(@, {d}))],
                      Of(s.shares, {d})))

CreatePanel(s, p, d, who) ==
    IF Has(s.dashboards, d)
    THEN Done([s EXCEPT !.panels[p] = [name |-> who, body |-> who, of |-> d]])
    ELSE Failed(s)

UpdatePanel(s, p, row) ==
    Done(IF Has(s.panels, p)
         THEN [s EXCEPT !.panels[p] = [@ EXCEPT !.name = row.name, !.body = row.body]]
         ELSE s)

DeletePanel(s, p) == Done([s EXCEPT !.panels = Without(@, {p} \cap Live(@))])

CreateDashboardShare(s, x, d, visibility, emails, expires) ==
    IF Has(s.dashboards, d)
    THEN Done([s EXCEPT !.shares[x] = [of |-> d, visibility |-> visibility,
                                       emails |-> emails, expires |-> expires]])
    ELSE Failed(s)

DeleteDashboardShare(s, x) == Done(DeleteShares(s, {x} \cap Live(s.shares)))

CreateShareInvite(s, i, x, email) ==
    IF Has(s.shares, x)
    THEN Done([s EXCEPT !.invites[i] = [of |-> x, email |-> email, expired |-> FALSE]])
    ELSE Failed(s)

\* At every list, in one transaction: the dashboard of the system is made or
\* found, its panels are made or, found by their names, set back.
EnsureSystemOverviewDashboard(s, d, p) ==
    LET found == {x \in Live(s.dashboards) : s.dashboards[x].by = System}
        home == IF found = {} THEN d ELSE CHOOSE x \in found : TRUE
        same == {x \in Of(s.panels, {home}) : s.panels[x].name = System}
        panel == IF same = {} THEN p ELSE CHOOSE x \in same : TRUE
    IN  Done([s EXCEPT
                !.dashboards[home] = [name |-> System, body |-> System, by |-> System],
                !.panels[panel] = [name |-> System, body |-> System, of |-> home]])

----------------------------------------------------------------------------
(* Saved queries and models, with their schedules.                         *)

CreateSavedQuery(s, q, row) ==
    Done([s EXCEPT !.queries[q] = [name |-> row.name, body |-> row.body]])

UpdateSavedQuery(s, q, row) ==
    Done(IF Has(s.queries, q)
         THEN [s EXCEPT !.queries[q] = [name |-> row.name, body |-> row.body]] ELSE s)

DeleteSavedQuery(s, q) ==
    Done([s EXCEPT !.queries = Without(@, {q} \cap Live(@)),
                   !.timers = Without(@, Of(@, {q}))])

\* UNIQUE(connection_id, name); all models here are of one connection.
CreateModel(s, m, who) ==
    IF \E n \in Live(s.models) : s.models[n].name = who THEN Failed(s)
    ELSE Done([s EXCEPT !.models[m] = [name |-> who, body |-> who, description |-> who]])

UpdateModel(s, m, row) ==
    IF ~Has(s.models, m) THEN Done(s)
    ELSE IF \E n \in Live(s.models) \ {m} : s.models[n].name = row.name THEN Failed(s)
    ELSE Done([s EXCEPT !.models[m] = [name |-> row.name, body |-> row.body,
                                       description |-> row.description]])

DeleteModel(s, m) ==
    Done([s EXCEPT !.models = Without(@, {m} \cap Live(@)),
                   !.timers = Without(@, Of(@, {m}))])

\* ON CONFLICT(connection_id, anchor_model_id) DO UPDATE.
UpsertModelSchedule(s, t, m) ==
    IF ~Has(s.models, m) THEN Failed(s)
    ELSE IF Of(s.timers, {m}) # {} THEN Done(s)
    ELSE Done([s EXCEPT !.timers[t] = [of |-> m]])

----------------------------------------------------------------------------
(* Pipelines.                                                              *)

CreatePipeline(s, p, who) ==
    Done([s EXCEPT !.pipelines[p] = [name |-> who, body |-> who,
                                     status |-> "draft", graph |-> None]])

UpdatePipeline(s, p, row) ==
    Done(IF Has(s.pipelines, p)
         THEN [s EXCEPT !.pipelines[p] = [@ EXCEPT !.name = row.name, !.body = row.body]]
         ELSE s)

UpdatePipelineStatus(s, p, status) ==
    Done(IF Has(s.pipelines, p) THEN [s EXCEPT !.pipelines[p].status = status] ELSE s)

DeletePipeline(s, p) == Done([s EXCEPT !.pipelines = Without(@, {p} \cap Live(@))])

\* One transaction; the nodes refer to the row of the pipeline.
SavePipelineGraph(s, p, who) ==
    IF Has(s.pipelines, p) THEN Done([s EXCEPT !.pipelines[p].graph = who]) ELSE Failed(s)
=============================================================================
