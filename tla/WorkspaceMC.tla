----------------------------- MODULE WorkspaceMC -----------------------------
(***************************************************************************)
(* The instances of BrainTools: who changes what at the same time.         *)
(***************************************************************************)
EXTENDS BrainTools

CONSTANTS i1, i2, i3, c1, c2, a1, v1, e1, e2

Empty == [id \in Ids |-> None]
Put(rows) == rows @@ Empty

NoRows == [k \in {"dashboards", "panels", "shares", "invites", "queries", "models", "timers",
                  "pipelines"} |-> Empty]

Text == [name |-> "old", body |-> "old"]
Model == Text @@ [description |-> "old"]
Board == Text @@ [by |-> "user"]
Panel(d) == Text @@ [of |-> d]

\* Two dashboards with a panel each.
Boards == [NoRows EXCEPT !.dashboards = Put(i1 :> Board @@ i2 :> Board),
                         !.panels = Put(i1 :> Panel(i1) @@ i2 :> Panel(i2))]

\* A dashboard with a private and a public link.
Link(v, emails) == [of |-> i1, visibility |-> v, emails |-> emails, expires |-> "later"]
Shared == [NoRows EXCEPT !.dashboards = Put(i1 :> Board),
                         !.shares = Put(i1 :> Link("private", {e1, e2})
                                        @@ i2 :> Link("private", {e1}))]

Unshared == [Shared EXCEPT !.shares = Empty]

\* A query and a model with a schedule each.
Written == [NoRows EXCEPT !.queries = Put(i1 :> Text),
                          !.models = Put(i2 :> Model),
                          !.timers = Put(i1 :> [of |-> i1])]

Pipe(status, graph) == Text @@ [status |-> status, graph |-> graph]
Pipes == [NoRows EXCEPT !.pipelines = Put(i1 :> Pipe("draft", None) @@ i2 :> Pipe("running", c1))]

Scenario(who, ops, n, rows, runs) ==
    [actors |-> who, ops |-> ops, requests |-> n, db |-> rows, live |-> runs]

PanelOps == {"CreatePanel", "UpdatePanel", "DeletePanel", "DeleteDashboard",
             "add_dashboard_panel", "delete_dashboard_panel", "delete_dashboard"}
BoardOps == {"ListDashboards", "CreateDashboard", "UpdateDashboard", "DeleteDashboard",
             "UpdatePanel", "create_dashboard", "delete_dashboard"}
ShareOps == {"DeleteShare", "InviteToShare", "DeleteDashboard", "Viewer"}
TextOps == {"CreateQuery", "UpdateQuery", "DeleteQuery", "Duplicate",
            "create_saved_query", "update_saved_query", "delete_saved_query"}
ModelOps == {"CreateModel", "UpdateModel", "DeleteModel", "create_model", "update_model",
             "delete_model", "schedule_model"}
PipeOps == {"CreatePipeline", "UpdatePipeline", "DeletePipeline", "SaveGraph", "StartPipeline",
            "StopPipeline", "RunEnds", "create_pipeline", "configure_pipeline",
            "start_pipeline", "delete_pipeline"}

TheScenarios ==
    {Scenario({c1, a1}, PanelOps, 4, Boards, {}),
     Scenario({c1, a1}, BoardOps, 3, Boards, {}),
     Scenario({c1, c2}, ShareOps, 3, Shared, {}),
     Scenario({c1, v1}, ShareOps, 3, Shared, {}),
     Scenario({c1, v1}, {"InviteToShare", "Viewer", "Expire"}, 2, Shared, {}),
     Scenario({c1, v1}, {"CreateShare", "InviteToShare", "Viewer"}, 3, Unshared, {}),
     Scenario({c1, a1}, TextOps, 4, Written, {}),
     Scenario({c1, a1}, ModelOps, 4, Written, {}),
     Scenario({c1, a1}, PipeOps, 3, Pipes, {i2}),
     Scenario({c1}, PipeOps, 4, Pipes, {i2})}
=============================================================================
