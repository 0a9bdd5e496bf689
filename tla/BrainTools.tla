------------------------------ MODULE BrainTools ------------------------------
(***************************************************************************)
(* The tools of the assistant that write: they work on the tables of       *)
(* Workspace next to the clients.  A tool that only reads changes nothing  *)
(* and is not modelled.  Whether a tool may run at all is the subject of   *)
(* BrainChat.                                                              *)
(***************************************************************************)
EXTENDS Workspace

\* A tool that looks a row up; an assistant is not refused by the checks of the
\* handlers.
LooksUp(a, table, op, id, named) == Has(table, id) /\ Ask(a, EditOf(op, table, id, named))

create_saved_query(a) ==
    \E q \in New(db.queries) : Once(a, "create_saved_query", CreateSavedQuery(db, q, Whole(a)))

create_model(a) ==
    \E m \in New(db.models) : Once(a, "create_model", CreateModel(db, m, a))

create_dashboard(a) ==
    \E d \in New(db.dashboards) : Once(a, "create_dashboard", CreateDashboard(db, d, a))

create_pipeline(a) ==
    \E p \in New(db.pipelines) : Once(a, "create_pipeline", CreatePipeline(db, p, a))

\* An empty argument keeps the value that was read.
update_saved_query(a) ==
    \/ \E q \in Ids, e \in SUBSET Fields :
          LooksUp(a, db.queries, "update_saved_query", q, e)
    \/ Answer(a, "update_saved_query", UpdateSavedQuery(db, actor[a].id, Merged(a)))

update_model(a) ==
    \/ \E m \in Ids, e \in SUBSET ModelFields : LooksUp(a, db.models, "update_model", m, e)
    \/ Answer(a, "update_model", UpdateModel(db, actor[a].id, MergedModel(a)))

delete_dashboard(a) ==
    \E d \in Ids : Once(a, "delete_dashboard", DeleteDashboard(db, d))

delete_dashboard_panel(a) ==
    \E p \in Ids : Once(a, "delete_dashboard_panel", DeletePanel(db, p))

delete_model(a) == \E m \in Ids : Once(a, "delete_model", DeleteModel(db, m))

delete_saved_query(a) ==
    \E q \in Ids : Once(a, "delete_saved_query", DeleteSavedQuery(db, q))

\* "Stop the pipeline first if it's running": nothing looks whether it is.
delete_pipeline(a) == \E p \in Ids : Once(a, "delete_pipeline", DeletePipeline(db, p))

\* The cron expression is stored as it is, and the schedule is due at once.
schedule_model(a) ==
    \E t \in New(db.timers), m \in Ids :
        Once(a, "schedule_model", UpsertModelSchedule(db, t, m))

\* The lookup only fails on an error, not when there is no row; while the table
\* of the sink is looked for in ClickHouse, the pipeline may go.
configure_pipeline(a) ==
    \/ \E p \in Ids : Ask(a, [op |-> "configure_pipeline", id |-> p])
    \/ Answer(a, "configure_pipeline", SavePipelineGraph(db, actor[a].id, a))

\* No look at the status: the runner itself refuses a second run.
start_pipeline(a) ==
    \/ /\ a \in scenario.actors /\ actor[a] = Idle /\ requests > 0
       /\ "start_pipeline" \in scenario.ops
       /\ requests' = requests - 1
       /\ \E p \in Ids : RunnerStarts(a, p)
    \/ Launch(a)

\* The dashboard is looked up, the SQL of the panel is tried, the row inserted.
add_dashboard_panel(a) ==
    \/ \E d \in Live(db.dashboards) : Ask(a, [op |-> "add_dashboard_panel", id |-> d])
    \/ \E p \in New(db.panels) :
          Answer(a, "add_dashboard_panel", CreatePanel(db, p, actor[a].id, a))

Tool(a) ==
    \/ create_saved_query(a) \/ create_model(a) \/ create_dashboard(a) \/ create_pipeline(a)
    \/ update_saved_query(a) \/ update_model(a)
    \/ delete_dashboard(a) \/ delete_dashboard_panel(a) \/ delete_model(a)
    \/ delete_saved_query(a) \/ delete_pipeline(a)
    \/ schedule_model(a) \/ configure_pipeline(a) \/ start_pipeline(a) \/ add_dashboard_panel(a)

Next ==
    \/ \E c \in Clients : Request(c)
    \/ \E a \in Assistants : Tool(a)
    \/ \E v \in Viewers : View(v)
    \/ Clock

Spec == Init /\ [][Next]_vars
=============================================================================
