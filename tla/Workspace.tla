------------------------------ MODULE Workspace ------------------------------
(***************************************************************************)
(* What users make, and everybody who changes it at the same time: the     *)
(* handlers of dashboards.go, saved_queries.go, pipelines.go and models.go *)
(* under requests of several clients, the tools of an assistant            *)
(* (internal/brain/tools), and the viewers of shared dashboards.  A        *)
(* handler reads in one statement and writes in a later one.               *)
(***************************************************************************)
EXTENDS WorkspaceStore

CONSTANTS Clients, Assistants, Viewers,   \* all among Authors
          Scenarios    \* bound: [actors, ops, requests, db, live]

VARIABLES
    db,          \* the tables
    live,        \* Runner.pipelines: none if there is no entry; going; unmarked if the
                 \*   statement that marks the row as running failed; ending if the
                 \*   outcome is written and the entry still to go
    actor,       \* what the handler or tool of an actor has read
    mailed,      \* <<share, invite>> of the links that were sent
    scenario,    \* the operations of this instance
    requests     \* bound: how many requests are still made

vars == <<db, live, actor, mailed, scenario, requests>>

Actors == Clients \cup Assistants \cup Viewers

\* What the proofs assume: who wrote a row before is told by Authors, and the tables and the
\* runs of a scenario fit together.
WorkspaceAssumption ==
    LET Real(rows) == None \notin rows /\ Gone \notin rows IN
    /\ None # Gone /\ None \notin Ids /\ System \notin Actors /\ Clients \cap Assistants = {}
    /\ Actors \cup {System} \subseteq Authors
    /\ Real(Dashboards) /\ Real(Panels) /\ Real(Shares) /\ Real(Invites) /\ Real(Texts)
    /\ Real(Models) /\ Real(Timers) /\ Real(Pipelines)
    /\ \A s \in Scenarios :
          /\ s.db \in Tables /\ Attached(s.db) /\ Unique(s.db)
          /\ \A p \in s.live : p \in Live(s.db.pipelines) /\ s.db.pipelines[p].status = "running"

Idle == [op |-> "idle"]

Init ==
    /\ scenario \in Scenarios
    /\ db = scenario.db
    /\ live = [p \in Ids |-> IF p \in scenario.live THEN "going" ELSE "none"]
    /\ actor = [a \in Actors |-> Idle]
    /\ mailed = {}
    /\ requests = scenario.requests

\* A request whose checks succeed; what it has read is in the record.
Ask(a, request) ==
    /\ a \in scenario.actors /\ actor[a] = Idle /\ requests > 0 /\ request.op \in scenario.ops
    /\ requests' = requests - 1
    /\ actor' = [actor EXCEPT ![a] = request]
    /\ UNCHANGED <<db, live, mailed, scenario>>

\* Its statement, which may fail.
Answer(a, op, result) ==
    /\ actor[a].op = op
    /\ \E r \in {result, Failed(db)} : db' = r.db
    /\ actor' = [actor EXCEPT ![a] = Idle]
    /\ UNCHANGED <<live, mailed, scenario, requests>>

\* A request that is one statement.
Once(a, op, result) ==
    /\ a \in scenario.actors /\ actor[a] = Idle /\ requests > 0 /\ op \in scenario.ops
    /\ requests' = requests - 1
    /\ \E r \in {result, Failed(db)} : db' = r.db
    /\ UNCHANGED <<live, actor, mailed, scenario>>

Fresh(table) == {id \in Ids : table[id] = None}
New(table) == IF Fresh(table) = {} THEN {} ELSE {CHOOSE id \in Fresh(table) : TRUE}

\* The fields a partial update names come from the request, the others from the
\* row that was read.
Edits == SUBSET Fields \ {{}}
\* Faulty: the fields that are not named are replaced as well.
MergedWhole(a) == [f \in Fields |-> a]
Merged(a) == [f \in Fields |-> IF f \in actor[a].named THEN a ELSE actor[a].seen[f]]
MergedModel(a) == [f \in ModelFields |-> IF f \in actor[a].named THEN a ELSE actor[a].seen[f]]
Whole(a) == [f \in Fields |-> a]

EditOf(op, table, id, named) == [op |-> op, id |-> id, named |-> named, seen |-> table[id]]

----------------------------------------------------------------------------
(* dashboards.go.                                                          *)

ListDashboards(c) ==
    \E d \in New(db.dashboards) \cup {None}, p \in New(db.panels) \cup {None} :
        /\ d = None => \E x \in Live(db.dashboards) : db.dashboards[x].by = System
        /\ p # None /\ Once(c, "ListDashboards", EnsureSystemOverviewDashboard(db, d, p))

CreateDashboardRequest(c) ==
    \E d \in New(db.dashboards) : Once(c, "CreateDashboard", CreateDashboard(db, d, c))

UpdateDashboardRequest(c) ==
    \/ \E d \in Live(db.dashboards), e \in Edits :
          Ask(c, EditOf("UpdateDashboard", db.dashboards, d, e))
    \/ Answer(c, "UpdateDashboard", UpdateDashboard(db, actor[c].id, Merged(c)))

DeleteDashboardRequest(c) ==
    \/ \E d \in Live(db.dashboards) : Ask(c, [op |-> "DeleteDashboard", id |-> d])
    \/ Answer(c, "DeleteDashboard", DeleteDashboard(db, actor[c].id))

CreatePanelRequest(c) ==
    \/ \E d \in Live(db.dashboards) : Ask(c, [op |-> "CreatePanel", id |-> d])
    \/ \E p \in New(db.panels) :
          Answer(c, "CreatePanel", CreatePanel(db, p, actor[c].id, c))

\* The panel that is named must be a panel of the dashboard that is named.
\* Faulty: any panel will do, of whichever dashboard.
NamesAny(d, p) == Has(db.panels, p)
Names(d, p) == Has(db.panels, p) /\ db.panels[p].of = d

UpdatePanelRequest(c) ==
    \/ \E d, p \in Ids, e \in Edits :
          Names(d, p) /\ Ask(c, [op |-> "UpdatePanel", id |-> p, named |-> e,
                                 seen |-> db.panels[p], of |-> d])
    \/ Answer(c, "UpdatePanel", UpdatePanel(db, actor[c].id, Merged(c)))

DeletePanelRequest(c) ==
    \/ \E d, p \in Ids : Names(d, p) /\ Ask(c, [op |-> "DeletePanel", id |-> p, of |-> d])
    \/ Answer(c, "DeletePanel", DeletePanel(db, actor[c].id))

----------------------------------------------------------------------------
(* Sharing.                                                                *)

\* A private share needs an address.
CreateShare(c) ==
    \/ \E d \in Live(db.dashboards), v \in {"public", "private"}, m \in SUBSET Emails,
          x \in {"never", "later"} :
          /\ v = "private" => m # {}
          /\ Ask(c, [op |-> "CreateShare", id |-> d, visibility |-> v, emails |-> m,
                     expires |-> x])
    \/ \E x \in New(db.shares) :
          Answer(c, "CreateShare",
                 CreateDashboardShare(db, x, actor[c].id, actor[c].visibility,
                                      actor[c].emails, actor[c].expires))

DeleteShare(c) ==
    \E x \in Live(db.shares) : Once(c, "DeleteShare", DeleteDashboardShare(db, x))

\* For each address an invite, then its mail; either may fail, and the next follows.
InviteToShare(c) ==
    \/ \E x \in Live(db.shares) :
          /\ db.shares[x].visibility = "private" /\ db.shares[x].emails # {}
          /\ Ask(c, [op |-> "InviteToShare", id |-> x, todo |-> db.shares[x].emails,
                     invite |-> None])
    \/ /\ actor[c].op = "InviteToShare" /\ actor[c].invite = None
       /\ \E e \in actor[c].todo, i \in New(db.invites) :
             LET made == CreateShareInvite(db, i, actor[c].id, e) IN
             \E r \in {made, Failed(db)} :
                /\ db' = r.db
                /\ actor' = [actor EXCEPT ![c].invite = IF r.ok THEN i ELSE None,
                                          ![c].todo = @ \ {e}]
       /\ UNCHANGED <<live, mailed, scenario, requests>>
    \/ /\ actor[c].op = "InviteToShare" /\ actor[c].invite # None
       /\ \E sent \in BOOLEAN :
             mailed' = IF sent THEN mailed \cup {<<actor[c].id, actor[c].invite>>} ELSE mailed
       /\ actor' = [actor EXCEPT ![c].invite = None]
       /\ UNCHANGED <<db, live, scenario, requests>>
    \/ /\ actor[c].op = "InviteToShare" /\ actor[c].invite = None
       /\ actor[c].todo = {} \/ New(db.invites) = {}
       /\ actor' = [actor EXCEPT ![c] = Idle]
       /\ UNCHANGED <<db, live, mailed, scenario, requests>>

\* The clock: what was to expire has.
Expire ==
    /\ "Expire" \in scenario.ops
    /\ \E x \in Live(db.shares) :
          /\ db.shares[x].expires = "later"
          /\ db' = [db EXCEPT !.shares[x].expires = "past"]
    /\ UNCHANGED <<live, actor, mailed, scenario, requests>>

InviteExpires ==
    /\ "Expire" \in scenario.ops
    /\ \E i \in Live(db.invites) :
          /\ ~db.invites[i].expired
          /\ db' = [db EXCEPT !.invites[i].expired = TRUE]
    /\ UNCHANGED <<live, actor, mailed, scenario, requests>>

\* The key of a private link is an invite to this very share.
\* Faulty: the key of any share opens it.
ValidateShareAccessAnyKey(x, share, key) ==
    share.visibility = "public" \/ (key # None /\ Has(db.invites, key))
ValidateShareAccess(x, share, key) ==
    \/ share.visibility = "public"
    \/ /\ key # None /\ Has(db.invites, key)
       /\ db.invites[key].of = x
       /\ ~db.invites[key].expired

\* The link, the key, the dashboard: three reads.  A query through a link runs with the
\* credentials of the share after the first two.
GetPublicDashboard(v) ==
    \/ \E x \in Live(db.shares), key \in Ids \cup {None} :
          /\ db.shares[x].expires # "past"
          /\ Ask(v, [op |-> "Viewer", at |-> "link", id |-> x, seen |-> db.shares[x],
                     key |-> key])
    \/ /\ actor[v].op = "Viewer" /\ actor[v].at = "link"
       /\ actor' = [actor EXCEPT ![v] =
             IF ValidateShareAccess(actor[v].id, actor[v].seen, actor[v].key)
             THEN [@ EXCEPT !.at = "granted"] ELSE Idle]
       /\ UNCHANGED <<db, live, mailed, scenario, requests>>
    \/ /\ actor[v].op = "Viewer" /\ actor[v].at = "granted"
       /\ actor' = [actor EXCEPT ![v] =
             IF Has(db.dashboards, actor[v].seen.of) THEN [@ EXCEPT !.at = "served"] ELSE Idle]
       /\ UNCHANGED <<db, live, mailed, scenario, requests>>

ExecutePublicQuery(v) ==
    /\ actor[v].op = "Viewer" /\ actor[v].at = "granted"
    /\ actor' = [actor EXCEPT ![v].at = "queried"]
    /\ UNCHANGED <<db, live, mailed, scenario, requests>>

Leave(v) ==
    /\ actor[v].op = "Viewer" /\ actor[v].at \in {"served", "queried"}
    /\ actor' = [actor EXCEPT ![v] = Idle]
    /\ UNCHANGED <<db, live, mailed, scenario, requests>>

----------------------------------------------------------------------------
(* saved_queries.go and models.go.                                         *)

CreateQueryRequest(c) ==
    \E q \in New(db.queries) : Once(c, "CreateQuery", CreateSavedQuery(db, q, Whole(c)))

UpdateQueryRequest(c) ==
    \/ \E q \in Live(db.queries), e \in Edits :
          Ask(c, EditOf("UpdateQuery", db.queries, q, e))
    \/ Answer(c, "UpdateQuery", UpdateSavedQuery(db, actor[c].id, Merged(c)))

DeleteQueryRequest(c) ==
    \/ \E q \in Live(db.queries) : Ask(c, [op |-> "DeleteQuery", id |-> q])
    \/ Answer(c, "DeleteQuery", DeleteSavedQuery(db, actor[c].id))

\* The copy has the text that was read, under a name of its own.
Duplicate(c) ==
    \/ \E q \in Live(db.queries) : Ask(c, EditOf("Duplicate", db.queries, q, {"name"}))
    \/ \E q \in New(db.queries) : Answer(c, "Duplicate", CreateSavedQuery(db, q, Merged(c)))

CreateModelRequest(c) ==
    \E m \in New(db.models) : Once(c, "CreateModel", CreateModel(db, m, c))

\* The description of the body is written, whether there is one or not.
UpdateModelRequest(c) ==
    \/ \E m \in Live(db.models), e \in SUBSET ModelFields :
          Ask(c, EditOf("UpdateModel", db.models, m, e))
    \/ Answer(c, "UpdateModel",
              UpdateModel(db, actor[c].id, [MergedModel(c) EXCEPT !.description = c]))

DeleteModelRequest(c) ==
    \/ \E m \in Live(db.models) : Ask(c, [op |-> "DeleteModel", id |-> m])
    \/ Answer(c, "DeleteModel", DeleteModel(db, actor[c].id))

----------------------------------------------------------------------------
(* pipelines.go.  How the runner starts, stops and resumes a pipeline is    *)
(* the subject of PipelineRunner; here are its row and its entry.          *)

CreatePipelineRequest(c) ==
    \E p \in New(db.pipelines) : Once(c, "CreatePipeline", CreatePipeline(db, p, c))

\* No row is read, and both fields are replaced.
UpdatePipelineRequest(c) ==
    \E p \in Live(db.pipelines) :
        Once(c, "UpdatePipeline", UpdatePipeline(db, p, Whole(c)))

\* Faulty: does not look whether the pipeline is running.
StoppedAlways(p) == TRUE
Stopped(p) == db.pipelines[p].status # "running"

DeletePipelineRequest(c) ==
    \/ \E p \in Live(db.pipelines) :
          Stopped(p) /\ Ask(c, [op |-> "DeletePipeline", id |-> p])
    \/ Answer(c, "DeletePipeline", DeletePipeline(db, actor[c].id))

SaveGraph(c) ==
    \E p \in Live(db.pipelines) : Once(c, "SaveGraph", SavePipelineGraph(db, p, c))

\* Runner.StartPipeline reads the row and its graph again.  Nobody looks whether the
\* statement that marks the row succeeds.
RunnerStarts(a, p) ==
    /\ Has(db.pipelines, p) /\ db.pipelines[p].graph # None /\ live[p] = "none"
    /\ \E marked \in BOOLEAN :
          /\ db' = IF marked THEN UpdatePipelineStatus(db, p, "running").db ELSE db
          /\ actor' = [actor EXCEPT ![a] = [op |-> "Launch", id |-> p, marked |-> marked]]
    /\ UNCHANGED <<live, mailed, scenario>>

Finish(a, op) ==
    /\ actor[a].op = op
    /\ actor' = [actor EXCEPT ![a] = Idle]
    /\ UNCHANGED <<db, mailed, scenario, requests>>

\* The entry of the map comes later.
Launch(a) ==
    /\ Finish(a, "Launch")
    /\ live' = [live EXCEPT ![actor[a].id] = IF actor[a].marked THEN "going" ELSE "unmarked"]

StartPipeline(c) ==
    \/ \E p \in Live(db.pipelines) : Stopped(p) /\ Ask(c, [op |-> "StartPipeline", id |-> p])
    \/ actor[c].op = "StartPipeline" /\ RunnerStarts(c, actor[c].id) /\ UNCHANGED requests
    \/ Finish(c, "StartPipeline") /\ UNCHANGED live
    \/ Launch(c)

\* A run with an entry is cancelled and waited for, at most 15 seconds.
StopPipeline(c) ==
    \/ \E p \in Live(db.pipelines) : ~Stopped(p) /\ Ask(c, [op |-> "StopPipeline", id |-> p])
    \/ Finish(c, "StopPipeline") /\ live[actor[c].id] # "none" /\ UNCHANGED live
    \/ /\ Answer(c, "StopPipeline", UpdatePipelineStatus(db, actor[c].id, "stopped"))
       /\ live[actor[c].id] = "none"

\* By itself or as it was cancelled; then its entry is deleted.
RunEnds ==
    /\ "RunEnds" \in scenario.ops
    /\ \E p \in Ids :
          \/ /\ live[p] \in {"going", "unmarked"}
             /\ live' = [live EXCEPT ![p] = "ending"]
             /\ \/ \E s \in {"success", "error", "stopped"} :
                      db' = UpdatePipelineStatus(db, p, s).db
                \/ UNCHANGED db
          \/ live[p] = "ending" /\ live' = [live EXCEPT ![p] = "none"] /\ UNCHANGED db
    /\ UNCHANGED <<actor, mailed, scenario, requests>>

----------------------------------------------------------------------------

Request(c) ==
    \/ ListDashboards(c) \/ CreateDashboardRequest(c) \/ UpdateDashboardRequest(c)
    \/ DeleteDashboardRequest(c) \/ CreatePanelRequest(c) \/ UpdatePanelRequest(c)
    \/ DeletePanelRequest(c) \/ CreateShare(c) \/ DeleteShare(c) \/ InviteToShare(c)
    \/ CreateQueryRequest(c) \/ UpdateQueryRequest(c) \/ DeleteQueryRequest(c)
    \/ Duplicate(c) \/ CreateModelRequest(c) \/ UpdateModelRequest(c)
    \/ DeleteModelRequest(c) \/ CreatePipelineRequest(c) \/ UpdatePipelineRequest(c)
    \/ DeletePipelineRequest(c) \/ SaveGraph(c) \/ StartPipeline(c) \/ StopPipeline(c)

View(v) == GetPublicDashboard(v) \/ ExecutePublicQuery(v) \/ Leave(v)

Clock == Expire \/ InviteExpires \/ RunEnds

----------------------------------------------------------------------------
(* Properties. *)

\* Whoever is served through a private link came with the key of an invite to an
\* address of that link, and as long as the link exists, so does the key, and
\* what is served is the dashboard it was made for.
ServedAsShared ==
    \A v \in Viewers :
        actor[v].op = "Viewer" /\ actor[v].at \in {"granted", "served", "queried"} =>
            LET share == actor[v].seen IN
            /\ share.expires # "past"
            /\ Has(db.shares, actor[v].id) =>
                 /\ Has(db.dashboards, share.of)
                 /\ share.visibility = "private" =>
                      /\ Has(db.invites, actor[v].key)
                      /\ db.invites[actor[v].key].of = actor[v].id
                      /\ db.invites[actor[v].key].email \in db.shares[actor[v].id].emails

\* A link that was mailed has its invite as long as the share exists.
MailedLinksWork ==
    \A l \in mailed : Has(db.shares, l[1]) =>
        Has(db.invites, l[2]) /\ db.invites[l[2]].of = l[1]

\* One client who waits for each answer never deletes a pipeline that runs, if the
\* statement that says so did not fail.  (Two can, and so can the tool of the assistant,
\* which does not look at the status: nobody can stop the run then, since StopPipeline
\* needs the row.)
RunsCanBeStopped ==
    (\E c \in Clients : scenario.actors = {c}) =>
        \A p \in Ids : live[p] = "going" => Has(db.pipelines, p)

\* The tables fit together, whoever writes them.
WorkspaceInv == Attached(db) /\ Unique(db) /\ ServedAsShared /\ MailedLinksWork /\ RunsCanBeStopped

\* What is deleted stays deleted, although edits that read it before are still under
\* way; a panel never changes its dashboard, and requests that name a dashboard
\* leave the panels of others alone; and an edit that no other overtook changes
\* only the fields it names, but for the description of a model, which every PUT
\* replaces (models.go:215).
EditsKept ==
    /\ \A k \in {"dashboards", "panels", "shares", "invites", "queries", "models",
                 "pipelines", "timers"}, id \in Ids :
          db[k][id] = Gone => db'[k][id] = Gone
    /\ \A p \in Live(db.panels) :
          Has(db'.panels, p) => db'.panels[p].of = db.panels[p].of
    /\ \A c \in Clients, p \in Live(db.panels) :
          /\ actor[c].op \in {"UpdatePanel", "DeletePanel"} /\ actor'[c] = Idle
          /\ db'.panels[p] # db.panels[p]
          => db.panels[p].of = actor[c].of
    /\ \A a \in Clients \cup Assistants, k \in {"dashboards", "panels", "queries", "models"},
          id \in Ids, f \in ModelFields :
          /\ "named" \in DOMAIN actor[a] /\ actor'[a] = Idle
          /\ Has(db[k], id) /\ Has(db'[k], id)
          /\ actor[a].seen = db[k][id] /\ f \notin actor[a].named
          /\ f = "description" => k = "models" /\ actor[a].op # "UpdateModel"
          => db'[k][id][f] = db[k][id][f]
=============================================================================
