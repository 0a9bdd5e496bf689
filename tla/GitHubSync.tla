------------------------------ MODULE GitHubSync ------------------------------
(***************************************************************************)
(* The models of a connection that come from a GitHub repository           *)
(* (internal/github/sync.go).  A sync is started by an administrator or by *)
(* the webhook of a push, in a goroutine of its own: it asks GitHub for    *)
(* the head of the branch, the list of files and every file, then compares *)
(* them with the models that a sync made before.  Nothing keeps two syncs  *)
(* of a connection apart.  A model has the name of its file, and names are *)
(* unique; a row is updated and deleted by its id.  The rows of the sync   *)
(* log and of the audit log are left out.                                  *)
(***************************************************************************)
EXTENDS Naturals, Sequences, FiniteSets

CONSTANTS
    Files,        \* names of files and of models
    Contents,     \* contents of a file
    Unparsable,   \* those ParseModelFile rejects
    Absent,       \* no such file, no such model
    Syncs,        \* goroutines and requests that can sync
    Users,        \* requests that create, edit and delete models
    Scenarios     \* [files, contents, syncs, users, canFail: the calls that may fail;
                  \*  bounds: commits, faults, models ever created, saves of the
                  \*  settings, crashes]

VARIABLES
    scenario,  \* the scenario of this behaviour
    repo,      \* the commits of the branch: what each file contains
    settings,  \* whether a repository is configured, and the files below its path
    last,      \* last_sync_sha; 0 is none
    models,    \* the table models of this connection
    sync,      \* the local variables of each sync
    user,      \* what each request of a user has read
    made,      \* models created so far
    trouble    \* failed calls, saves and restarts so far

vars == <<scenario, repo, settings, last, models, sync, user, made, trouble>>

\* A row of the table models.
RepoRow == [row : Nat, body : Contents, source : {"manual", "github"}, by : Syncs \cup Users]

RepoScenario ==
    [files : SUBSET Files, contents : SUBSET Contents, syncs : SUBSET Syncs,
     users : SUBSET Users, canFail : SUBSET STRING, commits : Nat, faults : Nat,
     models : Nat, saves : Nat, crashes : Nat]

GitHubAssumption ==
    /\ Absent \notin Contents \cup RepoRow /\ Unparsable \subseteq Contents
    /\ Syncs \cap Users = {} /\ IsFiniteSet(Syncs)
    /\ Scenarios \subseteq RepoScenario

Tip == Len(repo)
NoFiles == [f \in Files |-> Absent]
Listed(entries) == {f \in Files : entries[f] # Absent}

Idle == [at |-> "idle", path |-> {}, last |-> 0, sha |-> 0, todo |-> {},
         tree |-> {}, parsed |-> NoFiles, existing |-> NoFiles, row |-> 0]
NoRequest == [at |-> "idle", name |-> Absent, row |-> 0]

Init ==
    /\ scenario \in Scenarios
    /\ repo = <<>>
    /\ settings = [configured |-> FALSE, path |-> {}]
    /\ last = 0
    /\ models = NoFiles
    /\ sync = [s \in Syncs |-> Idle]
    /\ user = [u \in Users |-> NoRequest]
    /\ made = 0
    /\ trouble = [faults |-> 0, saves |-> 0, crashes |-> 0]

Fault(call) ==
    /\ call \in scenario.canFail /\ trouble.faults < scenario.faults
    /\ trouble' = [trouble EXCEPT !.faults = @ + 1]

Step(s, at) == sync[s].at = at
End(s) == sync' = [sync EXCEPT ![s] = Idle]

-----------------------------------------------------------------------------
(* SyncConnection and doSync. *)

Start(s) ==
    /\ Step(s, "idle") /\ settings.configured
    /\ sync' = [sync EXCEPT ![s] = [Idle EXCEPT !.at = "sha", !.path = settings.path,
                                                !.last = last]]
    /\ UNCHANGED <<scenario, repo, settings, last, models, user, made, trouble>>

\* GetBranchSHA.  Nothing is done for a commit that was synced before.
GetBranchSHA(s) ==
    /\ Step(s, "sha")
    /\ \/ Fault("sha") /\ End(s)
       \/ /\ UNCHANGED trouble
          /\ IF Tip \in {0, sync[s].last} THEN End(s)
             ELSE sync' = [sync EXCEPT ![s].at = "tree", ![s].sha = Tip]
    /\ UNCHANGED <<scenario, repo, settings, last, models, user, made>>

FilterSQLFiles(s) == Listed(repo[Tip]) \cap sync[s].path

\* GetTree, of the branch and not of the commit.
GetTree(s) ==
    /\ Step(s, "tree")
    /\ \/ Fault("tree") /\ End(s)
       \/ /\ UNCHANGED trouble
          /\ sync' = [sync EXCEPT ![s].at = "file", ![s].tree = FilterSQLFiles(s),
                                  ![s].todo = FilterSQLFiles(s)]
    /\ UNCHANGED <<scenario, repo, settings, last, models, user, made>>

\* GetFileContent, of the branch too, and ParseModelFile.
GetFile(s, f) ==
    LET content == repo[Tip][f] IN
    /\ Step(s, "file") /\ f \in sync[s].todo
    /\ \/ Fault("file") /\ sync' = [sync EXCEPT ![s].todo = @ \ {f}]
       \/ /\ UNCHANGED trouble
          /\ sync' = [sync EXCEPT ![s].todo = @ \ {f},
                        ![s].parsed[f] = IF content \in Unparsable THEN Absent ELSE content]
    /\ UNCHANGED <<scenario, repo, settings, last, models, user, made>>

\* Faulty: the models of users count as well.
ManagedAll(f) == models[f] # Absent

Managed(f) == models[f] # Absent /\ models[f].source = "github"

GetExisting(s) ==
    /\ Step(s, "file") /\ sync[s].todo = {}
    /\ sync' = [sync EXCEPT ![s].at = "apply", ![s].todo = Listed(sync[s].parsed),
                            ![s].existing = [f \in Files |-> IF Managed(f) THEN models[f]
                                                             ELSE Absent]]
    /\ UNCHANGED <<scenario, repo, settings, last, models, user, made, trouble>>

IsRow(f, row) == models[f] # Absent /\ models[f].row = row

\* CreateModel fails when the name is taken.
Create(s, f) ==
    /\ Step(s, "apply") /\ f \in sync[s].todo /\ sync[s].existing[f] = Absent
    /\ IF models[f] = Absent
       THEN /\ made < scenario.models /\ made' = made + 1
            /\ models' = [models EXCEPT ![f] = [row |-> made', body |-> sync[s].parsed[f],
                                                source |-> "manual", by |-> s]]
            /\ sync' = [sync EXCEPT ![s].at = "source", ![s].row = made',
                                    ![s].todo = @ \ {f}]
       ELSE /\ sync' = [sync EXCEPT ![s].todo = @ \ {f}]
            /\ UNCHANGED <<scenario, models, made>>
    /\ UNCHANGED <<scenario, repo, settings, last, user, trouble>>

SetModelSource(s) ==
    /\ Step(s, "source")
    /\ models' = [f \in Files |-> IF IsRow(f, sync[s].row) THEN [models[f] EXCEPT !.source = "github"]
                                  ELSE models[f]]
    /\ sync' = [sync EXCEPT ![s].at = "apply", ![s].row = 0]
    /\ UNCHANGED <<scenario, repo, settings, last, user, made, trouble>>

\* Faulty: a model that a sync made is never updated.
UpdateNothing(s, f) ==
    /\ Step(s, "apply") /\ f \in sync[s].todo /\ sync[s].existing[f] # Absent
    /\ sync' = [sync EXCEPT ![s].todo = @ \ {f}]
    /\ UNCHANGED <<scenario, repo, settings, last, models, user, made, trouble>>

\* modelChanged compares with the row that was read before.
Update(s, f) ==
    LET old == sync[s].existing[f] IN
    /\ Step(s, "apply") /\ f \in sync[s].todo /\ old # Absent
    /\ models' = IF old.body # sync[s].parsed[f] /\ IsRow(f, old.row)
                 THEN [models EXCEPT ![f].body = sync[s].parsed[f]] ELSE models
    /\ sync' = [sync EXCEPT ![s].todo = @ \ {f}]
    /\ UNCHANGED <<scenario, repo, settings, last, user, made, trouble>>

\* Faulty: only a new file counts as seen.
StaleSeenNew(s) == Listed(sync[s].existing)

\* The models whose file was not parsed.
Stale(s) == {f \in Listed(sync[s].existing) : sync[s].parsed[f] = Absent}

StartDeleting(s) ==
    /\ Step(s, "apply") /\ sync[s].todo = {}
    /\ sync' = [sync EXCEPT ![s].at = "delete", ![s].todo = Stale(s)]
    /\ UNCHANGED <<scenario, repo, settings, last, models, user, made, trouble>>

Delete(s, f) ==
    /\ Step(s, "delete") /\ f \in sync[s].todo
    /\ models' = IF IsRow(f, sync[s].existing[f].row) THEN [models EXCEPT ![f] = Absent]
                 ELSE models
    /\ sync' = [sync EXCEPT ![s].todo = @ \ {f}]
    /\ UNCHANGED <<scenario, repo, settings, last, user, made, trouble>>

\* SetGitHubLastSyncSHA, whatever failed on the way.
Finish(s) ==
    /\ Step(s, "delete") /\ sync[s].todo = {}
    /\ last' = sync[s].sha
    /\ End(s)
    /\ UNCHANGED <<scenario, repo, settings, models, user, made, trouble>>

-----------------------------------------------------------------------------
(* Users and administrators.  UpdateModel and DeleteModel of the handler   *)
(* read the row first, and refuse one that is managed by GitHub.           *)

UserCreates(u, f) ==
    /\ user[u].at = "idle" /\ models[f] = Absent /\ made < scenario.models
    /\ made' = made + 1
    /\ \E c \in scenario.contents : models' = [models EXCEPT ![f] = [row |-> made', body |-> c,
                                                            source |-> "manual", by |-> u]]
    /\ UNCHANGED <<scenario, repo, settings, last, sync, user, trouble>>

UserReads(u, f) ==
    /\ user[u].at = "idle" /\ models[f] # Absent /\ models[f].source = "manual"
    /\ user' = [user EXCEPT ![u] = [at |-> "write", name |-> f, row |-> models[f].row]]
    /\ UNCHANGED <<scenario, repo, settings, last, models, sync, made, trouble>>

UserWrites(u) ==
    LET f == user[u].name IN
    /\ user[u].at = "write"
    /\ IF IsRow(f, user[u].row)
       THEN \/ \E c \in scenario.contents : models' = [models EXCEPT ![f].body = c]
            \/ models' = [models EXCEPT ![f] = Absent]
       ELSE UNCHANGED models
    /\ user' = [user EXCEPT ![u] = NoRequest]
    /\ UNCHANGED <<scenario, repo, settings, last, sync, made, trouble>>

\* The path may change, and last_sync_sha stays.
SaveGitHubIntegration ==
    /\ trouble.saves < scenario.saves /\ trouble' = [trouble EXCEPT !.saves = @ + 1]
    /\ \E path \in SUBSET scenario.files : settings' = [configured |-> TRUE, path |-> path]
    /\ UNCHANGED <<scenario, repo, last, models, sync, user, made>>

DeleteGitHubIntegration ==
    /\ settings.configured
    /\ settings' = [configured |-> FALSE, path |-> {}] /\ last' = 0
    /\ UNCHANGED <<scenario, repo, models, sync, user, made, trouble>>

Push ==
    /\ Tip < scenario.commits
    /\ \E tree \in [Files -> scenario.contents \cup {Absent}] :
          /\ Listed(tree) \subseteq scenario.files
          /\ Tip > 0 => tree # repo[Tip]
          /\ repo' = Append(repo, tree)
    /\ UNCHANGED <<scenario, settings, last, models, sync, user, made, trouble>>

Crash ==
    /\ trouble.crashes < scenario.crashes /\ trouble' = [trouble EXCEPT !.crashes = @ + 1]
    /\ sync' = [s \in Syncs |-> Idle] /\ user' = [u \in Users |-> NoRequest]
    /\ UNCHANGED <<scenario, repo, settings, last, models, made>>

SyncStep(s) ==
    \/ Start(s) \/ GetBranchSHA(s) \/ GetTree(s) \/ GetExisting(s)
    \/ SetModelSource(s) \/ StartDeleting(s) \/ Finish(s)
    \/ \E f \in scenario.files : GetFile(s, f) \/ Create(s, f) \/ Update(s, f) \/ Delete(s, f)

UserStep(u) == UserWrites(u) \/ \E f \in scenario.files : UserCreates(u, f) \/ UserReads(u, f)

Next ==
    \/ \E s \in scenario.syncs : SyncStep(s)
    \/ \E u \in scenario.users : UserStep(u)
    \/ SaveGitHubIntegration \/ DeleteGitHubIntegration \/ Push \/ Crash

Spec == Init /\ [][Next]_vars

-----------------------------------------------------------------------------
(* Properties. *)

\* Every variable stays within its type; two models have different rows, and
\* what a sync was not able to parse never becomes a model of its own.
TypeOK ==
    /\ repo \in Seq([Files -> Contents \cup {Absent}]) /\ Tip <= scenario.commits
    /\ settings \in [configured : BOOLEAN, path : SUBSET Files]
    /\ last \in 0 .. Tip
    /\ \A f \in Listed(models) :
          models[f] \in [row : 1 .. made, body : Contents, source : {"manual", "github"},
                         by : Syncs \cup Users]
    /\ \A f, g \in Listed(models) : models[f].row = models[g].row => f = g
    /\ \A s \in Syncs :
          /\ sync[s].at \in {"idle", "sha", "tree", "file", "apply", "source", "delete"}
          /\ sync[s].path \in SUBSET Files /\ sync[s].todo \in SUBSET Files
          /\ sync[s].tree \in SUBSET Files
          /\ sync[s].sha \in 0 .. Tip /\ sync[s].last \in 0 .. Tip
          /\ \A f \in Files : sync[s].parsed[f] \in (Contents \ Unparsable) \cup {Absent}
    /\ made \in 0 .. scenario.models

\* A model that a user made is changed and deleted by users only, although a sync
\* creates its own models as manual ones first.
UsersModelsKept ==
    \A f \in Files :
        /\ models[f] # Absent /\ models[f].by \in Users /\ models'[f] # models[f]
        => \E u \in Users : user[u].row = models[f].row /\ user'[u] # user[u]

\* "Remove it from your repository and re-sync": a sync deletes a model only if
\* its file is not below the path, or was removed (or broken) at the commit the
\* sync is at or later.  A file that cannot be fetched counts as removed, too,
\* so this holds only where no fetch of a file fails.
DeletedIfRemoved ==
    \A s \in Syncs, f \in Files :
        Delete(s, f) /\ "file" \notin scenario.canFail
            => \/ f \notin sync[s].path
               \/ \E n \in sync[s].sha .. Tip : repo[n][f] \in {Absent} \cup Unparsable

\* A sync leaves alone what is not its own and what is still in the repository.
ModelsKept == UsersModelsKept /\ DeletedIfRemoved

\* What the code relies on for a synced commit to be what is in the models: syncs
\* that do not overlap, no restart, a path that is never changed, no fetch of
\* a file that fails, and nobody else who takes the name of a model.
Undisturbed ==
    /\ Cardinality(scenario.syncs) = 1 /\ scenario.users = {}
    /\ "file" \notin scenario.canFail
    /\ trouble.crashes = 0 /\ trouble.saves <= 1

\* "Pull .sql files from the path on the branch": when the tip of the branch is the
\* last commit that was synced, and nothing runs, the models of GitHub are
\* the files of that commit, however many commits were pushed meanwhile.
CurrentWhenSynced ==
    /\ Undisturbed /\ settings.configured
    /\ Tip > 0 /\ last = Tip /\ \A s \in Syncs : sync[s].at = "idle"
    => \A f \in Files :
          LET file == IF f \in settings.path THEN repo[Tip][f] ELSE Absent IN
          IF file \in {Absent} \cup Unparsable THEN ~Managed(f)
          ELSE Managed(f) /\ models[f].body = file

\* The settings, the repository and the models agree on what was synced.
SyncInv == TypeOK /\ CurrentWhenSynced
=============================================================================
