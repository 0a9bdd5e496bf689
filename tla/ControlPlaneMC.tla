--------------------------- MODULE ControlPlaneMC ---------------------------
(***************************************************************************)
(* The parts of the server that share no state with one another, in one    *)
(* instance: a behaviour is a behaviour of the part that Init chooses.      *)
(* The variables of TunnelStream keep their initial values in the other    *)
(* parts; those of a part that was not chosen are None.                    *)
(***************************************************************************)
EXTENDS TunnelStream, Sequences, TLC

CONSTANTS
    None, Gone,
    i1, i2, i3, a1, a2, u1, u2, v1, v2, v3, e1, e2, c1, c2, f1, f2, s1, s2, k1, k2, b1, b2,
    ip1, conn1, t1, t2, gpt5, llama, p1, p2, p3, p4, p5, p6, p7, d1, d2, d3

VARIABLES
    part,
    scenario, requests, crashes, admin, user,       \* of several parts
    repo, settings, last, models, sync, made, trouble,
    db, live, actor, mailed,
    up, chat, message, artifacts, row, log, approvals, stream, ran, bare, orphans, edits,
    tables,
    clock, limits, roles, sessions, cookie, client, failed, booted, overlapped,
    file, proc, port, disk, binary, tmp, stranger,
    table, upload,
    foreign, source, batches, writing, cancelled, run, kept, reported, whole, retries, polls,
    changes, faults,
    event, buffer, worker, arrived, warned, stage, failures

sharedVars == <<scenario, requests, crashes, admin, user>>
gitHubVars == <<repo, settings, last, models, sync, made, trouble>>
workspaceVars == <<db, live, actor, mailed>>
chatVars == <<up, chat, message, artifacts, row, log, approvals, stream, ran, bare, orphans,
              edits>>
loginVars == <<clock, limits, roles, sessions, cookie, client, failed, booted, overlapped>>
serverVars == <<file, proc, port, disk, binary, tmp, stranger>>
uploadVars == <<table, upload>>
pollingVars == <<foreign, source, batches, writing, cancelled, run, kept, reported, whole, retries,
                 polls, changes, faults>>
auditVars == <<event, buffer, worker, arrived, warned, stage, failures>>
planeVars == <<vars, part, sharedVars, gitHubVars, workspaceVars, chatVars, tables, loginVars,
               serverVars, uploadVars, pollingVars, auditVars>>

----------------------------------------------------------------------------
(* The parts. *)

TheFiles == {f1, f2}
TheContents == {v1, v2, v3}
Broken == {v3}
Syncs == {s1, s2}
OneUser == {u1}
TwoUsers == {u1, u2}
UserOrAdmin == {a1, u1}
Ids == {i1, i2, i3}
Emails == {e1, e2}
Clients == {c1, c2}
OneAdmin == {a1}
TwoAdmins == {a1, a2}
Viewers == {v1}
Approvals == {b1, b2}
Calls == {k1, k2}
Gated == {k1}
BestFirst == <<gpt5, llama>>
Ips == {ip1}
Conns == {conn1}
Tokens == {t1, t2}
TwoLimits == [ip |-> 3, user |-> 2]
Levels == <<2, 3>>
Pids == {p1, p2, p3, p4, p5, p6, p7}
Inodes == {d1, d2, d3}
Writers == Clients \cup OneAdmin \cup Viewers \cup {"system", "user", "old"}
TheSinks == <<"stdout", "webhook">>

\* The scenarios of each part, and the part itself.
GitHubCases == INSTANCE GitHubSyncMC WITH
    Scenarios <- {}, Absent <- None, Files <- TheFiles, Contents <- TheContents,
    Unparsable <- Broken, Users <- OneUser
GitHub == INSTANCE GitHubSyncMC WITH
    Scenarios <- GitHubCases!TheScenarios, Absent <- None, Files <- TheFiles,
    Contents <- TheContents, Unparsable <- Broken, Users <- OneUser

WorkspaceCases == INSTANCE WorkspaceMC WITH
    Scenarios <- {}, Assistants <- OneAdmin, Authors <- {}
Workspace == INSTANCE WorkspaceMC WITH
    Scenarios <- WorkspaceCases!TheScenarios, Assistants <- OneAdmin, Authors <- Writers

ChatCases == INSTANCE BrainChatMC WITH
    Scenarios <- {}, Streams <- Syncs, Users <- TwoUsers, MaxIterations <- 2, MaxRetries <- 1
Chat == INSTANCE BrainChatMC WITH
    Scenarios <- ChatCases!ChatScenarios, Streams <- Syncs, Users <- TwoUsers,
    MaxIterations <- 2, MaxRetries <- 1

SettingsCases == INSTANCE BrainSettingsMC WITH
    Scenarios <- {}, Admins <- TwoAdmins, Preferred <- BestFirst
Settings == INSTANCE BrainSettingsMC WITH
    Scenarios <- SettingsCases!TheScenarios, Admins <- TwoAdmins, Preferred <- BestFirst

LoginCases == INSTANCE LoginsMC WITH
    Scenarios <- {}, Admins <- OneAdmin, Users <- UserOrAdmin, MaxAttempts <- TwoLimits,
    Window <- 3, Lockouts <- Levels
Login == INSTANCE LoginsMC WITH
    Scenarios <- LoginCases!TheScenarios, Admins <- OneAdmin, Users <- UserOrAdmin,
    MaxAttempts <- TwoLimits, Window <- 3, Lockouts <- Levels

ServerCases == INSTANCE ServerProcessMC WITH Scenarios <- {}
Server == INSTANCE ServerProcessMC WITH Scenarios <- ServerCases!TheScenarios

UploadCases == INSTANCE UploadsMC WITH Scenarios <- {}, BatchSize <- 2
Upload == INSTANCE UploadsMC WITH Scenarios <- UploadCases!TheScenarios, BatchSize <- 2

PollingCases == INSTANCE PollingSourcesMC WITH
    Scenarios <- {}, BatchSize <- 2, ChannelSize <- 1
Polling == INSTANCE PollingSourcesMC WITH
    Scenarios <- PollingCases!TheScenarios, BatchSize <- 2, ChannelSize <- 1

Audit == INSTANCE AuditForwarder WITH
    Events <- Ids, Sinks <- TheSinks, QueueSize <- 1, MaxFailures <- 2, Idle <- None

\* What the proofs about these parts assume.
ASSUME PlaneAssumption ==
    GitHub!GitHubAssumption /\ Audit!AuditAssumption /\ Chat!ChatAssumption
    /\ Settings!SettingsAssumption /\ Login!LoginAssumption /\ Server!ServerAssumption
    /\ Polling!PollAssumption /\ Workspace!WorkspaceAssumption /\ Upload!UploadAssumption

\* No definition names a stream.
Symmetry == Permutations(Streams)

----------------------------------------------------------------------------
(* The specification. *)

NoScenario == scenario = None
NoRequests == requests = None
NoCrashes == crashes = None
NoAdmin == admin = None
NoUser == user = None
NoGitHub ==
    /\ repo = None /\ settings = None /\ last = None /\ models = None
    /\ sync = None /\ made = None /\ trouble = None
NoWorkspace == db = None /\ live = None /\ actor = None /\ mailed = None
NoChat ==
    /\ up = None /\ chat = None /\ message = None /\ artifacts = None /\ row = None /\ log = None
    /\ approvals = None /\ stream = None /\ ran = None /\ bare = None /\ orphans = None
    /\ edits = None
NoTables == tables = None
NoLogin ==
    /\ clock = None /\ limits = None /\ roles = None /\ sessions = None /\ cookie = None
    /\ client = None /\ failed = None /\ booted = None /\ overlapped = None
NoServer ==
    /\ file = None /\ proc = None /\ port = None /\ disk = None /\ binary = None
    /\ tmp = None /\ stranger = None
NoUpload == table = None /\ upload = None
NoPolling ==
    /\ foreign = None /\ source = None /\ batches = None /\ writing = None /\ cancelled = None
    /\ run = None /\ kept = None /\ reported = None /\ whole = None /\ retries = None
    /\ polls = None /\ changes = None /\ faults = None
NoAudit ==
    /\ event = None /\ buffer = None /\ worker = None /\ arrived = None /\ warned = None
    /\ stage = None /\ failures = None

PlaneInit == Init /\
    \/ /\ part = "streams"
       /\ NoScenario /\ NoRequests /\ NoCrashes /\ NoAdmin /\ NoUser
       /\ NoGitHub /\ NoWorkspace /\ NoChat /\ NoTables /\ NoLogin /\ NoServer /\ NoUpload
       /\ NoPolling /\ NoAudit
    \/ /\ part = "github" /\ GitHub!Init /\ NoRequests /\ NoCrashes /\ NoAdmin
       /\ NoWorkspace /\ NoChat /\ NoTables /\ NoLogin /\ NoServer /\ NoUpload
       /\ NoPolling /\ NoAudit
    \/ /\ part = "workspace" /\ Workspace!Init /\ NoCrashes /\ NoAdmin /\ NoUser
       /\ NoGitHub /\ NoChat /\ NoTables /\ NoLogin /\ NoServer /\ NoUpload
       /\ NoPolling /\ NoAudit
    \/ /\ part = "chat" /\ Chat!Init /\ NoRequests /\ NoAdmin
       /\ NoGitHub /\ NoWorkspace /\ NoTables /\ NoLogin /\ NoServer /\ NoUpload
       /\ NoPolling /\ NoAudit
    \/ /\ part = "settings" /\ Settings!Init /\ NoCrashes /\ NoUser
       /\ NoGitHub /\ NoWorkspace /\ NoChat /\ NoLogin /\ NoServer /\ NoUpload
       /\ NoPolling /\ NoAudit
    \/ /\ part = "logins" /\ Login!Init /\ NoCrashes /\ NoUser
       /\ NoGitHub /\ NoWorkspace /\ NoChat /\ NoTables /\ NoServer /\ NoUpload
       /\ NoPolling /\ NoAudit
    \/ /\ part = "server" /\ Server!Init /\ NoAdmin /\ NoUser
       /\ NoGitHub /\ NoWorkspace /\ NoChat /\ NoTables /\ NoLogin /\ NoUpload
       /\ NoPolling /\ NoAudit
    \/ /\ part = "uploads" /\ Upload!Init /\ NoRequests /\ NoCrashes /\ NoAdmin /\ NoUser
       /\ NoGitHub /\ NoWorkspace /\ NoChat /\ NoTables /\ NoLogin /\ NoServer
       /\ NoPolling /\ NoAudit
    \/ /\ part = "polling" /\ Polling!Init /\ NoRequests /\ NoCrashes /\ NoAdmin /\ NoUser
       /\ NoGitHub /\ NoWorkspace /\ NoChat /\ NoTables /\ NoLogin /\ NoServer /\ NoUpload
       /\ NoAudit
    \/ /\ part = "audit" /\ Audit!Init
       /\ NoScenario /\ NoRequests /\ NoCrashes /\ NoAdmin /\ NoUser
       /\ NoGitHub /\ NoWorkspace /\ NoChat /\ NoTables /\ NoLogin /\ NoServer /\ NoUpload
       /\ NoPolling

Streaming ==
    /\ part = "streams" /\ Next
    /\ UNCHANGED <<part, sharedVars, gitHubVars, workspaceVars, chatVars, tables, loginVars,
                   serverVars, uploadVars, pollingVars, auditVars>>
Syncing ==
    /\ part = "github" /\ GitHub!Next
    /\ UNCHANGED <<vars, part, requests, crashes, admin, workspaceVars, chatVars, tables,
                   loginVars, serverVars, uploadVars, pollingVars, auditVars>>
Editing ==
    /\ part = "workspace" /\ Workspace!Next
    /\ UNCHANGED <<vars, part, crashes, admin, user, gitHubVars, chatVars, tables, loginVars,
                   serverVars, uploadVars, pollingVars, auditVars>>
Chatting ==
    /\ part = "chat" /\ Chat!Next
    /\ UNCHANGED <<vars, part, requests, admin, gitHubVars, workspaceVars, tables, loginVars,
                   serverVars, uploadVars, pollingVars, auditVars>>
Setting ==
    /\ part = "settings" /\ Settings!Next
    /\ UNCHANGED <<vars, part, crashes, user, gitHubVars, workspaceVars, chatVars, loginVars,
                   serverVars, uploadVars, pollingVars, auditVars>>
LoggingIn ==
    /\ part = "logins" /\ Login!Next
    /\ UNCHANGED <<vars, part, crashes, user, gitHubVars, workspaceVars, chatVars, tables,
                   serverVars, uploadVars, pollingVars, auditVars>>
Commanding ==
    /\ part = "server" /\ Server!Next
    /\ UNCHANGED <<vars, part, admin, user, gitHubVars, workspaceVars, chatVars, tables,
                   loginVars, uploadVars, pollingVars, auditVars>>
Uploading ==
    /\ part = "uploads" /\ Upload!Next
    /\ UNCHANGED <<vars, part, requests, crashes, admin, user, gitHubVars, workspaceVars,
                   chatVars, tables, loginVars, serverVars, pollingVars, auditVars>>
Reading ==
    /\ part = "polling" /\ Polling!Next
    /\ UNCHANGED <<vars, part, requests, crashes, admin, user, gitHubVars, workspaceVars,
                   chatVars, tables, loginVars, serverVars, uploadVars, auditVars>>
Auditing ==
    /\ part = "audit" /\ Audit!Next
    /\ UNCHANGED <<vars, part, sharedVars, gitHubVars, workspaceVars, chatVars, tables,
                   loginVars, serverVars, uploadVars, pollingVars>>

PlaneNext ==
    \/ Streaming \/ Syncing \/ Editing \/ Chatting
    \/ Setting \/ LoggingIn \/ Commanding \/ Uploading \/ Reading
    \/ Auditing

PlaneSpec == PlaneInit /\ [][PlaneNext]_planeVars

----------------------------------------------------------------------------
(* Properties: SuccessIsComplete and NoSilentStream of TunnelStream, and these. *)

\* What every sync leaves in the models is in the repository, and of the commit it
\* stored, where nothing disturbed it (github/sync.go).
SyncInv == part = "github" => GitHub!SyncInv

\* A sync leaves alone the models users made, and deletes one only if its file is gone
\* (github/sync.go).
ModelsKept == [][part = "github" => GitHub!ModelsKept]_planeVars

\* Dashboards, panels, links, queries, models and pipelines fit together whoever writes
\* them: no panel, link or invitation without what it belongs to, links that work and
\* serve what they say, and pipelines that can be stopped (handlers/dashboards.go,
\* brain/tools).
WorkspaceInv == part = "workspace" => Workspace!WorkspaceInv

\* What is deleted stays deleted under edits and tools still under way, and an edit no
\* other overtook changes the fields it names only (handlers/dashboards.go, brain/tools).
EditsKept == [][part = "workspace" => Workspace!EditsKept]_planeVars

\* A gated tool runs only as its user decided and once; no decision is lost; no approval
\* or channel outlives its stream; and messages settle (handlers/brain.go).  Of the
\* settings, at most one default of each kind, an active one wherever the requests ask
\* for it, and whoever names no model gets it (handlers/admin_brain.go).
AssistantInv == (part = "chat" => Chat!ChatInv) /\ (part = "settings" => Settings!SettingsInv)

\* Decisions are final, a deleted chat stays deleted under its streams, and streams and
\* edits change the fields they name only (handlers/brain.go).
ChatSteps == [][part = "chat" => Chat!ChatSteps]_planeVars

\* Wrong passwords are limited in number, an admin session has its admin role, and one
\* login at most makes an admin (middleware/ratelimit.go, handlers/auth.go).
LoginInv == part = "logins" => Login!LoginInv

\* With one administrator at a time somebody remains admin, and with one client at a time
\* a lock lasts (handlers/admin.go, middleware/ratelimit.go).
LoginSteps == [][part = "logins" => Login!LoginSteps]_planeVars

\* With patient users the binary is the old or the verified new one, the PID file names
\* the process that listens, commands stop servers only, and updates leave a server
\* running what is installed (cmd/server.go, cmd/update.go).  What is audited before the
\* server begins to shut down reaches every sink, once and in order, or is warned of
\* (audit/audit.go).
ServerInv == (part = "server" => Server!ServerInv) /\ (part = "audit" => Audit!AuditInv)

\* Uploaded rows arrive by whole batches, once and in order, with the values of the file,
\* and the types inferred fit them (handlers/query_upload.go).  What a polling source has
\* read to its end is kept or reported, nothing else counts as read, and rows are copied
\* only as often as they are read (database_source.go, s3_source.go).
LoadInv == (part = "uploads" => Upload!UploadInv) /\ (part = "polling" => Polling!PollInv)
=============================================================================
