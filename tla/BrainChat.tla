------------------------------ MODULE BrainChat ------------------------------
(***************************************************************************)
(* One chat with the assistant (internal/server/handlers/brain.go): the    *)
(* streams that answer messages and call tools, the approvals they wait    *)
(* for, those who decide them, and the requests that edit the chat.        *)
(* What a tool does is the subject of BrainTools.                          *)
(***************************************************************************)
EXTENDS Naturals, Sequences, FiniteSets

CONSTANTS
    Streams, Users,      \* requests under way at the same time
    Approvals,           \* bound: ids of approvals
    Calls, Gated,        \* calls (tool and arguments); those whose tool RequiresApproval
    MaxIterations, MaxRetries,
    None, Gone,
    Scenarios            \* bound: [streams, users, ops, bodies, pro, replies, faults, crashes, edits]

VARIABLES
    up,          \* is the process up
    chat,        \* the row of brain_chats: field |-> who wrote it
    message,     \* of each stream: what it has stored of brain_messages
    artifacts,   \* how many rows of brain_artifacts
    row,         \* brain_approvals: the status of each
    log,         \* brain_tool_calls of each approval: the statuses stored
    approvals,   \* BrainHandler.approvals: the channel of each, of capacity 1
    stream,      \* what each stream is at
    user,        \* what each user's request is at
    ran,         \* how often the call of each approval was executed
    bare,        \* was a gated call executed that no approval is stored for
    orphans,     \* approvals that were pending when the process ended
    scenario, edits, crashes

rows == <<chat, message, artifacts, row, log>>
bounds == <<scenario, edits, crashes>>
vars == <<up, rows, approvals, stream, user, ran, bare, orphans, bounds>>

\* The settings of a chat: what an edit can name, and the provider.
Settings == {"title", "archived", "model", "database", "table", "tables"}
Fields == Settings \cup {"provider"}
NewChat == "New Chat"
\* Of a setting the row says who wrote it, None if it is blank; the provider is that of
\* the model.
Chats == {c \in [Fields -> Streams \cup Users \cup {NewChat, None}] : c.provider = c.model}
\* An edit gives the settings it names a value or (FALSE) a blank one.
Bodies == UNION {[named -> BOOLEAN] : named \in SUBSET Settings}
Quiet == [at |-> "quiet"]

\* What stands for a missing value is none, and a scenario says what it has to.
ChatAssumption ==
    /\ None \notin Approvals \cup {"pending", "approved", "declined", "streaming"}
    /\ Gone \notin Chats \cup {"streaming"}
    /\ \A c \in Scenarios : c.faults \in BOOLEAN /\ c.ops \subseteq {"update", "delete", "artifact"}
                               /\ c.bodies \subseteq Bodies

Init ==
    /\ scenario \in Scenarios
    /\ up = TRUE
    /\ chat = [f \in Fields |-> IF f = "title" THEN NewChat ELSE None]
    /\ message = [s \in Streams |-> None] /\ artifacts = 0
    /\ row = [a \in Approvals |-> None] /\ log = [a \in Approvals |-> {}]
    /\ approvals = [a \in {} |-> <<>>]
    /\ stream = [s \in Streams |-> Quiet] /\ user = [u \in Users |-> Quiet]
    /\ ran = [a \in Approvals |-> 0] /\ bare = FALSE /\ orphans = {}
    /\ edits = 0 /\ crashes = 0

\* A statement fails, in a scenario with faults.
Works == IF scenario.faults THEN BOOLEAN ELSE {TRUE}

Streaming(s, at) == up /\ stream[s].at = at
To(s, at) == stream' = [stream EXCEPT ![s].at = at]

\* Rows that refer to the chat go with it.
Kept(m) == IF chat = Gone THEN Gone ELSE m

----------------------------------------------------------------------------
(* StreamMessage. *)

\* GetBrainChatByIDForUser.
Begin(s) ==
    /\ up /\ s \in scenario.streams /\ stream[s] = Quiet /\ chat # Gone
    /\ stream' = [stream EXCEPT ![s] =
          [at |-> "asked", seen |-> chat, iterations |-> 0, calls |-> <<>>, gate |-> None,
           said |-> None, failures |-> [k \in Calls |-> 0]]]
    /\ UNCHANGED <<up, rows, approvals, user, ran, bare, orphans, bounds>>

\* The message of the user, then the one to come.
Persist(s) ==
    /\ Streaming(s, "asked")
    /\ \E works \in Works :
          IF works /\ chat # Gone
          THEN /\ message' = [message EXCEPT ![s] = IF @ = None THEN "asked" ELSE "streaming"]
               /\ To(s, IF message[s] = None THEN "asked" ELSE "stored")
          ELSE message' = message /\ To(s, "done")
    /\ UNCHANGED <<up, chat, artifacts, row, log, approvals, user, ran, bare, orphans, bounds>>

\* UpdateBrainMessage: no row, no change.
UpdateBrainMessage(s, status) ==
    \E works \in Works : message' = [message EXCEPT ![s] = IF works THEN Kept(status) ELSE @]

\* Faulty: the message is not updated.
FailsQuietly(s) ==
    /\ To(s, "done")
    /\ UNCHANGED <<up, rows, approvals, user, ran, bare, orphans, bounds>>
Fails(s) ==
    /\ UpdateBrainMessage(s, "error")
    /\ To(s, "done")
    /\ UNCHANGED <<up, chat, artifacts, row, log, approvals, user, ran, bare, orphans, bounds>>

\* The model, the provider, its key, the history, the credentials: each may be missing.
Resolve(s) ==
    /\ Streaming(s, "stored")
    /\ \/ Fails(s)
       \/ /\ To(s, IF scenario.pro THEN "loop" ELSE "plain")
          /\ UNCHANGED <<up, rows, approvals, user, ran, bare, orphans, bounds>>

\* CallWithTools: the model asks for calls, ends, or fails; it may know no tools.
Reply(s) ==
    /\ Streaming(s, "loop") /\ stream[s].iterations < MaxIterations
    /\ \/ Fails(s)
       \/ /\ \E next \in {"plain", "closing"} : To(s, next)
          /\ UNCHANGED <<up, rows, approvals, user, ran, bare, orphans, bounds>>
       \/ /\ \E calls \in scenario.replies :
                stream' = [stream EXCEPT ![s].at = "call", ![s].calls = calls,
                                         ![s].iterations = @ + 1]
          /\ UNCHANGED <<up, rows, approvals, user, ran, bare, orphans, bounds>>

NoMoreIterations(s) ==
    /\ Streaming(s, "loop") /\ stream[s].iterations = MaxIterations
    /\ To(s, "closing")
    /\ UNCHANGED <<up, rows, approvals, user, ran, bare, orphans, bounds>>

\* The next of the calls, or the next reply.
Skip(s) ==
    stream' = [stream EXCEPT ![s].at = IF Len(stream[s].calls) = 1 THEN "loop" ELSE "call",
                             ![s].calls = Tail(@), ![s].gate = None, ![s].said = None]

Registered(a) == a \in DOMAIN approvals
Unused == {a \in Approvals : row[a] = None /\ log[a] = {} /\ ran[a] = 0 /\ ~Registered(a)}
NewApproval == IF Unused = {} THEN {} ELSE {CHOOSE a \in Unused : TRUE}

\* A gated call gets an approval: first the channel and a row of brain_tool_calls, then
\* the row of the approval.  Without that row the call is executed all the same.
RegisterApproval(s) ==
    /\ Streaming(s, "call") /\ Head(stream[s].calls) \in Gated
    /\ \E a \in NewApproval, works \in Works :
          /\ approvals' = [b \in DOMAIN approvals \cup {a} |-> IF b = a THEN <<>> ELSE approvals[b]]
          /\ log' = [log EXCEPT ![a] = IF works /\ chat # Gone THEN {"pending_approval"} ELSE {}]
          /\ stream' = [stream EXCEPT ![s].at = "asking", ![s].gate = a]
    /\ UNCHANGED <<up, chat, message, artifacts, row, user, ran, bare, orphans, bounds>>

\* Faulty: the channel stays in the map.
deregisterApprovalNever(a) == approvals' = approvals
deregisterApproval(a) == approvals' = [b \in DOMAIN approvals \ {a} |-> approvals[b]]

CreateApproval(s) ==
    LET a == stream[s].gate IN
    /\ Streaming(s, "asking")
    /\ \/ /\ row' = [row EXCEPT ![a] = "pending"]
          /\ To(s, "waiting")
          /\ UNCHANGED approvals
       \/ /\ scenario.faults
          /\ deregisterApproval(a)
          /\ stream' = [stream EXCEPT ![s].at = "run", ![s].gate = None]
          /\ UNCHANGED row
    /\ UNCHANGED <<up, chat, message, artifacts, log, user, ran, bare, orphans, bounds>>

\* The select: a decision, five minutes, or the client is gone.
Hear(s) ==
    LET a == stream[s].gate IN
    /\ Streaming(s, "waiting") /\ approvals[a] # <<>>
    /\ stream' = [stream EXCEPT ![s].at = "decided", ![s].said = Head(approvals[a])]
    /\ approvals' = [approvals EXCEPT ![a] = <<>>]
    /\ UNCHANGED <<up, rows, user, ran, bare, orphans, bounds>>

GiveUp(s) ==
    /\ Streaming(s, "waiting")
    /\ \E said \in {"timeout", "abandoned"} :
          stream' = [stream EXCEPT ![s].at = "decided", ![s].said = said]
    /\ UNCHANGED <<up, rows, approvals, user, ran, bare, orphans, bounds>>

Deregister(s) ==
    /\ Streaming(s, "decided")
    /\ deregisterApproval(stream[s].gate)
    /\ To(s, "marking")
    /\ UNCHANGED <<up, rows, user, ran, bare, orphans, bounds>>

\* Faulty: a later decision overwrites an earlier one.
MarkBrainApprovalDecidedAgain(a, status) ==
    IF row[a] # None THEN [row EXCEPT ![a] = status] ELSE row
\* Only what is pending can be decided.
MarkBrainApprovalDecided(a, status) ==
    IF row[a] = "pending" THEN [row EXCEPT ![a] = status] ELSE row

\* A client that is gone ends the stream at once, with its message as it is.
Mark(s) ==
    LET a == stream[s].gate  said == stream[s].said IN
    /\ Streaming(s, "marking")
    /\ \E works \in Works :
          row' = IF works THEN MarkBrainApprovalDecided(a, said) ELSE row
    /\ \/ said = "approved" /\ To(s, "run") /\ UNCHANGED log
       \/ said = "abandoned" /\ To(s, "abandoned") /\ UNCHANGED log
       \/ /\ said \in {"declined", "timeout"}
          /\ Skip(s)
          /\ \E works \in Works : log' = [log EXCEPT ![a] =
                IF works /\ chat # Gone THEN @ \cup {"declined"} ELSE @]
    /\ UNCHANGED <<up, chat, message, artifacts, approvals, user, ran, bare, orphans, bounds>>

\* registry.Execute, unless the call has failed too often in this turn.
Run(s) ==
    LET k == Head(stream[s].calls)  a == stream[s].gate IN
    /\ \/ Streaming(s, "run") \/ (Streaming(s, "call") /\ k \notin Gated)
    /\ IF stream[s].failures[k] >= MaxRetries
       THEN Skip(s) /\ UNCHANGED <<log, ran, bare>>
       ELSE \E status \in {"success", "error"} :
               /\ stream' = [stream EXCEPT
                     ![s].failures[k] = IF status = "error" THEN @ + 1 ELSE 0,
                     ![s].at = IF Len(stream[s].calls) = 1 THEN "loop" ELSE "call",
                     ![s].calls = Tail(@), ![s].gate = None, ![s].said = None]
               /\ ran' = IF a = None THEN ran ELSE [ran EXCEPT ![a] = @ + 1]
               /\ bare' = (bare \/ (k \in Gated /\ a = None))
               /\ IF a = None THEN log' = log
                  ELSE \E works \in Works : log' = [log EXCEPT ![a] =
                          IF works /\ chat # Gone THEN @ \cup {status} ELSE @]
    /\ UNCHANGED <<up, chat, message, artifacts, row, approvals, user, orphans, bounds>>

\* StreamChat without tools.
StreamChat(s) ==
    /\ Streaming(s, "plain")
    /\ \/ Fails(s)
       \/ /\ To(s, "closing")
          /\ UNCHANGED <<up, rows, approvals, user, ran, bare, orphans, bounds>>

Complete(s) ==
    /\ Streaming(s, "closing")
    /\ UpdateBrainMessage(s, "complete")
    /\ To(s, "saving")
    /\ UNCHANGED <<up, chat, artifacts, row, log, approvals, user, ran, bare, orphans, bounds>>

\* Faulty: every stream gives the chat a title.
TitleOfAll(s) == s
\* A new chat gets a title.
TitleOf(s) == IF stream[s].seen.title = NewChat THEN s ELSE stream[s].seen.title
\* The model that answered: the one asked for or the default, or that of the chat.
Models(s) == {s, stream[s].seen.model} \ {None}
\* The whole row as it was read at the start, with the model that answered.
SaveChat(s) ==
    /\ Streaming(s, "saving")
    /\ \E works \in Works, model \in Models(s) :
          chat' = IF works /\ chat # Gone
                  THEN [stream[s].seen EXCEPT !.title = TitleOf(s), !.model = model,
                                              !.provider = model]
                  ELSE chat
    /\ To(s, "done")
    /\ UNCHANGED <<up, message, artifacts, row, log, approvals, user, ran, bare, orphans, bounds>>

----------------------------------------------------------------------------
(* The other requests.  Two statements each. *)

UserAt(u, at) == up /\ user[u].at = at
UserIdle(u) == u \in scenario.users /\ UserAt(u, "quiet") /\ edits < scenario.edits
Count == edits' = edits + 1 /\ UNCHANGED <<scenario, crashes>>
Over(u) == user' = [user EXCEPT ![u] = Quiet]

\* ApprovePendingAction and DeclinePendingAction: the row, then the channel.
Decide(u) ==
    /\ UserIdle(u) /\ Count
    /\ \E a \in Approvals, says \in {"approved", "declined"} :
          /\ row[a] # None
          /\ row' = MarkBrainApprovalDecided(a, says)
          /\ user' = IF row[a] = "pending"
                     THEN [user EXCEPT ![u] = [at |-> "signal", approval |-> a, says |-> says]]
                     ELSE user
    /\ UNCHANGED <<up, chat, message, artifacts, log, approvals, stream, ran, bare, orphans>>

\* Nobody is told when no stream waits any more.
signalApproval(u) ==
    LET a == user[u].approval IN
    /\ UserAt(u, "signal")
    /\ approvals' = IF Registered(a) /\ approvals[a] = <<>>
                    THEN [approvals EXCEPT ![a] = <<user[u].says>>] ELSE approvals
    /\ Over(u)
    /\ UNCHANGED <<up, rows, stream, ran, bare, orphans, bounds>>

\* UpdateChat, DeleteChat and RunQueryArtifact read the chat of the user first.
Ask(u) ==
    /\ UserIdle(u) /\ Count /\ chat # Gone
    /\ \E at \in scenario.ops, body \in scenario.bodies \cup {<<>>} :
          /\ at # "update" => body = <<>>
          /\ user' = [user EXCEPT ![u] = [at |-> at, body |-> body, seen |-> chat]]
    /\ UNCHANGED <<up, rows, approvals, stream, ran, bare, orphans>>

\* The provider comes with the model; a database without a table clears the table, and a
\* list of tables both.
NamedAs(f) == IF f = "provider" THEN "model" ELSE f
Cleared(body) ==
    IF "tables" \in DOMAIN body /\ body["tables"] THEN {"database", "table"}
    ELSE IF "database" \in DOMAIN body THEN {"table"} \ DOMAIN body ELSE {}
\* The whole row, what is not named as it was read, and so is a title left blank.
Merged(u) ==
    LET body == user[u].body IN
    [f \in Fields |->
        IF f \in Cleared(body) THEN None
        ELSE IF NamedAs(f) \notin DOMAIN body THEN user[u].seen[f]
        ELSE IF body[NamedAs(f)] THEN u
        ELSE IF f = "title" THEN user[u].seen[f] ELSE None]
\* A model that is not active is refused.
UpdateChat(u) ==
    /\ UserAt(u, "update")
    /\ \/ \E works \in Works : chat' = IF works /\ chat # Gone THEN Merged(u) ELSE chat
       \/ "model" \in DOMAIN user[u].body /\ chat' = chat
    /\ Over(u)
    /\ UNCHANGED <<up, message, artifacts, row, log, approvals, stream, ran, bare, orphans, bounds>>

\* Messages, artifacts and tool calls go along; approvals and streams stay.
DeleteChat(u) ==
    /\ UserAt(u, "delete")
    /\ \E works \in Works :
          IF works
          THEN /\ chat' = Gone /\ artifacts' = 0
               /\ message' = [s \in Streams |-> IF message[s] = None THEN None ELSE Gone]
               /\ log' = [a \in Approvals |-> {}]
          ELSE UNCHANGED <<chat, artifacts, message, log>>
    /\ Over(u)
    /\ UNCHANGED <<up, row, approvals, stream, ran, bare, orphans, bounds>>

\* The query ran in between.
RunQueryArtifact(u) ==
    /\ UserAt(u, "artifact")
    /\ \E works \in Works : artifacts' = IF works /\ chat # Gone THEN artifacts + 1 ELSE artifacts
    /\ Over(u)
    /\ UNCHANGED <<up, chat, message, row, log, approvals, stream, ran, bare, orphans, bounds>>

----------------------------------------------------------------------------
(* The process. *)

Live(s) == stream[s].at \notin {"quiet", "done", "abandoned", "lost"}

Crash ==
    /\ up /\ crashes < scenario.crashes
    /\ up' = FALSE /\ crashes' = crashes + 1
    /\ stream' = [s \in Streams |-> IF Live(s) THEN [at |-> "lost"] ELSE stream[s]]
    /\ user' = [u \in Users |-> Quiet]
    /\ approvals' = [a \in {} |-> <<>>]
    /\ orphans' = orphans \cup {a \in Approvals : row[a] = "pending"}
    /\ UNCHANGED <<rows, ran, bare, scenario, edits>>

\* SweepStaleBrainApprovals: those of more than ten minutes ago.
Restart ==
    /\ ~up /\ up' = TRUE
    /\ \E old \in SUBSET {a \in Approvals : row[a] = "pending"} :
          row' = [a \in Approvals |-> IF a \in old THEN "interrupted" ELSE row[a]]
    /\ UNCHANGED <<chat, message, artifacts, log, approvals, stream, user, ran, bare, orphans, bounds>>

----------------------------------------------------------------------------

Stream(s) ==
    \/ Begin(s) \/ Persist(s) \/ Resolve(s) \/ Reply(s) \/ NoMoreIterations(s)
    \/ RegisterApproval(s) \/ CreateApproval(s) \/ Hear(s) \/ GiveUp(s)
    \/ Deregister(s) \/ Mark(s) \/ Run(s) \/ StreamChat(s) \/ Complete(s) \/ SaveChat(s)

User(u) ==
    Decide(u) \/ signalApproval(u) \/ Ask(u) \/ UpdateChat(u) \/ DeleteChat(u) \/ RunQueryArtifact(u)

Next == (\E s \in Streams : Stream(s)) \/ (\E u \in Users : User(u)) \/ Crash \/ Restart

Spec == Init /\ [][Next]_vars

----------------------------------------------------------------------------
(* Properties. *)

Waits(s, a) == Live(s) /\ stream[s].gate = a

\* A call that was approved ran at most once, and one that ran was approved, whoever
\* else decided, whatever timed out; what a reloaded chat shows as declined did not
\* run, and what it shows as a result did.  Only a failing insert lets a gated call
\* run without an approval.
GateHolds ==
    /\ \A a \in Approvals :
          /\ ran[a] <= 1 /\ (ran[a] = 1 => row[a] = "approved")
          /\ "declined" \in log[a] => ran[a] = 0
          /\ log[a] \cap {"success", "error"} # {} => ran[a] = 1
    /\ bare => scenario.faults

\* No stream waits for a decision that has been made: the decision is in its channel,
\* or the request that made it is about to send it.
NoLostDecision ==
    \A s \in Streams : stream[s].at = "waiting" =>
        LET a == stream[s].gate IN
        /\ Registered(a)
        /\ row[a] # "pending" =>
              \/ approvals[a] = <<row[a]>>
              \/ \E u \in Users : user[u].at = "signal" /\ user[u].approval = a
                                  /\ user[u].says = row[a]

\* A channel is kept no longer than its stream waits, and an approval is offered no
\* longer either, unless a statement failed or the process ended meanwhile.
NothingLeaks ==
    /\ \A a \in DOMAIN approvals : \E s \in Streams : Waits(s, a)
    /\ \A a \in Approvals : row[a] = "pending" =>
          a \in orphans \/ scenario.faults \/ \E s \in Streams : Waits(s, a)

\* A message is "streaming" only while its stream lives, unless the client left while
\* an approval was asked for, a statement failed or the process ended.
MessagesSettle ==
    \A s \in Streams : message[s] = "streaming" =>
        Live(s) \/ stream[s].at \in {"abandoned", "lost"} \/ scenario.faults

\* However streams and edits overlap, no chat has a model and the provider of another.
ProviderFits == chat # Gone => chat.provider = chat.model

ChatInv == GateHolds /\ NoLostDecision /\ NothingLeaks /\ MessagesSettle /\ ProviderFits

\* What an edit changes without naming it.
With == [provider |-> {"model"}, table |-> {"database", "tables"}, database |-> {"tables"}]
Touched(body) == DOMAIN body \cup {f \in DOMAIN With : With[f] \cap DOMAIN body # {}}
\* A decision is final, and a deleted chat stays deleted under the streams that still
\* write to it.  An edit changes what it names and what goes with it, a stream the model,
\* the provider and the title of a new chat; of the rest either leaves what it finds or,
\* when another wrote in between, brings back what it read, and nothing else.
ChatSteps ==
    /\ \A a \in Approvals : row[a] \notin {None, "pending"} => row'[a] = row[a]
    /\ chat = Gone => chat' = Gone /\ artifacts' = 0
    /\ \A u \in Users : chat # Gone /\ chat' # Gone /\ user[u].at = "update"
          /\ user'[u] = Quiet =>
             \A f \in Fields \ Touched(user[u].body) : chat'[f] \in {chat[f], user[u].seen[f]}
    /\ \A s \in Streams : chat # Gone /\ chat' # Gone /\ Streaming(s, "saving")
          /\ stream'[s].at = "done" =>
             \A f \in Fields \ {"model", "provider"} :
                \/ chat'[f] \in {chat[f], stream[s].seen[f]}
                \/ f = "title" /\ stream[s].seen[f] = NewChat
=============================================================================
