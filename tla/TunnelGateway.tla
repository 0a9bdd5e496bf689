--------------------------- MODULE TunnelGateway ---------------------------
(***************************************************************************)
(* The server's registry of tunnel agents (internal/tunnel/gateway.go) and *)
(* the request/response calls made through it (internal/tunnel/api.go),    *)
(* for one ClickHouse connection, that is one tunnel token.                *)
(*                                                                         *)
(* A session is one agent websocket together with the goroutine running    *)
(* readLoop on it; the ConnectedTunnel that handleAuth creates for the     *)
(* websocket is identified with the session.  Goroutines interleave        *)
(* between accesses to the sync.Map, to Pending and to the database: the   *)
(* check of handleAuth, its Store, its status write, and the three parts   *)
(* of handleDisconnect are separate steps.                                 *)
(*                                                                         *)
(* Session and request identities are reused once nothing refers to them,  *)
(* so that behaviours are unbounded although the sets are finite.          *)
(***************************************************************************)
EXTENDS Naturals, FiniteSets

CONSTANTS Sessions,   \* websockets that agents open with this token
          Agents,     \* agent processes holding the token
          AgentOf,    \* the agent process that opens a session
          Takeover,   \* agents started with --takeover
          Requests,   \* calls of ExecuteQuery..., TestConnection
          Heart,      \* the heartbeatLoop goroutine
          None

ASSUME TunnelAssumption ==
    /\ AgentOf \in [Sessions -> Agents]
    /\ Takeover \subseteq Agents
    /\ Heart \notin Sessions
    /\ None \notin Sessions

Procs == Sessions \cup {Heart}

VARIABLES
    ws,        \* the server's end of each websocket
    loop,      \* where the readLoop goroutine of each session is
    tunnels,   \* Gateway.tunnels[connID]: the registered session
    lastSeen,  \* LastSeen of the registered tunnel, as the two thresholds see it
    status,    \* connections.status in the database
    discPc,    \* progress of the handleDisconnect each goroutine runs
    discOf,    \* ... and the tunnel it is about
    pending,   \* ConnectedTunnel.Pending: request ids
    call,      \* where each calling goroutine is
    callOn,    \* the tunnel a call loaded
    replies,   \* what ResultCh and ErrorCh (capacity 1 each) hold
    outcome,   \* what the call returned
    agent      \* what the agent did with the request

sessionVars == <<ws, loop, tunnels, lastSeen>>
discVars == <<discPc, discOf>>
callVars == <<call, callOn, outcome>>
vars == <<ws, loop, tunnels, lastSeen, status, discPc, discOf,
          pending, call, callOn, replies, outcome, agent>>

TypeOK ==
    /\ ws \in [Sessions -> {"open", "broken", "closed"}]
    /\ loop \in [Sessions -> {"auth", "evict", "store", "announce",
                              "read", "pong", "drop", "done"}]
    /\ tunnels \in Sessions \cup {None}
    /\ lastSeen \in {"fresh", "quiet", "stale"}
    /\ status \in {"connected", "disconnected"}
    /\ discPc \in [Procs -> {"idle", "delete", "reject", "status"}]
    /\ discOf \in [Procs -> Sessions \cup {None}]
    /\ pending \in [Sessions -> SUBSET Requests]
    /\ call \in [Requests -> {"idle", "loaded", "stored", "waiting", "done"}]
    /\ callOn \in [Requests -> Sessions \cup {None}]
    /\ replies \in [Requests -> SUBSET {"result", "error", "dropped"}]
    /\ outcome \in [Requests -> {"none", "result", "error", "timeout"}]
    /\ agent \in [Requests -> {"unsent", "running", "answered"}]

Init ==
    /\ ws = [s \in Sessions |-> "closed"]
    /\ loop = [s \in Sessions |-> "done"]
    /\ tunnels = None
    /\ lastSeen = "fresh"
    /\ status = "disconnected"
    /\ discPc = [p \in Procs |-> "idle"]
    /\ discOf = [p \in Procs |-> None]
    /\ pending = [s \in Sessions |-> {}]
    /\ call = [r \in Requests |-> "idle"]
    /\ callOn = [r \in Requests |-> None]
    /\ replies = [r \in Requests |-> {}]
    /\ outcome = [r \in Requests |-> "none"]
    /\ agent = [r \in Requests |-> "unsent"]

----------------------------------------------------------------------------
(* Websockets and time.                                                    *)

\* No goroutine and no map still refers to the session.
Unreferenced(s) ==
    /\ loop[s] = "done"
    /\ tunnels # s
    /\ \A p \in Procs : discOf[p] # s
    /\ \A r \in Requests : callOn[r] # s

\* HandleWebSocket: an agent connects, readLoop starts and waits for "auth".
Connect(s) ==
    /\ Unreferenced(s)
    /\ ws' = [ws EXCEPT ![s] = "open"]
    /\ loop' = [loop EXCEPT ![s] = "auth"]
    /\ pending' = [pending EXCEPT ![s] = {}]
    /\ UNCHANGED <<tunnels, lastSeen, status, discVars, callVars, replies, agent>>

\* The network or the agent goes away; the server has not noticed yet.
Break(s) ==
    /\ ws[s] = "open"
    /\ ws' = [ws EXCEPT ![s] = "broken"]
    /\ UNCHANGED <<loop, tunnels, lastSeen, status, discVars, pending,
                   callVars, replies, agent>>

\* 45 s without a message make a tunnel quiet, 3 minutes make it stale.
Age ==
    /\ tunnels # None
    /\ lastSeen # "stale"
    /\ lastSeen' = IF lastSeen = "fresh" THEN "quiet" ELSE "stale"
    /\ UNCHANGED <<ws, loop, tunnels, status, discVars, pending, callVars,
                   replies, agent>>

\* touchTunnel: whatever session the message came on, it is the tunnel
\* registered now that has been seen.  (Without one, lastSeen stays "fresh".)
Touch == lastSeen' = "fresh"

----------------------------------------------------------------------------
(* handleAuth.                                                             *)

\* The token lookup fails, or the token is unknown: auth_error and close.
AuthFail(s) ==
    /\ loop[s] = "auth"
    /\ ws' = [ws EXCEPT ![s] = "closed"]
    /\ loop' = [loop EXCEPT ![s] = "done"]
    /\ UNCHANGED <<tunnels, lastSeen, status, discVars, pending, callVars,
                   replies, agent>>

MayReplace(s) == lastSeen # "fresh" \/ AgentOf[s] \in Takeover

\* A healthy tunnel exists and the agent did not ask for takeover.
AuthReject(s) ==
    /\ loop[s] = "auth"
    /\ tunnels # None
    /\ ~MayReplace(s)
    /\ ws' = [ws EXCEPT ![s] = "closed"]
    /\ loop' = [loop EXCEPT ![s] = "done"]
    /\ UNCHANGED <<tunnels, lastSeen, status, discVars, pending, callVars,
                   replies, agent>>

\* Close the old websocket and run handleDisconnect for it, in this goroutine.
AuthEvict(s) ==
    /\ loop[s] = "auth"
    /\ tunnels # None
    /\ MayReplace(s)
    /\ ws' = [ws EXCEPT ![tunnels] = "closed"]
    /\ loop' = [loop EXCEPT ![s] = "evict"]
    /\ discPc' = [discPc EXCEPT ![s] = "delete"]
    /\ discOf' = [discOf EXCEPT ![s] = tunnels]
    /\ UNCHANGED <<tunnels, lastSeen, status, pending, callVars, replies, agent>>

AuthFree(s) ==
    /\ loop[s] = "auth"
    /\ tunnels = None
    /\ loop' = [loop EXCEPT ![s] = "store"]
    /\ UNCHANGED <<ws, tunnels, lastSeen, status, discVars, pending, callVars,
                   replies, agent>>

\* g.tunnels.Store: unconditional, whatever was registered since the check.
AuthStore(s) ==
    /\ loop[s] = "store"
    /\ tunnels' = s
    /\ lastSeen' = "fresh"
    /\ loop' = [loop EXCEPT ![s] = "announce"]
    /\ UNCHANGED <<ws, status, discVars, pending, callVars, replies, agent>>

\* The status write, auth_ok to the agent, and connID is set.
AuthAnnounce(s) ==
    /\ loop[s] = "announce"
    /\ status' = "connected"
    /\ loop' = [loop EXCEPT ![s] = "read"]
    /\ UNCHANGED <<ws, tunnels, lastSeen, discVars, pending, callVars,
                   replies, agent>>

----------------------------------------------------------------------------
(* The authenticated read loop.                                            *)

\* A ping frame of the agent's heartbeat, or its host_info.
ReadPing(s) ==
    /\ loop[s] = "read"
    /\ tunnels # None
    /\ Touch
    /\ UNCHANGED <<ws, loop, tunnels, status, discVars, pending, callVars,
                   replies, agent>>

\* A "pong" message: touch now, write the status in the next step.
ReadPong(s) ==
    /\ loop[s] = "read"
    /\ Touch
    /\ loop' = [loop EXCEPT ![s] = "pong"]
    /\ UNCHANGED <<ws, tunnels, status, discVars, pending, callVars, replies, agent>>

\* Faulty: the pong handler only touches the tunnel.
PongStatusForgotten(s) ==
    /\ loop[s] = "pong"
    /\ loop' = [loop EXCEPT ![s] = "read"]
    /\ UNCHANGED <<ws, tunnels, lastSeen, status, discVars, pending, callVars,
                   replies, agent>>

PongStatus(s) ==
    /\ loop[s] = "pong"
    /\ status' = "connected"
    /\ loop' = [loop EXCEPT ![s] = "read"]
    /\ UNCHANGED <<ws, tunnels, lastSeen, discVars, pending, callVars,
                   replies, agent>>

\* query_result, query_error or test_result for request r.  The agent answers
\* on its current websocket, which may be a later one than the query came on.
ReadAnswer(s, r, kind) ==
    /\ loop[s] = "read"
    /\ agent[r] = "running"
    /\ AgentOf[callOn[r]] = AgentOf[s]
    /\ agent' = [agent EXCEPT ![r] = "answered"]
    /\ Touch
    /\ IF tunnels # None /\ r \in pending[tunnels]
       THEN /\ pending' = [pending EXCEPT ![tunnels] = @ \ {r}]
            /\ replies' = [replies EXCEPT ![r] = @ \cup {kind}]
       ELSE UNCHANGED <<pending, replies>>
    /\ UNCHANGED <<ws, loop, tunnels, status, discVars, callVars>>

\* Faulty: no handleDisconnect when the server closed the websocket itself.
ReadFailClosedByServer(s) ==
    /\ ws[s] # "open"
    /\ \/ /\ loop[s] = "auth" \/ (loop[s] = "read" /\ ws[s] = "closed")
          /\ ws' = [ws EXCEPT ![s] = "closed"]
          /\ loop' = [loop EXCEPT ![s] = "done"]
          /\ UNCHANGED discVars
       \/ /\ loop[s] = "read"
          /\ ws[s] = "broken"
          /\ loop' = [loop EXCEPT ![s] = "drop"]
          /\ discPc' = [discPc EXCEPT ![s] = "delete"]
          /\ discOf' = [discOf EXCEPT ![s] = s]
          /\ UNCHANGED ws
    /\ UNCHANGED <<tunnels, lastSeen, status, pending, callVars, replies, agent>>

\* ReadMessage fails.  With connID set the deferred handleDisconnect runs.
ReadFail(s) ==
    /\ ws[s] # "open"
    /\ \/ /\ loop[s] = "auth"
          /\ ws' = [ws EXCEPT ![s] = "closed"]
          /\ loop' = [loop EXCEPT ![s] = "done"]
          /\ UNCHANGED discVars
       \/ /\ loop[s] = "read"
          /\ loop' = [loop EXCEPT ![s] = "drop"]
          /\ discPc' = [discPc EXCEPT ![s] = "delete"]
          /\ discOf' = [discOf EXCEPT ![s] = s]
          /\ UNCHANGED ws
    /\ UNCHANGED <<tunnels, lastSeen, status, pending, callVars, replies, agent>>

----------------------------------------------------------------------------
(* handleDisconnect, run by a readLoop (its own session, or the one it      *)
(* evicts) or by the heartbeat.                                            *)

\* handleDisconnect returns to its caller: the evicting handleAuth goes on to
\* Store, a finished readLoop closes its websocket and ends.
DiscReturn(p) ==
    /\ discPc' = [discPc EXCEPT ![p] = "idle"]
    /\ discOf' = [discOf EXCEPT ![p] = None]
    /\ IF p = Heart THEN UNCHANGED <<ws, loop>>
       ELSE IF loop[p] = "evict"
       THEN /\ loop' = [loop EXCEPT ![p] = "store"]
            /\ UNCHANGED ws
       ELSE /\ loop' = [loop EXCEPT ![p] = "done"]
            /\ ws' = [ws EXCEPT ![p] = "closed"]

\* A newer connection replaced it, or another goroutine removed it first.
DiscSkip(p) ==
    /\ discPc[p] = "delete"
    /\ tunnels # discOf[p]
    /\ DiscReturn(p)
    /\ UNCHANGED <<tunnels, lastSeen, status, pending, callVars, replies, agent>>

\* Faulty: Delete instead of CompareAndDelete, without the websocket check.
DiscDeleteAny(p) ==
    /\ discPc[p] = "delete"
    /\ tunnels # None
    /\ tunnels' = None
    /\ lastSeen' = "fresh"
    /\ discPc' = [discPc EXCEPT ![p] = "reject"]
    /\ UNCHANGED <<ws, loop, status, discOf, pending, callVars, replies, agent>>

\* CompareAndDelete.
DiscDelete(p) ==
    /\ discPc[p] = "delete"
    /\ tunnels = discOf[p]
    /\ tunnels' = None
    /\ lastSeen' = "fresh"
    /\ discPc' = [discPc EXCEPT ![p] = "reject"]
    /\ UNCHANGED <<ws, loop, status, discOf, pending, callVars,
                   replies, agent>>

\* Faulty: ranges over the pending requests of the connection's current tunnel.
DiscRejectCurrent(p) ==
    LET t == IF tunnels = None THEN discOf[p] ELSE tunnels
    IN /\ discPc[p] = "reject"
       /\ replies' = [r \in Requests |->
                        IF r \in pending[t] THEN replies[r] \cup {"dropped"}
                        ELSE replies[r]]
       /\ pending' = [pending EXCEPT ![t] = {}]
       /\ discPc' = [discPc EXCEPT ![p] = "status"]
       /\ UNCHANGED <<sessionVars, status, discOf, callVars, agent>>

\* Pending.Range: "tunnel disconnected" for every request stored so far.
DiscReject(p) ==
    /\ discPc[p] = "reject"
    /\ replies' = [r \in Requests |->
                     IF r \in pending[discOf[p]] THEN replies[r] \cup {"dropped"}
                     ELSE replies[r]]
    /\ pending' = [pending EXCEPT ![discOf[p]] = {}]
    /\ discPc' = [discPc EXCEPT ![p] = "status"]
    /\ UNCHANGED <<sessionVars, status, discOf, callVars, agent>>

DiscStatus(p) ==
    /\ discPc[p] = "status"
    /\ status' = "disconnected"
    /\ DiscReturn(p)
    /\ UNCHANGED <<tunnels, lastSeen, pending, callVars, replies, agent>>

\* pingAll finds a tunnel stale (and closes its websocket) or fails to ping it.
\* A ping that is written changes nothing here; ReadPong is the answer to it.
HeartDrop ==
    /\ discPc[Heart] = "idle"
    /\ tunnels # None
    /\ \/ /\ lastSeen = "stale"
          /\ ws' = [ws EXCEPT ![tunnels] = "closed"]
       \/ /\ lastSeen # "stale"
          /\ ws[tunnels] # "open"
          /\ UNCHANGED ws
    /\ discPc' = [discPc EXCEPT ![Heart] = "delete"]
    /\ discOf' = [discOf EXCEPT ![Heart] = tunnels]
    /\ UNCHANGED <<loop, tunnels, lastSeen, status, pending, callVars, replies, agent>>

----------------------------------------------------------------------------
(* ExecuteQueryWithSettings, ExecuteQueryWithFormat, TestConnection.       *)

CallOffline(r) ==
    /\ call[r] = "idle"
    /\ tunnels = None
    /\ call' = [call EXCEPT ![r] = "done"]
    /\ outcome' = [outcome EXCEPT ![r] = "error"]
    /\ UNCHANGED <<sessionVars, status, discVars, pending, callOn, replies, agent>>

CallLoad(r) ==
    /\ call[r] = "idle"
    /\ tunnels # None
    /\ call' = [call EXCEPT ![r] = "loaded"]
    /\ callOn' = [callOn EXCEPT ![r] = tunnels]
    /\ UNCHANGED <<sessionVars, status, discVars, pending, replies, outcome, agent>>

CallStore(r) ==
    /\ call[r] = "loaded"
    /\ pending' = [pending EXCEPT ![callOn[r]] = @ \cup {r}]
    /\ call' = [call EXCEPT ![r] = "stored"]
    /\ UNCHANGED <<sessionVars, status, discVars, callOn, replies, outcome, agent>>

\* Every return runs the deferred t.Pending.Delete(requestID).
CallReturn(r, o) ==
    /\ call' = [call EXCEPT ![r] = "done"]
    /\ outcome' = [outcome EXCEPT ![r] = o]
    /\ pending' = [pending EXCEPT ![callOn[r]] = @ \ {r}]
    /\ UNCHANGED <<sessionVars, status, discVars, callOn, replies, agent>>

\* A write on a broken websocket may still succeed, and is then lost.
CallWrite(r) ==
    /\ call[r] = "stored"
    /\ ws[callOn[r]] # "closed"
    /\ call' = [call EXCEPT ![r] = "waiting"]
    /\ agent' = IF ws[callOn[r]] = "open"
                THEN [agent EXCEPT ![r] = "running"] ELSE agent
    /\ UNCHANGED <<sessionVars, status, discVars, pending, callOn, replies, outcome>>

CallWriteFails(r) ==
    /\ call[r] = "stored"
    /\ ws[callOn[r]] # "open"
    /\ CallReturn(r, "error")

\* Faulty: a disconnect is taken for an empty result.
CallAnsweredEmpty(r, reply) ==
    /\ call[r] = "waiting"
    /\ reply \in replies[r]
    /\ CallReturn(r, IF reply = "error" THEN "error" ELSE "result")

\* The select of the waiting call: ResultCh, ErrorCh (whose error is the agent's
\* or "tunnel disconnected") or the timeout, on which cancel_query is sent, a
\* message the agent ignores.
CallAnswered(r, reply) ==
    /\ call[r] = "waiting"
    /\ reply \in replies[r]
    /\ CallReturn(r, IF reply = "result" THEN "result" ELSE "error")

\* Faulty: relies on handleDisconnect to reject every call on a dead tunnel.
CallTimeoutOnline(r) ==
    /\ call[r] = "waiting"
    /\ tunnels = callOn[r]
    /\ CallReturn(r, "timeout")

CallTimeout(r) ==
    /\ call[r] = "waiting"
    /\ CallReturn(r, "timeout")

\* The request is forgotten; a late answer to it would be an unknown id.
CallForget(r) ==
    /\ call[r] = "done"
    /\ call' = [call EXCEPT ![r] = "idle"]
    /\ callOn' = [callOn EXCEPT ![r] = None]
    /\ outcome' = [outcome EXCEPT ![r] = "none"]
    /\ replies' = [replies EXCEPT ![r] = {}]
    /\ agent' = [agent EXCEPT ![r] = "unsent"]
    /\ UNCHANGED <<sessionVars, status, discVars, pending>>

----------------------------------------------------------------------------

SessionStep(s) ==
    \/ Connect(s) \/ Break(s)
    \/ AuthFail(s) \/ AuthReject(s) \/ AuthEvict(s) \/ AuthFree(s)
    \/ AuthStore(s) \/ AuthAnnounce(s)
    \/ ReadPing(s) \/ ReadPong(s) \/ PongStatus(s) \/ ReadFail(s)

AnswerStep(s, r) == \E kind \in {"result", "error"} : ReadAnswer(s, r, kind)

DiscStep(p) ==
    DiscSkip(p) \/ DiscDelete(p) \/ DiscReject(p) \/ DiscStatus(p)

CallStep(r) ==
    \/ CallOffline(r) \/ CallLoad(r) \/ CallStore(r)
    \/ CallWrite(r) \/ CallWriteFails(r) \/ CallTimeout(r) \/ CallForget(r)
    \/ \E reply \in {"result", "error", "dropped"} : CallAnswered(r, reply)

Next ==
    \/ \E s \in Sessions : SessionStep(s)
    \/ \E s \in Sessions, r \in Requests : AnswerStep(s, r)
    \/ \E p \in Procs : DiscStep(p)
    \/ HeartDrop \/ Age
    \/ \E r \in Requests : CallStep(r)

Spec == Init /\ [][Next]_vars

(***************************************************************************)
(* Goroutines that can run do run; a websocket that no longer works makes  *)
(* its reads fail once the finitely many buffered messages are consumed;   *)
(* the heartbeat asks for a pong every 30 s.  Nothing obliges an agent to  *)
(* connect, to answer or to fail, or a user to make a call.                *)
(***************************************************************************)
Fairness ==
    /\ \A s \in Sessions :
         /\ WF_vars(AuthReject(s) \/ AuthEvict(s) \/ AuthFree(s))
         /\ WF_vars(AuthStore(s) \/ AuthAnnounce(s) \/ PongStatus(s))
         /\ WF_vars(ReadPong(s))
         /\ SF_vars(ReadFail(s))
    /\ \A p \in Procs : WF_vars(DiscStep(p))
    /\ WF_vars(HeartDrop)
    /\ \A r \in Requests :
         /\ WF_vars(CallStore(r) \/ CallWrite(r) \/ CallWriteFails(r))
         /\ WF_vars(CallTimeout(r))

FairSpec == Spec /\ Fairness

----------------------------------------------------------------------------
(* Properties.                                                             *)

\* A registered tunnel has a readLoop that serves it or is about to remove it:
\* IsTunnelOnline never reports for ever a session whose goroutine has ended.
NoGhostTunnel ==
    \A s \in Sessions : tunnels = s =>
        \/ loop[s] \in {"announce", "read", "pong"}
        \/ loop[s] = "drop" /\ discPc[s] = "delete"

\* A caller is told "tunnel disconnected" only when the tunnel its request
\* went through is out of the registry, never because of another session.
DroppedOnlyIfGone ==
    \A r \in Requests : "dropped" \in replies[r] => tunnels # callOn[r]

\* The registry never names a dead tunnel for good, nor forgets a live one.
RegistryInv == NoGhostTunnel /\ DroppedOnlyIfGone

\* handleDisconnect, whoever runs it and however late, takes a tunnel out of
\* the registry only if its websocket no longer works.
NoLiveRemoval ==
    [][\A s \in Sessions : tunnels = s /\ tunnels' = None => ws[s] # "open"]_vars

\* Every call of ExecuteQuery and TestConnection returns.
CallsReturn ==
    \A r \in Requests : (call[r] = "loaded") ~> (call[r] = "done")

\* The database agrees in the end that a tunnel that stays up is connected,
\* whatever late status write of an older session came in between.
StatusConverges ==
    \A s \in Sessions :
        <>[](tunnels = s /\ ws[s] = "open") => <>[](status = "connected")

\* The gateway implements the remote call its users rely on.
Phase == [r \in Requests |->
            IF call[r] = "idle" THEN "idle"
            ELSE IF call[r] = "done" THEN outcome[r] ELSE "running"]

Executed == {r \in Requests : agent[r] = "answered"}

RC == INSTANCE RemoteCall WITH phase <- Phase, executed <- Executed

RemoteCallSpec == RC!Spec

=============================================================================
