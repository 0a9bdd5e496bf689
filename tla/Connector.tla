------------------------------ MODULE Connector ------------------------------
(***************************************************************************)
(* The agent (connector/connector.go): a process next to a ClickHouse, or  *)
(* a part of the server itself (internal/embedded), that keeps a websocket *)
(* to the gateway and executes the queries that arrive on it.              *)
(*                                                                         *)
(* One goroutine at a time connects: that of Run first, then messageLoop,  *)
(* which also reads.  Every query is a goroutine, and so is Shutdown.  The *)
(* websocket is a field that all of them share under connMu.  What the     *)
(* gateway decides is in TunnelGateway; here its answers are free.  The    *)
(* heartbeat and the host information only write, and are left out.        *)
(***************************************************************************)
EXTENDS Naturals, FiniteSets

CONSTANTS
    Sockets,      \* websockets; one is used again when nothing refers to it
    Queries,      \* goroutines that execute a query
    Embedded,     \* whether the process goes on when Run returns
    MinDelay,     \* ReconnectDelay
    MaxDelay,     \* MaxReconnectDelay
    None,         \* no websocket
    MaxTroubles   \* bound: broken websockets, failed dials, temporary rejections

ASSUME ConnectorAssumption ==
    /\ Embedded \in BOOLEAN /\ None \notin Sockets
    /\ {MinDelay, MaxDelay, MaxTroubles} \subseteq Nat
    /\ 0 < MinDelay /\ MinDelay <= MaxDelay

VARIABLES
    pc,             \* the goroutine that connects and reads
    first,          \* it is still Run's, in the first connect
    sock,           \* its local variable conn, in connect
    conn,           \* c.conn
    ws,             \* each websocket, seen from here; "gone" is not noticed yet
    authenticated,  \* c.authenticated
    delay,          \* c.reconnectDelay
    cancelled,      \* c.ctx
    closes,         \* how often c.done was closed: twice is a panic
    shut,           \* progress of Shutdown
    run,            \* Run: running, failed or returned
    query,          \* where each query is, and the websocket it came on
    token,          \* the token is known to the server
    troubles

socketVars == <<sock, conn, ws, authenticated>>
endVars == <<cancelled, closes, shut, run>>
envVars == <<token, troubles>>
vars == <<pc, first, socketVars, delay, endVars, query, envVars>>

\* A panic ends the process, and so does Run unless the agent is embedded.
Alive == closes < 2 /\ (Embedded \/ run = "running")

Idle == [at |-> "idle", on |-> None]

Init ==
    /\ pc = "dial" /\ first = TRUE
    /\ sock = None /\ conn = None /\ ws = [s \in Sockets |-> "closed"]
    /\ authenticated = FALSE /\ delay = MinDelay
    /\ cancelled = FALSE /\ closes = 0 /\ shut = "no" /\ run = "running"
    /\ query = [q \in Queries |-> Idle]
    /\ token = TRUE /\ troubles = 0

Trouble == troubles < MaxTroubles /\ troubles' = troubles + 1 /\ UNCHANGED token

-----------------------------------------------------------------------------
(* connect, in Run and in reconnect. *)

\* Faulty: a rejected websocket is left open.
FailedLeftOpen(kind) ==
    /\ UNCHANGED <<ws, conn, authenticated, delay, cancelled, shut, first, query>> /\ sock' = None
    /\ IF first THEN run' = "failed" /\ pc' = "ended" /\ UNCHANGED closes
       ELSE IF kind = "auth" THEN closes' = closes + 1 /\ pc' = "loop" /\ UNCHANGED run
       ELSE pc' = "wait" /\ UNCHANGED <<closes, run>>

\* Faulty: reconnect gives up on every kind of rejection.
FailedForGood(kind) ==
    /\ ws' = IF sock = None THEN ws ELSE [ws EXCEPT ![sock] = "closed"]
    /\ UNCHANGED <<conn, authenticated, delay, cancelled, shut, first, query>> /\ sock' = None
    /\ IF first THEN run' = "failed" /\ pc' = "ended" /\ UNCHANGED closes
       ELSE IF kind = "network" THEN pc' = "wait" /\ UNCHANGED <<closes, run>>
       ELSE closes' = closes + 1 /\ pc' = "ended" /\ UNCHANGED run

\* connect returns an error.  c.conn keeps the closed websocket.  The first time
\* Run returns it; later only a permanent rejection ends reconnect, and then
\* messageLoop goes on.
Failed(kind) ==
    /\ ws' = IF sock = None THEN ws ELSE [ws EXCEPT ![sock] = "closed"]
    /\ UNCHANGED <<conn, authenticated, delay, cancelled, shut, first, query>> /\ sock' = None
    /\ IF first THEN run' = "failed" /\ pc' = "ended" /\ UNCHANGED closes
       ELSE IF kind = "auth" THEN closes' = closes + 1 /\ pc' = "loop" /\ UNCHANGED run
       ELSE pc' = "wait" /\ UNCHANGED <<closes, run>>

Referenced(s) == s \in {sock, conn} \/ \E q \in Queries : query[q].on = s

Dial(s) ==
    /\ Alive /\ pc = "dial" /\ ~cancelled
    /\ ~Referenced(s)
    /\ ws' = [ws EXCEPT ![s] = "open"] /\ sock' = s
    /\ pc' = "store"
    /\ UNCHANGED <<first, conn, authenticated, delay, endVars, query, envVars>>

DialFails ==
    /\ Alive /\ pc = "dial"
    /\ IF cancelled THEN UNCHANGED envVars ELSE Trouble
    /\ Failed("network")

StoreConn ==
    /\ Alive /\ pc = "store"
    /\ conn' = sock /\ pc' = "auth"
    /\ UNCHANGED <<first, sock, ws, authenticated, delay, endVars, query, envVars>>

SendAuth ==
    /\ Alive /\ pc = "auth" /\ ws[sock] # "closed"
    /\ pc' = "reply"
    /\ UNCHANGED <<first, socketVars, delay, endVars, query, envVars>>

\* The write or the read of the reply fails.
AuthBreaks ==
    /\ Alive /\ pc \in {"auth", "reply"} /\ ws[sock] # "open"
    /\ Failed("network") /\ UNCHANGED envVars

AuthOK ==
    /\ Alive /\ pc = "reply" /\ ws[sock] = "open" /\ token
    /\ authenticated' = TRUE /\ delay' = MinDelay
    /\ pc' = "loop" /\ first' = FALSE /\ sock' = None
    /\ UNCHANGED <<conn, ws, endVars, query, envVars>>

\* isPermanentAuthError.
Rejected ==
    /\ Alive /\ pc = "reply" /\ ws[sock] = "open" /\ ~token
    /\ Failed("auth") /\ UNCHANGED envVars

\* The lookup of the token failed, or another agent is connected.
RejectedForNow ==
    /\ Alive /\ pc = "reply" /\ ws[sock] = "open" /\ token
    /\ Trouble
    /\ Failed("server")

-----------------------------------------------------------------------------
(* messageLoop and reconnect. *)

Loop ==
    /\ Alive /\ pc = "loop"
    /\ pc' = IF cancelled THEN "ended" ELSE "read"
    /\ UNCHANGED <<first, socketVars, delay, endVars, query, envVars>>

\* The gateway sends queries to a tunnel that it has accepted.
ReadQuery(q) ==
    /\ Alive /\ pc = "read" /\ ws[conn] = "open" /\ query[q].at # "running"
    /\ query' = [query EXCEPT ![q] = [at |-> "running", on |-> conn]]
    /\ pc' = "loop"
    /\ UNCHANGED <<first, socketVars, delay, endVars, envVars>>

\* Faulty: a message that cannot be parsed is taken for a broken websocket.
ReadFailsOnMessage ==
    /\ Alive /\ pc = "read"
    /\ conn' = None /\ authenticated' = FALSE /\ pc' = "wait"
    /\ UNCHANGED <<first, sock, ws, delay, endVars, query, envVars>>

ReadFails ==
    /\ Alive /\ pc = "read" /\ ws[conn] # "open"
    /\ conn' = None /\ authenticated' = FALSE /\ pc' = "wait"
    /\ UNCHANGED <<first, sock, ws, delay, endVars, query, envVars>>

\* The loop of reconnect: the sleep is not interrupted by a cancellation.
Wait ==
    /\ Alive /\ pc = "wait"
    /\ IF cancelled THEN pc' = "loop" /\ UNCHANGED delay
       ELSE pc' = "dial" /\ delay' = IF 2 * delay > MaxDelay THEN MaxDelay ELSE 2 * delay
    /\ UNCHANGED <<first, socketVars, endVars, query, envVars>>

-----------------------------------------------------------------------------
(* executeQuery, executeStreamQuery and testConnection: the last message.  *)

\* It goes out on the websocket of the moment, before its "auth" even.
Answer(q) ==
    LET lost == conn = None \/ ws[conn] # "open" IN
    /\ Alive /\ query[q].at = "running"
    /\ query' = [query EXCEPT ![q] =
                    [at |-> IF lost THEN "lost" ELSE IF conn = @.on THEN "answered" ELSE "stray",
                     on |-> None]]
    /\ UNCHANGED <<pc, first, socketVars, delay, endVars, envVars>>

-----------------------------------------------------------------------------
(* Shutdown and the end of Run. *)

Cancel ==
    /\ Alive /\ shut = "no"
    /\ cancelled' = TRUE /\ shut' = "close"
    /\ UNCHANGED <<pc, first, socketVars, delay, closes, run, query, envVars>>

\* Faulty: the reader is not woken.
CloseNothing ==
    /\ Alive /\ shut = "close"
    /\ shut' = "done"
    /\ UNCHANGED <<pc, first, socketVars, delay, cancelled, closes, run, query, envVars>>

CloseConn ==
    /\ Alive /\ shut = "close"
    /\ shut' = "done"
    /\ ws' = IF conn = None THEN ws ELSE [ws EXCEPT ![conn] = "closed"]
    /\ UNCHANGED <<pc, first, sock, conn, authenticated, delay, cancelled, closes, run,
                   query, envVars>>

CloseDone ==
    /\ Alive /\ shut = "done"
    /\ shut' = "ended" /\ closes' = closes + 1
    /\ UNCHANGED <<pc, first, socketVars, delay, cancelled, run, query, envVars>>

RunReturns ==
    /\ Alive /\ run = "running" /\ ~first /\ closes > 0
    /\ run' = "returned"
    /\ UNCHANGED <<pc, first, socketVars, delay, cancelled, closes, shut, query, envVars>>

-----------------------------------------------------------------------------
(* The surroundings. *)

\* The network or the gateway ends the websocket, or is silent until the deadline.
Break(s) ==
    /\ ws[s] = "open" /\ Trouble
    /\ ws' = [ws EXCEPT ![s] = "gone"]
    /\ UNCHANGED <<pc, first, sock, conn, authenticated, delay, endVars, query>>

\* The token is regenerated, or its connection deleted.
Revoke ==
    /\ token /\ token' = FALSE
    /\ UNCHANGED <<pc, first, socketVars, delay, endVars, query, troubles>>

Connecting ==
    \/ \E s \in Sockets : Dial(s)
    \/ DialFails \/ StoreConn \/ SendAuth \/ AuthBreaks
    \/ AuthOK \/ Rejected \/ RejectedForNow

Reading == Loop \/ ReadFails \/ Wait

Shutdown == CloseConn \/ CloseDone

Next ==
    \/ Connecting \/ Reading
    \/ \E q \in Queries : ReadQuery(q) \/ Answer(q)
    \/ Cancel \/ Shutdown \/ RunReturns
    \/ \E s \in Sockets : Break(s)
    \/ Revoke

Spec == Init /\ [][Next]_vars

\* The goroutines run, and the gateway answers an "auth" within its deadline; a
\* query need never come.
FairSpec ==
    /\ Spec
    /\ WF_vars(Connecting) /\ WF_vars(Reading) /\ WF_vars(Shutdown) /\ WF_vars(RunReturns)
    /\ \A q \in Queries : WF_vars(Answer(q))

-----------------------------------------------------------------------------
(* Properties. *)

\* Every variable stays within its type; the goroutine that reads always has a
\* websocket to read from.
TypeOK ==
    /\ pc \in {"dial", "store", "auth", "reply", "loop", "read", "wait", "ended"}
    /\ first \in BOOLEAN /\ authenticated \in BOOLEAN
    /\ sock \in Sockets \cup {None} /\ conn \in Sockets \cup {None}
    /\ pc \in {"store", "auth", "reply"} <=> sock # None
    /\ pc = "read" => conn # None
    /\ ws \in [Sockets -> {"open", "gone", "closed"}]
    /\ delay \in MinDelay .. MaxDelay
    /\ cancelled \in BOOLEAN /\ closes \in 0 .. 2
    /\ shut \in {"no", "close", "done", "ended"}
    /\ run \in {"running", "failed", "returned"}
    /\ query \in [Queries -> [at : {"idle", "running", "answered", "stray", "lost"},
                              on : Sockets \cup {None}]]
    /\ token \in BOOLEAN /\ troubles \in Nat

\* The agent never holds two live websockets, on which it would take over, or be
\* rejected by, its own session.
OneLiveSocket == Cardinality({s \in Sockets : ws[s] = "open"}) <= 1

\* The state of the agent and its websockets: of the types they have in the code,
\* with at most one live websocket.
SocketInv == TypeOK /\ OneLiveSocket

\* The answer to a query is lost, or goes to a session that did not ask, only
\* when the websocket it came on is no more.
AnswersReachAsker ==
    [][\A q \in Queries :
          query[q].at = "running" /\ query'[q].at \in {"lost", "stray"}
             => ws[query[q].on] # "open"]_vars

Serving == conn # None /\ ws[conn] = "open" /\ pc \in {"loop", "read"}

\* An agent that was connected once is connected again, whatever broke, unless
\* its token is revoked or it is shut down.
Reconnects == (~first /\ Alive) ~> (Serving \/ ~token \/ cancelled)

\* Shutdown ends the reading goroutine and Run, whatever it interrupts.
ShutdownEnds == cancelled ~> (~Alive \/ (pc = "ended" /\ run # "running"))

=============================================================================
