---------------------------- MODULE TunnelStream ----------------------------
(***************************************************************************)
(* Streaming queries through one ConnectedTunnel: the readLoop goroutine   *)
(* that fills the bounded ChunkCh of each stream (gateway.go), the HTTP    *)
(* handlers that drain them (StreamQuery in handlers/query.go, with        *)
(* ExecuteStreamQuery and CleanupStream of api.go), the agent that sends   *)
(* meta, chunks and the end (connector.go), and handleDisconnect, run by   *)
(* the readLoop itself or by another goroutine (takeover, heartbeat).      *)
(*                                                                         *)
(* Sending on or closing a closed Go channel panics, and no goroutine here *)
(* recovers: the variable crashed is the end of the server process.        *)
(***************************************************************************)
EXTENDS Naturals, FiniteSets

CONSTANTS Streams,    \* streaming queries
          NoStream,   \* not a streaming query
          ChunkCap,   \* capacity of ChunkCh: 8 in the code
          MaxChunks   \* bound: chunks the agent sends for one query

ASSUME StreamAssumption ==
    /\ NoStream \notin Streams
    /\ ChunkCap \in Nat \ {0}
    /\ MaxChunks \in Nat

VARIABLES
    registered,  \* the tunnel is in Gateway.tunnels
    ws,          \* its websocket
    pending,     \* ConnectedTunnel.Pending
    reader,      \* where the readLoop is
    current,     \* the stream whose message it handles
    ending,      \* how that message ends the stream
    disc,        \* handleDisconnect after its CompareAndDelete
    visited,     \* the stream its Range has handed to the callback
    agent,       \* the agent's progress with a query
    sent,        \* chunks the agent has sent
    queue,       \* number of chunks in ChunkCh
    closed,      \* ChunkCh is closed
    metaCh, doneCh, errorCh,  \* whether MetaCh, DoneCh, ErrorCh hold a value
    handler,     \* where the StreamQuery handler is
    got,         \* chunks it has passed on to its client
    result,      \* the status it has recorded in the query history
    late,        \* streams stored after the tunnel left the registry
    crashed

readerVars == <<reader, current, ending>>
discVars == <<disc, visited>>
gateVars == <<registered, ws, pending, readerVars, discVars>>
chanVars == <<queue, closed, metaCh, doneCh, errorCh>>
agentVars == <<agent, sent>>
handlerVars == <<handler, got, result, late>>
vars == <<gateVars, chanVars, agentVars, handlerVars, crashed>>

Kinds == {"done", "error"}

TypeOK ==
    /\ registered \in BOOLEAN
    /\ ws \in {"open", "broken", "closed"}
    /\ pending \subseteq Streams
    /\ reader \in {"read", "send", "end", "close", "signal", "drop", "done"}
    /\ current \in Streams \cup {NoStream}
    /\ ending \in Kinds \cup {"none"}
    /\ disc \in {"none", "range", "visit", "done"}
    /\ visited \in Streams \cup {NoStream}
    /\ agent \in [Streams -> {"none", "meta", "rows", "ended"}]
    /\ sent \in [Streams -> 0..MaxChunks]
    /\ queue \in [Streams -> 0..ChunkCap]
    /\ closed \in [Streams -> BOOLEAN]
    /\ metaCh \in [Streams -> BOOLEAN]
    /\ doneCh \in [Streams -> BOOLEAN]
    /\ errorCh \in [Streams -> BOOLEAN]
    /\ handler \in [Streams -> {"idle", "loaded", "stored", "meta", "chunks",
                                "final", "gone"}]
    /\ got \in [Streams -> 0..MaxChunks]
    /\ result \in [Streams -> {"none", "success", "error", "cancelled"}]
    /\ late \subseteq Streams
    /\ crashed \in BOOLEAN

All(v) == [r \in Streams |-> v]

Init ==
    /\ registered = TRUE
    /\ ws = "open"
    /\ pending = {}
    /\ reader = "read"
    /\ current = NoStream
    /\ ending = "none"
    /\ disc = "none"
    /\ visited = NoStream
    /\ agent = All("none")
    /\ sent = All(0)
    /\ queue = All(0)
    /\ closed = All(FALSE)
    /\ metaCh = All(FALSE)
    /\ doneCh = All(FALSE)
    /\ errorCh = All(FALSE)
    /\ handler = All("idle")
    /\ got = All(0)
    /\ result = All("none")
    /\ late = {}
    /\ crashed = FALSE

----------------------------------------------------------------------------
(* The handler: ExecuteStreamQuery, then StreamQuery's three selects.      *)

HandlerLoad(r) ==
    /\ ~crashed
    /\ handler[r] = "idle"
    /\ registered
    /\ handler' = [handler EXCEPT ![r] = "loaded"]
    /\ UNCHANGED <<gateVars, chanVars, agentVars, got, result, late, crashed>>

HandlerStore(r) ==
    /\ ~crashed
    /\ handler[r] = "loaded"
    /\ pending' = pending \cup {r}
    /\ late' = IF registered THEN late ELSE late \cup {r}
    /\ handler' = [handler EXCEPT ![r] = "stored"]
    /\ UNCHANGED <<registered, ws, readerVars, discVars, chanVars, agentVars, got,
                   result, crashed>>

\* The query_stream message; on a broken websocket it may be lost.
HandlerWrite(r) ==
    /\ ~crashed
    /\ handler[r] = "stored"
    /\ ws # "closed"
    /\ agent' = IF ws = "open" THEN [agent EXCEPT ![r] = "meta"] ELSE agent
    /\ handler' = [handler EXCEPT ![r] = "meta"]
    /\ UNCHANGED <<gateVars, chanVars, sent, got, result, late, crashed>>

\* The write fails: the handler answers 502 and records an error.
HandlerWriteFails(r) ==
    /\ ~crashed
    /\ handler[r] = "stored"
    /\ ws # "open"
    /\ pending' = pending \ {r}
    /\ handler' = [handler EXCEPT ![r] = "gone"]
    /\ result' = [result EXCEPT ![r] = "error"]
    /\ UNCHANGED <<registered, ws, readerVars, discVars, chanVars, agentVars, got,
                   late, crashed>>

HandlerMeta(r) ==
    /\ ~crashed
    /\ handler[r] = "meta"
    /\ metaCh[r]
    /\ metaCh' = [metaCh EXCEPT ![r] = FALSE]
    /\ handler' = [handler EXCEPT ![r] = "chunks"]
    /\ UNCHANGED <<gateVars, queue, closed, doneCh, errorCh, agentVars, got,
                   result, late, crashed>>

HandlerChunk(r) ==
    /\ ~crashed
    /\ handler[r] = "chunks"
    /\ queue[r] > 0
    /\ queue' = [queue EXCEPT ![r] = @ - 1]
    /\ got' = [got EXCEPT ![r] = @ + 1]
    /\ UNCHANGED <<gateVars, closed, metaCh, doneCh, errorCh, agentVars,
                   handler, result, late, crashed>>

HandlerDrained(r) ==
    /\ ~crashed
    /\ handler[r] = "chunks"
    /\ queue[r] = 0
    /\ closed[r]
    /\ handler' = [handler EXCEPT ![r] = "final"]
    /\ UNCHANGED <<gateVars, chanVars, agentVars, got, result, late, crashed>>

\* Every return runs the deferred CleanupStream, which looks the tunnel up by
\* connection id and so finds this one only while it is registered, and
\* records how the query ended.
HandlerReturn(r, how) ==
    /\ pending' = IF registered THEN pending \ {r} ELSE pending
    /\ handler' = [handler EXCEPT ![r] = "gone"]
    /\ result' = [result EXCEPT ![r] = how]
    /\ UNCHANGED <<registered, ws, readerVars, discVars, agentVars, queue, closed, metaCh,
                   got, late, crashed>>

HandlerDone(r) ==
    /\ ~crashed
    /\ handler[r] = "final"
    /\ doneCh[r]
    /\ doneCh' = [doneCh EXCEPT ![r] = FALSE]
    /\ HandlerReturn(r, "success")
    /\ UNCHANGED errorCh

HandlerError(r) ==
    /\ ~crashed
    /\ handler[r] \in {"meta", "final"}
    /\ errorCh[r]
    /\ errorCh' = [errorCh EXCEPT ![r] = FALSE]
    /\ HandlerReturn(r, "error")
    /\ UNCHANGED doneCh

\* The client goes away: ctx.Done in any of the selects.
HandlerCancel(r) ==
    /\ ~crashed
    /\ handler[r] \in {"meta", "chunks", "final"}
    /\ HandlerReturn(r, "cancelled")
    /\ UNCHANGED <<doneCh, errorCh>>

----------------------------------------------------------------------------
(* The readLoop and the messages of the agent, in the order of each query.  *)

\* Back to the next message.
ReaderIdle == reader' = "read" /\ current' = NoStream /\ ending' = "none"

\* handleStream...: the tunnel is looked up by connection id, then the request.
Known(r) == registered /\ r \in pending

\* query_stream_start.  The agent may also leave it out (no column metadata).
ReadStart(r) ==
    /\ ~crashed
    /\ reader = "read"
    /\ agent[r] = "meta"
    /\ agent' = [agent EXCEPT ![r] = "rows"]
    /\ \/ metaCh' = IF Known(r) THEN [metaCh EXCEPT ![r] = TRUE] ELSE metaCh
       \/ UNCHANGED metaCh
    /\ UNCHANGED <<gateVars, sent, queue, closed, doneCh, errorCh, handlerVars, crashed>>

ReadChunk(r) ==
    /\ ~crashed
    /\ reader = "read"
    /\ agent[r] = "rows"
    /\ sent[r] < MaxChunks
    /\ sent' = [sent EXCEPT ![r] = @ + 1]
    /\ IF Known(r)
       THEN reader' = "send" /\ current' = r
       ELSE UNCHANGED <<reader, current>>
    /\ UNCHANGED <<registered, ws, ending, pending, discVars, agent, chanVars, handlerVars, crashed>>

\* Faulty: a non-blocking send that drops the chunk when the channel is full.
SendChunkDropping(r) ==
    /\ ~crashed
    /\ reader = "send" /\ current = r
    /\ ~closed[r]
    /\ queue' = [queue EXCEPT ![r] = IF @ < ChunkCap THEN @ + 1 ELSE @]
    /\ ReaderIdle
    /\ UNCHANGED <<registered, ws, pending, discVars, agentVars, closed, metaCh,
                   doneCh, errorCh, handlerVars, crashed>>

\* ChunkCh <- data: blocks while the channel is full, panics once it is closed.
SendChunk(r) ==
    /\ ~crashed
    /\ reader = "send" /\ current = r
    /\ \/ /\ closed[r]
          /\ crashed' = TRUE
          /\ UNCHANGED <<queue, readerVars>>
       \/ /\ ~closed[r]
          /\ queue[r] < ChunkCap
          /\ queue' = [queue EXCEPT ![r] = @ + 1]
          /\ ReaderIdle
          /\ UNCHANGED crashed
    /\ UNCHANGED <<registered, ws, pending, discVars, agentVars, closed, metaCh,
                   doneCh, errorCh, handlerVars>>

\* query_stream_end or query_stream_error: the tunnel is looked up.  The agent can fail
\* at any point, also before the meta.
ReadEnd(r, kind) ==
    /\ ~crashed
    /\ reader = "read"
    /\ agent[r] \in (IF kind = "done" THEN {"rows"} ELSE {"meta", "rows"})
    /\ agent' = [agent EXCEPT ![r] = "ended"]
    /\ IF registered
       THEN reader' = "end" /\ current' = r /\ ending' = kind
       ELSE UNCHANGED readerVars
    /\ UNCHANGED <<registered, ws, pending, discVars, sent, chanVars, handlerVars, crashed>>

\* LoadAndDelete, in the table of a tunnel that may have left the registry since.
TakeEntry(r) ==
    /\ ~crashed
    /\ reader = "end" /\ current = r
    /\ pending' = pending \ {r}
    /\ IF r \in pending
       THEN reader' = "close" /\ UNCHANGED <<current, ending>>
       ELSE ReaderIdle
    /\ UNCHANGED <<registered, ws, discVars, agentVars, chanVars, handlerVars, crashed>>

CloseChunks(r) ==
    /\ ~crashed
    /\ reader = "close" /\ current = r
    /\ \/ /\ closed[r]
          /\ crashed' = TRUE
          /\ UNCHANGED <<closed, reader>>
       \/ /\ ~closed[r]
          /\ closed' = [closed EXCEPT ![r] = TRUE]
          /\ reader' = "signal"
          /\ UNCHANGED crashed
    /\ UNCHANGED <<registered, ws, pending, current, ending, discVars, agentVars,
                   queue, metaCh, doneCh, errorCh, handlerVars>>

SignalEnd(r) ==
    /\ ~crashed
    /\ reader = "signal" /\ current = r
    /\ IF ending = "done"
       THEN doneCh' = [doneCh EXCEPT ![r] = TRUE] /\ UNCHANGED errorCh
       ELSE errorCh' = [errorCh EXCEPT ![r] = TRUE] /\ UNCHANGED doneCh
    /\ ReaderIdle
    /\ UNCHANGED <<registered, ws, pending, discVars, agentVars, queue, closed,
                   metaCh, handlerVars, crashed>>

Break ==
    /\ ~crashed
    /\ ws = "open"
    /\ ws' = "broken"
    /\ UNCHANGED <<registered, pending, readerVars, discVars, chanVars, agentVars,
                   handlerVars, crashed>>

ReaderFails ==
    /\ ~crashed
    /\ reader = "read"
    /\ ws # "open"
    /\ reader' = "drop"
    /\ UNCHANGED <<registered, ws, pending, current, ending, discVars, chanVars,
                   agentVars, handlerVars, crashed>>

----------------------------------------------------------------------------
(* handleDisconnect; CompareAndDelete lets one goroutine through.          *)

\* The readLoop's own deferred call, then the end of the goroutine.
ReaderDrops ==
    /\ ~crashed
    /\ reader = "drop"
    /\ reader' = "done"
    /\ registered' = FALSE
    /\ disc' = IF registered THEN "range" ELSE disc
    /\ ws' = "closed"
    /\ UNCHANGED <<pending, current, ending, visited, chanVars, agentVars, handlerVars, crashed>>

\* A takeover or the heartbeat closes the websocket and removes the tunnel.
OtherDrops ==
    /\ ~crashed
    /\ registered
    /\ registered' = FALSE
    /\ ws' = "closed"
    /\ disc' = "range"
    /\ UNCHANGED <<pending, readerVars, visited, chanVars, agentVars, handlerVars, crashed>>

\* Pending.Range hands a stored stream to the callback ...
DiscVisit(r) ==
    /\ ~crashed
    /\ disc = "range"
    /\ r \in pending
    /\ disc' = "visit" /\ visited' = r
    /\ UNCHANGED <<registered, ws, pending, readerVars, chanVars, agentVars,
                   handlerVars, crashed>>

\* Faulty: closes ChunkCh but leaves ErrorCh empty.
DiscRejectQuietly(r) ==
    /\ ~crashed
    /\ disc = "visit" /\ visited = r
    /\ ~closed[r]
    /\ closed' = [closed EXCEPT ![r] = TRUE]
    /\ pending' = pending \ {r}
    /\ disc' = "range" /\ visited' = NoStream
    /\ UNCHANGED <<registered, ws, readerVars, agentVars, queue, metaCh, doneCh,
                   errorCh, handlerVars, crashed>>

\* ... which closes ChunkCh without taking the entry out first.
DiscReject(r) ==
    /\ ~crashed
    /\ disc = "visit" /\ visited = r
    /\ \/ /\ closed[r]
          /\ crashed' = TRUE
          /\ UNCHANGED <<closed, errorCh, pending, discVars>>
       \/ /\ ~closed[r]
          /\ closed' = [closed EXCEPT ![r] = TRUE]
          /\ errorCh' = [errorCh EXCEPT ![r] = TRUE]
          /\ pending' = pending \ {r}
          /\ disc' = "range" /\ visited' = NoStream
          /\ UNCHANGED crashed
    /\ UNCHANGED <<registered, ws, readerVars, agentVars, queue, metaCh, doneCh, handlerVars>>

\* Range need not visit what was stored while it ran.
DiscEnd ==
    /\ ~crashed
    /\ disc = "range"
    /\ pending \subseteq late
    /\ disc' = "done"
    /\ UNCHANGED <<registered, ws, pending, readerVars, visited, chanVars, agentVars,
                   handlerVars, crashed>>

----------------------------------------------------------------------------

HandlerStep(r) ==
    \/ HandlerLoad(r) \/ HandlerStore(r) \/ HandlerWrite(r) \/ HandlerWriteFails(r)
    \/ HandlerMeta(r) \/ HandlerChunk(r) \/ HandlerDrained(r)
    \/ HandlerDone(r) \/ HandlerError(r) \/ HandlerCancel(r)

ReaderStep(r) ==
    \/ ReadStart(r) \/ ReadChunk(r) \/ SendChunk(r)
    \/ \E kind \in Kinds : ReadEnd(r, kind)
    \/ TakeEntry(r) \/ CloseChunks(r) \/ SignalEnd(r)

Next ==
    \/ \E r \in Streams : HandlerStep(r) \/ ReaderStep(r) \/ DiscVisit(r) \/ DiscReject(r)
    \/ Break \/ ReaderFails \/ ReaderDrops \/ OtherDrops \/ DiscEnd

Spec == Init /\ [][Next]_vars

----------------------------------------------------------------------------
(* Properties.                                                             *)

Waiting(r) == handler[r] \in {"meta", "chunks", "final"}

\* A query recorded as a success has passed on every chunk the agent sent,
\* whatever disconnect, cancelled stream or late message came in between.
SuccessIsComplete ==
    \A r \in Streams : result[r] = "success" =>
        agent[r] = "ended" /\ got[r] = sent[r]

\* A tunnel that has been disconnected has told every stream stored before:
\* no handler waits for an end that nobody will signal.
NoSilentStream ==
    \A r \in Streams \ late :
        disc = "done" /\ Waiting(r) =>
            \/ doneCh[r] \/ errorCh[r]
            \/ reader \in {"close", "signal"} /\ current = r

=============================================================================
