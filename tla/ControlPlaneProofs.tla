------------------------- MODULE ControlPlaneProofs -------------------------
(***************************************************************************)
(* Of the parts that control_plane runs: SuccessIsComplete and             *)
(* NoSilentStream of the streams, for any set of streams, any capacity of  *)
(* ChunkCh and any number of chunks; and below, AuditInv of the forwarder, *)
(* ChatInv and ChatSteps of a chat with the assistant, SettingsInv of its  *)
(* settings, LoginInv and LoginSteps of logins.                            *)
(***************************************************************************)
EXTENDS TunnelStream, FiniteSetTheorems, SequenceTheorems, WellFoundedInduction, TLAPS

\* The chunk of r that the readLoop has taken from the websocket and not yet
\* put into ChunkCh.
InSend(r) == IF reader = "send" /\ current = r THEN 1 ELSE 0

\* No chunk of r has been lost.
Complete(r) == got[r] + queue[r] + InSend(r) = sent[r]

(***************************************************************************)
(* The chunks of a stream are accounted for as long as its messages find   *)
(* it.  Once a message does not (the tunnel is unregistered, or the entry  *)
(* is gone) none ever will again, so that the end of the stream, which is  *)
(* such a message too, is not delivered either.                            *)
(***************************************************************************)
FlowOf(r) ==
    /\ got[r] + queue[r] + InSend(r) <= sent[r]
    /\ handler[r] \in {"idle", "loaded", "stored"} => agent[r] = "none"
    /\ agent[r] \in {"none", "meta"} => sent[r] = 0
    /\ InSend(r) = 1 => agent[r] = "rows"
    /\ Known(r) /\ agent[r] \in {"meta", "rows"} => Complete(r)
    /\ reader = "end" /\ current = r
         => agent[r] = "ended" /\ (ending = "done" /\ r \in pending => Complete(r))
    /\ reader \in {"close", "signal"} /\ current = r
         => agent[r] = "ended" /\ (ending = "done" => Complete(r))
    /\ doneCh[r] => agent[r] = "ended" /\ Complete(r)
    /\ handler[r] = "final" => closed[r] /\ queue[r] = 0
    /\ result[r] # "none" => handler[r] = "gone"
    /\ result[r] = "success" => agent[r] = "ended" /\ got[r] = sent[r]

FlowInv == \A r \in Streams : FlowOf(r)

\* Every step keeps the types.
LEMMA TypeStep == TypeOK /\ FlowInv /\ [Next]_vars => TypeOK'
<1> SUFFICES ASSUME TypeOK, FlowInv, [Next]_vars PROVE TypeOK'
  OBVIOUS
<1> USE StreamAssumption DEF TypeOK, Kinds, ReaderIdle, readerVars, discVars, FlowInv, FlowOf, InSend, gateVars, chanVars, agentVars, handlerVars
<1>1. ASSUME NEW r \in Streams, HandlerLoad(r) PROVE TypeOK'
  BY <1>1 DEF HandlerLoad
<1>2. ASSUME NEW r \in Streams, HandlerStore(r) PROVE TypeOK'
  BY <1>2 DEF HandlerStore
<1>3. ASSUME NEW r \in Streams, HandlerWrite(r) PROVE TypeOK'
  BY <1>3 DEF HandlerWrite
<1>4. ASSUME NEW r \in Streams, HandlerWriteFails(r) PROVE TypeOK'
  BY <1>4 DEF HandlerWriteFails
<1>5. ASSUME NEW r \in Streams, HandlerMeta(r) PROVE TypeOK'
  BY <1>5 DEF HandlerMeta
<1>6. ASSUME NEW r \in Streams, HandlerChunk(r) PROVE TypeOK'
  BY <1>6 DEF HandlerChunk
<1>7. ASSUME NEW r \in Streams, HandlerDrained(r) PROVE TypeOK'
  BY <1>7 DEF HandlerDrained
<1>8. ASSUME NEW r \in Streams, HandlerDone(r) PROVE TypeOK'
  BY <1>8 DEF HandlerDone, HandlerReturn
<1>9. ASSUME NEW r \in Streams, HandlerError(r) PROVE TypeOK'
  BY <1>9 DEF HandlerError, HandlerReturn
<1>10. ASSUME NEW r \in Streams, HandlerCancel(r) PROVE TypeOK'
  BY <1>10 DEF HandlerCancel, HandlerReturn
<1>11. ASSUME NEW r \in Streams, ReadStart(r) PROVE TypeOK'
  BY <1>11 DEF ReadStart
<1>12. ASSUME NEW r \in Streams, ReadChunk(r) PROVE TypeOK'
  BY <1>12 DEF ReadChunk
<1>13. ASSUME NEW r \in Streams, SendChunk(r) PROVE TypeOK'
  <2>1. queue' \in [Streams -> 0..ChunkCap]
    <3>1. CASE closed[r]
      BY <1>13, <3>1 DEF SendChunk
    <3>2. CASE ~closed[r]
      BY <1>13, <3>2 DEF SendChunk
    <3> QED
      BY <3>1, <3>2
  <2> QED
    BY <1>13, <2>1 DEF SendChunk
<1>14. ASSUME NEW r \in Streams, NEW kind \in Kinds, ReadEnd(r, kind) PROVE TypeOK'
  BY <1>14 DEF ReadEnd
<1>15. ASSUME NEW r \in Streams, CloseChunks(r) PROVE TypeOK'
  BY <1>15 DEF CloseChunks
<1>16. ASSUME NEW r \in Streams, SignalEnd(r) PROVE TypeOK'
  BY <1>16 DEF SignalEnd
<1>17. ASSUME NEW r \in Streams, DiscVisit(r) PROVE TypeOK'
  BY <1>17 DEF DiscVisit
<1>18. ASSUME NEW r \in Streams, DiscReject(r) PROVE TypeOK'
  BY <1>18 DEF DiscReject
<1>19. ASSUME Break PROVE TypeOK'
  BY <1>19 DEF Break
<1>20. ASSUME ReaderFails PROVE TypeOK'
  BY <1>20 DEF ReaderFails
<1>21. ASSUME ReaderDrops PROVE TypeOK'
  BY <1>21 DEF ReaderDrops
<1>22. ASSUME OtherDrops PROVE TypeOK'
  BY <1>22 DEF OtherDrops
<1>23. ASSUME DiscEnd PROVE TypeOK'
  BY <1>23 DEF DiscEnd
<1>24. CASE UNCHANGED vars
  BY <1>24 DEF vars
<1>25. ASSUME NEW r \in Streams, TakeEntry(r) PROVE TypeOK'
  BY <1>25 DEF TakeEntry
<1> HIDE DEF TypeOK, Kinds, ReaderIdle, readerVars, discVars, FlowInv, FlowOf, InSend, gateVars, chanVars, agentVars, handlerVars
<1> QED
  BY <1>1, <1>2, <1>3, <1>4, <1>5, <1>6, <1>7, <1>8, <1>9, <1>10, <1>11, <1>12, <1>13, <1>14,
     <1>15, <1>16, <1>17, <1>18, <1>19, <1>20, <1>21, <1>22, <1>23, <1>24, <1>25
     DEF Next, HandlerStep, ReaderStep

\* Every step keeps the account of the chunks.
LEMMA FlowStep == TypeOK /\ FlowInv /\ [Next]_vars => FlowInv'
<1> SUFFICES ASSUME TypeOK, FlowInv, [Next]_vars PROVE FlowInv'
  OBVIOUS
<1> USE StreamAssumption DEF TypeOK, Kinds, ReaderIdle, readerVars, discVars, FlowInv, FlowOf, InSend, Complete, Known, gateVars, chanVars, agentVars, handlerVars
<1>1. ASSUME NEW r \in Streams, HandlerLoad(r) PROVE FlowInv'
  BY <1>1 DEF HandlerLoad
<1>2. ASSUME NEW r \in Streams, HandlerStore(r) PROVE FlowInv'
  BY <1>2 DEF HandlerStore
<1>3. ASSUME NEW r \in Streams, HandlerWrite(r) PROVE FlowInv'
  BY <1>3 DEF HandlerWrite
<1>4. ASSUME NEW r \in Streams, HandlerWriteFails(r) PROVE FlowInv'
  BY <1>4 DEF HandlerWriteFails
<1>5. ASSUME NEW r \in Streams, HandlerMeta(r) PROVE FlowInv'
  BY <1>5 DEF HandlerMeta
<1>6. ASSUME NEW r \in Streams, HandlerChunk(r) PROVE FlowInv'
  <2> SUFFICES ASSUME NEW q \in Streams PROVE FlowOf(q)'
    OBVIOUS
  <2>1. CASE q = r
    BY <1>6, <2>1 DEF HandlerChunk
  <2>2. CASE q # r
    BY <1>6, <2>2 DEF HandlerChunk
  <2> QED
    BY <2>1, <2>2
<1>7. ASSUME NEW r \in Streams, HandlerDrained(r) PROVE FlowInv'
  BY <1>7 DEF HandlerDrained
<1>8. ASSUME NEW r \in Streams, HandlerDone(r) PROVE FlowInv'
  BY <1>8 DEF HandlerDone, HandlerReturn
<1>9. ASSUME NEW r \in Streams, HandlerError(r) PROVE FlowInv'
  BY <1>9 DEF HandlerError, HandlerReturn
<1>10. ASSUME NEW r \in Streams, HandlerCancel(r) PROVE FlowInv'
  BY <1>10 DEF HandlerCancel, HandlerReturn
<1>11. ASSUME NEW r \in Streams, ReadStart(r) PROVE FlowInv'
  BY <1>11 DEF ReadStart
<1>12. ASSUME NEW r \in Streams, ReadChunk(r) PROVE FlowInv'
  <2> SUFFICES ASSUME NEW q \in Streams PROVE FlowOf(q)'
    OBVIOUS
  <2>0. got[q] \in Nat /\ queue[q] \in Nat /\ sent[q] \in Nat
    OBVIOUS
  <2>1. CASE q = r
    BY <1>12, <2>1, <2>0 DEF ReadChunk
  <2>2. CASE q # r
    BY <1>12, <2>0, <2>2 DEF ReadChunk
  <2> QED
    BY <2>1, <2>2
<1>13. ASSUME NEW r \in Streams, SendChunk(r) PROVE FlowInv'
  BY <1>13 DEF SendChunk
<1>14. ASSUME NEW r \in Streams, NEW kind \in Kinds, ReadEnd(r, kind) PROVE FlowInv'
  BY <1>14 DEF ReadEnd
<1>15. ASSUME NEW r \in Streams, CloseChunks(r) PROVE FlowInv'
  BY <1>15 DEF CloseChunks
<1>16. ASSUME NEW r \in Streams, SignalEnd(r) PROVE FlowInv'
  BY <1>16 DEF SignalEnd
<1>17. ASSUME NEW r \in Streams, DiscVisit(r) PROVE FlowInv'
  BY <1>17 DEF DiscVisit
<1>18. ASSUME NEW r \in Streams, DiscReject(r) PROVE FlowInv'
  BY <1>18 DEF DiscReject
<1>19. ASSUME Break PROVE FlowInv'
  BY <1>19 DEF Break
<1>20. ASSUME ReaderFails PROVE FlowInv'
  BY <1>20 DEF ReaderFails
<1>21. ASSUME ReaderDrops PROVE FlowInv'
  BY <1>21 DEF ReaderDrops
<1>22. ASSUME OtherDrops PROVE FlowInv'
  BY <1>22 DEF OtherDrops
<1>23. ASSUME DiscEnd PROVE FlowInv'
  BY <1>23 DEF DiscEnd
<1>24. CASE UNCHANGED vars
  BY <1>24 DEF vars
<1>25. ASSUME NEW r \in Streams, TakeEntry(r) PROVE FlowInv'
  BY <1>25 DEF TakeEntry
<1> HIDE DEF TypeOK, Kinds, ReaderIdle, readerVars, discVars, FlowInv, FlowOf, InSend, Complete, Known, gateVars, chanVars, agentVars, handlerVars
<1> QED
  BY <1>1, <1>2, <1>3, <1>4, <1>5, <1>6, <1>7, <1>8, <1>9, <1>10, <1>11, <1>12, <1>13, <1>14,
     <1>15, <1>16, <1>17, <1>18, <1>19, <1>20, <1>21, <1>22, <1>23, <1>24, <1>25
     DEF Next, HandlerStep, ReaderStep

\* Both hold in every reachable state.
LEMMA InductiveInvariant == Spec => [](TypeOK /\ FlowInv)
<1>1. Init => TypeOK /\ FlowInv
  <2> SUFFICES ASSUME Init PROVE TypeOK /\ FlowInv
    OBVIOUS
  <2>1. TypeOK
    <3>1. 0 \in 0..MaxChunks /\ 0 \in 0..ChunkCap
      BY StreamAssumption
    <3>2. /\ sent \in [Streams -> 0..MaxChunks] /\ got \in [Streams -> 0..MaxChunks]
          /\ queue \in [Streams -> 0..ChunkCap]
      BY <3>1 DEF Init, All
    <3>3. /\ closed \in [Streams -> BOOLEAN] /\ metaCh \in [Streams -> BOOLEAN]
          /\ doneCh \in [Streams -> BOOLEAN] /\ errorCh \in [Streams -> BOOLEAN]
      BY DEF Init, All
    <3>4. /\ agent \in [Streams -> {"none", "meta", "rows", "ended"}]
          /\ handler \in [Streams -> {"idle", "loaded", "stored", "meta", "chunks",
                                      "final", "gone"}]
          /\ result \in [Streams -> {"none", "success", "error", "cancelled"}]
      BY DEF Init, All
    <3> QED
      BY <3>2, <3>3, <3>4 DEF Init, TypeOK, Kinds
  <2>2. FlowInv
    <3> SUFFICES ASSUME NEW r \in Streams PROVE FlowOf(r)
      BY DEF FlowInv
    <3>1. /\ got[r] = 0 /\ queue[r] = 0 /\ sent[r] = 0 /\ ~doneCh[r]
          /\ agent[r] = "none" /\ handler[r] = "idle" /\ result[r] = "none"
          /\ reader = "read"
      BY DEF Init, All
    <3> QED
      BY <3>1 DEF FlowOf, InSend, Complete, Known
  <2> QED
    BY <2>1, <2>2
<1>2. TypeOK /\ FlowInv /\ [Next]_vars => (TypeOK /\ FlowInv)'
  BY TypeStep, FlowStep
<1> QED
  BY <1>1, <1>2, PTL DEF Spec

\* Every reachable state of the stream has the types TypeOK gives it; in
\* particular ChunkCh never holds more than its capacity.
THEOREM TypeCorrect == Spec => []TypeOK
BY InductiveInvariant, PTL

\* A streaming query is recorded as a success only if its client was passed
\* every chunk the agent sent for it.
THEOREM SuccessesAreComplete == Spec => []SuccessIsComplete
<1>1. FlowInv => SuccessIsComplete
  BY DEF FlowInv, FlowOf, SuccessIsComplete
<1> QED
  BY <1>1, InductiveInvariant, PTL

----------------------------------------------------------------------------
(***************************************************************************)
(* The end of a stream is owed to its handler from Pending.Store on.  The  *)
(* debt is with the table, with the readLoop that took the entry out, or   *)
(* paid into one of the two channels; once handleDisconnect has finished,  *)
(* the table holds none but those stored too late.                         *)
(***************************************************************************)
Owed(r) == handler[r] \in {"stored", "meta", "chunks", "final"}

Settling(r) ==
    \/ doneCh[r] \/ errorCh[r]
    \/ reader \in {"close", "signal"} /\ current = r

DebtInv ==
    /\ registered => disc = "none"
    /\ disc = "done" => pending \subseteq late
    /\ \A r \in Streams \ late : Owed(r) => r \in pending \/ Settling(r)

\* Every step keeps the debt.
LEMMA DebtStep == TypeOK /\ DebtInv /\ [Next]_vars => DebtInv'
<1> SUFFICES ASSUME TypeOK, DebtInv, [Next]_vars PROVE DebtInv'
  OBVIOUS
<1> USE DEF TypeOK, DebtInv, Owed, Settling, readerVars, discVars, gateVars, chanVars, agentVars, handlerVars
<1>1. ASSUME NEW r \in Streams, HandlerLoad(r) PROVE DebtInv'
  BY <1>1 DEF HandlerLoad
<1>2. ASSUME NEW r \in Streams, HandlerStore(r) PROVE DebtInv'
  BY <1>2 DEF HandlerStore
<1>3. ASSUME NEW r \in Streams, HandlerWrite(r) PROVE DebtInv'
  BY <1>3 DEF HandlerWrite
<1>4. ASSUME NEW r \in Streams, HandlerWriteFails(r) PROVE DebtInv'
  BY <1>4 DEF HandlerWriteFails
<1>5. ASSUME NEW r \in Streams, HandlerMeta(r) PROVE DebtInv'
  BY <1>5 DEF HandlerMeta
<1>6. ASSUME NEW r \in Streams, HandlerChunk(r) PROVE DebtInv'
  BY <1>6 DEF HandlerChunk
<1>7. ASSUME NEW r \in Streams, HandlerDrained(r) PROVE DebtInv'
  BY <1>7 DEF HandlerDrained
<1>8. ASSUME NEW r \in Streams, HandlerDone(r) PROVE DebtInv'
  BY <1>8 DEF HandlerDone, HandlerReturn
<1>9. ASSUME NEW r \in Streams, HandlerError(r) PROVE DebtInv'
  BY <1>9 DEF HandlerError, HandlerReturn
<1>10. ASSUME NEW r \in Streams, HandlerCancel(r) PROVE DebtInv'
  BY <1>10 DEF HandlerCancel, HandlerReturn
<1>11. ASSUME NEW r \in Streams, ReadStart(r) PROVE DebtInv'
  BY <1>11 DEF ReadStart, Known
<1>12. ASSUME NEW r \in Streams, ReadChunk(r) PROVE DebtInv'
  BY <1>12 DEF ReadChunk, Known
<1>13. ASSUME NEW r \in Streams, SendChunk(r) PROVE DebtInv'
  BY <1>13 DEF SendChunk, ReaderIdle
<1>14. ASSUME NEW r \in Streams, NEW kind \in Kinds, ReadEnd(r, kind) PROVE DebtInv'
  BY <1>14 DEF ReadEnd, Known
<1>15. ASSUME NEW r \in Streams, CloseChunks(r) PROVE DebtInv'
  BY <1>15 DEF CloseChunks
<1>16. ASSUME NEW r \in Streams, SignalEnd(r) PROVE DebtInv'
  BY <1>16 DEF SignalEnd, ReaderIdle
<1>17. ASSUME NEW r \in Streams, DiscVisit(r) PROVE DebtInv'
  BY <1>17 DEF DiscVisit
<1>18. ASSUME NEW r \in Streams, DiscReject(r) PROVE DebtInv'
  BY <1>18 DEF DiscReject
<1>19. ASSUME Break PROVE DebtInv'
  BY <1>19 DEF Break
<1>20. ASSUME ReaderFails PROVE DebtInv'
  BY <1>20 DEF ReaderFails
<1>21. ASSUME ReaderDrops PROVE DebtInv'
  BY <1>21 DEF ReaderDrops
<1>22. ASSUME OtherDrops PROVE DebtInv'
  BY <1>22 DEF OtherDrops
<1>23. ASSUME DiscEnd PROVE DebtInv'
  BY <1>23 DEF DiscEnd
<1>24. CASE UNCHANGED vars
  BY <1>24 DEF vars
<1>25. ASSUME NEW r \in Streams, TakeEntry(r) PROVE DebtInv'
  BY <1>25 DEF TakeEntry, ReaderIdle
<1> HIDE DEF TypeOK, DebtInv, Owed, Settling, readerVars, discVars, gateVars, chanVars, agentVars, handlerVars
<1> QED
  BY <1>1, <1>2, <1>3, <1>4, <1>5, <1>6, <1>7, <1>8, <1>9, <1>10, <1>11, <1>12, <1>13, <1>14,
     <1>15, <1>16, <1>17, <1>18, <1>19, <1>20, <1>21, <1>22, <1>23, <1>24, <1>25
     DEF Next, HandlerStep, ReaderStep

\* A disconnected tunnel leaves no handler waiting for an end that nobody
\* will signal, unless the handler stored its stream after the tunnel had
\* left the registry.
THEOREM DisconnectTellsEveryStream == Spec => []NoSilentStream
<1>1. Init => DebtInv
  BY DEF Init, All, DebtInv, Owed
<1>2. TypeOK /\ DebtInv /\ [Next]_vars => DebtInv'
  BY DebtStep
<1>3. DebtInv => NoSilentStream
  BY DEF DebtInv, Owed, Settling, NoSilentStream, Waiting
<1> QED
  BY <1>1, <1>2, <1>3, TypeCorrect, PTL DEF Spec

-----------------------------------------------------------------------------
(* The forwarder of audited events, which control_plane runs beside the     *)
(* streams: what is queued before Close is with every sink, or warned of,   *)
(* when the worker is gone, and the sinks have it in one order.             *)


CONSTANTS Events, Sinks, QueueSize, MaxFailures, Idle
VARIABLES event, buffer, worker, arrived, warned, stage, failures

Audit == INSTANCE AuditForwarder

States == {"new", "row", "queued", "dropped", "late", "refused"}

AuditTypes ==
    /\ event \in [Events -> States]
    /\ buffer \in Seq(Events)
    /\ worker \in [on : Events \cup {Idle}, sink : Nat, done : BOOLEAN, gone : BOOLEAN]
    /\ worker.on # Idle => worker.sink \in 1..Len(Sinks)
    /\ arrived \in [1..Len(Sinks) -> Seq(Events)]
    /\ warned \subseteq Events \X (1..Len(Sinks))
    /\ stage \in {"up", "closing", "waiting", "exited"}
    /\ failures \in Nat

Settled(e, s) == Audit!Has(s, e) \/ <<e, s>> \in warned

Queued(e) == \E i \in 1..Len(buffer) : buffer[i] = e

\* The worker has brought its event to the sinks before the one it is at.
DeliveryInv ==
    worker.on # Idle => \A s \in 1..Len(Sinks) : s < worker.sink => Settled(worker.on, s)

\* An event that was queued in time is in the buffer, with the worker, or with the sinks.
WayInv ==
    \A e \in Events : event[e] = "queued" =>
        \/ Queued(e)
        \/ worker.on = e
        \/ \A s \in 1..Len(Sinks) : Settled(e, s)

\* Once the worker has seen done nothing counts as queued in time any more, and it leaves
\* nothing in the buffer that does.
GoneInv ==
    /\ worker.done => stage # "up"
    /\ worker.gone =>
        /\ worker.done /\ worker.on = Idle
        /\ \A e \in Events : event[e] = "queued" => ~Queued(e)

IInv == AuditTypes /\ DeliveryInv /\ WayInv /\ GoneInv

----------------------------------------------------------------------------
LEMMA InitIInv == ASSUME Audit!AuditAssumption PROVE Audit!Init => IInv
BY DEF Audit!AuditAssumption, Audit!Init, IInv, AuditTypes, States, DeliveryInv, WayInv, GoneInv, Queued, Settled

\* What is settled stays settled when a sink gets one event more.
LEMMA SettledStays ==
    ASSUME Audit!AuditAssumption, AuditTypes, NEW e \in Events, NEW s \in 1..Len(Sinks),
           NEW t \in 1..Len(Sinks), NEW x \in Events, Settled(e, s),
           \/ arrived' = [arrived EXCEPT ![t] = Append(@, x)] /\ warned' = warned
           \/ arrived' = arrived /\ warned \subseteq warned'
    PROVE  Settled(e, s)'
<1>1. CASE arrived' = arrived /\ warned \subseteq warned'
  BY <1>1 DEF Settled, Audit!Has
<1>2. CASE arrived' = [arrived EXCEPT ![t] = Append(@, x)] /\ warned' = warned
  <2>1. CASE <<e, s>> \in warned
    BY <1>2, <2>1 DEF Settled
  <2>2. CASE Audit!Has(s, e)
    <3>1. PICK i \in DOMAIN arrived[s] : arrived[s][i] = e
      BY <2>2 DEF Audit!Has
    <3>2. arrived[s] \in Seq(Events) /\ arrived[t] \in Seq(Events)
      BY DEF AuditTypes
    <3>3. arrived'[s] = arrived[s] \/ arrived'[s] = Append(arrived[s], x)
      BY <1>2 DEF AuditTypes
    <3>4. i \in DOMAIN arrived'[s] /\ arrived'[s][i] = e
      BY <3>1, <3>2, <3>3
    <3> QED BY <3>4 DEF Settled, Audit!Has
  <2> QED BY <2>1, <2>2 DEF Settled
<1> QED BY <1>1, <1>2

\* The sink the worker was at has its event, or the log says it has not.
LEMMA DeliverSettles ==
    ASSUME Audit!AuditAssumption, AuditTypes, Audit!Deliver,
           NEW e \in Events, NEW s \in 1..Len(Sinks), e = worker.on, s = worker.sink
    PROVE  Settled(e, s)'
<1>1. arrived[s] \in Seq(Events)
  BY DEF AuditTypes
<1>2. CASE arrived' = [arrived EXCEPT ![s] = Append(@, e)]
  <2>1. arrived'[s] = Append(arrived[s], e)
    BY <1>1, <1>2 DEF AuditTypes
  <2>2. Len(arrived[s]) + 1 \in DOMAIN arrived'[s] /\ arrived'[s][Len(arrived[s]) + 1] = e
    BY <1>1, <2>1
  <2>3. \E i \in DOMAIN arrived'[s] : arrived'[s][i] = e
    BY <2>2
  <2> QED BY <2>3 DEF Settled, Audit!Has
<1>3. CASE <<e, s>> \in warned'
  BY <1>3 DEF Settled
<1> QED BY <1>2, <1>3 DEF Audit!Deliver

LEMMA NextIInv == ASSUME Audit!AuditAssumption, IInv, [Audit!Next]_Audit!vars PROVE IInv'
<1> USE DEF IInv
<1>1. ASSUME NEW e \in Events, Audit!Insert(e) PROVE IInv'
  <2> USE <1>1 DEF Audit!Insert
  <2>1. AuditTypes'
    BY DEF AuditTypes, States
  <2>2. event'[e] # "queued" /\ \A f \in Events : f # e => event'[f] = event[f]
    BY DEF AuditTypes
  <2>3. DeliveryInv' BY DEF DeliveryInv, Settled, Audit!Has
  <2>4. WayInv' BY <2>2 DEF WayInv, Settled, Audit!Has, Queued
  <2>5. GoneInv' BY <2>2 DEF GoneInv, Queued
  <2> QED BY <2>1, <2>3, <2>4, <2>5
<1>2. ASSUME NEW e \in Events, Audit!Emit(e), Len(buffer) < QueueSize PROVE IInv'
  <2> USE <1>2 DEF Audit!Emit
  <2>1. AuditTypes'
    <3>1. event' \in [Events -> States]
      BY DEF AuditTypes, States
    <3>2. Append(buffer, e) \in Seq(Events)
      BY DEF AuditTypes
    <3> QED BY <3>1, <3>2 DEF AuditTypes
  <2>2. /\ \A f \in Events : f # e => event'[f] = event[f]
        /\ event'[e] = "queued" => stage = "up"
    BY DEF AuditTypes
  <2>3. Queued(e)' /\ \A f \in Events : f # e => (Queued(f)' <=> Queued(f))
    <3>1. buffer \in Seq(Events) /\ buffer' = Append(buffer, e)
      BY DEF AuditTypes
    <3>2. /\ Len(buffer') = Len(buffer) + 1 /\ buffer'[Len(buffer) + 1] = e
          /\ \A i \in 1..Len(buffer) : buffer'[i] = buffer[i]
      BY <3>1
    <3> QED BY <3>1, <3>2 DEF Queued
  <2>4. DeliveryInv' BY DEF DeliveryInv, Settled, Audit!Has
  <2>5. WayInv' BY <2>2, <2>3 DEF WayInv, Settled, Audit!Has
  <2>6. GoneInv' BY <2>2, <2>3 DEF GoneInv
  <2> QED BY <2>1, <2>4, <2>5, <2>6
<1>3. ASSUME NEW e \in Events, Audit!Emit(e), ~(Len(buffer) < QueueSize) PROVE IInv'
  <2> USE <1>3 DEF Audit!Emit
  <2>1. AuditTypes'
    <3>1. warned' \subseteq Events \X (1..Len(Sinks))
      BY DEF AuditTypes
    <3> QED BY <3>1 DEF AuditTypes, States, Audit!AuditAssumption
  <2>2. event'[e] # "queued" /\ \A f \in Events : f # e => event'[f] = event[f]
    BY DEF AuditTypes
  <2>3. \A f \in Events, s \in 1..Len(Sinks) : Settled(f, s) => Settled(f, s)'
    BY DEF Settled, Audit!Has
  <2>4. DeliveryInv' BY <2>3 DEF DeliveryInv, AuditTypes
  <2>5. WayInv' BY <2>2, <2>3 DEF WayInv, Queued
  <2>6. GoneInv' BY <2>2 DEF GoneInv, Queued
  <2> QED BY <2>1, <2>4, <2>5, <2>6
<1>4. CASE Audit!Take
  <2> USE <1>4 DEF Audit!Take, Audit!Idling
  <2>1. /\ buffer \in Seq(Events) /\ buffer # <<>> /\ Head(buffer) \in Events
        /\ Tail(buffer) \in Seq(Events) /\ Len(Tail(buffer)) = Len(buffer) - 1
        /\ \A i \in 1..Len(Tail(buffer)) : Tail(buffer)[i] = buffer[i + 1]
    BY DEF AuditTypes
  <2>2. AuditTypes'
    <3>1. 1 \in 1..Len(Sinks)
      BY DEF Audit!AuditAssumption
    <3> QED BY <2>1, <3>1 DEF AuditTypes
  <2>3. worker'.on = Head(buffer) /\ worker'.sink = 1 /\ worker'.done = worker.done
        /\ worker'.gone = worker.gone
    BY DEF AuditTypes
  <2>4. DeliveryInv' BY <2>3 DEF DeliveryInv
  <2>5. \A f \in Events : Queued(f) => f = Head(buffer) \/ Queued(f)'
    <3> SUFFICES ASSUME NEW f \in Events, NEW i \in 1..Len(buffer), buffer[i] = f, i # 1
                 PROVE  Queued(f)'
      BY <2>1 DEF Queued
    <3>1. i - 1 \in 1..Len(Tail(buffer)) /\ Tail(buffer)[i - 1] = f
      BY <2>1
    <3> QED BY <3>1 DEF Queued
  <2>6. WayInv' BY <2>3, <2>5 DEF WayInv, Settled, Audit!Has, AuditTypes, Audit!AuditAssumption
  <2>7. GoneInv' BY <2>3 DEF GoneInv
  <2> QED BY <2>2, <2>4, <2>6, <2>7
<1>5. CASE Audit!SeeDone
  <2> USE <1>5 DEF Audit!SeeDone, Audit!Idling
  <2>1. worker'.on = worker.on /\ worker'.sink = worker.sink /\ worker'.done
        /\ worker'.gone = worker.gone
    BY DEF AuditTypes
  <2>2. AuditTypes' BY DEF AuditTypes
  <2> QED BY <2>1, <2>2 DEF DeliveryInv, WayInv, GoneInv, Settled, Audit!Has, Queued
<1>6. CASE Audit!Drained
  <2> USE <1>6 DEF Audit!Drained, Audit!Idling
  <2>1. worker'.on = worker.on /\ worker'.sink = worker.sink /\ worker'.done = worker.done
    BY DEF AuditTypes
  <2>2. AuditTypes' BY DEF AuditTypes
  <2>3. DeliveryInv' BY <2>1 DEF DeliveryInv
  <2>4. WayInv' BY <2>1 DEF WayInv, Settled, Audit!Has, Queued
  <2>5. GoneInv' BY <2>1 DEF GoneInv, Queued
  <2> QED BY <2>2, <2>3, <2>4, <2>5
<1>7. CASE Audit!Deliver
  <2> USE <1>7
  <2>1. /\ worker.on \in Events /\ worker.sink \in 1..Len(Sinks) /\ Len(Sinks) \in Nat
        /\ buffer' = buffer /\ event' = event /\ stage' = stage
    BY DEF Audit!Deliver, AuditTypes, Audit!AuditAssumption
  <2>2. worker' = Audit!NextSink(worker)
    BY DEF Audit!Deliver
  <2>3. \A f \in Events, s \in 1..Len(Sinks) : Settled(f, s) => Settled(f, s)'
    BY <2>1, SettledStays DEF Audit!Deliver
  <2>5. \A f \in Events, s \in 1..Len(Sinks) :
            f = worker.on /\ s = worker.sink => Settled(f, s)'
    BY DeliverSettles
  <2>6. worker'.done = worker.done /\ worker'.gone = worker.gone
    BY <2>2 DEF Audit!NextSink, AuditTypes
  <2>4. /\ arrived' \in [1..Len(Sinks) -> Seq(Events)]
        /\ warned' \subseteq Events \X (1..Len(Sinks)) /\ failures' \in Nat
    <3>1. Append(arrived[worker.sink], worker.on) \in Seq(Events)
      BY <2>1 DEF AuditTypes
    <3>2. warned \cup {<<worker.on, worker.sink>>} \subseteq Events \X (1..Len(Sinks))
      BY <2>1 DEF AuditTypes
    <3>3. arrived' = arrived \/ arrived' = [arrived EXCEPT ![worker.sink] = Append(@, worker.on)]
      BY DEF Audit!Deliver
    <3>4. arrived' \in [1..Len(Sinks) -> Seq(Events)]
      BY <2>1, <3>1, <3>3 DEF AuditTypes
    <3>5. warned' = warned \/ warned' = warned \cup {<<worker.on, worker.sink>>}
      BY DEF Audit!Deliver
    <3>6. warned' \subseteq Events \X (1..Len(Sinks))
      BY <3>2, <3>5 DEF AuditTypes
    <3>7. failures' \in Nat
      BY DEF Audit!Deliver, AuditTypes
    <3> QED BY <3>4, <3>6, <3>7
  <2>7. CASE worker.sink = Len(Sinks)
    <3>1. worker'.on = Idle
      BY <2>2, <2>7 DEF Audit!NextSink, AuditTypes
    <3>2. AuditTypes'
      BY <2>2, <2>7, <2>1, <2>4 DEF Audit!NextSink, AuditTypes
    <3>3. DeliveryInv' BY <3>1 DEF DeliveryInv
    <3>4. \A s \in 1..Len(Sinks) : s < worker.sink \/ s = worker.sink
      BY <2>1, <2>7
    <3>5. \A f \in Events : f = worker.on => \A s \in 1..Len(Sinks) : Settled(f, s)'
      BY <2>1, <2>3, <2>5, <3>4 DEF DeliveryInv, Audit!Deliver
    <3>6. WayInv' BY <2>1, <2>3, <3>5 DEF WayInv, Queued
    <3>7. GoneInv' BY <2>1, <2>6, <3>1 DEF GoneInv, Queued
    <3> QED BY <3>2, <3>3, <3>6, <3>7
  <2>8. CASE worker.sink # Len(Sinks)
    <3>1. worker'.on = worker.on /\ worker'.sink = worker.sink + 1
      BY <2>2, <2>8 DEF Audit!NextSink, AuditTypes
    <3>2. AuditTypes'
      <4>1. worker' = [worker EXCEPT !.sink = worker.sink + 1]
        BY <2>2, <2>8 DEF Audit!NextSink, AuditTypes
      <4>2. worker.sink + 1 \in 1..Len(Sinks) /\ worker.sink + 1 \in Nat
        BY <2>1, <2>8
      <4> QED BY <2>1, <2>4, <4>1, <4>2 DEF AuditTypes
    <3>3. DeliveryInv'
      BY <2>1, <2>3, <2>5, <3>1 DEF DeliveryInv, Audit!Deliver
    <3>4. WayInv' BY <2>1, <2>3, <3>1 DEF WayInv, Queued
    <3>5. GoneInv' BY <2>1, <2>6, <3>1 DEF GoneInv, Queued
    <3> QED BY <3>2, <3>3, <3>4, <3>5
  <2> QED BY <2>7, <2>8
<1>8. CASE Audit!Close \/ Audit!CloseReturns \/ Audit!Exit
  <2>1. AuditTypes' BY <1>8 DEF Audit!Close, Audit!CloseReturns, Audit!Exit, AuditTypes
  <2>2. UNCHANGED <<event, buffer, worker, arrived, warned>> /\ stage' # "up"
    BY <1>8 DEF Audit!Close, Audit!CloseReturns, Audit!Exit
  <2> QED BY <2>1, <2>2 DEF DeliveryInv, WayInv, GoneInv, Settled, Audit!Has, Queued
<1>9. CASE UNCHANGED Audit!vars
  BY <1>9 DEF Audit!vars, AuditTypes, DeliveryInv, WayInv, GoneInv, Settled, Audit!Has, Queued
<1> QED BY <1>1, <1>2, <1>3, <1>4, <1>5, <1>6, <1>7, <1>8, <1>9 DEF Audit!Next

\* Every event is on its way, or settled at each sink (audit.go run, deliver).
THEOREM OnTheWay == ASSUME Audit!AuditAssumption PROVE Audit!Spec => []IInv
<1> USE Audit!AuditAssumption
<1>1. Audit!Init => IInv
  BY InitIInv
<1>2. IInv /\ [Audit!Next]_Audit!vars => IInv'
  BY NextIInv
<1> QED BY <1>1, <1>2, PTL DEF Audit!Spec

\* However many events, sinks and places there are: when Close has returned, every event
\* that was queued before it was called is with each sink, or the log warns that it is
\* not (audit.go Close).
THEOREM CloseDrains == ASSUME Audit!AuditAssumption PROVE Audit!Spec => []Audit!DrainedByClose
<1> USE Audit!AuditAssumption
<1>1. IInv => Audit!DrainedByClose
  <2> SUFFICES ASSUME IInv, worker.gone, NEW e \in Events, event[e] = "queued",
                      NEW s \in DOMAIN arrived
               PROVE  Settled(e, s)
    BY DEF Audit!DrainedByClose, Settled
  <2>1. ~Queued(e) /\ worker.on # e
    BY DEF IInv, GoneInv, Audit!AuditAssumption
  <2>2. s \in 1..Len(Sinks)
    BY DEF IInv, AuditTypes
  <2> QED BY <2>1, <2>2 DEF IInv, WayInv
<1> QED BY <1>1, OnTheWay, PTL

----------------------------------------------------------------------------
(* Each sink has the events in the order of the buffer.                    *)

\* What is in the buffer, with the worker or with a sink was queued.
OnWay == {"queued", "late"}

\* The buffer has each event once, and none that the worker has or a sink.
BufferInv ==
    /\ \A i \in 1..Len(buffer) :
          /\ event[buffer[i]] \in OnWay /\ buffer[i] # worker.on
          /\ \A s \in 1..Len(Sinks) : ~Audit!Has(s, buffer[i])
    /\ \A i, j \in 1..Len(buffer) : buffer[i] = buffer[j] => i = j

\* The worker's event is the last one of the sinks before its sink, and the others have
\* not got it.
WorkerInv ==
    worker.on # Idle =>
        /\ event[worker.on] \in OnWay
        /\ \A s \in 1..Len(Sinks) : \A i \in 1..Len(arrived[s]) :
              arrived[s][i] = worker.on => s < worker.sink /\ i = Len(arrived[s])

ArrivedInv == \A s \in 1..Len(Sinks) : \A i \in 1..Len(arrived[s]) : event[arrived[s][i]] \in OnWay

\* No two events are with two sinks, or twice with one, in opposite orders.
Crosses(s, t, i, j, k, l) ==
    i < j /\ k <= l /\ arrived[t][k] = arrived[s][j] /\ arrived[t][l] = arrived[s][i]

OrderInv ==
    \A s, t \in 1..Len(Sinks) : \A i, j \in 1..Len(arrived[s]), k, l \in 1..Len(arrived[t]) :
        ~Crosses(s, t, i, j, k, l)

SeqInv == BufferInv /\ WorkerInv /\ ArrivedInv /\ OrderInv

\* A step gives an event to one sink, as its last one.
Gets(n, x) ==
    /\ Len(arrived'[n]) = Len(arrived[n]) + 1 /\ Len(arrived[n]) \in Nat
    /\ arrived'[n][Len(arrived[n]) + 1] = x
    /\ \A i \in 1..Len(arrived[n]) : arrived'[n][i] = arrived[n][i]
    /\ \A s \in 1..Len(Sinks) : s # n => arrived'[s] = arrived[s]

\* Only events are with a sink.
LEMMA ArrivedEvents ==
    ASSUME AuditTypes
    PROVE  \A s \in 1..Len(Sinks) : \A i \in 1..Len(arrived[s]) : arrived[s][i] \in Events
<1>1. ASSUME NEW s \in 1..Len(Sinks), NEW i \in 1..Len(arrived[s])
      PROVE  arrived[s][i] \in Events
  BY DEF AuditTypes
<1> QED
  BY <1>1

LEMMA Delivered ==
    ASSUME Audit!AuditAssumption, AuditTypes, NEW x \in Events, NEW n \in 1..Len(Sinks),
           arrived' = [arrived EXCEPT ![n] = Append(@, x)]
    PROVE  Gets(n, x)
BY DEF AuditTypes, Gets

\* The order is kept.
LEMMA OrderKept ==
    ASSUME Audit!AuditAssumption, AuditTypes, SeqInv, NEW x \in Events, NEW n \in 1..Len(Sinks),
           x = worker.on, x # Idle, n = worker.sink,
           arrived' = [arrived EXCEPT ![n] = Append(@, x)]
    PROVE  OrderInv'
<1>d. Gets(n, x)
  BY Delivered
<1> DEFINE z == Len(arrived[n]) + 1
<1>1. /\ Len(arrived'[n]) = z /\ Len(arrived[n]) \in Nat /\ arrived'[n][z] = x
      /\ \A i \in 1..Len(arrived[n]) : arrived'[n][i] = arrived[n][i]
      /\ \A s \in 1..Len(Sinks) : s # n => arrived'[s] = arrived[s]
  BY <1>d DEF Gets
<1>2. \A s \in 1..Len(Sinks) : Len(arrived[s]) \in Nat
  BY DEF AuditTypes
<1>n. n \in Nat /\ Len(Sinks) \in Nat
  BY DEF Audit!AuditAssumption
<1>3. \A s \in 1..Len(Sinks) : \A i \in 1..Len(arrived[s]) :
         arrived[s][i] = x => s < n /\ i = Len(arrived[s])
  BY DEF SeqInv, WorkerInv
\* Where the event is now: last wherever it is.
<1>4. \A s \in 1..Len(Sinks) : \A i \in 1..Len(arrived'[s]) :
         arrived'[s][i] = x => i = Len(arrived'[s])
  <2> SUFFICES ASSUME NEW s \in 1..Len(Sinks), NEW i \in 1..Len(arrived'[s]), arrived'[s][i] = x
               PROVE  i = Len(arrived'[s])
    OBVIOUS
  <2>1. CASE s # n
    BY <1>1, <1>3, <2>1
  <2>2. CASE s = n
    <3>1. i \in 1..Len(arrived[n]) \/ i = z
      BY <1>1, <2>2
    <3>2. i \in 1..Len(arrived[n]) => n < n
      BY <1>1, <1>3, <2>2
    <3> QED
      BY <1>1, <1>n, <2>2, <3>1, <3>2
  <2> QED
    BY <2>1, <2>2
<1> SUFFICES ASSUME NEW s \in 1..Len(Sinks), NEW t \in 1..Len(Sinks),
                    NEW i \in 1..Len(arrived'[s]), NEW j \in 1..Len(arrived'[s]),
                    NEW k \in 1..Len(arrived'[t]), NEW l \in 1..Len(arrived'[t]),
                    Crosses(s, t, i, j, k, l)'
             PROVE  FALSE
  BY DEF OrderInv
<1>c. i < j /\ k <= l /\ arrived'[t][k] = arrived'[s][j] /\ arrived'[t][l] = arrived'[s][i]
  BY DEF Crosses
<1>l. /\ Len(arrived'[s]) \in Nat /\ Len(arrived'[t]) \in Nat
      /\ i \in Nat /\ j \in Nat /\ k \in Nat /\ l \in Nat
      /\ i <= Len(arrived'[s]) /\ j <= Len(arrived'[s]) /\ k <= Len(arrived'[t]) /\ l <= Len(arrived'[t])
  BY <1>1, <1>2
<1>5. arrived'[s][i] # x
  BY <1>4, <1>c, <1>l
<1>6. arrived'[s][j] # x
  <2> SUFFICES ASSUME arrived'[s][j] = x PROVE FALSE
    OBVIOUS
  <2>1. k = Len(arrived'[t])
    BY <1>4, <1>c
  <2>2. l = k
    BY <1>c, <1>l, <2>1
  <2> QED
    BY <1>c, <1>5, <2>2
<1>7. \A u \in 1..Len(Sinks) : \A m \in 1..Len(arrived'[u]) :
         arrived'[u][m] # x => m \in 1..Len(arrived[u]) /\ arrived'[u][m] = arrived[u][m]
  <2> SUFFICES ASSUME NEW u \in 1..Len(Sinks), NEW m \in 1..Len(arrived'[u]), arrived'[u][m] # x
               PROVE  m \in 1..Len(arrived[u]) /\ arrived'[u][m] = arrived[u][m]
    OBVIOUS
  <2>1. CASE u = n
    BY <1>1, <1>2, <2>1
  <2>2. CASE u # n
    BY <1>2, <2>2
  <2> QED
    BY <2>1, <2>2
<1>8. /\ i \in 1..Len(arrived[s]) /\ arrived'[s][i] = arrived[s][i]
      /\ j \in 1..Len(arrived[s]) /\ arrived'[s][j] = arrived[s][j]
      /\ k \in 1..Len(arrived[t]) /\ arrived'[t][k] = arrived[t][k]
      /\ l \in 1..Len(arrived[t]) /\ arrived'[t][l] = arrived[t][l]
  <2>1. i \in 1..Len(arrived[s]) /\ arrived'[s][i] = arrived[s][i]
    BY <1>5, <1>7
  <2>2. j \in 1..Len(arrived[s]) /\ arrived'[s][j] = arrived[s][j]
    BY <1>6, <1>7
  <2>3. k \in 1..Len(arrived[t]) /\ arrived'[t][k] = arrived[t][k]
    <3>1. arrived'[t][k] # x
      BY <1>c, <1>6
    <3> QED
      BY <1>7, <3>1
  <2>4. l \in 1..Len(arrived[t]) /\ arrived'[t][l] = arrived[t][l]
    <3>1. arrived'[t][l] # x
      BY <1>c, <1>5
    <3> QED
      BY <1>7, <3>1
  <2> QED
    BY <2>1, <2>2, <2>3, <2>4
<1>9. ~Crosses(s, t, i, j, k, l)
  BY <1>8 DEF SeqInv, OrderInv
<1> QED
  BY <1>c, <1>8, <1>9 DEF Crosses

LEMMA NextSeqInv == ASSUME Audit!AuditAssumption, IInv, SeqInv, [Audit!Next]_Audit!vars PROVE SeqInv'
<1> USE DEF SeqInv
<1>t. AuditTypes
  BY DEF IInv
<1>e. Idle \notin Events /\ Len(Sinks) \in Nat
  BY DEF Audit!AuditAssumption
\* Steps that change neither the buffer, nor the worker's event, nor the sinks.
<1>k. ASSUME buffer' = buffer, worker'.on = worker.on, worker'.sink = worker.sink, arrived' = arrived,
             \A e \in Events : event[e] \in OnWay => event'[e] \in OnWay
      PROVE  SeqInv'
  <2>1. \A i \in 1..Len(buffer) : buffer[i] \in Events
    BY <1>t DEF AuditTypes
  <2>2. \A s \in 1..Len(Sinks) : \A i \in 1..Len(arrived[s]) : arrived[s][i] \in Events
    BY <1>t, ArrivedEvents
  <2>3. BufferInv'
    BY <1>k, <2>1 DEF BufferInv, Audit!Has
  <2>4. WorkerInv'
    BY <1>k, <1>t DEF WorkerInv, AuditTypes
  <2>5. ArrivedInv'
    BY <1>k, <2>2 DEF ArrivedInv
  <2>6. OrderInv'
    <3>1. arrived' = arrived /\ OrderInv
      BY <1>k
    <3> HIDE DEF SeqInv
    <3> QED
      BY ONLY <3>1 DEF OrderInv, Crosses
  <2> QED
    BY <2>3, <2>4, <2>5, <2>6
<1>1. ASSUME NEW e \in Events, Audit!Insert(e) PROVE SeqInv'
  <2>1. \A f \in Events : event[f] \in OnWay => event'[f] \in OnWay
    BY <1>1, <1>t DEF Audit!Insert, AuditTypes, OnWay
  <2> QED
    BY <1>1, <1>k, <2>1 DEF Audit!Insert
<1>2. ASSUME NEW e \in Events, Audit!Emit(e), ~(Len(buffer) < QueueSize) PROVE SeqInv'
  <2>1. \A f \in Events : event[f] \in OnWay => event'[f] \in OnWay
    BY <1>2, <1>t DEF Audit!Emit, AuditTypes, OnWay
  <2> QED
    BY <1>2, <1>k, <2>1 DEF Audit!Emit
<1>3. ASSUME NEW e \in Events, Audit!Emit(e), Len(buffer) < QueueSize PROVE SeqInv'
  <2>1. buffer' = Append(buffer, e) /\ worker' = worker /\ arrived' = arrived /\ event[e] = "row"
    BY <1>3 DEF Audit!Emit
  <2>2. /\ \A f \in Events : event[f] \in OnWay => event'[f] \in OnWay /\ f # e
        /\ event'[e] \in OnWay
    BY <1>3, <1>t DEF Audit!Emit, AuditTypes, OnWay
  <2>3. /\ Len(buffer') = Len(buffer) + 1 /\ Len(buffer) \in Nat /\ buffer'[Len(buffer) + 1] = e
        /\ \A i \in 1..Len(buffer) : buffer'[i] = buffer[i] /\ buffer[i] \in Events
    BY <1>t, <2>1 DEF AuditTypes
  <2>4. \A s \in 1..Len(Sinks) : \A i \in 1..Len(arrived[s]) : arrived[s][i] \in Events /\ arrived[s][i] # e
    <3>1. ASSUME NEW s \in 1..Len(Sinks), NEW i \in 1..Len(arrived[s])
          PROVE  arrived[s][i] \in Events /\ arrived[s][i] # e
      <4>1. arrived[s][i] \in Events
        BY <1>t, ArrivedEvents
      <4>2. event[arrived[s][i]] \in OnWay
        BY DEF ArrivedInv
      <4> QED
        BY <2>2, <4>1, <4>2
    <3> QED
      BY <3>1
  <2>5. worker.on # e
    BY <1>e, <2>2, <1>t DEF WorkerInv, AuditTypes
  <2>6. BufferInv'
    <3>1. \A s \in 1..Len(Sinks) : ~Audit!Has(s, e)'
      <4>1. \A s \in 1..Len(Sinks) : DOMAIN arrived[s] = 1..Len(arrived[s])
        BY <1>t DEF AuditTypes
      <4> QED
        BY <2>1, <2>4, <4>1 DEF Audit!Has
    <3>2. \A i \in 1..Len(buffer) : /\ event'[buffer[i]] \in OnWay /\ buffer[i] # e /\ buffer[i] # worker'.on
                                    /\ \A s \in 1..Len(Sinks) : ~Audit!Has(s, buffer[i])'
      BY <2>1, <2>2, <2>3 DEF BufferInv, Audit!Has
    <3> QED
      BY <2>1, <2>2, <2>3, <2>5, <3>1, <3>2 DEF BufferInv
  <2>7. WorkerInv'
    BY <1>t, <2>1, <2>2 DEF WorkerInv, AuditTypes
  <2>8. ArrivedInv'
    BY <2>2, <2>4, <2>1 DEF ArrivedInv
  <2>9. OrderInv'
    BY <2>1 DEF OrderInv, Crosses
  <2> QED
    BY <2>6, <2>7, <2>8, <2>9
<1>4. CASE Audit!Take
  <2>1. /\ buffer \in Seq(Events) /\ buffer # <<>> /\ Head(buffer) = buffer[1] /\ Head(buffer) \in Events
        /\ Len(Tail(buffer)) = Len(buffer) - 1 /\ Len(buffer) \in Nat \ {0}
        /\ \A i \in 1..Len(Tail(buffer)) : Tail(buffer)[i] = buffer[i + 1]
    BY <1>4, <1>t DEF Audit!Take, AuditTypes
  <2>2. /\ buffer' = Tail(buffer) /\ arrived' = arrived /\ event' = event
        /\ worker'.on = Head(buffer) /\ worker'.sink = 1
    BY <1>4, <1>t DEF Audit!Take, AuditTypes
  <2>3. \A i \in 1..Len(buffer') : /\ i + 1 \in 1..Len(buffer) /\ buffer'[i] = buffer[i + 1]
                                   /\ i \in Nat
    BY <2>1, <2>2
  <2>4. 1 \in 1..Len(buffer)
    BY <2>1
  <2>5. BufferInv'
    <3>1. ASSUME NEW i \in 1..Len(buffer')
          PROVE  /\ event'[buffer'[i]] \in OnWay /\ buffer'[i] # worker'.on
                 /\ \A s \in 1..Len(Sinks) : ~\E m \in DOMAIN arrived'[s] : arrived'[s][m] = buffer'[i]
      BY <2>3, <2>4, <2>2, <2>1 DEF BufferInv, Audit!Has
    <3>2. ASSUME NEW i \in 1..Len(buffer'), NEW j \in 1..Len(buffer'), buffer'[i] = buffer'[j]
          PROVE  i = j
      BY <2>3, <3>2 DEF BufferInv
    <3> QED
      BY <3>1, <3>2 DEF BufferInv, Audit!Has
  <2>6. WorkerInv'
    <3>1. \A s \in 1..Len(Sinks) : \A i \in 1..Len(arrived[s]) : arrived[s][i] # Head(buffer)
      <4>1. \A s \in 1..Len(Sinks) : DOMAIN arrived[s] = 1..Len(arrived[s])
        BY <1>t DEF AuditTypes
      <4> QED
        BY <2>1, <2>4, <4>1 DEF BufferInv, Audit!Has
    <3>2. event[Head(buffer)] \in OnWay
      BY <2>1, <2>4 DEF BufferInv
    <3> QED
      BY <2>2, <3>1, <3>2 DEF WorkerInv
  <2>7. ArrivedInv'
    BY <2>2 DEF ArrivedInv
  <2>8. OrderInv'
    BY <2>2 DEF OrderInv, Crosses
  <2> QED
    BY <2>5, <2>6, <2>7, <2>8
<1>5. CASE Audit!SeeDone
  BY <1>5, <1>k, <1>t DEF Audit!SeeDone, AuditTypes
<1>6. CASE Audit!Drained
  BY <1>6, <1>k, <1>t DEF Audit!Drained, AuditTypes
<1>7. CASE Audit!Deliver
  <2>1. /\ worker.on \in Events /\ worker.on # Idle /\ worker.sink \in 1..Len(Sinks)
        /\ buffer' = buffer /\ event' = event /\ worker' = Audit!NextSink(worker)
    BY <1>7, <1>t DEF Audit!Deliver, AuditTypes
  <2>2. \/ worker'.on = Idle
        \/ worker'.on = worker.on /\ worker'.sink = worker.sink + 1
    BY <1>t, <2>1 DEF Audit!NextSink, AuditTypes
  <2>3. CASE arrived' = arrived
    <3>1. BufferInv'
      <4>1. \A i \in 1..Len(buffer) : buffer[i] # Idle
        BY <1>t, <1>e DEF AuditTypes
      <4> QED
        BY <2>1, <2>2, <2>3, <4>1 DEF BufferInv, Audit!Has
    <3>2. WorkerInv'
      BY <2>1, <2>2, <2>3 DEF WorkerInv
    <3> QED
      BY <2>1, <2>3, <3>1, <3>2 DEF ArrivedInv, OrderInv, Crosses
  <2>4. CASE arrived' = [arrived EXCEPT ![worker.sink] = Append(@, worker.on)]
    <3> DEFINE n == worker.sink
               x == worker.on
               z == Len(arrived[n]) + 1
    <3>1. /\ Len(arrived'[n]) = z /\ Len(arrived[n]) \in Nat /\ arrived'[n][z] = x
          /\ \A i \in 1..Len(arrived[n]) : arrived'[n][i] = arrived[n][i]
          /\ \A s \in 1..Len(Sinks) : s # n => arrived'[s] = arrived[s]
      <4>1. Gets(n, x)
        BY <2>1, <2>4, <1>t, Delivered
      <4> QED
        BY <4>1 DEF Gets
    <3>2. OrderInv'
      BY <2>1, <2>4, <1>t, OrderKept
    <3>3. ArrivedInv'
      <4>1. event[x] \in OnWay
        BY <2>1 DEF WorkerInv
      <4>2. ASSUME NEW s \in 1..Len(Sinks), NEW i \in 1..Len(arrived'[s])
            PROVE  event[arrived'[s][i]] \in OnWay
        <5>1. CASE s # n
          BY <3>1, <5>1 DEF ArrivedInv
        <5>2. CASE s = n
          <6>1. i \in 1..Len(arrived[n]) \/ i = z
            BY <3>1, <5>2
          <6> QED
            BY <2>1, <3>1, <4>1, <5>2, <6>1 DEF ArrivedInv
        <5> QED
          BY <5>1, <5>2
      <4> QED
        BY <2>1, <4>2 DEF ArrivedInv
    <3>4. ASSUME NEW s \in 1..Len(Sinks), NEW i \in 1..Len(arrived'[s])
          PROVE  (i \in 1..Len(arrived[s]) /\ arrived'[s][i] = arrived[s][i]) \/ (s = n /\ i = z)
      BY <3>1
    <3>5. BufferInv'
      <4>1. \A i \in 1..Len(buffer) : buffer[i] # Idle
        BY <1>t, <1>e DEF AuditTypes
      <4>2. \A s \in 1..Len(Sinks) : DOMAIN arrived[s] = 1..Len(arrived[s]) /\ DOMAIN arrived'[s] = 1..Len(arrived'[s])
        <5>1. \A s \in 1..Len(Sinks) : arrived[s] \in Seq(Events)
          BY <1>t DEF AuditTypes
        <5>2. \A s \in 1..Len(Sinks) : arrived'[s] = arrived[s] \/ arrived'[s] = Append(arrived[s], x)
          BY <2>4, <1>t DEF AuditTypes
        <5> QED
          BY <2>1, <5>1, <5>2
      <4>3. ASSUME NEW i \in 1..Len(buffer), NEW s \in 1..Len(Sinks), NEW m \in 1..Len(arrived'[s])
            PROVE  arrived'[s][m] # buffer[i]
        <5>1. buffer[i] # x /\ ~Audit!Has(s, buffer[i])
          BY DEF BufferInv
        <5>2. CASE m \in 1..Len(arrived[s]) /\ arrived'[s][m] = arrived[s][m]
          BY <4>2, <5>1, <5>2 DEF Audit!Has
        <5>3. CASE s = n /\ m = z
          BY <3>1, <5>1, <5>3
        <5> QED
          BY <3>4, <5>2, <5>3
      <4>4. \A i \in 1..Len(buffer), s \in 1..Len(Sinks) :
               ~\E m \in DOMAIN arrived'[s] : arrived'[s][m] = buffer[i]
        BY <4>2, <4>3
      <4> QED
        BY <2>1, <2>2, <4>1, <4>4 DEF BufferInv, Audit!Has
    <3>6. WorkerInv'
      <4> SUFFICES ASSUME worker'.on = x, worker'.sink = n + 1
                   PROVE  \A s \in 1..Len(Sinks) : \A i \in 1..Len(arrived'[s]) :
                             arrived'[s][i] = x => s < n + 1 /\ i = Len(arrived'[s])
        BY <2>1, <2>2 DEF WorkerInv
      <4>1. n \in Nat
        BY <1>e, <2>1
      <4>2. \A s \in 1..Len(Sinks) : \A i \in 1..Len(arrived[s]) :
               arrived[s][i] = x => s < n /\ i = Len(arrived[s])
        BY <2>1 DEF WorkerInv
      <4> QED
        BY <3>1, <3>4, <4>1, <4>2
    <3> QED
      BY <3>2, <3>3, <3>5, <3>6
  <2> QED
    BY <1>7, <2>3, <2>4 DEF Audit!Deliver
<1>8. CASE Audit!Close \/ Audit!CloseReturns \/ Audit!Exit
  BY <1>8, <1>k DEF Audit!Close, Audit!CloseReturns, Audit!Exit
<1>9. CASE UNCHANGED Audit!vars
  BY <1>9, <1>k DEF Audit!vars
<1> QED
  BY <1>1, <1>2, <1>3, <1>4, <1>5, <1>6, <1>7, <1>8, <1>9 DEF Audit!Next

\* However many events, sinks and failures there are: no sink has an event twice, one that
\* is not in the table, or two that another sink has in the other order (audit.go run).
THEOREM SinksAgree == ASSUME Audit!AuditAssumption PROVE Audit!Spec => []Audit!SameOrder
<1> USE Audit!AuditAssumption
<1>1. Audit!Init => SeqInv
  BY DEF Audit!AuditAssumption, Audit!Init, SeqInv, BufferInv, WorkerInv, ArrivedInv, OrderInv
<1>2. IInv /\ SeqInv /\ [Audit!Next]_Audit!vars => SeqInv'
  BY NextSeqInv
<1>3. IInv /\ SeqInv => Audit!SameOrder
  <2> SUFFICES ASSUME IInv, SeqInv PROVE Audit!SameOrder
    OBVIOUS
  <2>1. DOMAIN arrived = 1..Len(Sinks) /\ \A s \in DOMAIN arrived : DOMAIN arrived[s] = 1..Len(arrived[s])
    BY DEF IInv, AuditTypes
  <2>2. \A s \in DOMAIN arrived : \A i \in DOMAIN arrived[s] : event[arrived[s][i]] \in {"queued", "late"}
    BY <2>1 DEF SeqInv, ArrivedInv, OnWay
  <2>3. \A s, t \in DOMAIN arrived : \A i, j \in DOMAIN arrived[s] : \A k, l \in DOMAIN arrived[t] :
           i < j => ~(k <= l /\ arrived[t][k] = arrived[s][j] /\ arrived[t][l] = arrived[s][i])
    BY <2>1 DEF SeqInv, OrderInv, Crosses
  <2> QED
    BY <2>2, <2>3 DEF Audit!SameOrder
<1> QED
  BY <1>1, <1>2, <1>3, OnTheWay, PTL DEF Audit!Spec

\* The two together: nothing queued before Close is lost without a warning, and every sink
\* tells the events in the same order.
THEOREM AuditIsSound == ASSUME Audit!AuditAssumption PROVE Audit!Spec => []Audit!AuditInv
<1>1. Audit!DrainedByClose /\ Audit!SameOrder => Audit!AuditInv
  BY DEF Audit!AuditInv
<1> QED
  BY <1>1, CloseDrains, SinksAgree, PTL

----------------------------------------------------------------------------
(***************************************************************************)
(* One chat with the assistant.  ChatInv is inductive once it is said what *)
(* a stream at its gate knows (StageInv): that nobody else is at that gate *)
(* (OneInv), that nothing ran for it yet, and, while it waits, that its    *)
(* channel is in the map and a decision that was made is in the channel or *)
(* in the hands of the request that made it.  What holds of the channels,  *)
(* of these requests and of the rows that are pending (ChannelInv,         *)
(* SignalInv, PendingInv) says the same from their side; while the process *)
(* is down nobody is at a gate (DownInv).                                  *)
(***************************************************************************)
CONSTANTS Approvals, Calls, Gated, MaxIterations, MaxRetries, None, Gone, Users, Scenarios
VARIABLES scenario, user, up, chat, message, artifacts, row, log, approvals, stream, ran, bare,
          orphans, edits, crashes

Chat == INSTANCE BrainChat

\* A turn of a stream, from its first statement on.
Turn(r) ==
    /\ r = [at |-> r.at, seen |-> r.seen, iterations |-> r.iterations, calls |-> r.calls,
            gate |-> r.gate, said |-> r.said, failures |-> r.failures]
    /\ r.seen \in Chat!Chats

Lost == [at |-> "lost"]
Outcomes == {"declined", "success", "error"}
RowStatuses == {None, "pending", "approved", "declined", "timeout", "abandoned", "interrupted"}
\* Where a turn has no gate, and where it may have one.
Stages == {"asked", "stored", "loop", "plain", "call", "closing", "saving", "done"}
Asking == {"asking", "waiting", "decided"}
Gating == Asking \cup {"marking", "run"}

StreamShape(s) ==
    \/ stream[s] \in {Chat!Quiet, Lost}
    \/ Turn(stream[s]) /\ stream[s].at \in Stages \cup Gating \cup {"abandoned"}

UserShape(u) ==
    \/ user[u] = Chat!Quiet
    \/ /\ user[u].at = "signal"
       /\ user[u] = [at |-> user[u].at, approval |-> user[u].approval, says |-> user[u].says]
    \/ /\ user[u].at \in {"update", "delete", "artifact"} /\ user[u].seen \in Chat!Chats
       /\ user[u] = [at |-> user[u].at, body |-> user[u].body, seen |-> user[u].seen]

ChatShape ==
    /\ scenario \in Scenarios /\ up \in BOOLEAN /\ bare \in BOOLEAN
    /\ chat \in Chat!Chats \cup {Gone}
    /\ stream = [s \in Streams |-> stream[s]] /\ \A s \in Streams : StreamShape(s)
    /\ user = [u \in Users |-> user[u]] /\ \A u \in Users : UserShape(u)
    /\ row \in [Approvals -> RowStatuses]
    /\ log \in [Approvals -> SUBSET ({"pending_approval"} \cup Outcomes)]
    /\ ran \in [Approvals -> Nat]
    /\ message = [s \in Streams |-> message[s]]
    /\ DOMAIN approvals \subseteq Approvals
    /\ approvals = [a \in DOMAIN approvals |-> approvals[a]]

At(s, ats) == stream[s].at \in ats
Fresh(a) == a \in Approvals /\ ran[a] = 0 /\ log[a] \cap Outcomes = {}
\* The decision of a is in its channel, or will be.
Told(a) ==
    \/ approvals[a] = <<row[a]>>
    \/ \E u \in Users : user[u].at = "signal" /\ user[u].approval = a /\ user[u].says = row[a]

\* What a stream at its gate knows of its approval.
StageOf(s) ==
    LET a == stream[s].gate  said == stream[s].said IN
    /\ At(s, Stages) => a = None
    /\ At(s, {"run"}) /\ a = None => scenario.faults
    /\ At(s, Gating \ {"run"}) => a # None
    /\ At(s, Gating) /\ a # None => Fresh(a)
    /\ At(s, Asking) => a \in DOMAIN approvals
    /\ At(s, {"asking"}) => row[a] = None
    /\ At(s, {"waiting", "decided", "marking"}) => row[a] # None
    /\ At(s, {"waiting"}) /\ row[a] # "pending" => Told(a)
    /\ At(s, {"decided", "marking"}) =>
          said \in {"timeout", "abandoned"} \/ (said \in {"approved", "declined"} /\ row[a] = said)
    /\ At(s, {"run"}) /\ a # None => row[a] = "approved"

StageInv == \A s \in Streams : StageOf(s)

\* Two streams are never at one gate.
OneInv ==
    \A s, t \in Streams :
       At(s, Gating) /\ At(t, Gating) /\ stream[s].gate = stream[t].gate /\ stream[s].gate # None
          => s = t

\* A channel has a stream, and holds nothing but the decision of the row.
ChannelInv ==
    \A a \in DOMAIN approvals :
       /\ approvals[a] # <<>> => approvals[a] = <<row[a]>> /\ row[a] \in {"approved", "declined"}
       /\ \E s \in Streams : At(s, Asking) /\ stream[s].gate = a

\* Who is about to send a decision has made it.
SignalInv ==
    \A u \in Users : user[u].at = "signal" =>
       /\ user[u].approval \in Approvals /\ user[u].says \in {"approved", "declined"}
       /\ row[user[u].approval] = user[u].says

PendingInv ==
    \A a \in Approvals : row[a] = "pending" =>
       \/ a \in orphans \/ scenario.faults
       \/ \E s \in Streams : At(s, {"waiting", "decided", "marking"}) /\ stream[s].gate = a

DownInv ==
    ~up => /\ DOMAIN approvals = {} /\ \A u \in Users : user[u] = Chat!Quiet
           /\ \A s \in Streams : ~Chat!Live(s)

MessageInv ==
    \A s \in Streams :
       At(s, {"quiet", "asked", "saving", "done"}) => message[s] # "streaming" \/ scenario.faults

GoneHasNone == chat = Gone => artifacts = 0

GateInv == StageInv /\ OneInv /\ ChannelInv /\ SignalInv /\ PendingInv /\ DownInv /\ Chat!GateHolds
ChatIInv == ChatShape /\ GateInv /\ MessageInv /\ GoneHasNone

----------------------------------------------------------------------------
\* Where a step takes one stream; the others stay.
Moves(s, at, gate, said) ==
    /\ stream' = [t \in Streams |-> stream'[t]]
    /\ \A t \in Streams : t # s => stream'[t] = stream[t]
    /\ Turn(stream'[s])
    /\ stream'[s].at = at /\ stream'[s].gate = gate /\ stream'[s].said = said

LEMMA MovesTo ==
  ASSUME ChatShape, NEW s \in Streams, Turn(stream[s]), NEW at, Chat!To(s, at)
  PROVE  Moves(s, at, stream[s].gate, stream[s].said)
BY DEF ChatShape, Chat!To, Turn, Moves

LEMMA AtTurn ==
  ASSUME ChatShape, NEW s \in Streams, stream[s].at \notin {"quiet", "lost"}
  PROVE  Turn(stream[s])
BY DEF ChatShape, StreamShape, Lost, Chat!Quiet

LEMMA SkipMoves ==
  ASSUME ChatShape, NEW s \in Streams, Turn(stream[s]), Chat!Skip(s)
  PROVE  \E at \in {"loop", "call"} : Moves(s, at, None, None)
<1> DEFINE at == IF Len(stream[s].calls) = 1 THEN "loop" ELSE "call"
<1>1. /\ stream'[s] = [stream[s] EXCEPT !.at = at, !.calls = Tail(@), !.gate = None, !.said = None]
      /\ \A t \in Streams : t # s => stream'[t] = stream[t]
  BY DEF ChatShape, Chat!Skip
<1>2. Turn(stream'[s]) /\ stream'[s].at = at /\ stream'[s].gate = None /\ stream'[s].said = None
  BY <1>1 DEF Turn
<1>3. Moves(s, at, None, None)
  BY <1>1, <1>2 DEF Moves, ChatShape, Chat!Skip
<1> QED BY <1>3

----------------------------------------------------------------------------
\* A step between two stages leaves the approvals alone: nothing runs, or a call that
\* needs no approval, or got none because its row was not stored.
Held ==
    /\ up /\ UNCHANGED <<up, row, log, approvals, user, ran, orphans, scenario>>
    /\ bare' = bare \/ (bare' = TRUE /\ scenario.faults)
Passes(s, from) ==
    /\ stream[s].at \in from \cup {"call", "run"}
    /\ stream[s].at = "run" => Turn(stream[s])
    /\ \E at \in Stages : \E said : Moves(s, at, None, said)
Plain(s) == Passes(s, Stages \cup {"quiet"}) /\ Held

LEMMA StageMoves ==
  ASSUME ChatShape, StageInv, NEW s \in Streams, stream[s].at \in Stages, NEW at \in Stages,
         Chat!To(s, at)
  PROVE  Passes(s, Stages \cup {"quiet"})
BY AtTurn, MovesTo DEF Stages, StageInv, StageOf, At, Passes

LEMMA BeginIsPlain ==
  ASSUME ChatShape, NEW s \in Streams, Chat!Begin(s)
  PROVE  Plain(s)
<1>1. /\ stream'[s] = [at |-> "asked", seen |-> chat, iterations |-> 0, calls |-> <<>>,
                       gate |-> None, said |-> None, failures |-> [k \in Calls |-> 0]]
      /\ \A t \in Streams : t # s => stream'[t] = stream[t]
      /\ stream' = [t \in Streams |-> stream'[t]]
  BY DEF ChatShape, Chat!Begin
<1>2. chat \in Chat!Chats
  BY DEF ChatShape, Chat!Begin
<1>3. Turn(stream'[s])
  BY <1>1, <1>2 DEF Turn
<1>4. Moves(s, "asked", None, None)
  BY <1>1, <1>3 DEF Moves
<1>5. Passes(s, Stages \cup {"quiet"})
  BY <1>4 DEF Chat!Begin, Chat!Quiet, Passes, Stages
<1> QED BY <1>5 DEF Plain, Held, Chat!Begin, Chat!rows, Chat!bounds

LEMMA StagesArePlain ==
  ASSUME ChatShape, StageInv, NEW s \in Streams,
         \/ Chat!Persist(s) \/ Chat!Resolve(s) \/ Chat!NoMoreIterations(s)
         \/ Chat!StreamChat(s) \/ Chat!Complete(s) \/ Chat!SaveChat(s)
  PROVE  Plain(s)
<1>1. stream[s].at \in Stages
  BY DEF Chat!Persist, Chat!Resolve, Chat!NoMoreIterations, Chat!StreamChat, Chat!Complete,
     Chat!SaveChat, Chat!Streaming, Stages
<1>2. \E at \in Stages : Chat!To(s, at)
  BY DEF Chat!Persist, Chat!Resolve, Chat!NoMoreIterations, Chat!StreamChat, Chat!Complete,
     Chat!SaveChat, Chat!Fails, Stages
<1>3. Held
  BY DEF Chat!Persist, Chat!Resolve, Chat!NoMoreIterations, Chat!StreamChat, Chat!Complete,
     Chat!SaveChat, Chat!Fails, Chat!Streaming, Held, Chat!rows, Chat!bounds
<1> QED BY <1>1, <1>2, <1>3, StageMoves DEF Plain

LEMMA ReplyIsPlain ==
  ASSUME ChatShape, StageInv, NEW s \in Streams, Chat!Reply(s)
  PROVE  Plain(s)
<1>1. stream[s].at = "loop"
  BY DEF Chat!Reply, Chat!Streaming
<1>2. Held
  BY DEF Chat!Reply, Chat!Fails, Chat!Streaming, Held, Chat!rows, Chat!bounds
<1>3. CASE \E at \in {"done", "plain", "closing"} : Chat!To(s, at)
  BY <1>1, <1>2, <1>3, StageMoves DEF Plain, Stages
<1>4. CASE \E calls \in scenario.replies :
              stream' = [stream EXCEPT ![s].at = "call", ![s].calls = calls,
                                       ![s].iterations = @ + 1]
  <2> PICK calls \in scenario.replies :
          stream' = [stream EXCEPT ![s].at = "call", ![s].calls = calls, ![s].iterations = @ + 1]
    BY <1>4
  <2>1. /\ stream'[s] = [stream[s] EXCEPT !.at = "call", !.calls = calls, !.iterations = @ + 1]
        /\ \A t \in Streams : t # s => stream'[t] = stream[t]
        /\ stream' = [t \in Streams |-> stream'[t]]
    BY DEF ChatShape
  <2>2. Turn(stream[s]) /\ stream[s].gate = None
    BY <1>1, AtTurn DEF StageInv, StageOf, At, Stages
  <2>3. /\ Turn(stream'[s]) /\ stream'[s].at = "call" /\ stream'[s].gate = None
        /\ stream'[s].said = stream[s].said
    BY <2>1, <2>2 DEF Turn
  <2>4. Moves(s, "call", None, stream[s].said)
    BY <2>1, <2>3 DEF Moves
  <2> QED BY <1>1, <1>2, <2>4 DEF Plain, Passes, Stages
<1> QED BY <1>3, <1>4 DEF Chat!Reply, Chat!Fails

\* A call that is executed, with what it leaves behind.
Executes(s) ==
    LET a == stream[s].gate IN
    /\ stream[s].at = "run" /\ a # None
    /\ \E at \in {"loop", "call"} : Moves(s, at, None, None)
    /\ up /\ UNCHANGED <<up, row, approvals, user, orphans, scenario>>
    /\ bare' = bare
    /\ ran' = [ran EXCEPT ![a] = @ + 1]
    /\ \E status \in {"success", "error"} :
          log' = log \/ log' = [log EXCEPT ![a] = @ \cup {status}]

LEMMA RunCases ==
  ASSUME Chat!ChatAssumption, ChatShape, StageInv, NEW s \in Streams, Chat!Run(s)
  PROVE  /\ Plain(s) \/ Executes(s)
         /\ \E at \in {"loop", "call"} : Moves(s, at, None, None)
<1> DEFINE k == Head(stream[s].calls)
           a == stream[s].gate
<1>1. stream[s].at = "run" \/ (stream[s].at = "call" /\ k \notin Gated)
  BY DEF Chat!Run, Chat!Streaming
<1>2. Turn(stream[s])
  BY <1>1, AtTurn
<1>3. /\ stream[s].at = "call" => a = None
      /\ stream[s].at = "run" /\ a = None => scenario.faults
      /\ scenario.faults \in BOOLEAN
  BY DEF StageInv, StageOf, At, Stages, ChatShape, Chat!ChatAssumption
<1>4. up /\ UNCHANGED <<up, row, approvals, user, orphans, scenario>>
  BY DEF Chat!Run, Chat!Streaming, Chat!bounds
<1>5. CASE stream[s].failures[k] >= MaxRetries
  BY <1>5, <1>2, SkipMoves, <1>1, <1>4 DEF Chat!Run, Passes, Stages, Plain, Held
<1>6. CASE ~(stream[s].failures[k] >= MaxRetries)
  <2> PICK status \in {"success", "error"} :
        /\ stream' = [stream EXCEPT
              ![s].failures[k] = IF status = "error" THEN @ + 1 ELSE 0,
              ![s].at = IF Len(stream[s].calls) = 1 THEN "loop" ELSE "call",
              ![s].calls = Tail(@), ![s].gate = None, ![s].said = None]
        /\ ran' = IF a = None THEN ran ELSE [ran EXCEPT ![a] = @ + 1]
        /\ bare' = (bare \/ (k \in Gated /\ a = None))
        /\ IF a = None THEN log' = log
           ELSE \E works \in Chat!Works : log' = [log EXCEPT ![a] =
                   IF works /\ chat # Gone THEN @ \cup {status} ELSE @]
    BY <1>6 DEF Chat!Run
  <2> DEFINE at == IF Len(stream[s].calls) = 1 THEN "loop" ELSE "call"
             more == IF status = "error" THEN stream[s].failures[k] + 1 ELSE 0
  <2>1. /\ stream'[s] = [stream[s] EXCEPT !.failures[k] = more, !.at = at, !.calls = Tail(@),
                                          !.gate = None, !.said = None]
        /\ \A t \in Streams : t # s => stream'[t] = stream[t]
        /\ stream' = [t \in Streams |-> stream'[t]]
    BY DEF ChatShape
  <2>2. /\ Turn(stream'[s]) /\ stream'[s].at = at /\ stream'[s].gate = None
        /\ stream'[s].said = None
    BY <2>1, <1>2 DEF Turn
  <2>3. \E to \in {"loop", "call"} : Moves(s, to, None, None)
    BY <2>1, <2>2 DEF Moves
  <2>4. CASE a = None
    BY <2>4, <1>1, <1>3, <1>2, <2>3, <1>4 DEF ChatShape, Passes, Stages, Plain, Held
  <2>5. CASE a # None
    BY <2>5, <1>1, <1>3, <2>3, <1>4 DEF ChatShape, Executes
  <2> QED BY <2>4, <2>5
<1> QED BY <1>5, <1>6

----------------------------------------------------------------------------
\* What a stream knows of its approval stays true of every stream whose approval a step
\* leaves as it is.
GateKept(a) ==
    /\ row'[a] = row[a] /\ ran'[a] = ran[a] /\ log'[a] \subseteq log[a]
    /\ a \in DOMAIN approvals => a \in DOMAIN approvals' /\ approvals'[a] = approvals[a]
SignalsKept == \A u \in Users : user[u].at = "signal" => user'[u] = user[u]

LEMMA StageKept ==
  ASSUME StageInv, SignalsKept, scenario' = scenario,
         NEW t \in Streams, stream'[t] = stream[t],
         At(t, Gating) /\ stream[t].gate # None => GateKept(stream[t].gate)
  PROVE  StageOf(t)'
<1>1. StageOf(t)
  BY DEF StageInv
<1>2. CASE ~At(t, Gating)
  BY <1>1, <1>2 DEF StageOf, At, Gating, Asking
<1>3. CASE At(t, Gating) /\ stream[t].gate = None
  BY <1>1, <1>3 DEF StageOf, At, Gating, Asking, Stages
<1>4. CASE At(t, Gating) /\ stream[t].gate # None
  <2> DEFINE a == stream[t].gate
  <2>1. GateKept(a) /\ Fresh(a) /\ a # None /\ (a = stream[t].gate)'
    BY <1>1, <1>4 DEF StageOf
  <2>2. Fresh(a)'
    BY <2>1 DEF Fresh, GateKept
  <2>3. At(t, {"waiting"}) /\ row[a] # "pending" => Told(a)'
    <3> SUFFICES ASSUME At(t, {"waiting"}), row[a] # "pending" PROVE Told(a)'
      OBVIOUS
    <3>1. Told(a) /\ a \in DOMAIN approvals
      BY <1>1 DEF StageOf, At, Asking
    <3> QED BY <3>1, <2>1 DEF Told, GateKept, SignalsKept
  <2>4. \A ats : At(t, ats)' <=> At(t, ats)
    BY DEF At
  <2>5. At(t, Asking) => a \in DOMAIN approvals'
    BY <1>1, <2>1 DEF StageOf, GateKept
  <2>6. ~At(t, Stages)
    BY <1>1, <2>1 DEF StageOf
  <2>7. /\ At(t, {"asking"}) => row'[a] = None
        /\ At(t, {"waiting", "decided", "marking"}) => row'[a] # None
        /\ At(t, {"run"}) => row'[a] = "approved"
        /\ At(t, {"decided", "marking"}) =>
             stream'[t].said \in {"timeout", "abandoned"}
             \/ (stream'[t].said \in {"approved", "declined"} /\ row'[a] = stream'[t].said)
    BY <1>1, <2>1 DEF StageOf, GateKept
  <2>8. /\ At(t, Asking)' => a' \in DOMAIN approvals'
        /\ At(t, {"asking"})' => row'[a'] = None
        /\ At(t, {"waiting", "decided", "marking"})' => row'[a'] # None
        /\ At(t, {"run"})' => row'[a'] = "approved"
        /\ ~At(t, Stages)'
        /\ At(t, {"waiting"})' /\ row'[a'] # "pending" => Told(a)'
    BY <2>1, <2>3, <2>4, <2>5, <2>6, <2>7 DEF GateKept
  <2> QED BY <2>1, <2>2, <2>4, <2>7, <2>8 DEF StageOf
<1> QED BY <1>2, <1>3, <1>4

\* A stream that comes to no gate, or stays at its own, is no second one there.
LEMMA OneKept ==
  ASSUME OneInv, NEW s \in Streams, \A t \in Streams : t # s => stream'[t] = stream[t],
         At(s, Gating)' => stream'[s].gate = None \/ (At(s, Gating) /\ stream'[s].gate = stream[s].gate)
  PROVE  OneInv'
BY DEF OneInv, At

LEMMA PlainKeeps ==
  ASSUME ChatShape, GateInv, NEW s \in Streams, Plain(s)
  PROVE  GateInv'
<1> PICK at \in Stages : \E said : Moves(s, at, None, said)
  BY DEF Plain, Passes
<1>1. /\ \A t \in Streams : t # s => stream'[t] = stream[t]
      /\ stream'[s].at = at /\ stream'[s].gate = None
      /\ stream[s].at \in Stages \cup {"quiet", "run"}
      /\ stream' = [t \in Streams |-> stream'[t]]
  BY DEF Moves, Plain, Passes, Stages
<1>2. up /\ UNCHANGED <<up, row, log, approvals, user, ran, orphans, scenario>>
  BY DEF Plain, Held
<1>3. StageInv'
  <2> SUFFICES ASSUME NEW t \in Streams PROVE StageOf(t)'
    BY DEF StageInv
  <2>1. CASE t = s
    BY <1>1, <2>1 DEF StageOf, At, Stages, Gating, Asking
  <2>2. CASE t # s
    BY <1>1, <1>2, <2>2, StageKept DEF GateInv, GateKept, SignalsKept
  <2> QED BY <2>1, <2>2
<1>4. OneInv'
  BY <1>1, OneKept DEF GateInv, At, Stages, Gating, Asking
<1>5. ChannelInv'
  BY <1>1, <1>2 DEF GateInv, ChannelInv, At, Stages, Asking
<1>6. SignalInv'
  BY <1>2 DEF GateInv, SignalInv
<1>7. PendingInv'
  BY <1>1, <1>2 DEF GateInv, PendingInv, At, Stages
<1>8. DownInv'
  BY <1>2 DEF DownInv
<1>9. Chat!GateHolds'
  BY <1>2 DEF GateInv, Chat!GateHolds, Plain, Held
<1> QED BY <1>3, <1>4, <1>5, <1>6, <1>7, <1>8, <1>9 DEF GateInv

LEMMA ExecutesKeeps ==
  ASSUME ChatShape, GateInv, NEW s \in Streams, Executes(s)
  PROVE  GateInv'
<1> DEFINE a == stream[s].gate
<1> PICK at \in {"loop", "call"} : Moves(s, at, None, None)
  BY DEF Executes
<1>1. /\ \A t \in Streams : t # s => stream'[t] = stream[t]
      /\ stream'[s].at = at /\ stream'[s].gate = None
      /\ stream[s].at = "run" /\ a # None
  BY DEF Moves, Executes
<1>2. up /\ UNCHANGED <<up, row, approvals, user, orphans, scenario, bare>>
  BY DEF Executes
<1>3. Fresh(a) /\ row[a] = "approved"
  BY <1>1 DEF GateInv, StageInv, StageOf, At, Gating
<1>4. /\ ran' = [ran EXCEPT ![a] = 1]
      /\ \A b \in Approvals : b # a => ran'[b] = ran[b] /\ log'[b] = log[b]
      /\ log'[a] \subseteq log[a] \cup {"success", "error"} /\ ran'[a] = 1
  <2>1. ran[a] = 0 /\ a \in Approvals /\ ran \in [Approvals -> Nat]
        /\ log \in [Approvals -> SUBSET ({"pending_approval"} \cup Outcomes)]
    BY <1>3 DEF Fresh, ChatShape
  <2>2. PICK status \in {"success", "error"} :
            log' = log \/ log' = [log EXCEPT ![a] = @ \cup {status}]
    BY DEF Executes
  <2>3. ran' = [ran EXCEPT ![a] = 1]
    BY <2>1 DEF Executes
  <2> QED BY <2>1, <2>2, <2>3
<1>5. \A t \in Streams : t # s /\ At(t, Gating) /\ stream[t].gate # None =>
          stream[t].gate \in Approvals /\ stream[t].gate # a
  BY <1>1 DEF GateInv, OneInv, StageInv, StageOf, Fresh, At, Gating
<1>6. StageInv'
  <2> SUFFICES ASSUME NEW t \in Streams PROVE StageOf(t)'
    BY DEF StageInv
  <2>1. CASE t = s
    BY <1>1, <2>1 DEF StageOf, At, Stages, Gating, Asking
  <2>2. CASE t # s
    BY <1>1, <1>2, <1>4, <1>5, <2>2, StageKept DEF GateInv, GateKept, SignalsKept
  <2> QED BY <2>1, <2>2
<1>7. OneInv'
  BY <1>1, OneKept DEF GateInv, At, Gating, Asking
<1>8. ChannelInv'
  BY <1>1, <1>2 DEF GateInv, ChannelInv, At, Asking
<1>9. SignalInv'
  BY <1>2 DEF GateInv, SignalInv
<1>10. PendingInv'
  BY <1>1, <1>2 DEF GateInv, PendingInv, At
<1>11. DownInv'
  BY <1>2 DEF DownInv
<1>12. Chat!GateHolds'
  <2> SUFFICES ASSUME NEW b \in Approvals
               PROVE  /\ ran'[b] <= 1 /\ (ran'[b] = 1 => row'[b] = "approved")
                      /\ "declined" \in log'[b] => ran'[b] = 0
                      /\ log'[b] \cap {"success", "error"} # {} => ran'[b] = 1
    BY <1>2 DEF GateInv, Chat!GateHolds
  <2>1. CASE b # a
    BY <1>2, <1>4, <2>1 DEF GateInv, Chat!GateHolds
  <2>2. CASE b = a
    BY <1>3, <1>4, <1>2, <2>2 DEF Fresh, Outcomes
  <2> QED BY <2>1, <2>2
<1> QED BY <1>6, <1>7, <1>8, <1>9, <1>10, <1>11, <1>12 DEF GateInv

\* A gate belongs to one stream.
LEMMA OwnGate ==
  ASSUME StageInv, OneInv, NEW s \in Streams, At(s, Gating), stream[s].gate # None
  PROVE  /\ Fresh(stream[s].gate)
         /\ \A t \in Streams : t # s /\ At(t, Gating) /\ stream[t].gate # None =>
               stream[t].gate \in Approvals /\ stream[t].gate # stream[s].gate
BY DEF StageInv, StageOf, OneInv, Fresh

LEMMA RegisterKeeps ==
  ASSUME Chat!ChatAssumption, ChatShape, GateInv, NEW s \in Streams, Chat!RegisterApproval(s)
  PROVE  GateInv' /\ \E a \in Approvals : Moves(s, "asking", a, stream[s].said)
<1> PICK a \in Chat!NewApproval, works \in Chat!Works :
        /\ approvals' = [b \in DOMAIN approvals \cup {a} |-> IF b = a THEN <<>> ELSE approvals[b]]
        /\ log' = [log EXCEPT ![a] = IF works /\ chat # Gone THEN {"pending_approval"} ELSE {}]
        /\ stream' = [stream EXCEPT ![s].at = "asking", ![s].gate = a]
  BY DEF Chat!RegisterApproval
<1>1. a \in Approvals /\ row[a] = None /\ log[a] = {} /\ ran[a] = 0 /\ a \notin DOMAIN approvals
  BY DEF Chat!NewApproval, Chat!Unused, Chat!Registered
<1>2. a # None
  BY <1>1 DEF Chat!ChatAssumption
<1>3. up /\ stream[s].at = "call"
  BY DEF Chat!RegisterApproval, Chat!Streaming
<1>4. UNCHANGED <<up, row, user, ran, bare, orphans, scenario>>
  BY DEF Chat!RegisterApproval, Chat!bounds
<1>5. /\ stream'[s] = [stream[s] EXCEPT !.at = "asking", !.gate = a]
      /\ \A t \in Streams : t # s => stream'[t] = stream[t]
      /\ stream' = [t \in Streams |-> stream'[t]]
  BY DEF ChatShape
<1>6. Turn(stream[s])
  BY <1>3, AtTurn
<1>7. /\ Turn(stream'[s]) /\ stream'[s].at = "asking" /\ stream'[s].gate = a
      /\ stream'[s].said = stream[s].said
  BY <1>5, <1>6 DEF Turn
<1>8. /\ DOMAIN approvals' = DOMAIN approvals \cup {a} /\ approvals'[a] = <<>>
      /\ \A b \in DOMAIN approvals : approvals'[b] = approvals[b]
  BY <1>1
<1>9. /\ \A b \in Approvals : b # a => log'[b] = log[b]
      /\ log'[a] \subseteq {"pending_approval"}
  BY <1>1 DEF ChatShape
<1>10. \A t \in Streams : At(t, Gating) /\ stream[t].gate # None =>
          stream[t].gate \in Approvals /\ stream[t].gate # a
  BY <1>1, <1>2 DEF GateInv, StageInv, StageOf, Fresh, At, Gating, Asking, Chat!ChatAssumption
<1>11. StageInv'
  <2> SUFFICES ASSUME NEW t \in Streams PROVE StageOf(t)'
    BY DEF StageInv
  <2>1. CASE t = s
    <3>1. Fresh(a)'
      BY <1>1, <1>4, <1>9 DEF Fresh, Outcomes
    <3>2. Fresh(stream[t].gate)'
      BY <3>1, <2>1, <1>7
    <3> QED BY <1>1, <1>2, <1>4, <1>7, <1>8, <3>2, <2>1 DEF StageOf, At, Gating, Asking, Stages
  <2>2. CASE t # s
    <3>1. At(t, Gating) /\ stream[t].gate # None => GateKept(stream[t].gate)
      BY <1>4, <1>8, <1>9, <1>10, <2>2 DEF GateKept
    <3> QED BY <1>4, <1>5, <2>2, <3>1, StageKept DEF GateInv, SignalsKept
  <2> QED BY <2>1, <2>2
<1>12. OneInv'
  BY <1>5, <1>7, <1>10 DEF GateInv, OneInv, At
<1>13. ChannelInv'
  <2> SUFFICES ASSUME NEW b \in DOMAIN approvals'
               PROVE  /\ approvals'[b] # <<>> => approvals'[b] = <<row'[b]>>
                                                 /\ row'[b] \in {"approved", "declined"}
                      /\ \E t \in Streams : At(t, Asking)' /\ stream'[t].gate = b
    BY DEF ChannelInv
  <2>1. CASE b = a
    BY <1>7, <1>8, <2>1 DEF At, Asking
  <2>2. CASE b # a
    <3>1. b \in DOMAIN approvals /\ approvals'[b] = approvals[b] /\ row'[b] = row[b]
      BY <1>4, <1>8, <2>2
    <3>2. PICK t \in Streams : At(t, Asking) /\ stream[t].gate = b
      BY <3>1 DEF GateInv, ChannelInv
    <3>3. t # s
      BY <3>2, <1>3 DEF At, Asking
    <3> QED BY <3>1, <3>2, <3>3, <1>5 DEF GateInv, ChannelInv, At
  <2> QED BY <2>1, <2>2
<1>14. SignalInv'
  BY <1>4 DEF GateInv, SignalInv
<1>15. PendingInv'
  BY <1>3, <1>4, <1>5 DEF GateInv, PendingInv, At
<1>16. DownInv'
  BY <1>3, <1>4 DEF DownInv
<1>17. Chat!GateHolds'
  BY <1>9, <1>4 DEF GateInv, Chat!GateHolds
<1>18. Moves(s, "asking", a, stream[s].said)
  BY <1>5, <1>7 DEF Moves
<1> QED BY <1>1, <1>11, <1>12, <1>13, <1>14, <1>15, <1>16, <1>17, <1>18 DEF GateInv

----------------------------------------------------------------------------
\* A channel that is taken out of the map leaves the others as they are.
LEMMA Deregistered ==
  ASSUME NEW a, Chat!deregisterApproval(a)
  PROVE  /\ DOMAIN approvals' = DOMAIN approvals \ {a}
         /\ \A b \in DOMAIN approvals \ {a} : approvals'[b] = approvals[b]
BY DEF Chat!deregisterApproval

LEMMA CreateKeeps ==
  ASSUME Chat!ChatAssumption, ChatShape, GateInv, NEW s \in Streams, Chat!CreateApproval(s)
  PROVE  /\ GateInv'
         /\ \E at \in {"waiting", "run"} : \E gate : Moves(s, at, gate, stream[s].said)
<1> DEFINE a == stream[s].gate
<1>1. /\ up /\ stream[s].at = "asking"
      /\ UNCHANGED <<up, log, user, ran, bare, orphans, scenario>>
  BY DEF Chat!CreateApproval, Chat!Streaming, Chat!bounds
<1>2. Turn(stream[s])
  BY <1>1, AtTurn
<1>3. /\ a # None /\ Fresh(a) /\ a \in DOMAIN approvals /\ row[a] = None
      /\ \A t \in Streams : t # s /\ At(t, Gating) /\ stream[t].gate # None =>
            stream[t].gate \in Approvals /\ stream[t].gate # a
  BY <1>1, OwnGate DEF GateInv, StageInv, StageOf, At, Gating, Asking
<1>4. a \in Approvals /\ scenario.faults \in BOOLEAN
  BY <1>3 DEF Fresh, ChatShape, Chat!ChatAssumption
<1>5. CASE /\ row' = [row EXCEPT ![a] = "pending"]
           /\ Chat!To(s, "waiting")
           /\ UNCHANGED approvals
  <2>1. Moves(s, "waiting", a, stream[s].said)
    BY <1>2, <1>5, MovesTo
  <2>2. /\ \A t \in Streams : t # s => stream'[t] = stream[t]
        /\ stream'[s].at = "waiting" /\ stream'[s].gate = a
    BY <2>1 DEF Moves
  <2>3. row'[a] = "pending" /\ \A b \in Approvals : b # a => row'[b] = row[b]
    BY <1>4, <1>5 DEF ChatShape
  <2>4. StageInv'
    <3> SUFFICES ASSUME NEW t \in Streams PROVE StageOf(t)'
      BY DEF StageInv
    <3>1. CASE t = s
      BY <3>1, <1>1, <1>3, <2>2, <1>5, <2>3 DEF Fresh, Chat!ChatAssumption, StageOf, At, Gating,
         Asking, Stages
    <3>2. CASE t # s
      <4>1. At(t, Gating) /\ stream[t].gate # None => GateKept(stream[t].gate)
        BY <1>1, <1>3, <1>5, <2>3, <3>2 DEF GateKept
      <4> QED BY <1>1, <2>2, <3>2, <4>1, StageKept DEF GateInv, SignalsKept
    <3> QED BY <3>1, <3>2
  <2>5. OneInv'
    BY <1>1, <2>2, OneKept DEF GateInv, At, Gating, Asking
  <2>6. ChannelInv'
    <3>1. approvals[a] = <<>>
      BY <1>3 DEF GateInv, ChannelInv, Chat!ChatAssumption
    <3>2. \A b \in DOMAIN approvals : b \in Approvals
      BY DEF ChatShape
    <3>3. \A t \in Streams : At(t, Asking) => At(t, Asking)' /\ stream'[t].gate = stream[t].gate
      BY <1>1, <2>2 DEF At, Asking
    <3> QED BY <1>5, <2>3, <3>1, <3>2, <3>3 DEF GateInv, ChannelInv
  <2>7. SignalInv'
    BY <1>3, <1>1, <2>3 DEF GateInv, SignalInv, Chat!ChatAssumption
  <2>8. PendingInv'
    BY <1>1, <2>2, <2>3 DEF At, GateInv, PendingInv
  <2>9. DownInv'
    BY <1>1 DEF DownInv
  <2>10. Chat!GateHolds'
    BY <1>3, <1>1, <2>3 DEF Fresh, GateInv, Chat!GateHolds
  <2> QED BY <2>1, <2>4, <2>5, <2>6, <2>7, <2>8, <2>9, <2>10 DEF GateInv
<1>6. CASE /\ scenario.faults
           /\ Chat!deregisterApproval(a)
           /\ stream' = [stream EXCEPT ![s].at = "run", ![s].gate = None]
           /\ UNCHANGED row
  <2>1. /\ stream'[s] = [stream[s] EXCEPT !.at = "run", !.gate = None]
        /\ \A t \in Streams : t # s => stream'[t] = stream[t]
        /\ stream' = [t \in Streams |-> stream'[t]]
    BY <1>6 DEF ChatShape
  <2>2. /\ Turn(stream'[s]) /\ stream'[s].at = "run" /\ stream'[s].gate = None
        /\ stream'[s].said = stream[s].said
    BY <2>1, <1>2 DEF Turn
  <2>3. Moves(s, "run", None, stream[s].said)
    BY <2>1, <2>2 DEF Moves
  <2>4. /\ DOMAIN approvals' = DOMAIN approvals \ {a}
        /\ \A b \in DOMAIN approvals \ {a} : approvals'[b] = approvals[b]
    BY <1>6, Deregistered
  <2>5. StageInv'
    <3> SUFFICES ASSUME NEW t \in Streams PROVE StageOf(t)'
      BY DEF StageInv
    <3>1. CASE t = s
      BY <1>1, <1>6, <2>2, <3>1 DEF StageOf, At, Gating, Asking, Stages
    <3>2. CASE t # s
      <4>1. At(t, Gating) /\ stream[t].gate # None => GateKept(stream[t].gate)
        BY <1>1, <1>3, <1>6, <2>4, <3>2 DEF GateKept
      <4> QED BY <1>1, <2>1, <3>2, <4>1, StageKept DEF GateInv, SignalsKept
    <3> QED BY <3>1, <3>2
  <2>6. OneInv'
    BY <2>1, <2>2, OneKept DEF GateInv
  <2>7. ChannelInv'
    <3>1. ASSUME NEW b \in DOMAIN approvals \ {a}
          PROVE  \E t \in Streams : At(t, Asking)' /\ stream'[t].gate = b
      <4>1. PICK t \in Streams : At(t, Asking) /\ stream[t].gate = b
        BY DEF GateInv, ChannelInv
      <4>2. t # s
        BY <4>1
      <4> QED BY <2>1, <4>1, <4>2 DEF At
    <3> QED BY <1>6, <2>4, <3>1 DEF GateInv, ChannelInv
  <2>8. SignalInv'
    BY <1>1, <1>6 DEF GateInv, SignalInv
  <2>9. PendingInv'
    BY <1>1, <1>6 DEF PendingInv
  <2>10. DownInv'
    BY <1>1 DEF DownInv
  <2>11. Chat!GateHolds'
    BY <1>1, <1>6 DEF GateInv, Chat!GateHolds
  <2> QED BY <2>3, <2>5, <2>6, <2>7, <2>8, <2>9, <2>10, <2>11 DEF GateInv
<1> QED BY <1>5, <1>6 DEF Chat!CreateApproval

----------------------------------------------------------------------------
\* The approvals of the other streams.
OthersKept(s) ==
    \A t \in Streams : t # s /\ At(t, Gating) /\ stream[t].gate # None => GateKept(stream[t].gate)

LEMMA StagesKept ==
  ASSUME StageInv, SignalsKept, scenario' = scenario, NEW s \in Streams, OthersKept(s),
         \A t \in Streams : t # s => stream'[t] = stream[t],
         StageOf(s)'
  PROVE  StageInv'
<1> SUFFICES ASSUME NEW t \in Streams PROVE StageOf(t)'
  BY DEF StageInv
<1>1. CASE t = s
  BY <1>1
<1>2. CASE t # s
  BY <1>2, StageKept DEF OthersKept
<1> QED BY <1>1, <1>2

LEMMA HearKeeps ==
  ASSUME Chat!ChatAssumption, ChatShape, GateInv, NEW s \in Streams, Chat!Hear(s)
  PROVE  /\ GateInv'
         /\ \E said : Moves(s, "decided", stream[s].gate, said)
<1> DEFINE a == stream[s].gate
           said == Head(approvals[a])
<1>1. /\ up /\ stream[s].at = "waiting" /\ approvals[a] # <<>>
      /\ UNCHANGED <<up, row, log, user, ran, bare, orphans, scenario>>
      /\ approvals' = [approvals EXCEPT ![a] = <<>>]
  BY DEF Chat!Hear, Chat!Streaming, Chat!bounds, Chat!rows
<1>2. /\ a # None /\ Fresh(a) /\ a \in DOMAIN approvals /\ row[a] # None
      /\ \A t \in Streams : t # s /\ At(t, Gating) /\ stream[t].gate # None =>
            stream[t].gate \in Approvals /\ stream[t].gate # a
  BY <1>1, OwnGate DEF GateInv, StageInv, StageOf, At, Gating, Asking
<1>3. said = row[a] /\ row[a] \in {"approved", "declined"}
  BY <1>1, <1>2 DEF GateInv, ChannelInv
<1>4. /\ stream'[s] = [stream[s] EXCEPT !.at = "decided", !.said = said]
      /\ \A t \in Streams : t # s => stream'[t] = stream[t]
      /\ stream' = [t \in Streams |-> stream'[t]]
  BY DEF ChatShape, Chat!Hear
<1>5. Turn(stream[s])
  BY <1>1, AtTurn
<1>6. /\ Turn(stream'[s]) /\ stream'[s].at = "decided" /\ stream'[s].gate = a
      /\ stream'[s].said = said
  BY <1>4, <1>5 DEF Turn
<1>7. /\ DOMAIN approvals' = DOMAIN approvals /\ approvals'[a] = <<>>
      /\ \A b \in DOMAIN approvals : b # a => approvals'[b] = approvals[b]
  BY <1>1, <1>2
<1> HIDE DEF said
<1>8. StageInv'
  <2>1. Fresh(stream[s].gate)'
    BY <1>1, <1>2, <1>6 DEF Fresh
  <2>2. StageOf(s)'
    BY <1>1, <1>2, <1>3, <1>6, <1>7, <2>1 DEF StageOf, At, Gating, Asking, Stages
  <2>3. OthersKept(s)
    BY <1>1, <1>2, <1>7 DEF OthersKept, GateKept
  <2> QED BY <1>1, <1>4, <2>2, <2>3, StagesKept DEF GateInv, SignalsKept
<1>9. OneInv'
  BY <1>1, <1>4, <1>6, OneKept DEF GateInv, At, Gating, Asking
<1>10. ChannelInv'
  <2>1. \A t \in Streams : At(t, Asking) => At(t, Asking)' /\ stream'[t].gate = stream[t].gate
    BY <1>1, <1>4, <1>6 DEF At, Asking
  <2> QED BY <1>1, <1>7, <2>1 DEF GateInv, ChannelInv
<1>11. SignalInv'
  BY <1>1 DEF GateInv, SignalInv
<1>12. PendingInv'
  <2>1. \A t \in Streams : At(t, {"waiting", "decided", "marking"}) =>
            At(t, {"waiting", "decided", "marking"})' /\ stream'[t].gate = stream[t].gate
    BY <1>1, <1>4, <1>6 DEF At
  <2> QED BY <1>1, <2>1 DEF GateInv, PendingInv
<1>13. DownInv'
  BY <1>1 DEF DownInv
<1>14. Chat!GateHolds'
  BY <1>1 DEF GateInv, Chat!GateHolds
<1>15. Moves(s, "decided", a, said)
  BY <1>4, <1>6 DEF Moves
<1> QED BY <1>8, <1>9, <1>10, <1>11, <1>12, <1>13, <1>14, <1>15 DEF GateInv

LEMMA GiveUpKeeps ==
  ASSUME Chat!ChatAssumption, ChatShape, GateInv, NEW s \in Streams, Chat!GiveUp(s)
  PROVE  /\ GateInv'
         /\ \E said : Moves(s, "decided", stream[s].gate, said)
<1> DEFINE a == stream[s].gate
<1> PICK said \in {"timeout", "abandoned"} :
        stream' = [stream EXCEPT ![s].at = "decided", ![s].said = said]
  BY DEF Chat!GiveUp
<1>1. /\ up /\ stream[s].at = "waiting"
      /\ UNCHANGED <<up, row, log, approvals, user, ran, bare, orphans, scenario>>
  BY DEF Chat!GiveUp, Chat!Streaming, Chat!bounds, Chat!rows
<1>2. a # None /\ Fresh(a) /\ a \in DOMAIN approvals /\ row[a] # None
  BY <1>1 DEF GateInv, StageInv, StageOf, At, Gating, Asking
<1>4. /\ stream'[s] = [stream[s] EXCEPT !.at = "decided", !.said = said]
      /\ \A t \in Streams : t # s => stream'[t] = stream[t]
      /\ stream' = [t \in Streams |-> stream'[t]]
  BY DEF ChatShape
<1>5. Turn(stream[s])
  BY <1>1, AtTurn
<1>6. /\ Turn(stream'[s]) /\ stream'[s].at = "decided" /\ stream'[s].gate = a
      /\ stream'[s].said = said
  BY <1>4, <1>5 DEF Turn
<1>8. StageInv'
  <2>1. Fresh(stream[s].gate)'
    BY <1>1, <1>2, <1>6 DEF Fresh
  <2>2. StageOf(s)'
    BY <1>1, <1>2, <1>6, <2>1 DEF StageOf, At, Gating, Asking, Stages
  <2>3. OthersKept(s)
    BY <1>1 DEF OthersKept, GateKept
  <2> QED BY <1>1, <1>4, <2>2, <2>3, StagesKept DEF GateInv, SignalsKept
<1>9. OneInv'
  BY <1>1, <1>4, <1>6, OneKept DEF GateInv, At, Gating, Asking
<1>10. ChannelInv'
  <2>1. \A t \in Streams : At(t, Asking) => At(t, Asking)' /\ stream'[t].gate = stream[t].gate
    BY <1>1, <1>4, <1>6 DEF At, Asking
  <2>2. ASSUME NEW b \in DOMAIN approvals PROVE \E t \in Streams : At(t, Asking)' /\ stream'[t].gate = b
    BY <2>1 DEF GateInv, ChannelInv
  <2>3. approvals' = approvals /\ row' = row
    BY <1>1
  <2> QED BY <2>2, <2>3 DEF GateInv, ChannelInv
<1>11. SignalInv'
  BY <1>1 DEF GateInv, SignalInv
<1>12. PendingInv'
  <2>1. \A t \in Streams : At(t, {"waiting", "decided", "marking"}) =>
            At(t, {"waiting", "decided", "marking"})' /\ stream'[t].gate = stream[t].gate
    BY <1>1, <1>4, <1>6 DEF At
  <2> QED BY <1>1, <2>1 DEF GateInv, PendingInv
<1>13. DownInv'
  BY <1>1 DEF DownInv
<1>14. Chat!GateHolds'
  BY <1>1 DEF GateInv, Chat!GateHolds
<1>15. Moves(s, "decided", a, said)
  BY <1>4, <1>6 DEF Moves
<1> QED BY <1>8, <1>9, <1>10, <1>11, <1>12, <1>13, <1>14, <1>15 DEF GateInv

LEMMA DeregisterKeeps ==
  ASSUME Chat!ChatAssumption, ChatShape, GateInv, NEW s \in Streams, Chat!Deregister(s)
  PROVE  GateInv' /\ Moves(s, "marking", stream[s].gate, stream[s].said)
<1> DEFINE a == stream[s].gate
<1>1. /\ up /\ stream[s].at = "decided"
      /\ UNCHANGED <<up, row, log, user, ran, bare, orphans, scenario>>
      /\ Chat!deregisterApproval(a) /\ Chat!To(s, "marking")
  BY DEF Chat!Deregister, Chat!Streaming, Chat!bounds, Chat!rows
<1>2. /\ a # None /\ Fresh(a) /\ row[a] # None
      /\ \A t \in Streams : t # s /\ At(t, Gating) /\ stream[t].gate # None =>
            stream[t].gate \in Approvals /\ stream[t].gate # a
  BY <1>1, OwnGate DEF GateInv, StageInv, StageOf, At, Gating, Asking
<1>3. stream[s].said \in {"timeout", "abandoned"}
      \/ (stream[s].said \in {"approved", "declined"} /\ row[a] = stream[s].said)
  BY <1>1 DEF GateInv, StageInv, StageOf, At
<1>4. Moves(s, "marking", a, stream[s].said)
  BY <1>1, AtTurn, MovesTo
<1>5. /\ \A t \in Streams : t # s => stream'[t] = stream[t]
      /\ stream'[s].at = "marking" /\ stream'[s].gate = a /\ stream'[s].said = stream[s].said
  BY <1>4 DEF Moves
<1>6. /\ DOMAIN approvals' = DOMAIN approvals \ {a}
      /\ \A b \in DOMAIN approvals \ {a} : approvals'[b] = approvals[b]
  BY <1>1, Deregistered
<1>7. StageInv'
  <2>1. Fresh(stream[s].gate)'
    BY <1>1, <1>2, <1>5 DEF Fresh
  <2>2. StageOf(s)'
    BY <1>1, <1>2, <1>3, <1>5, <2>1 DEF StageOf, At, Gating, Asking, Stages
  <2>3. OthersKept(s)
    BY <1>1, <1>2, <1>6 DEF OthersKept, GateKept
  <2> QED BY <1>1, <1>5, <2>2, <2>3, StagesKept DEF GateInv, SignalsKept
<1>8. OneInv'
  BY <1>1, <1>5, OneKept DEF GateInv, At, Gating, Asking
<1>9. ChannelInv'
  <2>1. ASSUME NEW b \in DOMAIN approvals \ {a}
        PROVE  \E t \in Streams : At(t, Asking)' /\ stream'[t].gate = b
    <3>1. PICK t \in Streams : At(t, Asking) /\ stream[t].gate = b
      BY DEF GateInv, ChannelInv
    <3>2. t # s
      BY <3>1
    <3> QED BY <1>5, <3>1, <3>2 DEF At
  <2> QED BY <1>1, <1>6, <2>1 DEF GateInv, ChannelInv
<1>10. SignalInv'
  BY <1>1 DEF GateInv, SignalInv
<1>11. PendingInv'
  BY <1>1, <1>5 DEF At, GateInv, PendingInv
<1>12. DownInv'
  BY <1>1 DEF DownInv
<1>13. Chat!GateHolds'
  BY <1>1 DEF GateInv, Chat!GateHolds
<1> QED BY <1>4, <1>7, <1>8, <1>9, <1>10, <1>11, <1>12, <1>13 DEF GateInv

\* A client that is gone, a call that is declined or timed out, one that may run.
LEMMA MarkKeeps ==
  ASSUME Chat!ChatAssumption, ChatShape, GateInv, NEW s \in Streams, Chat!Mark(s)
  PROVE  /\ GateInv'
         /\ \E at \in {"run", "abandoned", "loop", "call"} :
               \E gate, said : Moves(s, at, gate, said)
<1> DEFINE a == stream[s].gate
           said == stream[s].said
<1>1. /\ up /\ stream[s].at = "marking"
      /\ UNCHANGED <<up, approvals, user, ran, bare, orphans, scenario>>
  BY DEF Chat!Mark, Chat!Streaming, Chat!bounds
<1>2. /\ a # None /\ Fresh(a) /\ row[a] # None
      /\ \A t \in Streams : t # s /\ At(t, Gating) /\ stream[t].gate # None =>
            stream[t].gate \in Approvals /\ stream[t].gate # a
  BY <1>1, OwnGate DEF GateInv, StageInv, StageOf, At, Gating, Asking
<1>3. said \in {"timeout", "abandoned"}
      \/ (said \in {"approved", "declined"} /\ row[a] = said)
  BY <1>1 DEF GateInv, StageInv, StageOf, At
<1>4. Turn(stream[s])
  BY <1>1, AtTurn
<1>5. a \in Approvals /\ ran[a] = 0 /\ log[a] \cap Outcomes = {} /\ scenario.faults \in BOOLEAN
  BY <1>2 DEF Fresh, ChatShape, Chat!ChatAssumption
<1>6. /\ \A b \in Approvals : b # a \/ row[a] # "pending" => row'[b] = row[b]
      /\ row[a] = "pending" => row'[a] = said \/ scenario.faults
      /\ said = "approved" => row' = row
  <2> PICK works \in Chat!Works :
          row' = IF works THEN Chat!MarkBrainApprovalDecided(a, said) ELSE row
    BY DEF Chat!Mark
  <2>1. works \/ scenario.faults
    BY <1>5 DEF Chat!Works
  <2> QED BY <2>1, <1>3, <1>5 DEF Chat!MarkBrainApprovalDecided, ChatShape
<1>7. /\ \A b \in Approvals : b # a => log'[b] = log[b]
      /\ log'[a] \subseteq log[a] \cup {"declined"}
      /\ said = "approved" => log' = log
  <2>1. CASE said \in {"approved", "abandoned"}
    BY <2>1 DEF Chat!Mark
  <2>2. CASE said \in {"declined", "timeout"}
    <3> PICK works \in Chat!Works : log' = [log EXCEPT ![a] =
                IF works /\ chat # Gone THEN @ \cup {"declined"} ELSE @]
      BY <2>2 DEF Chat!Mark
    <3> QED BY <1>5, <2>2 DEF ChatShape
  <2> QED BY <1>3, <2>1, <2>2
<1>8. /\ OthersKept(s)
      /\ \A b \in Approvals : row'[b] = row[b] \/ (b = a /\ row[b] = "pending")
  BY <1>1, <1>2, <1>6, <1>7 DEF OthersKept, GateKept
<1>9. \/ /\ said = "approved" /\ Moves(s, "run", a, said)
      \/ /\ said # "approved"
         /\ \E at \in {"abandoned", "loop", "call"} : \E gate, more :
               Moves(s, at, gate, more) /\ (at # "abandoned" => gate = None)
  BY <1>4, MovesTo, SkipMoves, <1>3 DEF Chat!Mark
<1>10. \A t \in Streams : t # s => stream'[t] = stream[t]
  BY <1>9 DEF Moves
<1>11. \/ /\ said = "approved" /\ stream'[s].at = "run" /\ stream'[s].gate = a
       \/ stream'[s].at = "abandoned"
       \/ stream'[s].at \in {"loop", "call"} /\ stream'[s].gate = None
  BY <1>9 DEF Moves
<1>12. StageInv'
  <2>1. ASSUME said = "approved", stream'[s].at = "run", stream'[s].gate = a PROVE StageOf(s)'
    <3>1. Fresh(stream[s].gate)' /\ row'[a] = "approved"
      BY <1>1, <1>3, <1>5, <1>6, <1>7, <2>1 DEF Fresh
    <3> QED BY <2>1, <1>2, <3>1 DEF StageOf, At, Gating, Asking, Stages
  <2>2. ASSUME stream'[s].at = "abandoned" PROVE StageOf(s)'
    BY <2>2 DEF StageOf, At, Gating, Asking, Stages
  <2>3. ASSUME stream'[s].at \in {"loop", "call"}, stream'[s].gate = None PROVE StageOf(s)'
    BY <2>3 DEF StageOf, At, Gating, Asking, Stages
  <2>4. StageOf(s)'
    BY <1>11, <2>1, <2>2, <2>3
  <2> QED BY <1>1, <1>8, <1>10, <2>4, StagesKept DEF GateInv, SignalsKept
<1>13. OneInv'
  BY <1>1, <1>10, <1>11, OneKept DEF GateInv, At, Gating, Asking
<1>14. ChannelInv'
  <2>1. \A t \in Streams : At(t, Asking) => At(t, Asking)' /\ stream'[t].gate = stream[t].gate
    BY <1>1, <1>10 DEF At, Asking
  <2>2. \A b \in DOMAIN approvals : b \in Approvals
    BY DEF ChatShape
  <2> QED BY <1>1, <1>8, <2>1, <2>2 DEF GateInv, ChannelInv
<1>15. SignalInv'
  BY <1>8, <1>1 DEF GateInv, SignalInv
<1>16. PendingInv'
  <2> SUFFICES ASSUME NEW b \in Approvals, row'[b] = "pending"
               PROVE  \/ b \in orphans \/ scenario.faults
                      \/ \E t \in Streams : At(t, {"waiting", "decided", "marking"})'
                                            /\ stream'[t].gate = b
    BY <1>1 DEF PendingInv
  <2>1. CASE b = a
    BY <1>3, <1>6, <2>1
  <2>2. CASE b # a
    <3>1. row[b] = "pending"
      BY <1>6, <2>2
    <3>2. CASE b \in orphans \/ scenario.faults
      BY <3>2
    <3>3. CASE \E t \in Streams : At(t, {"waiting", "decided", "marking"}) /\ stream[t].gate = b
      <4> PICK t \in Streams : At(t, {"waiting", "decided", "marking"}) /\ stream[t].gate = b
        BY <3>3
      <4>1. t # s
        BY <2>2
      <4> QED BY <1>10, <4>1 DEF At
    <3> QED BY <3>1, <3>2, <3>3 DEF GateInv, PendingInv
  <2> QED BY <2>1, <2>2
<1>17. DownInv'
  BY <1>1 DEF DownInv
<1>18. Chat!GateHolds'
  <2> SUFFICES ASSUME NEW b \in Approvals
               PROVE  /\ ran'[b] <= 1 /\ (ran'[b] = 1 => row'[b] = "approved")
                      /\ "declined" \in log'[b] => ran'[b] = 0
                      /\ log'[b] \cap {"success", "error"} # {} => ran'[b] = 1
    BY <1>1 DEF GateInv, Chat!GateHolds
  <2>1. CASE b # a
    BY <1>1, <1>6, <1>7, <2>1 DEF GateInv, Chat!GateHolds
  <2>2. CASE b = a
    BY <1>1, <1>5, <1>7, <2>2 DEF Outcomes
  <2> QED BY <2>1, <2>2
<1>19. \E at \in {"run", "abandoned", "loop", "call"} : \E gate, more : Moves(s, at, gate, more)
  BY <1>9
<1> QED BY <1>12, <1>13, <1>14, <1>15, <1>16, <1>17, <1>18, <1>19 DEF GateInv

----------------------------------------------------------------------------
\* A request that has to do with no approval; a chat that is deleted takes the stored
\* statuses of its calls along.
LEMMA EditKeeps ==
  ASSUME ChatShape, GateInv, NEW u \in Users, up,
         user[u].at # "signal", user'[u].at # "signal",
         \A v \in Users : v # u => user'[v] = user[v],
         UNCHANGED <<up, row, approvals, stream, ran, bare, orphans, scenario>>,
         log' = log \/ log' = [a \in Approvals |-> {}]
  PROVE  GateInv'
<1>1. SignalsKept
  BY DEF SignalsKept
<1>2. \A a \in Approvals : log'[a] \subseteq log[a]
  BY DEF ChatShape
<1>3. StageInv'
  <2> SUFFICES ASSUME NEW t \in Streams PROVE StageOf(t)'
    BY DEF StageInv
  <2>1. At(t, Gating) /\ stream[t].gate # None => GateKept(stream[t].gate)
    BY <1>2 DEF GateKept, GateInv, StageInv, StageOf, Fresh
  <2> QED BY <1>1, <2>1, StageKept DEF GateInv
<1>4. OneInv' /\ ChannelInv' /\ PendingInv'
  BY DEF GateInv, OneInv, ChannelInv, PendingInv, At
<1>5. SignalInv'
  BY DEF GateInv, SignalInv
<1>6. DownInv'
  BY DEF DownInv
<1>7. Chat!GateHolds'
  BY <1>2 DEF GateInv, Chat!GateHolds
<1> QED BY <1>3, <1>4, <1>5, <1>6, <1>7 DEF GateInv

LEMMA EditsKeep ==
  ASSUME Chat!ChatAssumption, ChatShape, GateInv, NEW u \in Users,
         Chat!Ask(u) \/ Chat!UpdateChat(u) \/ Chat!DeleteChat(u) \/ Chat!RunQueryArtifact(u)
  PROVE  GateInv'
<1>1. \A c \in scenario.ops : c # "signal"
  BY DEF ChatShape, Chat!ChatAssumption
<1>2. CASE Chat!Ask(u)
  BY <1>2, <1>1, EditKeeps DEF Chat!Ask, Chat!UserIdle, Chat!UserAt, Chat!Count, Chat!rows,
     ChatShape
<1>3. CASE ~Chat!Ask(u)
  BY <1>3, EditKeeps DEF Chat!UpdateChat, Chat!DeleteChat, Chat!RunQueryArtifact, Chat!UserAt,
     Chat!bounds, Chat!Over, Chat!Quiet, ChatShape
<1> QED BY <1>2, <1>3

\* A decision is made in the row first: whoever waits is told by the request.
LEMMA DecideKeeps ==
  ASSUME Chat!ChatAssumption, ChatShape, GateInv, NEW u \in Users, Chat!Decide(u)
  PROVE  GateInv'
<1> PICK a \in Approvals, says \in {"approved", "declined"} :
        /\ row[a] # None
        /\ row' = Chat!MarkBrainApprovalDecided(a, says)
        /\ user' = IF row[a] = "pending"
                   THEN [user EXCEPT ![u] = [at |-> "signal", approval |-> a, says |-> says]]
                   ELSE user
  BY DEF Chat!Decide
<1>1. /\ up /\ user[u].at = "quiet"
      /\ UNCHANGED <<up, log, approvals, stream, ran, bare, orphans, scenario>>
  BY DEF Chat!Decide, Chat!UserIdle, Chat!UserAt, Chat!Count
<1>2. CASE row[a] # "pending"
  <2>1. row' = row /\ user' = user
    BY <1>2 DEF Chat!MarkBrainApprovalDecided
  <2>2. StageInv'
    <3> SUFFICES ASSUME NEW t \in Streams PROVE StageOf(t)'
      BY DEF StageInv
    <3> QED BY <1>1, <2>1, StageKept DEF GateInv, GateKept, SignalsKept
  <2>3. OneInv' /\ ChannelInv' /\ PendingInv' /\ SignalInv' /\ DownInv' /\ Chat!GateHolds'
    BY <1>1, <2>1 DEF GateInv, OneInv, ChannelInv, PendingInv, SignalInv, DownInv, At,
       Chat!GateHolds
  <2> QED BY <2>2, <2>3 DEF GateInv
<1>3. CASE row[a] = "pending"
  <2>1. row'[a] = says /\ \A b \in Approvals : b # a => row'[b] = row[b]
    BY <1>3 DEF Chat!MarkBrainApprovalDecided, ChatShape
  <2>2. /\ user'[u].at = "signal" /\ user'[u].approval = a /\ user'[u].says = says
        /\ \A v \in Users : v # u => user'[v] = user[v]
    BY <1>3 DEF ChatShape
  <2>3. SignalsKept
    BY <1>1, <2>2 DEF SignalsKept
  <2>4. StageInv'
    <3> SUFFICES ASSUME NEW t \in Streams PROVE StageOf(t)'
      BY DEF StageInv
    <3>1. CASE At(t, Gating) /\ stream[t].gate = a
      <4>1. /\ stream[t].gate = a /\ a # None /\ Fresh(a)
            /\ stream[t].at \in {"waiting", "decided", "marking"}
            /\ At(t, Asking) => a \in DOMAIN approvals
            /\ At(t, {"decided", "marking"}) => stream[t].said \in {"timeout", "abandoned"}
        BY <1>3, <3>1 DEF Chat!ChatAssumption, GateInv, StageInv, StageOf, At, Gating, Asking
      <4>2. Told(a)' /\ row'[a] # None
        BY <2>1, <2>2 DEF Told, Chat!ChatAssumption
      <4>3. Fresh(stream[t].gate)' /\ Told(stream[t].gate)'
        BY <1>1, <4>1, <4>2 DEF Fresh, Told
      <4> QED BY <1>1, <4>1, <4>2, <4>3 DEF StageOf, At, Gating, Asking, Stages
    <3>2. CASE ~(At(t, Gating) /\ stream[t].gate = a)
      BY <1>1, <2>1, <3>2, <2>3, StageKept DEF GateKept, GateInv, StageInv, StageOf, Fresh
    <3> QED BY <3>1, <3>2
  <2>5. OneInv'
    BY <1>1 DEF GateInv, OneInv, At
  <2>6. ChannelInv'
    BY <1>3, <1>1, <2>1 DEF ChatShape, GateInv, ChannelInv, At
  <2>7. SignalInv'
    BY <1>3, <2>1, <2>2 DEF GateInv, SignalInv
  <2>8. PendingInv'
    BY <1>1, <2>1 DEF GateInv, PendingInv, At
  <2>9. DownInv'
    BY <1>1 DEF DownInv
  <2>10. Chat!GateHolds'
    BY <1>3, <1>1, <2>1 DEF GateInv, Chat!GateHolds
  <2> QED BY <2>4, <2>5, <2>6, <2>7, <2>8, <2>9, <2>10 DEF GateInv
<1> QED BY <1>2, <1>3

\* Then the channel gets it, if there is one and it is empty.
LEMMA SignalKeeps ==
  ASSUME Chat!ChatAssumption, ChatShape, GateInv, NEW u \in Users, Chat!signalApproval(u)
  PROVE  GateInv'
<1> DEFINE a == user[u].approval
<1>1. /\ up /\ user[u].at = "signal"
      /\ UNCHANGED <<up, row, log, stream, ran, bare, orphans, scenario>>
  BY DEF Chat!signalApproval, Chat!UserAt, Chat!rows, Chat!bounds
<1>2. a \in Approvals /\ row[a] = user[u].says /\ row[a] \in {"approved", "declined"}
  BY <1>1 DEF GateInv, SignalInv
<1>3. user'[u] = Chat!Quiet /\ \A v \in Users : v # u => user'[v] = user[v]
  BY DEF Chat!signalApproval, Chat!Over, ChatShape
<1>4. /\ DOMAIN approvals' = DOMAIN approvals
      /\ \A b \in DOMAIN approvals : b # a \/ approvals[b] # <<>> => approvals'[b] = approvals[b]
      /\ a \in DOMAIN approvals /\ approvals[a] = <<>> => approvals'[a] = <<row[a]>>
  BY <1>2 DEF Chat!signalApproval, Chat!Registered
<1>5. ChannelInv'
  BY <1>1, <1>2, <1>4 DEF GateInv, ChannelInv, At
<1>6. StageInv'
  <2> SUFFICES ASSUME NEW t \in Streams PROVE StageOf(t)'
    BY DEF StageInv
  <2> DEFINE g == stream[t].gate
  <2>1. StageOf(t)
    BY DEF GateInv, StageInv
  <2>2. At(t, {"waiting"}) /\ row[g] # "pending" => Told(g)'
    <3> SUFFICES ASSUME At(t, {"waiting"}), row[g] # "pending" PROVE Told(g)'
      OBVIOUS
    <3>1. Told(g) /\ g \in DOMAIN approvals
      BY <2>1 DEF StageOf, At, Asking
    <3>2. CASE approvals[g] # <<>>
      BY <1>1, <1>4, <3>1, <3>2 DEF GateInv, ChannelInv, Told
    <3>3. CASE approvals[g] = <<>> /\ g = a
      BY <1>1, <1>4, <3>1, <3>3 DEF Told
    <3>4. CASE approvals[g] = <<>> /\ g # a
      <4>1. approvals[g] # <<row[g]>>
        BY <3>4
      <4>2. PICK v \in Users : user[v].at = "signal" /\ user[v].approval = g /\ user[v].says = row[g]
        BY <3>1, <4>1 DEF Told
      <4>3. v # u
        BY <3>4, <4>2
      <4> QED BY <1>1, <1>3, <4>2, <4>3 DEF Told
    <3> QED BY <3>2, <3>3, <3>4
  <2>3. At(t, {"waiting"}) /\ row[g] # "pending" => Told(stream[t].gate)'
    BY <1>1, <2>2 DEF Told
  <2>4. Fresh(g) => Fresh(stream[t].gate)'
    BY <1>1 DEF Fresh
  <2> QED BY <1>1, <1>4, <2>1, <2>3, <2>4 DEF StageOf, At
<1>7. OneInv'
  BY <1>1 DEF GateInv, OneInv, At
<1>8. SignalInv'
  BY <1>1, <1>3 DEF GateInv, SignalInv, Chat!Quiet
<1>9. PendingInv'
  BY <1>1 DEF GateInv, PendingInv, At
<1>10. DownInv'
  BY <1>1 DEF DownInv
<1>11. Chat!GateHolds'
  BY <1>1 DEF GateInv, Chat!GateHolds
<1> QED BY <1>5, <1>6, <1>7, <1>8, <1>9, <1>10, <1>11 DEF GateInv

----------------------------------------------------------------------------
\* The process ends: no stream is at a gate, no channel is left.
LEMMA CrashKeeps ==
  ASSUME Chat!ChatAssumption, ChatShape, GateInv, Chat!Crash
  PROVE  GateInv'
<1>1. /\ stream' = [s \in Streams |-> IF Chat!Live(s) THEN [at |-> "lost"] ELSE stream[s]]
      /\ user' = [u \in Users |-> Chat!Quiet]
      /\ approvals' = [a \in {} |-> <<>>] /\ ~up'
      /\ orphans' = orphans \cup {a \in Approvals : row[a] = "pending"}
      /\ UNCHANGED <<row, log, ran, bare, scenario>>
  BY DEF Chat!Crash, Chat!rows
<1>2. \A s \in Streams :
        \/ stream'[s].at = "lost"
        \/ stream'[s] = stream[s] /\ stream[s].at \in {"quiet", "done", "abandoned", "lost"}
  BY <1>1 DEF Chat!Live
<1>3. StageInv'
  <2> SUFFICES ASSUME NEW t \in Streams PROVE StageOf(t)'
    BY DEF StageInv
  <2>1. At(t, Stages) => stream[t].gate = None
    BY DEF GateInv, StageInv, StageOf
  <2> QED BY <1>2, <2>1 DEF StageOf, At, Stages, Gating, Asking
<1>4. OneInv'
  BY <1>2 DEF OneInv, At, Gating, Asking
<1>5. ChannelInv'
  BY <1>1 DEF ChannelInv
<1>6. SignalInv'
  BY <1>1 DEF SignalInv, Chat!Quiet
<1>7. PendingInv'
  BY <1>1 DEF PendingInv
<1>8. DownInv'
  BY <1>1, <1>2 DEF DownInv, Chat!Live
<1>9. Chat!GateHolds'
  BY <1>1 DEF GateInv, Chat!GateHolds
<1> QED BY <1>3, <1>4, <1>5, <1>6, <1>7, <1>8, <1>9 DEF GateInv

\* The sweep finds only approvals that nobody waits for.
LEMMA RestartKeeps ==
  ASSUME Chat!ChatAssumption, ChatShape, GateInv, Chat!Restart
  PROVE  GateInv'
<1>1. /\ ~up /\ up'
      /\ UNCHANGED <<log, approvals, stream, user, ran, bare, orphans, scenario>>
  BY DEF Chat!Restart, Chat!bounds
<1>2. /\ DOMAIN approvals = {} /\ (\A u \in Users : user[u] = Chat!Quiet)
      /\ \A s \in Streams : stream[s].at \in {"quiet", "done", "abandoned", "lost"}
  BY <1>1 DEF GateInv, DownInv, Chat!Live
<1>3. \A a \in Approvals : row'[a] = row[a] \/ (row[a] = "pending" /\ row'[a] = "interrupted")
  BY DEF Chat!Restart
<1>4. StageInv'
  <2> SUFFICES ASSUME NEW t \in Streams PROVE StageOf(t)'
    BY DEF StageInv
  <2>1. At(t, Stages) => stream[t].gate = None
    BY DEF GateInv, StageInv, StageOf
  <2> QED BY <1>1, <1>2, <2>1 DEF StageOf, At, Stages, Gating, Asking
<1>5. OneInv'
  BY <1>1 DEF GateInv, OneInv, At
<1>6. ChannelInv'
  BY <1>1, <1>2 DEF ChannelInv
<1>7. SignalInv'
  BY <1>1, <1>2 DEF SignalInv, Chat!Quiet
<1>8. PendingInv'
  BY <1>1, <1>2, <1>3 DEF GateInv, PendingInv, At
<1>9. DownInv'
  BY <1>1 DEF DownInv
<1>10. Chat!GateHolds'
  BY <1>1, <1>3 DEF GateInv, Chat!GateHolds
<1> QED BY <1>4, <1>5, <1>6, <1>7, <1>8, <1>9, <1>10 DEF GateInv

----------------------------------------------------------------------------
\* Every step of a stream is a step of its turn.
LEMMA StreamMoves ==
  ASSUME Chat!ChatAssumption, ChatShape, GateInv, NEW s \in Streams, Chat!Stream(s)
  PROVE  /\ GateInv'
         /\ \E at \in Stages \cup Gating \cup {"abandoned"} : \E gate, said : Moves(s, at, gate, said)
<1> USE DEF GateInv
<1>1. CASE Plain(s)
  BY <1>1, PlainKeeps DEF Plain, Passes
<1>2. CASE Chat!Run(s)
  <2>1. CASE Executes(s)
    BY <2>1, ExecutesKeeps DEF Executes, Stages
  <2> QED BY <1>1, <1>2, <2>1, RunCases
<1>3. CASE Chat!RegisterApproval(s)
  BY <1>3, RegisterKeeps DEF Gating, Asking
<1>4. CASE Chat!CreateApproval(s)
  BY <1>4, CreateKeeps DEF Gating, Asking
<1>5. CASE Chat!Hear(s) \/ Chat!GiveUp(s)
  BY <1>5, HearKeeps, GiveUpKeeps DEF Gating, Asking
<1>6. CASE Chat!Deregister(s)
  BY <1>6, DeregisterKeeps DEF Gating, Asking
<1>7. CASE Chat!Mark(s)
  BY <1>7, MarkKeeps DEF Gating, Stages
<1>8. CASE \/ Chat!Begin(s) \/ Chat!Reply(s) \/ Chat!Persist(s) \/ Chat!Resolve(s)
           \/ Chat!NoMoreIterations(s) \/ Chat!StreamChat(s) \/ Chat!Complete(s) \/ Chat!SaveChat(s)
  BY <1>1, <1>8, BeginIsPlain, ReplyIsPlain, StagesArePlain
<1> QED BY <1>2, <1>3, <1>4, <1>5, <1>6, <1>7, <1>8 DEF Chat!Stream

\* What a stream writes to the chat is what it has read, but for the title and the model.
LEMMA SavedShape ==
  ASSUME ChatShape, NEW s \in Streams, Chat!SaveChat(s)
  PROVE  /\ chat' = chat \/ (chat # Gone /\ chat' \in Chat!Chats)
         /\ Turn(stream[s])
         /\ chat' # chat => \A f \in Chat!Fields \ {"title", "model", "provider"} :
                               chat'[f] = stream[s].seen[f]
         /\ chat' # chat => chat'["title"] = Chat!TitleOf(s)
<1> DEFINE seen == stream[s].seen
<1>1. Turn(stream[s])
  BY AtTurn DEF Chat!SaveChat, Chat!Streaming
<1>2. seen \in Chat!Chats /\ Chat!TitleOf(s) \in Streams \cup Users \cup {Chat!NewChat, None}
  BY <1>1 DEF Turn, Chat!TitleOf, Chat!Chats, Chat!Fields, Chat!Settings
<1>3. CASE chat' = chat
  BY <1>1, <1>3
<1>4. CASE chat' # chat
  <2>1. PICK model \in Chat!Models(s) :
           chat # Gone /\ chat' = [seen EXCEPT !.title = Chat!TitleOf(s), !.model = model,
                                               !.provider = model]
    BY <1>4 DEF Chat!SaveChat
  <2>2. model \in Streams \cup Users \cup {Chat!NewChat, None}
    BY <1>2 DEF Chat!Models, Chat!Chats, Chat!Fields, Chat!Settings
  <2>3. DOMAIN seen = Chat!Fields
    BY <1>2 DEF Chat!Chats
  <2> QED
    BY <1>1, <1>2, <2>1, <2>2, <2>3 DEF Chat!Chats, Chat!Fields, Chat!Settings
<1> QED
  BY <1>3, <1>4

LEMMA MergedShape ==
  ASSUME ChatShape, NEW u \in Users, user[u].at = "update"
  PROVE  Chat!Merged(u) \in Chat!Chats
<1>1. user[u].seen \in Chat!Chats
  BY DEF ChatShape, UserShape, Chat!Quiet
<1>2. "model" \notin Chat!Cleared(user[u].body) /\ "provider" \notin Chat!Cleared(user[u].body)
  BY DEF Chat!Cleared
<1> QED
  BY <1>1, <1>2 DEF Chat!Merged, Chat!Chats, Chat!NamedAs, Chat!Fields, Chat!Settings

LEMMA ChatWritten ==
  ASSUME Chat!ChatAssumption, ChatShape, GoneHasNone, [Chat!Next]_Chat!vars
  PROVE  chat' \in Chat!Chats \cup {Gone} /\ GoneHasNone'
<1> USE DEF GoneHasNone, ChatShape
<1>0. Gone \notin Chat!Chats
  BY DEF Chat!ChatAssumption
<1>1. ASSUME NEW s \in Streams, Chat!Stream(s) PROVE chat' \in Chat!Chats \cup {Gone} /\ GoneHasNone'
  <2>1. CASE Chat!SaveChat(s)
    BY <2>1, <1>0, SavedShape DEF Chat!SaveChat
  <2>2. CASE ~Chat!SaveChat(s)
    <3>1. UNCHANGED <<chat, artifacts>>
      BY <1>1, <2>2 DEF Chat!Stream, Chat!Begin, Chat!Persist, Chat!Resolve, Chat!Reply,
         Chat!NoMoreIterations, Chat!RegisterApproval, Chat!CreateApproval, Chat!Hear, Chat!GiveUp,
         Chat!Deregister, Chat!Mark, Chat!Run, Chat!StreamChat, Chat!Complete, Chat!Fails, Chat!rows
    <3> QED BY <3>1
  <2> QED BY <2>1, <2>2
<1>2. ASSUME NEW u \in Users, Chat!User(u) PROVE chat' \in Chat!Chats \cup {Gone} /\ GoneHasNone'
  <2>1. CASE Chat!UpdateChat(u)
    BY <2>1, <1>0, MergedShape DEF Chat!UpdateChat, Chat!UserAt
  <2>2. CASE Chat!DeleteChat(u)
    BY <2>2 DEF Chat!DeleteChat
  <2>3. CASE Chat!RunQueryArtifact(u)
    BY <2>3 DEF Chat!RunQueryArtifact
  <2>4. CASE Chat!Decide(u) \/ Chat!signalApproval(u) \/ Chat!Ask(u)
    BY <2>4 DEF Chat!Decide, Chat!signalApproval, Chat!Ask, Chat!rows
  <2> QED BY <1>2, <2>1, <2>2, <2>3, <2>4 DEF Chat!User
<1>3. ASSUME Chat!Crash \/ Chat!Restart \/ UNCHANGED Chat!vars
      PROVE  chat' \in Chat!Chats \cup {Gone} /\ GoneHasNone'
  BY <1>3 DEF Chat!Crash, Chat!Restart, Chat!vars, Chat!rows
<1> QED BY <1>1, <1>2, <1>3 DEF Chat!Next

\* The rows and the channels keep their shape.
RestShape ==
    /\ scenario \in Scenarios /\ up \in BOOLEAN /\ bare \in BOOLEAN
    /\ row \in [Approvals -> RowStatuses]
    /\ log \in [Approvals -> SUBSET ({"pending_approval"} \cup Outcomes)]
    /\ ran \in [Approvals -> Nat]
    /\ message = [s \in Streams |-> message[s]]
    /\ DOMAIN approvals \subseteq Approvals
    /\ approvals = [a \in DOMAIN approvals |-> approvals[a]]

LEMMA StreamRestShape ==
  ASSUME ChatShape, GateInv, NEW s \in Streams, Chat!Stream(s)
  PROVE  RestShape' /\ user' = user
<1>0. RestShape
  BY DEF ChatShape, RestShape
<1> USE <1>0 DEF RestShape
<1>1. CASE \/ Chat!Begin(s) \/ Chat!NoMoreIterations(s) \/ Chat!GiveUp(s) \/ Chat!SaveChat(s)
  BY <1>1 DEF Chat!Begin, Chat!NoMoreIterations, Chat!GiveUp, Chat!SaveChat, Chat!rows, Chat!bounds
<1>2. CASE \/ Chat!Persist(s) \/ Chat!Resolve(s) \/ Chat!Reply(s) \/ Chat!StreamChat(s)
           \/ Chat!Complete(s)
  <2>1. \/ message' = message
        \/ \E m : message' = [message EXCEPT ![s] = m]
    BY <1>2 DEF Chat!Persist, Chat!Resolve, Chat!Reply, Chat!StreamChat, Chat!Complete,
       Chat!Fails, Chat!UpdateBrainMessage, Chat!rows
  <2>2. UNCHANGED <<up, row, log, approvals, user, ran, bare, scenario>>
    BY <1>2 DEF Chat!Persist, Chat!Resolve, Chat!Reply, Chat!StreamChat, Chat!Complete,
       Chat!Fails, Chat!rows, Chat!bounds
  <2>3. message' = [t \in Streams |-> message'[t]]
    BY <2>1
  <2> QED BY <2>2, <2>3
<1>3. CASE Chat!RegisterApproval(s)
  <2> PICK a \in Chat!NewApproval, works \in Chat!Works :
        /\ approvals' = [b \in DOMAIN approvals \cup {a} |-> IF b = a THEN <<>> ELSE approvals[b]]
        /\ log' = [log EXCEPT ![a] = IF works /\ chat # Gone THEN {"pending_approval"} ELSE {}]
    BY <1>3 DEF Chat!RegisterApproval
  <2>1. a \in Approvals
    BY DEF Chat!NewApproval, Chat!Unused
  <2>2. UNCHANGED <<up, message, row, user, ran, bare, scenario>>
    BY <1>3 DEF Chat!RegisterApproval, Chat!bounds
  <2> QED BY <2>1, <2>2
<1>4. CASE Chat!CreateApproval(s) \/ Chat!Deregister(s) \/ Chat!Hear(s)
  BY <1>4 DEF Chat!CreateApproval, Chat!Deregister, Chat!Hear, Chat!rows, Chat!bounds,
     RowStatuses, Chat!deregisterApproval
<1>5. CASE Chat!Mark(s)
  <2>1. UNCHANGED <<up, message, approvals, user, ran, bare, scenario>>
    BY <1>5 DEF Chat!Mark, Chat!bounds
  <2>2. stream[s].said \in {"timeout", "abandoned", "approved", "declined"}
    BY <1>5 DEF Chat!Mark, Chat!Streaming, GateInv, StageInv, StageOf, At
  <2>3. row' \in [Approvals -> RowStatuses]
    BY <1>5, <2>2 DEF Chat!Mark, Chat!MarkBrainApprovalDecided, RowStatuses
  <2>4. log' = log \/ \E works \in Chat!Works : log' = [log EXCEPT ![stream[s].gate] =
                IF works /\ chat # Gone THEN @ \cup {"declined"} ELSE @]
    BY <1>5 DEF Chat!Mark
  <2>5. log' = log \/ log' = [log EXCEPT ![stream[s].gate] = @ \cup {"declined"}]
    BY <2>4
  <2>6. log' \in [Approvals -> SUBSET ({"pending_approval"} \cup Outcomes)]
    BY <2>5 DEF Outcomes
  <2> QED BY <2>1, <2>3, <2>6
<1>6. CASE Chat!Run(s)
  <2> DEFINE a == stream[s].gate
             k == Head(stream[s].calls)
  <2>1. UNCHANGED <<up, message, row, approvals, user, scenario>>
    BY <1>6 DEF Chat!Run, Chat!bounds
  <2>2. \/ UNCHANGED <<log, ran, bare>>
        \/ \E status \in {"success", "error"} :
             /\ ran' = IF a = None THEN ran ELSE [ran EXCEPT ![a] = @ + 1]
             /\ bare' = (bare \/ (k \in Gated /\ a = None))
             /\ IF a = None THEN log' = log
                ELSE \E works \in Chat!Works : log' = [log EXCEPT ![a] =
                        IF works /\ chat # Gone THEN @ \cup {status} ELSE @]
    BY <1>6 DEF Chat!Run
  <2>3. CASE UNCHANGED <<log, ran, bare>>
    BY <2>1, <2>3
  <2>4. ASSUME NEW status \in {"success", "error"},
               ran' = IF a = None THEN ran ELSE [ran EXCEPT ![a] = @ + 1],
               bare' = (bare \/ (k \in Gated /\ a = None)),
               IF a = None THEN log' = log
               ELSE \E works \in Chat!Works : log' = [log EXCEPT ![a] =
                       IF works /\ chat # Gone THEN @ \cup {status} ELSE @]
        PROVE  RestShape' /\ user' = user
    <3>1. log' = log \/ log' = [log EXCEPT ![a] = @ \cup {status}]
      BY <2>4
    <3>2. log' \in [Approvals -> SUBSET ({"pending_approval"} \cup Outcomes)]
      BY <3>1 DEF Outcomes
    <3>3. ran' \in [Approvals -> Nat]
      <4>1. ran \in [Approvals -> Nat] /\ (ran' = ran \/ ran' = [ran EXCEPT ![a] = @ + 1])
        BY <2>4
      <4> QED BY <4>1
    <3>4. bare' \in BOOLEAN
      BY <2>4, Zenon
    <3> QED BY <2>1, <3>2, <3>3, <3>4
  <2> QED BY <2>2, <2>3, <2>4
<1> QED BY <1>1, <1>2, <1>3, <1>4, <1>5, <1>6 DEF Chat!Stream

\* A request of a user keeps its shape.
UsersShape == user = [u \in Users |-> user[u]] /\ \A u \in Users : UserShape(u)

LEMMA UserTurns ==
  ASSUME UsersShape, NEW u \in Users, NEW r, user' = [user EXCEPT ![u] = r],
         \/ r = Chat!Quiet
         \/ r = [at |-> "signal", approval |-> r.approval, says |-> r.says]
         \/ /\ r.at \in {"update", "delete", "artifact"} /\ r.seen \in Chat!Chats
            /\ r = [at |-> r.at, body |-> r.body, seen |-> r.seen]
  PROVE  UsersShape'
BY DEF UsersShape, UserShape

LEMMA UserRestShape ==
  ASSUME Chat!ChatAssumption, ChatShape, NEW u \in Users, Chat!User(u)
  PROVE  RestShape' /\ UsersShape' /\ stream' = stream
<1>0. RestShape /\ UsersShape
  BY DEF ChatShape, RestShape, UsersShape
<1>1. CASE Chat!Decide(u)
  <2> PICK a \in Approvals, says \in {"approved", "declined"} :
          /\ row' = Chat!MarkBrainApprovalDecided(a, says)
          /\ user' = IF row[a] = "pending"
                     THEN [user EXCEPT ![u] = [at |-> "signal", approval |-> a, says |-> says]]
                     ELSE user
    BY <1>1 DEF Chat!Decide
  <2>1. UNCHANGED <<up, message, log, approvals, stream, ran, bare, scenario>>
    BY <1>1 DEF Chat!Decide, Chat!Count
  <2>2. row' \in [Approvals -> RowStatuses]
    BY <1>0 DEF RestShape, Chat!MarkBrainApprovalDecided, RowStatuses
  <2>3. UsersShape'
    <3>1. CASE row[a] = "pending"
      <4> DEFINE r == [at |-> "signal", approval |-> a, says |-> says]
      <4>1. user' = [user EXCEPT ![u] = r] /\ r = [at |-> "signal", approval |-> r.approval, says |-> r.says]
        BY <3>1
      <4> QED BY <1>0, <4>1, UserTurns
    <3>2. CASE row[a] # "pending"
      BY <1>0, <3>2 DEF UsersShape, UserShape
    <3> QED BY <3>1, <3>2
  <2> QED BY <1>0, <2>1, <2>2, <2>3 DEF RestShape
<1>2. CASE Chat!Ask(u)
  <2>1. UNCHANGED <<up, message, row, log, approvals, stream, ran, bare, scenario>>
    BY <1>2 DEF Chat!Ask, Chat!Count, Chat!rows
  <2>2. PICK at \in scenario.ops, body \in scenario.bodies \cup {<<>>} :
          user' = [user EXCEPT ![u] = [at |-> at, body |-> body, seen |-> chat]]
    BY <1>2 DEF Chat!Ask
  <2>3. at \in {"update", "delete", "artifact"} /\ chat \in Chat!Chats
    BY <1>2 DEF ChatShape, Chat!ChatAssumption, Chat!Ask
  <2>4. UsersShape'
    <3> DEFINE r == [at |-> at, body |-> body, seen |-> chat]
    <3>1. r.at = at /\ r.seen = chat /\ r = [at |-> r.at, body |-> r.body, seen |-> r.seen]
      OBVIOUS
    <3>2. user' = [user EXCEPT ![u] = r]
      BY <2>2
    <3> HIDE DEF r
    <3> QED BY <1>0, <2>3, <3>1, <3>2, UserTurns
  <2> QED BY <1>0, <2>1, <2>4 DEF RestShape
<1>3. CASE \/ Chat!signalApproval(u) \/ Chat!UpdateChat(u) \/ Chat!DeleteChat(u)
           \/ Chat!RunQueryArtifact(u)
  BY <1>3, <1>0, UserTurns DEF Chat!signalApproval, Chat!UpdateChat, Chat!DeleteChat,
     Chat!RunQueryArtifact, Chat!rows, Chat!bounds, Chat!Over, RestShape
<1> QED BY <1>1, <1>2, <1>3 DEF Chat!User

LEMMA ChatShapeStep ==
  ASSUME Chat!ChatAssumption, ChatShape, GateInv, GoneHasNone, [Chat!Next]_Chat!vars
  PROVE  ChatShape'
<1>0. chat' \in Chat!Chats \cup {Gone}
  BY ChatWritten
<1>1. ASSUME NEW s \in Streams, Chat!Stream(s) PROVE ChatShape'
  BY <1>1, StreamRestShape, StreamMoves, <1>0 DEF Moves, StreamShape, ChatShape, UsersShape,
     UserShape, RestShape
<1>2. ASSUME NEW u \in Users, Chat!User(u) PROVE ChatShape'
  BY <1>2, UserRestShape, <1>0 DEF ChatShape, StreamShape, RestShape, UsersShape
<1>3. CASE Chat!Crash
  <2>1. /\ stream' = [s \in Streams |-> IF Chat!Live(s) THEN [at |-> "lost"] ELSE stream[s]]
        /\ user' = [u \in Users |-> Chat!Quiet] /\ approvals' = [a \in {} |-> <<>>] /\ up' = FALSE
        /\ UNCHANGED <<row, log, message, ran, bare, scenario>>
    BY <1>3 DEF Chat!Crash, Chat!rows
  <2>2. stream' = [t \in Streams |-> stream'[t]] /\ \A t \in Streams : StreamShape(t)'
    BY <2>1 DEF Lost, ChatShape, StreamShape
  <2>3. UsersShape'
    BY <2>1 DEF UsersShape, UserShape
  <2>4. RestShape'
    BY <2>1 DEF ChatShape, RestShape
  <2> QED BY <1>0, <2>2, <2>3, <2>4 DEF ChatShape, RestShape, UsersShape
<1>4. CASE Chat!Restart
  BY <1>4, <1>0 DEF Chat!Restart, Chat!bounds, ChatShape, RestShape, RowStatuses, StreamShape,
     UsersShape, UserShape
<1>5. CASE UNCHANGED Chat!vars
  BY <1>0, <1>5 DEF ChatShape, StreamShape, UserShape, Chat!vars, Chat!rows, Chat!bounds
<1> QED BY <1>1, <1>2, <1>3, <1>4, <1>5 DEF Chat!Next

----------------------------------------------------------------------------
LEMMA MessageStep ==
  ASSUME Chat!ChatAssumption, ChatShape, GateInv, MessageInv, [Chat!Next]_Chat!vars
  PROVE  MessageInv'
<1> USE DEF MessageInv, At
<1>0. Gone # "streaming" /\ None # "streaming" /\ scenario.faults \in BOOLEAN
  BY DEF Chat!ChatAssumption, ChatShape
<1>1. ASSUME NEW s \in Streams, Chat!Stream(s) PROVE MessageInv'
  <2>1. scenario' = scenario
    BY <1>1 DEF Chat!Stream, Chat!Begin, Chat!Persist, Chat!Resolve, Chat!Reply,
       Chat!NoMoreIterations, Chat!RegisterApproval, Chat!CreateApproval, Chat!Hear, Chat!GiveUp,
       Chat!Deregister, Chat!Mark, Chat!Run, Chat!StreamChat, Chat!Complete, Chat!SaveChat,
       Chat!Fails, Chat!bounds
  <2>2. \A t \in Streams : t # s => stream'[t] = stream[t]
    BY <1>1, StreamMoves DEF Moves
  <2>3. \A t \in Streams : t # s => message'[t] = message[t]
    BY <1>1 DEF Chat!Stream, Chat!Begin, Chat!Persist, Chat!Resolve, Chat!Reply,
       Chat!NoMoreIterations, Chat!RegisterApproval, Chat!CreateApproval, Chat!Hear, Chat!GiveUp,
       Chat!Deregister, Chat!Mark, Chat!Run, Chat!StreamChat, Chat!Complete, Chat!SaveChat,
       Chat!Fails, Chat!UpdateBrainMessage, Chat!rows, ChatShape
  <2>4. stream'[s].at \in {"quiet", "asked", "saving", "done"} =>
            message'[s] # "streaming" \/ scenario.faults
    <3>1. CASE Chat!Begin(s)
      BY <3>1 DEF Chat!Begin, Chat!Quiet, Chat!rows
    <3>2. CASE Chat!Persist(s)
      <4>1. stream[s].at = "asked" /\ (message[s] # "streaming" \/ scenario.faults)
        BY <3>2 DEF Chat!Persist, Chat!Streaming
      <4>2. \/ message' = message
            \/ /\ message'[s] = IF message[s] = None THEN "asked" ELSE "streaming"
               /\ stream'[s].at = IF message[s] = None THEN "asked" ELSE "stored"
        BY <3>2, AtTurn, MovesTo DEF Chat!Persist, Chat!Streaming, Moves, ChatShape
      <4> QED BY <4>1, <4>2
    <3>3. CASE Chat!Fails(s) \/ Chat!Complete(s)
      <4>1. \E status \in {"error", "complete"} : Chat!UpdateBrainMessage(s, status)
        BY <3>3 DEF Chat!Fails, Chat!Complete
      <4>2. message'[s] # "streaming" \/ scenario.faults
        <5>1. PICK status \in {"error", "complete"}, works \in Chat!Works :
                  message' = [message EXCEPT ![s] = IF works THEN Chat!Kept(status) ELSE @]
          BY <4>1 DEF Chat!UpdateBrainMessage
        <5>2. works \/ scenario.faults
          BY <1>0 DEF Chat!Works
        <5>3. works => message'[s] = Chat!Kept(status)
          BY <5>1 DEF ChatShape
        <5> QED BY <1>0, <5>2, <5>3 DEF Chat!Kept
      <4> QED BY <4>2
    <3>4. CASE Chat!SaveChat(s)
      BY <3>4 DEF Chat!SaveChat, Chat!Streaming
    <3>5. CASE \/ Chat!Resolve(s) \/ Chat!StreamChat(s) \/ Chat!NoMoreIterations(s)
      <4>1. CASE \E at \in {"loop", "plain", "closing"} : Chat!To(s, at)
        BY <3>5, AtTurn, <4>1, MovesTo DEF Chat!Resolve, Chat!StreamChat, Chat!NoMoreIterations,
           Chat!Streaming, Moves
      <4> QED BY <3>3, <3>5, <4>1 DEF Chat!Resolve, Chat!StreamChat, Chat!NoMoreIterations
    <3>6. CASE Chat!Reply(s) /\ ~Chat!Fails(s)
      <4>1. stream[s].at = "loop" /\ Turn(stream[s])
        BY <3>6, AtTurn DEF Chat!Reply, Chat!Streaming
      <4>2. CASE \E at \in {"plain", "closing"} : Chat!To(s, at)
        BY <4>1, <4>2, MovesTo DEF Moves
      <4>3. CASE \E calls \in scenario.replies :
                    stream' = [stream EXCEPT ![s].at = "call", ![s].calls = calls,
                                             ![s].iterations = @ + 1]
        <5>1. PICK calls \in scenario.replies :
                 stream' = [stream EXCEPT ![s].at = "call", ![s].calls = calls,
                                          ![s].iterations = @ + 1]
          BY <4>3
        <5>2. stream'[s] = [stream[s] EXCEPT !.at = "call", !.calls = calls, !.iterations = @ + 1]
          BY <5>1 DEF ChatShape
        <5>3. stream'[s].at = "call"
          BY <4>1, <5>2 DEF Turn
        <5> QED BY <5>3
      <4> QED BY <3>6, <4>2, <4>3 DEF Chat!Reply
    <3>7. CASE Chat!RegisterApproval(s)
      BY <3>7, RegisterKeeps DEF Moves
    <3>8. CASE Chat!CreateApproval(s)
      BY <3>8, CreateKeeps DEF Moves
    <3>9. CASE Chat!Hear(s) \/ Chat!GiveUp(s) \/ Chat!Deregister(s)
      BY <3>9, HearKeeps, GiveUpKeeps, DeregisterKeeps DEF Moves
    <3>10. CASE Chat!Mark(s)
      BY <3>10, MarkKeeps DEF Moves
    <3>11. CASE Chat!Run(s)
      BY <3>11, RunCases DEF Moves, GateInv
    <3> QED BY <1>1, <3>1, <3>2, <3>3, <3>4, <3>5, <3>6, <3>7, <3>8, <3>9, <3>10, <3>11
               DEF Chat!Stream, Chat!Reply
  <2> QED BY <2>1, <2>2, <2>3, <2>4
<1>2. ASSUME NEW u \in Users, Chat!User(u) PROVE MessageInv'
  <2>1. stream' = stream /\ scenario' = scenario
    BY <1>2 DEF Chat!User, Chat!Decide, Chat!signalApproval, Chat!Ask, Chat!UpdateChat,
       Chat!DeleteChat, Chat!RunQueryArtifact, Chat!Count, Chat!bounds
  <2>2. message' = message
        \/ message' = [s \in Streams |-> IF message[s] = None THEN None ELSE Gone]
    BY <1>2 DEF Chat!User, Chat!Decide, Chat!signalApproval, Chat!Ask, Chat!UpdateChat,
       Chat!DeleteChat, Chat!RunQueryArtifact, Chat!rows
  <2> QED BY <1>0, <2>1, <2>2
<1>3. CASE Chat!Crash
  BY <1>3 DEF Chat!Crash, Chat!rows
<1>4. CASE Chat!Restart \/ UNCHANGED Chat!vars
  BY <1>4 DEF Chat!Restart, Chat!vars, Chat!rows, Chat!bounds
<1> QED BY <1>1, <1>2, <1>3, <1>4 DEF Chat!Next

----------------------------------------------------------------------------
LEMMA GateStep ==
  ASSUME Chat!ChatAssumption, ChatShape, GateInv, [Chat!Next]_Chat!vars
  PROVE  GateInv'
<1>1. ASSUME NEW s \in Streams, Chat!Stream(s) PROVE GateInv'
  BY <1>1, StreamMoves
<1>2. ASSUME NEW u \in Users, Chat!User(u) PROVE GateInv'
  BY <1>2, DecideKeeps, SignalKeeps, EditsKeep DEF Chat!User
<1>3. CASE Chat!Crash
  BY <1>3, CrashKeeps
<1>4. CASE Chat!Restart
  BY <1>4, RestartKeeps
<1>5. CASE UNCHANGED Chat!vars
  <2>1. UNCHANGED <<up, row, log, approvals, stream, user, ran, bare, orphans, scenario>>
    BY <1>5 DEF Chat!vars, Chat!rows, Chat!bounds
  <2>2. StageInv'
    <3> SUFFICES ASSUME NEW t \in Streams PROVE StageOf(t)'
      BY DEF StageInv
    <3> QED BY <2>1, StageKept DEF GateInv, GateKept, SignalsKept
  <2>3. OneInv' /\ ChannelInv' /\ PendingInv' /\ SignalInv'
    BY <2>1 DEF GateInv, OneInv, ChannelInv, PendingInv, SignalInv, At
  <2>4. DownInv' /\ Chat!GateHolds'
    BY <2>1 DEF GateInv, DownInv, Chat!GateHolds, Chat!Live
  <2> QED BY <2>2, <2>3, <2>4 DEF GateInv
<1> QED BY <1>1, <1>2, <1>3, <1>4, <1>5 DEF Chat!Next

LEMMA ChatInit == Chat!ChatAssumption /\ Chat!Init => ChatIInv
<1> SUFFICES ASSUME Chat!ChatAssumption, Chat!Init PROVE ChatIInv
  OBVIOUS
<1> USE DEF Chat!Init
<1>1. chat \in Chat!Chats
  BY DEF Chat!Fields, Chat!Settings, Chat!Chats
<1>2. \A s \in Streams : stream[s] = Chat!Quiet /\ stream[s].at = "quiet"
  BY DEF Chat!Quiet
<1>3. ChatShape
  BY <1>1, <1>2 DEF ChatShape, StreamShape, UserShape, RowStatuses
<1>4. StageInv /\ OneInv
  BY <1>2 DEF StageInv, StageOf, OneInv, At, Stages, Gating, Asking
<1>5. ChannelInv /\ SignalInv /\ PendingInv /\ DownInv
  BY DEF ChannelInv, SignalInv, PendingInv, DownInv, Chat!Quiet, Chat!ChatAssumption
<1>6. Chat!GateHolds
  BY DEF Chat!GateHolds
<1>7. MessageInv /\ GoneHasNone
  BY <1>1 DEF MessageInv, GoneHasNone, Chat!ChatAssumption
<1> QED BY <1>3, <1>4, <1>5, <1>6, <1>7 DEF ChatIInv, GateInv

LEMMA ChatIsInductive == ASSUME Chat!ChatAssumption PROVE Chat!Spec => []ChatIInv
<1>1. Chat!Init => ChatIInv
  BY ChatInit
<1>2. ChatIInv /\ [Chat!Next]_Chat!vars => ChatIInv'
  BY ChatShapeStep, GateStep, MessageStep, ChatWritten DEF ChatIInv
<1> QED BY <1>1, <1>2, PTL DEF Chat!Spec

\* Of the approvals: a gated call ran only when it was approved, and once; nobody waits
\* for a decision that was made without being told; no channel and no offer outlives its
\* stream; no message is left "streaming"; the provider of the chat is that of its model.
THEOREM ApprovalsHold == ASSUME Chat!ChatAssumption PROVE Chat!Spec => []Chat!ChatInv
<1>1. ChatIInv => Chat!ChatInv
  <2> SUFFICES ASSUME ChatIInv PROVE Chat!ChatInv
    OBVIOUS
  <2> USE DEF ChatIInv, GateInv
  <2>1. Chat!NoLostDecision
    BY DEF StageInv, StageOf, At, Asking, Told, Chat!NoLostDecision, Chat!Registered
  <2>2. Chat!NothingLeaks
    BY DEF At, Asking, Chat!Live, ChannelInv, Chat!Waits, PendingInv, Chat!NothingLeaks
  <2>3. Chat!MessagesSettle
    BY DEF MessageInv, At, Chat!MessagesSettle, Chat!Live
  <2>4. Chat!ProviderFits
    BY DEF ChatShape, Chat!Chats, Chat!ProviderFits
  <2> QED BY <2>1, <2>2, <2>3, <2>4 DEF Chat!ChatInv
<1> QED BY <1>1, ChatIsInductive, PTL

\* A decision is final, a deleted chat stays deleted, and an edit or a stream brings into
\* the settings it does not touch nothing but what it found or had read.
THEOREM DecisionsAreFinal == ASSUME Chat!ChatAssumption PROVE Chat!Spec => [][Chat!ChatSteps]_Chat!vars
<1>1. ASSUME ChatIInv, ChatIInv', [Chat!Next]_Chat!vars PROVE Chat!ChatSteps
  <2> USE <1>1 DEF ChatIInv
  <2>1. \A a \in Approvals : row[a] \notin {None, "pending"} => row'[a] = row[a]
    <3> SUFFICES ASSUME NEW a \in Approvals, row[a] \notin {None, "pending"} PROVE row'[a] = row[a]
      OBVIOUS
    <3>1. ASSUME NEW s \in Streams, Chat!Stream(s) PROVE row'[a] = row[a]
      <4>1. CASE Chat!CreateApproval(s)
        BY <4>1 DEF Chat!CreateApproval, Chat!Streaming, GateInv, StageInv, StageOf, At, ChatShape
      <4>2. CASE Chat!Mark(s)
        BY <4>2 DEF Chat!Mark, Chat!MarkBrainApprovalDecided, ChatShape
      <4>3. CASE ~Chat!CreateApproval(s) /\ ~Chat!Mark(s)
        BY <3>1, <4>3 DEF Chat!Stream, Chat!Begin, Chat!Persist, Chat!Resolve, Chat!Reply,
           Chat!NoMoreIterations, Chat!RegisterApproval, Chat!Hear, Chat!GiveUp,
           Chat!Deregister, Chat!Run, Chat!StreamChat, Chat!Complete, Chat!SaveChat,
           Chat!Fails, Chat!rows
      <4> QED BY <4>1, <4>2, <4>3
    <3>2. ASSUME NEW u \in Users, Chat!User(u) PROVE row'[a] = row[a]
      BY <3>2 DEF Chat!User, Chat!Decide, Chat!signalApproval, Chat!Ask, Chat!UpdateChat,
         Chat!DeleteChat, Chat!RunQueryArtifact, Chat!MarkBrainApprovalDecided, Chat!rows, ChatShape
    <3>3. ASSUME Chat!Crash \/ Chat!Restart \/ UNCHANGED Chat!vars PROVE row'[a] = row[a]
      BY <3>3 DEF Chat!Crash, Chat!Restart, Chat!vars, Chat!rows
    <3> QED BY <1>1, <3>1, <3>2, <3>3 DEF Chat!Next
  <2>2. chat = Gone => chat' = Gone /\ artifacts' = 0
    <3> SUFFICES ASSUME chat = Gone PROVE chat' = Gone
      BY DEF GoneHasNone
    <3>1. ASSUME NEW s \in Streams, Chat!Stream(s) PROVE chat' = Gone
      BY <3>1 DEF Chat!Stream, Chat!Begin, Chat!Persist, Chat!Resolve, Chat!Reply,
         Chat!NoMoreIterations, Chat!RegisterApproval, Chat!CreateApproval, Chat!Hear,
         Chat!GiveUp, Chat!Deregister, Chat!Mark, Chat!Run, Chat!StreamChat, Chat!Complete,
         Chat!SaveChat, Chat!Fails, Chat!rows
    <3>2. ASSUME NEW u \in Users, Chat!User(u) PROVE chat' = Gone
      BY <3>2 DEF Chat!User, Chat!Decide, Chat!signalApproval, Chat!Ask, Chat!UpdateChat,
         Chat!DeleteChat, Chat!RunQueryArtifact, Chat!rows
    <3>3. ASSUME Chat!Crash \/ Chat!Restart \/ UNCHANGED Chat!vars PROVE chat' = Gone
      BY <3>3 DEF Chat!Crash, Chat!Restart, Chat!vars, Chat!rows
    <3> QED BY <1>1, <3>1, <3>2, <3>3 DEF Chat!Next
  <2>3. ASSUME NEW u \in Users, chat # Gone, chat' # Gone, user[u].at = "update",
               user'[u] = Chat!Quiet
        PROVE  \A f \in Chat!Fields \ Chat!Touched(user[u].body) :
                  chat'[f] \in {chat[f], user[u].seen[f]}
    <3>1. CASE Chat!UpdateChat(u)
      <4>1. chat' = chat \/ chat' = Chat!Merged(u)
        BY <3>1 DEF Chat!UpdateChat
      <4>2. ASSUME NEW f \in Chat!Fields \ Chat!Touched(user[u].body)
            PROVE  /\ Chat!NamedAs(f) \notin DOMAIN user[u].body
                   /\ f \notin Chat!Cleared(user[u].body)
        BY <4>2 DEF Chat!Touched, Chat!With, Chat!NamedAs, Chat!Cleared
      <4> QED BY <4>1, <4>2 DEF Chat!Merged
    <3>2. ASSUME NEW s \in Streams, Chat!Stream(s) PROVE FALSE
      BY <3>2, StreamRestShape, <2>3 DEF Chat!Quiet
    <3>3. ASSUME NEW v \in Users, Chat!User(v), v # u PROVE FALSE
      <4>1. user'[u] = user[u]
        BY <3>3 DEF Chat!User, Chat!Decide, Chat!signalApproval, Chat!Ask, Chat!UpdateChat,
           Chat!DeleteChat, Chat!RunQueryArtifact, Chat!Over, ChatShape
      <4> QED BY <4>1, <2>3 DEF Chat!Quiet
    <3>4. ASSUME Chat!User(u), ~Chat!UpdateChat(u) PROVE FALSE
      BY <3>4, <2>3 DEF Chat!User, Chat!Decide, Chat!signalApproval, Chat!Ask, Chat!DeleteChat,
         Chat!RunQueryArtifact, Chat!UserIdle, Chat!UserAt
    <3>5. CASE Chat!Crash
      BY <3>5 DEF Chat!Crash, Chat!rows
    <3>6. ASSUME Chat!Restart \/ UNCHANGED Chat!vars PROVE FALSE
      BY <3>6, <2>3 DEF Chat!Restart, Chat!vars, Chat!Quiet
    <3> QED BY <1>1, <3>1, <3>2, <3>3, <3>4, <3>5, <3>6 DEF Chat!Next
  <2>4. ASSUME NEW s \in Streams, chat # Gone, chat' # Gone, Chat!Streaming(s, "saving"),
               stream'[s].at = "done"
        PROVE  \A f \in Chat!Fields \ {"model", "provider"} :
                  \/ chat'[f] \in {chat[f], stream[s].seen[f]}
                  \/ f = "title" /\ stream[s].seen[f] = Chat!NewChat
    <3>1. CASE Chat!SaveChat(s)
      BY <3>1, SavedShape DEF Chat!TitleOf
    <3>2. ASSUME Chat!Stream(s), ~Chat!SaveChat(s) PROVE FALSE
      <4>1. stream[s].at = "saving"
        BY <2>4 DEF Chat!Streaming
      <4>2. ~Chat!Begin(s)
        BY <4>1 DEF Chat!Begin, Chat!Quiet
      <4>3. /\ ~Chat!Persist(s) /\ ~Chat!Resolve(s) /\ ~Chat!Reply(s) /\ ~Chat!NoMoreIterations(s)
            /\ ~Chat!StreamChat(s) /\ ~Chat!Complete(s)
        BY <4>1 DEF Chat!Persist, Chat!Resolve, Chat!Reply, Chat!NoMoreIterations,
           Chat!StreamChat, Chat!Complete, Chat!Streaming
      <4>4. ~Chat!Run(s)
        BY <4>1 DEF Chat!Run, Chat!Streaming
      <4>5. /\ ~Chat!RegisterApproval(s) /\ ~Chat!CreateApproval(s) /\ ~Chat!Hear(s)
            /\ ~Chat!GiveUp(s) /\ ~Chat!Deregister(s) /\ ~Chat!Mark(s)
        BY <4>1 DEF Chat!RegisterApproval, Chat!CreateApproval, Chat!Hear, Chat!GiveUp,
           Chat!Deregister, Chat!Mark, Chat!Streaming
      <4> QED BY <3>2, <4>2, <4>3, <4>4, <4>5 DEF Chat!Stream
    <3>3. ASSUME stream'[s] = stream[s] PROVE FALSE
      BY <3>3, <2>4 DEF Chat!Streaming
    <3>4. ASSUME NEW t \in Streams, Chat!Stream(t), t # s PROVE FALSE
      BY <3>4, StreamMoves, <3>3 DEF Moves
    <3>5. ASSUME NEW u \in Users, Chat!User(u) PROVE FALSE
      BY <3>3, <3>5, UserRestShape
    <3>6. ASSUME Chat!Crash PROVE FALSE
      BY <3>3, <3>6, <2>4 DEF Chat!Crash
    <3>7. ASSUME Chat!Restart \/ UNCHANGED Chat!vars PROVE FALSE
      BY <3>3, <3>7 DEF Chat!Restart, Chat!vars
    <3> QED BY <1>1, <3>1, <3>2, <3>4, <3>5, <3>6, <3>7 DEF Chat!Next
  <2> QED BY <2>1, <2>2, <2>3, <2>4 DEF Chat!ChatSteps
<1>2. ChatIInv /\ ChatIInv' /\ [Chat!Next]_Chat!vars => [Chat!ChatSteps]_Chat!vars
  BY <1>1
<1> QED BY <1>2, ChatIsInductive, PTL DEF Chat!Spec

-----------------------------------------------------------------------------
(***************************************************************************)
(* The settings of the assistant.  Every statement keeps OneOfEach and, if *)
(* the row that it writes was read while it is still as it was read,       *)
(* DefaultIsActive. SettingsOK, the inductive invariant, says what a       *)
(* request has read (RequestOK) and which of it an administrator who is    *)
(* alone may rely on (BulkOK); ResultsOK, how far a request for all models *)
(* has come.                                                               *)
(***************************************************************************)
CONSTANTS Ids, Admins, Preferred
VARIABLES tables, admin, requests

Settings == INSTANCE BrainSettings

TablesOK(s) == s \in Settings!AllTables /\ Settings!OneOfEachIn(s)

\* No request writes a default model that is not active.
KeepsActive(s, t) == Settings!DefaultIsActiveIn(s) => Settings!DefaultIsActiveIn(t)

\* Every model that there is was there before, with the same provider.
SameModels(s, t) ==
    \A m \in Settings!Rows(t.models) :
        m \in Settings!Rows(s.models) /\ t.models[m].of = s.models[m].of

\* The same rows of models, with the same providers and names.
SameRows(s, t) ==
    \A id \in Ids :
        /\ Settings!Has(t.models, id) <=> Settings!Has(s.models, id)
        /\ t.models[id].of = s.models[id].of /\ t.models[id].name = s.models[id].name

\* Model m is written; as the default it is the only one of its provider.
Rewritten(s, t, m, active, default) ==
    /\ SameRows(s, t)
    /\ t.models[m].active = active /\ t.models[m].default = default
    /\ \A id \in Settings!Rows(s.models) \ {m} :
          /\ t.models[id].active = s.models[id].active
          /\ t.models[id].default =>
                s.models[id].default /\ ~(default /\ s.models[id].of = s.models[m].of)
          /\ s.models[id].default /\ ~default => t.models[id].default

\* No model gets the flag is_default.
NoNewDefault(s, t) ==
    \A m \in Settings!Rows(t.models) : t.models[m].default => s.models[m].default

LEMMA RowTypes ==
    ASSUME Settings!SettingsAssumption, NEW s \in Settings!AllTables, NEW id \in Ids
    PROVE  /\ Settings!Has(s.providers, id) <=> s.providers[id] \in Settings!FlagRow
           /\ Settings!Has(s.models, id) <=> s.models[id] \in Settings!ModelRow
           /\ Settings!Has(s.skills, id) <=> s.skills[id] \in Settings!FlagRow
BY DEF Settings!AllTables, Settings!Table, Settings!SettingsAssumption, Settings!Has

\* The flag is_default of a table without it.
LEMMA ClearedFlags ==
    ASSUME Settings!SettingsAssumption, NEW t \in Settings!Table(Settings!FlagRow),
           NEW x, \A id \in x : Settings!Has(t, id)
    PROVE  /\ Settings!Cleared(t, x) \in Settings!Table(Settings!FlagRow)
           /\ \A id \in Ids :
                 /\ Settings!Has(Settings!Cleared(t, x), id) <=> Settings!Has(t, id)
                 /\ id \in x => ~Settings!Cleared(t, x)[id].default
                 /\ id \notin x => Settings!Cleared(t, x)[id] = t[id]
<1>1. \A r \in Settings!FlagRow : r # None /\ r # Gone
  BY DEF Settings!SettingsAssumption
<1>2. ASSUME NEW id \in Ids, id \in x
      PROVE  /\ t[id] \in Settings!FlagRow
             /\ [t[id] EXCEPT !.default = FALSE] \in Settings!FlagRow
             /\ ~[t[id] EXCEPT !.default = FALSE].default
  BY <1>2 DEF Settings!Table, Settings!Has, Settings!FlagRow
<1>3. \A id \in Ids : Settings!Cleared(t, x)[id] =
         IF id \in x THEN [t[id] EXCEPT !.default = FALSE] ELSE t[id]
  BY DEF Settings!Cleared
<1>4. \A id \in Ids : t[id] \in Settings!FlagRow \cup {None, Gone}
  BY DEF Settings!Table
<1>5. Settings!Cleared(t, x) \in Settings!Table(Settings!FlagRow)
  BY <1>2, <1>4 DEF Settings!Cleared, Settings!Table
<1> QED
  BY <1>1, <1>2, <1>3, <1>5 DEF Settings!Has

LEMMA ClearedModels ==
    ASSUME Settings!SettingsAssumption, NEW t \in Settings!Table(Settings!ModelRow),
           NEW x, \A id \in x : Settings!Has(t, id)
    PROVE  /\ Settings!Cleared(t, x) \in Settings!Table(Settings!ModelRow)
           /\ \A id \in Ids :
                 /\ Settings!Has(Settings!Cleared(t, x), id) <=> Settings!Has(t, id)
                 /\ id \in x => /\ ~Settings!Cleared(t, x)[id].default
                                /\ Settings!Cleared(t, x)[id].of = t[id].of
                                /\ Settings!Cleared(t, x)[id].name = t[id].name
                                /\ Settings!Cleared(t, x)[id].active = t[id].active
                 /\ id \notin x => Settings!Cleared(t, x)[id] = t[id]
<1>1. \A r \in Settings!ModelRow : r # None /\ r # Gone
  BY DEF Settings!SettingsAssumption
<1>2. ASSUME NEW id \in Ids, id \in x
      PROVE  /\ t[id] \in Settings!ModelRow
             /\ [t[id] EXCEPT !.default = FALSE] \in Settings!ModelRow
             /\ ~[t[id] EXCEPT !.default = FALSE].default
             /\ [t[id] EXCEPT !.default = FALSE].of = t[id].of
             /\ [t[id] EXCEPT !.default = FALSE].name = t[id].name
             /\ [t[id] EXCEPT !.default = FALSE].active = t[id].active
  BY <1>2 DEF Settings!Table, Settings!Has, Settings!ModelRow
<1>3. \A id \in Ids : Settings!Cleared(t, x)[id] =
         IF id \in x THEN [t[id] EXCEPT !.default = FALSE] ELSE t[id]
  BY DEF Settings!Cleared
<1>4. \A id \in Ids : t[id] \in Settings!ModelRow \cup {None, Gone}
  BY DEF Settings!Table
<1>5. Settings!Cleared(t, x) \in Settings!Table(Settings!ModelRow)
  BY <1>2, <1>4 DEF Settings!Cleared, Settings!Table
<1> QED
  BY <1>1, <1>2, <1>3, <1>5 DEF Settings!Has

\* One statement on the providers, on the models, on the skills.
LEMMA WrittenProviders ==
    ASSUME Settings!SettingsAssumption, NEW s, TablesOK(s),
           NEW t \in Settings!Table(Settings!FlagRow),
           \A id \in Ids : Settings!Has(s.providers, id) => Settings!Has(t, id),
           Settings!AtMostOne({p \in Settings!Rows(t) : t[p].default})
    PROVE  TablesOK([s EXCEPT !.providers = t]) /\ KeepsActive(s, [s EXCEPT !.providers = t])
<1> DEFINE n == [s EXCEPT !.providers = t]
<1>1. n \in Settings!AllTables /\ n.providers = t /\ n.models = s.models /\ n.skills = s.skills
  BY DEF TablesOK, Settings!AllTables
<1>2. \A id \in Settings!Rows(s.models) : s.models[id].of \in Ids
  <2> SUFFICES ASSUME NEW id \in Settings!Rows(s.models) PROVE s.models[id].of \in Ids
    OBVIOUS
  <2>1. s.models[id] \in Settings!ModelRow
    BY RowTypes DEF TablesOK, Settings!Rows
  <2> QED
    BY <2>1 DEF Settings!ModelRow
<1> HIDE DEF n
<1>3. Settings!OneOfEachIn(n)
  BY <1>1, <1>2 DEF TablesOK, Settings!OneOfEachIn, Settings!ModelsOf
<1>4. KeepsActive(s, n)
  BY <1>1 DEF KeepsActive, Settings!DefaultIsActiveIn
<1>5. n = [s EXCEPT !.providers = t]
  BY DEF n
<1> QED
  BY <1>1, <1>3, <1>4, <1>5 DEF TablesOK

LEMMA WrittenSkills ==
    ASSUME Settings!SettingsAssumption, NEW s, TablesOK(s),
           NEW t \in Settings!Table(Settings!FlagRow),
           Settings!AtMostOne({k \in Settings!Rows(t) : t[k].active}),
           Settings!AtMostOne({k \in Settings!Rows(t) : t[k].default})
    PROVE  TablesOK([s EXCEPT !.skills = t]) /\ KeepsActive(s, [s EXCEPT !.skills = t])
<1> DEFINE n == [s EXCEPT !.skills = t]
<1>1. n \in Settings!AllTables /\ n.skills = t /\ n.models = s.models /\ n.providers = s.providers
  BY DEF TablesOK, Settings!AllTables
<1> HIDE DEF n
<1>3. Settings!OneOfEachIn(n)
  BY <1>1 DEF TablesOK, Settings!OneOfEachIn, Settings!ModelsOf
<1>4. KeepsActive(s, n)
  BY <1>1 DEF KeepsActive, Settings!DefaultIsActiveIn
<1>5. n = [s EXCEPT !.skills = t]
  BY DEF n
<1> QED
  BY <1>1, <1>3, <1>4, <1>5 DEF TablesOK

\* No row is new, and none changes its provider or its name.
LEMMA WrittenModels ==
    ASSUME Settings!SettingsAssumption, NEW s, TablesOK(s),
           NEW t \in Settings!Table(Settings!ModelRow),
           \A id \in Ids : Settings!Has(t, id) =>
              /\ Settings!Has(s.models, id)
              /\ t[id].of = s.models[id].of /\ t[id].name = s.models[id].name,
           \A i, j \in Settings!Rows(t) :
              t[i].default /\ t[j].default /\ t[i].of = t[j].of => i = j
    PROVE  TablesOK([s EXCEPT !.models = t])
<1> DEFINE n == [s EXCEPT !.models = t]
<1>1. n \in Settings!AllTables /\ n.models = t /\ n.skills = s.skills /\ n.providers = s.providers
  BY DEF TablesOK, Settings!AllTables
<1> HIDE DEF n
<1>2. \A id \in Settings!Rows(t) :
         /\ id \in Settings!Rows(s.models) /\ t[id].of = s.models[id].of /\ t[id].name = s.models[id].name
  BY DEF Settings!Rows
<1>3. \A p \in Ids : Settings!AtMostOne({m \in Settings!ModelsOf(n, p) : n.models[m].default})
  BY <1>1 DEF Settings!AtMostOne, Settings!ModelsOf
<1>4. \A k, m \in Settings!Rows(n.models) : k # m =>
         <<n.models[k].of, n.models[k].name>> # <<n.models[m].of, n.models[m].name>>
  BY <1>1, <1>2 DEF TablesOK, Settings!OneOfEachIn
<1>5. \A m \in Settings!Rows(n.models) : Settings!Has(n.providers, n.models[m].of)
  BY <1>1, <1>2 DEF TablesOK, Settings!OneOfEachIn
<1>6. Settings!OneOfEachIn(n)
  BY <1>1, <1>3, <1>4, <1>5 DEF TablesOK, Settings!OneOfEachIn
<1>7. n = [s EXCEPT !.models = t]
  BY DEF n
<1> QED
  BY <1>1, <1>6, <1>7 DEF TablesOK

----------------------------------------------------------------------------
(* Each statement keeps the tables in order (database/brain.go).            *)

Put(t, id, r) == [t EXCEPT ![id] = r]
Flagged(active, default) == [active |-> active, default |-> default]

\* The providers before one is written as the default, or not.
Others(s, default) ==
    IF default THEN Settings!Cleared(s.providers, Settings!Rows(s.providers)) ELSE s.providers

\* A table of providers with one default, in which no row of before is missing.
Clean(s, t) ==
    /\ t \in Settings!Table(Settings!FlagRow)
    /\ \A id \in Ids : Settings!Has(s.providers, id) => Settings!Has(t, id)
    /\ Settings!AtMostOne({i \in Settings!Rows(t) : t[i].default})

\* A provider that is written as the default is the only one.
LEMMA ProviderRow ==
    ASSUME Settings!SettingsAssumption, NEW s, TablesOK(s), NEW p \in Ids,
           NEW active \in BOOLEAN, NEW default \in BOOLEAN
    PROVE  /\ Clean(s, Others(s, default))
           /\ Clean(s, Put(Others(s, default), p, Flagged(active, default)))
<1> DEFINE t == Others(s, default)
           u == Put(t, p, Flagged(active, default))
           flags == Flagged(active, default)
<1>1. s.providers \in Settings!Table(Settings!FlagRow)
  BY DEF TablesOK, Settings!AllTables
<1>2. \A i, j \in Ids : Settings!Has(s.providers, i) /\ s.providers[i].default
                        /\ Settings!Has(s.providers, j) /\ s.providers[j].default => i = j
  BY DEF TablesOK, Settings!OneOfEachIn, Settings!AtMostOne, Settings!Rows
<1>3. /\ t \in Settings!Table(Settings!FlagRow)
      /\ \A id \in Ids : Settings!Has(t, id) <=> Settings!Has(s.providers, id)
      /\ default => \A id \in Ids : Settings!Has(t, id) => ~t[id].default
      /\ ~default => t = s.providers
  BY <1>1, ClearedFlags DEF Settings!Rows, Others
<1>4. \A i, j \in Ids : Settings!Has(t, i) /\ t[i].default /\ Settings!Has(t, j) /\ t[j].default => i = j
  BY <1>2, <1>3
<1>5. flags \in Settings!FlagRow /\ flags # None /\ flags # Gone /\ flags.default = default
  BY DEF Flagged, Settings!FlagRow, Settings!SettingsAssumption
<1>6. /\ u \in Settings!Table(Settings!FlagRow)
      /\ u[p] = flags /\ \A id \in Ids : id # p => u[id] = t[id]
  BY <1>3, <1>5 DEF Settings!Table, Put
<1> HIDE DEF flags, t, u
<1>7. \A id \in Ids : Settings!Has(u, id) <=> id = p \/ Settings!Has(t, id)
  BY <1>5, <1>6 DEF Settings!Has
<1>8. ASSUME NEW i \in Ids, NEW j \in Ids, Settings!Has(u, i), u[i].default, Settings!Has(u, j), u[j].default
      PROVE  i = j
  BY <1>4, <1>6, <1>7, <1>8, <1>3, <1>5
<1>9. /\ Settings!AtMostOne({i \in Settings!Rows(u) : u[i].default})
      /\ Settings!AtMostOne({i \in Settings!Rows(t) : t[i].default})
  BY <1>4, <1>8 DEF Settings!AtMostOne, Settings!Rows
<1>10. Clean(s, t) /\ Clean(s, u)
  BY <1>3, <1>6, <1>7, <1>9 DEF Clean
<1> QED
  BY <1>10 DEF t, u

LEMMA CreateProviderOK ==
    ASSUME Settings!SettingsAssumption, NEW s, TablesOK(s), NEW p \in Ids,
           NEW active \in BOOLEAN, NEW default \in BOOLEAN
    PROVE  /\ TablesOK(Settings!CreateBrainProvider(s, p, active, default))
           /\ KeepsActive(s, Settings!CreateBrainProvider(s, p, active, default))
<1> DEFINE t == Others(s, default)
           u == Put(t, p, Flagged(active, default))
<1>1. Settings!CreateBrainProvider(s, p, active, default) = [s EXCEPT !.providers = u]
  BY DEF Settings!CreateBrainProvider, Others, Put, Flagged
<1>2. Clean(s, u)
  BY ProviderRow
<1> HIDE DEF u
<1> QED
  BY <1>1, <1>2, WrittenProviders DEF Clean

LEMMA UpdateProviderOK ==
    ASSUME Settings!SettingsAssumption, NEW s, TablesOK(s), NEW p \in Ids,
           NEW active \in BOOLEAN, NEW default \in BOOLEAN
    PROVE  /\ TablesOK(Settings!UpdateBrainProvider(s, p, active, default))
           /\ KeepsActive(s, Settings!UpdateBrainProvider(s, p, active, default))
<1> DEFINE t == Others(s, default)
           u == Put(t, p, Flagged(active, default))
           n == Settings!UpdateBrainProvider(s, p, active, default)
<1>1. n = [s EXCEPT !.providers = u] \/ n = [s EXCEPT !.providers = t]
  BY DEF Settings!UpdateBrainProvider, Others, Put, Flagged
<1>2. Clean(s, t) /\ Clean(s, u)
  BY ProviderRow
<1> HIDE DEF t, u, n
<1>3. TablesOK(n) /\ KeepsActive(s, n)
  BY <1>2, WrittenProviders, <1>1 DEF Clean
<1> QED
  BY <1>3 DEF n

\* A provider goes with its models.
LEMMA DeleteProviderOK ==
    ASSUME Settings!SettingsAssumption, NEW s, TablesOK(s), NEW p \in Ids
    PROVE  /\ TablesOK(Settings!DeleteBrainProvider(s, p))
           /\ KeepsActive(s, Settings!DeleteBrainProvider(s, p))
<1> DEFINE n == Settings!DeleteBrainProvider(s, p)
           P == [id \in Ids |-> IF id = p /\ Settings!Has(s.providers, p) THEN Gone ELSE s.providers[id]]
           M == [id \in Ids |-> IF id \in Settings!ModelsOf(s, p) THEN Gone ELSE s.models[id]]
<1>1. n = [s EXCEPT !.providers = P, !.models = M]
  BY DEF TablesOK, Settings!AllTables, Settings!DeleteBrainProvider
<1>2. P \in Settings!Table(Settings!FlagRow) /\ M \in Settings!Table(Settings!ModelRow)
  BY DEF TablesOK, Settings!AllTables, Settings!Table
<1>3. /\ \A id \in Ids : id # p => P[id] = s.providers[id] /\ (Settings!Has(P, id) <=> Settings!Has(s.providers, id))
      /\ ~Settings!Has(P, p)
      /\ \A id \in Ids : Settings!Has(M, id) =>
            M[id] = s.models[id] /\ Settings!Has(s.models, id) /\ s.models[id].of # p
  <2>1. \A id \in Ids : P[id] = IF id = p /\ Settings!Has(s.providers, p) THEN Gone ELSE s.providers[id]
    OBVIOUS
  <2>2. \A id \in Ids : M[id] = IF id \in Settings!ModelsOf(s, p) THEN Gone ELSE s.models[id]
    OBVIOUS
  <2> HIDE DEF P, M
  <2>3. \A id \in Ids : Settings!Has(M, id) =>
           M[id] = s.models[id] /\ Settings!Has(s.models, id) /\ s.models[id].of # p
    BY <2>2 DEF Settings!Has, Settings!ModelsOf, Settings!Rows
  <2>4. \A id \in Ids : id # p => P[id] = s.providers[id] /\ (Settings!Has(P, id) <=> Settings!Has(s.providers, id))
    BY <2>1 DEF Settings!Has
  <2>5. ~Settings!Has(P, p)
    BY <2>1 DEF Settings!Has
  <2> QED
    BY <2>3, <2>4, <2>5
<1> HIDE DEF P, M
<1>4. n \in Settings!AllTables /\ n.providers = P /\ n.models = M /\ n.skills = s.skills
  BY <1>1, <1>2 DEF TablesOK, Settings!AllTables
<1> HIDE DEF n
<1>5. \A id \in Settings!Rows(s.models) : s.models[id].of \in Ids
  <2> SUFFICES ASSUME NEW id \in Settings!Rows(s.models) PROVE s.models[id].of \in Ids
    OBVIOUS
  <2>1. s.models[id] \in Settings!ModelRow
    BY RowTypes DEF TablesOK, Settings!Rows
  <2> QED
    BY <2>1 DEF Settings!ModelRow
<1>6. \A id \in Settings!Rows(M) : id \in Settings!Rows(s.models) /\ M[id] = s.models[id]
                                   /\ s.models[id].of # p
  BY <1>3 DEF Settings!Rows
<1>7. Settings!AtMostOne({i \in Settings!Rows(P) : P[i].default})
  BY <1>3 DEF TablesOK, Settings!OneOfEachIn, Settings!AtMostOne, Settings!Rows
<1>8. \A q \in Ids : Settings!AtMostOne({m \in Settings!ModelsOf(n, q) : n.models[m].default})
  <2> SUFFICES ASSUME NEW q \in Ids, NEW i \in Settings!ModelsOf(n, q), NEW j \in Settings!ModelsOf(n, q),
                      n.models[i].default, n.models[j].default
               PROVE  i = j
    BY DEF Settings!AtMostOne
  <2>1. /\ i \in Settings!ModelsOf(s, q) /\ s.models[i].default
        /\ j \in Settings!ModelsOf(s, q) /\ s.models[j].default
    BY <1>4, <1>6 DEF Settings!ModelsOf
  <2> QED
    BY <2>1 DEF TablesOK, Settings!OneOfEachIn, Settings!AtMostOne
<1>9. \A k, m \in Settings!Rows(M) : k # m => <<M[k].of, M[k].name>> # <<M[m].of, M[m].name>>
  BY <1>6 DEF TablesOK, Settings!OneOfEachIn
<1>10. \A m \in Settings!Rows(M) : Settings!Has(P, M[m].of)
  BY <1>3, <1>5, <1>6 DEF TablesOK, Settings!OneOfEachIn
<1>11. Settings!OneOfEachIn(n)
  BY <1>4, <1>7, <1>8, <1>9, <1>10 DEF TablesOK, Settings!OneOfEachIn
<1>12. KeepsActive(s, n)
  BY <1>4, <1>6 DEF KeepsActive, Settings!DefaultIsActiveIn
<1>13. n = Settings!DeleteBrainProvider(s, p)
  BY DEF n
<1> QED
  BY <1>4, <1>11, <1>12, <1>13 DEF TablesOK

\* A provider has one default model.
LEMMA OneDefault ==
    ASSUME Settings!SettingsAssumption, NEW s, TablesOK(s), NEW i \in Ids, NEW j \in Ids,
           Settings!Has(s.models, i), Settings!Has(s.models, j),
           s.models[i].default, s.models[j].default, s.models[i].of = s.models[j].of
    PROVE  i = j
BY RowTypes DEF TablesOK, Settings!ModelRow, Settings!ModelsOf, Settings!Rows,
   Settings!OneOfEachIn, Settings!AtMostOne

\* The flag of all models of a provider is cleared.
LEMMA ClearDefaultOK ==
    ASSUME Settings!SettingsAssumption, NEW s, TablesOK(s), NEW p
    PROVE  /\ TablesOK(Settings!ClearDefaultBrainModelsByProvider(s, p))
           /\ KeepsActive(s, Settings!ClearDefaultBrainModelsByProvider(s, p))
           /\ SameModels(s, Settings!ClearDefaultBrainModelsByProvider(s, p))
           /\ \A m \in Settings!ModelsOf(Settings!ClearDefaultBrainModelsByProvider(s, p), p) :
                 ~Settings!ClearDefaultBrainModelsByProvider(s, p).models[m].default
           /\ SameRows(s, Settings!ClearDefaultBrainModelsByProvider(s, p))
<1> DEFINE t == Settings!Cleared(s.models, Settings!ModelsOf(s, p))
           n == [s EXCEPT !.models = t]
<1>1. n = Settings!ClearDefaultBrainModelsByProvider(s, p)
  BY DEF TablesOK, Settings!AllTables, Settings!ClearDefaultBrainModelsByProvider
<1>2. s.models \in Settings!Table(Settings!ModelRow)
  BY DEF TablesOK, Settings!AllTables
<1>3. \A id \in Settings!ModelsOf(s, p) : Settings!Has(s.models, id)
  BY DEF Settings!ModelsOf, Settings!Rows
<1>4. /\ t \in Settings!Table(Settings!ModelRow)
      /\ \A id \in Ids :
            /\ Settings!Has(t, id) <=> Settings!Has(s.models, id)
            /\ id \in Settings!ModelsOf(s, p) =>
                  /\ ~t[id].default /\ t[id].of = s.models[id].of /\ t[id].name = s.models[id].name
                  /\ t[id].active = s.models[id].active
            /\ id \notin Settings!ModelsOf(s, p) => t[id] = s.models[id]
  BY <1>2, <1>3, ClearedModels
<1> HIDE DEF t
<1>5. \A id \in Ids : /\ t[id].of = s.models[id].of /\ t[id].name = s.models[id].name
                      /\ t[id].active = s.models[id].active
                      /\ t[id].default => t[id] = s.models[id]
  BY <1>4
<1>6. \A i, j \in Settings!Rows(t) : t[i].default /\ t[j].default /\ t[i].of = t[j].of => i = j
  BY <1>4, <1>5, OneDefault DEF Settings!Rows
<1>7. TablesOK(n)
  BY <1>4, <1>5, <1>6, WrittenModels
<1>8. n.models = t
  BY DEF TablesOK, Settings!AllTables
<1>9. KeepsActive(s, n)
  BY <1>4, <1>5, <1>8 DEF KeepsActive, Settings!DefaultIsActiveIn, Settings!Rows
<1>10. SameModels(s, n)
  BY <1>4, <1>5, <1>8 DEF SameModels, Settings!Rows
<1>11. \A m \in Settings!ModelsOf(n, p) : ~n.models[m].default
  <2> SUFFICES ASSUME NEW m \in Settings!ModelsOf(n, p) PROVE ~t[m].default
    BY <1>8
  <2>1. m \in Ids /\ Settings!Has(s.models, m) /\ s.models[m].of = p
    BY <1>4, <1>5, <1>8 DEF Settings!ModelsOf, Settings!Rows
  <2> QED
    BY <1>4, <2>1 DEF Settings!ModelsOf, Settings!Rows
<1>12. SameRows(s, n)
  BY <1>4, <1>5, <1>8 DEF SameRows
<1> HIDE DEF n
<1> QED
  BY <1>1, <1>7, <1>9, <1>10, <1>11, <1>12

LEMMA UpdateModelOK ==
    ASSUME Settings!SettingsAssumption, NEW s, TablesOK(s), NEW m,
           NEW active \in BOOLEAN, NEW default \in BOOLEAN
    PROVE  /\ TablesOK(Settings!UpdateBrainModel(s, m, active, default))
           /\ (default => active) => KeepsActive(s, Settings!UpdateBrainModel(s, m, active, default))
           /\ SameModels(s, Settings!UpdateBrainModel(s, m, active, default))
           /\ m \in Settings!Rows(s.models) =>
                 Rewritten(s, Settings!UpdateBrainModel(s, m, active, default), m, active, default)
<1>1. CASE ~Settings!Has(s.models, m)
  BY <1>1 DEF Settings!UpdateBrainModel, KeepsActive, SameModels, Settings!Rows
<1>2. CASE Settings!Has(s.models, m)
  <2> DEFINE x == IF default THEN Settings!ModelsOf(s, s.models[m].of) ELSE {}
             t == Settings!Cleared(s.models, x)
             u == [t EXCEPT ![m] = [@ EXCEPT !.active = active, !.default = default]]
             n == [s EXCEPT !.models = u]
  <2>1. s.models \in Settings!Table(Settings!ModelRow)
    BY DEF TablesOK, Settings!AllTables
  <2>2. ~default => t = s.models
    BY <2>1 DEF Settings!Cleared, Settings!Table
  <2>3. n = Settings!UpdateBrainModel(s, m, active, default)
    BY <1>2, <2>2 DEF Settings!UpdateBrainModel
  <2>4. \A id \in x : Settings!Has(s.models, id)
    BY DEF Settings!ModelsOf, Settings!Rows
  <2>5. /\ t \in Settings!Table(Settings!ModelRow)
        /\ \A id \in Ids :
              /\ Settings!Has(t, id) <=> Settings!Has(s.models, id)
              /\ id \in x =>
                    /\ ~t[id].default /\ t[id].of = s.models[id].of /\ t[id].name = s.models[id].name
                    /\ t[id].active = s.models[id].active
              /\ id \notin x => t[id] = s.models[id]
    <3> HIDE DEF x
    <3> QED
      BY <2>1, <2>4, ClearedModels
  <2>6. \A id \in Ids : default /\ id \in Settings!Rows(s.models) /\ s.models[id].of = s.models[m].of => id \in x
    BY DEF Settings!ModelsOf
  <2> HIDE DEF x, t
  <2>7. \A id \in Ids : /\ t[id].of = s.models[id].of /\ t[id].name = s.models[id].name
                        /\ t[id].active = s.models[id].active
                        /\ t[id].default => t[id] = s.models[id]
    BY <2>5
  <2>8. m \in Ids => t[m] \in Settings!ModelRow
    BY <1>2, <2>5 DEF Settings!Has, Settings!Table
  <2>9. m \in Ids => /\ u[m] \in Settings!ModelRow /\ u[m].of = t[m].of /\ u[m].name = t[m].name
                     /\ u[m].active = active /\ u[m].default = default
    BY <2>5, <2>8 DEF Settings!ModelRow, Settings!Table
  <2>10. \A id \in Ids : id # m => u[id] = t[id]
    BY <2>5 DEF Settings!Table
  <2>11. u \in Settings!Table(Settings!ModelRow)
    BY <2>5, <2>9, <2>10 DEF Settings!Table
  <2>12. n.models = u
    BY DEF TablesOK, Settings!AllTables
  <2> HIDE DEF u
  <2>13. \A id \in Ids : Settings!Has(u, id) => Settings!Has(s.models, id)
    BY <1>2, <2>5, <2>10 DEF Settings!Has
  <2>14. \A id \in Ids : u[id].of = s.models[id].of /\ u[id].name = s.models[id].name
    BY <2>7, <2>9, <2>10
  <2>15. ASSUME NEW i \in Settings!Rows(u), NEW j \in Settings!Rows(u),
                u[i].default, u[j].default, u[i].of = u[j].of
         PROVE  i = j
    <3>1. /\ i \in Ids /\ j \in Ids /\ Settings!Has(s.models, i) /\ Settings!Has(s.models, j)
          /\ s.models[i].of = s.models[j].of
      BY <2>13, <2>14, <2>15 DEF Settings!Rows
    <3>2. CASE i # m /\ j # m
      BY <2>7, <2>10, <2>15, <3>1, <3>2, OneDefault
    <3>3. CASE i # m /\ j = m
      <4>1. default /\ t[i].default
        BY <2>9, <2>10, <2>15, <3>1, <3>3
      <4>2. i \in x
        BY <2>6, <3>1, <3>3, <4>1 DEF Settings!Rows
      <4> QED
        BY <2>5, <3>1, <4>1, <4>2
    <3>4. CASE i = m /\ j # m
      <4>1. default /\ t[j].default
        BY <2>9, <2>10, <2>15, <3>1, <3>4
      <4>2. j \in x
        BY <2>6, <3>1, <3>4, <4>1 DEF Settings!Rows
      <4> QED
        BY <2>5, <3>1, <4>1, <4>2
    <3> QED
      BY <3>2, <3>3, <3>4
  <2>16. TablesOK(n)
    BY <2>11, <2>13, <2>14, <2>15, WrittenModels
  <2>17. (default => active) => KeepsActive(s, n)
    <3> SUFFICES ASSUME default => active, Settings!DefaultIsActiveIn(s),
                        NEW i \in Settings!Rows(u), u[i].default
                 PROVE  u[i].active
      BY <2>12 DEF KeepsActive, Settings!DefaultIsActiveIn
    <3>1. i \in Ids /\ i \in Settings!Rows(s.models)
      BY <2>13 DEF Settings!Rows
    <3>2. CASE i = m
      BY <2>9, <3>1, <3>2
    <3>3. CASE i # m
      BY <2>7, <2>10, <3>1, <3>3 DEF Settings!DefaultIsActiveIn
    <3> QED
      BY <3>2, <3>3
  <2>18. SameModels(s, n)
    BY <2>12, <2>13, <2>14 DEF SameModels, Settings!Rows
  <2>19. ASSUME m \in Ids PROVE Rewritten(s, n, m, active, default)
    <3>1. \A r \in Settings!ModelRow : r # None /\ r # Gone
      BY DEF Settings!SettingsAssumption
    <3>2. SameRows(s, n)
      BY <1>2, <2>5, <2>9, <2>10, <2>12, <2>14, <2>19, <3>1 DEF SameRows, Settings!Has
    <3>3. n.models[m].active = active /\ n.models[m].default = default
      BY <2>9, <2>12, <2>19
    <3>4. ASSUME NEW id \in Settings!Rows(s.models) \ {m}
          PROVE  /\ n.models[id].active = s.models[id].active
                 /\ n.models[id].default =>
                       s.models[id].default /\ ~(default /\ s.models[id].of = s.models[m].of)
                 /\ s.models[id].default /\ ~default => n.models[id].default
      <4>1. id \in Ids /\ n.models[id] = t[id]
        BY <2>10, <2>12, <3>4 DEF Settings!Rows
      <4>2. default /\ s.models[id].of = s.models[m].of => ~t[id].default
        BY <2>5, <2>6, <3>4, <4>1
      <4>3. ~default => t[id] = s.models[id]
        BY <2>2
      <4> QED
        BY <2>7, <4>1, <4>2, <4>3
    <3> QED
      BY <3>2, <3>3, <3>4 DEF Rewritten
  <2> HIDE DEF n
  <2> QED
    BY <2>3, <2>16, <2>17, <2>18, <2>19 DEF Settings!Rows
<1> QED
  BY <1>1, <1>2

\* A model is turned on or off and keeps its flag: no model of the provider has to be
\* looked at.
LEMMA SetActiveOK ==
    ASSUME Settings!SettingsAssumption, NEW s, TablesOK(s), NEW m \in Ids, NEW active \in BOOLEAN
    PROVE  /\ TablesOK(Settings!SetBrainModelActive(s, m, active))
           /\ active \/ (Settings!Has(s.models, m) => ~s.models[m].default) =>
                 KeepsActive(s, Settings!SetBrainModelActive(s, m, active))
           /\ SameModels(s, Settings!SetBrainModelActive(s, m, active))
           /\ NoNewDefault(s, Settings!SetBrainModelActive(s, m, active))
           /\ m \in Settings!Rows(s.models) =>
                 Rewritten(s, Settings!SetBrainModelActive(s, m, active), m, active,
                           s.models[m].default) \/ s.models[m].default
<1>1. CASE ~Settings!Has(s.models, m)
  BY <1>1 DEF Settings!SetBrainModelActive, KeepsActive, SameModels, NoNewDefault, Settings!Rows
<1>2. CASE Settings!Has(s.models, m)
  <2> DEFINE u == [s.models EXCEPT ![m].active = active]
             n == [s EXCEPT !.models = u]
  <2>1. n = Settings!SetBrainModelActive(s, m, active)
    BY <1>2 DEF TablesOK, Settings!AllTables, Settings!SetBrainModelActive
  <2>2. s.models \in Settings!Table(Settings!ModelRow)
    BY DEF TablesOK, Settings!AllTables
  <2>3. s.models[m] \in Settings!ModelRow
    BY <1>2, RowTypes DEF TablesOK
  <2>4. /\ u[m] \in Settings!ModelRow /\ u[m].of = s.models[m].of /\ u[m].name = s.models[m].name
        /\ u[m].active = active /\ u[m].default = s.models[m].default
    BY <2>2, <2>3 DEF Settings!ModelRow, Settings!Table
  <2>5. \A id \in Ids : id # m => u[id] = s.models[id]
    BY <2>2 DEF Settings!Table
  <2>6. u \in Settings!Table(Settings!ModelRow)
    BY <2>2, <2>4, <2>5 DEF Settings!Table
  <2>7. n.models = u
    BY DEF TablesOK, Settings!AllTables
  <2> HIDE DEF u
  <2>8. \A id \in Ids : Settings!Has(u, id) => Settings!Has(s.models, id)
    BY <1>2, <2>5 DEF Settings!Has
  <2>9. \A id \in Ids : /\ u[id].of = s.models[id].of /\ u[id].name = s.models[id].name
                        /\ u[id].default = s.models[id].default
    BY <2>4, <2>5
  <2>10. \A i, j \in Settings!Rows(u) : u[i].default /\ u[j].default /\ u[i].of = u[j].of => i = j
    BY <2>8, <2>9, OneDefault DEF Settings!Rows
  <2>11. TablesOK(n)
    BY <2>6, <2>8, <2>9, <2>10, WrittenModels
  <2>12. active \/ ~s.models[m].default => KeepsActive(s, n)
    <3> SUFFICES ASSUME active \/ ~s.models[m].default, Settings!DefaultIsActiveIn(s),
                        NEW i \in Settings!Rows(u), u[i].default
                 PROVE  u[i].active
      BY <2>7 DEF KeepsActive, Settings!DefaultIsActiveIn
    <3>1. i \in Ids /\ i \in Settings!Rows(s.models)
      BY <2>8 DEF Settings!Rows
    <3>2. CASE i = m
      BY <2>4, <3>2
    <3>3. CASE i # m
      BY <2>5, <2>9, <3>1, <3>3 DEF Settings!DefaultIsActiveIn
    <3> QED
      BY <3>2, <3>3
  <2>13. SameModels(s, n) /\ NoNewDefault(s, n)
    BY <2>7, <2>8, <2>9 DEF SameModels, NoNewDefault, Settings!Rows
  <2>14. ASSUME ~s.models[m].default
         PROVE  Rewritten(s, n, m, active, s.models[m].default)
    BY <1>2, <2>4, <2>5, <2>7, <2>9, <2>14 DEF Settings!SettingsAssumption, SameRows,
       Settings!Has, Rewritten, Settings!Rows
  <2> HIDE DEF n
  <2> QED
    BY <1>2, <2>1, <2>11, <2>12, <2>13, <2>14
<1> QED
  BY <1>1, <1>2

LEMMA InsertModelOK ==
    ASSUME Settings!SettingsAssumption, NEW s, TablesOK(s), NEW p \in Ids,
           NEW name \in Settings!Names,
           \A m \in Settings!ModelsOf(s, p) : s.models[m].name # name
    PROVE  /\ TablesOK(Settings!InsertModel(s, p, name))
           /\ KeepsActive(s, Settings!InsertModel(s, p, name))
<1>1. CASE Settings!New(s.models) = {} \/ ~Settings!Has(s.providers, p)
  BY <1>1 DEF Settings!InsertModel, KeepsActive, SameModels, NoNewDefault
<1>2. CASE ~(Settings!New(s.models) = {} \/ ~Settings!Has(s.providers, p))
  <2> DEFINE k == CHOOSE id \in Settings!New(s.models) : TRUE
             r == [of |-> p, name |-> name, active |-> FALSE, default |-> FALSE]
             u == [s.models EXCEPT ![k] = r]
             n == [s EXCEPT !.models = u]
  <2>1. n = Settings!InsertModel(s, p, name)
    BY <1>2 DEF TablesOK, Settings!AllTables, Settings!InsertModel
  <2>2. k \in Settings!New(s.models)
    BY <1>2
  <2> HIDE DEF k
  <2>3. k \in Ids /\ ~Settings!Has(s.models, k)
    BY <2>2 DEF Settings!New, Settings!Has
  <2>4. s.models \in Settings!Table(Settings!ModelRow)
    BY DEF TablesOK, Settings!AllTables
  <2>5. r \in Settings!ModelRow /\ r.of = p /\ r.name = name /\ ~r.default
    BY DEF Settings!ModelRow
  <2> HIDE DEF r
  <2>6. /\ u \in Settings!Table(Settings!ModelRow)
        /\ u[k] = r /\ \A id \in Ids : id # k => u[id] = s.models[id]
    BY <2>3, <2>4, <2>5 DEF Settings!Table
  <2>7. n \in Settings!AllTables /\ n.models = u /\ n.providers = s.providers /\ n.skills = s.skills
    BY <2>6 DEF TablesOK, Settings!AllTables
  <2> HIDE DEF u, n
  <2>8. \A id \in Settings!Rows(u) : id = k \/ (id \in Settings!Rows(s.models) /\ u[id] = s.models[id])
    <3> SUFFICES ASSUME NEW id \in Settings!Rows(u), id # k
                 PROVE  id \in Settings!Rows(s.models) /\ u[id] = s.models[id]
      OBVIOUS
    <3>1. id \in Ids /\ Settings!Has(u, id) /\ u[id] = s.models[id]
      BY <2>6 DEF Settings!Rows
    <3> QED
      BY <3>1 DEF Settings!Rows, Settings!Has
  <2>9. ASSUME NEW q \in Ids
        PROVE  Settings!AtMostOne({m \in Settings!ModelsOf(n, q) : n.models[m].default})
    <3> SUFFICES ASSUME NEW i \in Settings!ModelsOf(n, q), NEW j \in Settings!ModelsOf(n, q),
                        n.models[i].default, n.models[j].default
                 PROVE  i = j
      BY DEF Settings!AtMostOne
    <3>1. i \in Settings!Rows(u) /\ j \in Settings!Rows(u) /\ i # k /\ j # k /\ u[i].of = q /\ u[j].of = q
      BY <2>5, <2>6, <2>7 DEF Settings!ModelsOf
    <3> QED
      BY <2>7, <2>8, <3>1, OneDefault DEF Settings!Rows
  <2>10. ASSUME NEW i \in Settings!Rows(u), NEW j \in Settings!Rows(u), i # j
         PROVE  <<u[i].of, u[i].name>> # <<u[j].of, u[j].name>>
    <3>1. \A m \in Settings!Rows(s.models) : s.models[m].of = p => s.models[m].name # name
      BY DEF Settings!ModelsOf
    <3>2. CASE i = k
      BY <2>8, <2>10, <3>2, <2>5, <2>6, <3>1
    <3>3. CASE j = k
      BY <2>8, <2>10, <3>3, <2>5, <2>6, <3>1
    <3>4. CASE i # k /\ j # k
      BY <2>8, <3>4, <2>10 DEF TablesOK, Settings!OneOfEachIn
    <3> QED
      BY <3>2, <3>3, <3>4
  <2>11. \A m \in Settings!Rows(u) : Settings!Has(s.providers, u[m].of)
    BY <1>2, <2>5, <2>6, <2>8 DEF TablesOK, Settings!OneOfEachIn
  <2>12. Settings!OneOfEachIn(n)
    BY <2>7, <2>9, <2>10, <2>11 DEF TablesOK, Settings!OneOfEachIn
  <2>13. KeepsActive(s, n)
    BY <2>5, <2>6, <2>7, <2>8 DEF KeepsActive, Settings!DefaultIsActiveIn
  <2> QED
    BY <2>1, <2>7, <2>12, <2>13 DEF TablesOK
<1> QED
  BY <1>1, <1>2

LEMMA SkillOK ==
    ASSUME Settings!SettingsAssumption, NEW s, TablesOK(s), NEW k \in Ids,
           NEW active \in BOOLEAN, NEW default \in BOOLEAN
    PROVE  /\ TablesOK(Settings!Skill(s, k, active, default))
           /\ KeepsActive(s, Settings!Skill(s, k, active, default))
<1> DEFINE t == [id \in Ids |-> IF Settings!Has(s.skills, id)
                    THEN [active |-> s.skills[id].active /\ ~active,
                          default |-> s.skills[id].default /\ ~default]
                    ELSE s.skills[id]]
           u == Put(t, k, Flagged(active, default))
<1>1. Settings!Skill(s, k, active, default) = [s EXCEPT !.skills = u]
  BY DEF Settings!Skill, Put, Flagged
<1>2. /\ Flagged(active, default) \in Settings!FlagRow
      /\ Flagged(active, default).active = active /\ Flagged(active, default).default = default
      /\ \A r \in Settings!FlagRow : r # None /\ r # Gone
  BY DEF Flagged, Settings!FlagRow, Settings!SettingsAssumption
<1>3. \A id \in Ids : /\ s.skills[id] \in Settings!FlagRow \cup {None, Gone}
                      /\ Settings!Has(s.skills, id) <=> s.skills[id] \in Settings!FlagRow
  BY RowTypes DEF TablesOK, Settings!AllTables, Settings!Table
<1>4. ASSUME NEW id \in Ids
      PROVE  /\ t[id] \in Settings!FlagRow \cup {None, Gone}
             /\ Settings!Has(t, id) =>
                   /\ Settings!Has(s.skills, id)
                   /\ t[id].active => s.skills[id].active /\ ~active
                   /\ t[id].default => s.skills[id].default /\ ~default
  <2>1. CASE Settings!Has(s.skills, id)
    <3>1. t[id] = [active |-> s.skills[id].active /\ ~active, default |-> s.skills[id].default /\ ~default]
      BY <2>1
    <3> HIDE DEF t
    <3>2. t[id].active = (s.skills[id].active /\ ~active)
      BY <3>1
    <3>3. t[id].default = (s.skills[id].default /\ ~default)
      BY <3>1
    <3>4. t[id] \in Settings!FlagRow
      BY <3>1 DEF Settings!FlagRow
    <3> QED
      BY <2>1, <3>2, <3>3, <3>4
  <2>2. CASE ~Settings!Has(s.skills, id)
    <3>1. t[id] = s.skills[id]
      BY <2>2
    <3> HIDE DEF t
    <3> QED
      BY <1>3, <2>2, <3>1 DEF Settings!Has
  <2> QED
    BY <2>1, <2>2
<1>5. t \in Settings!Table(Settings!FlagRow)
  BY <1>4 DEF Settings!Table
<1> HIDE DEF t
<1>6. /\ u \in Settings!Table(Settings!FlagRow)
      /\ u[k] = Flagged(active, default) /\ \A id \in Ids : id # k => u[id] = t[id]
  BY <1>2, <1>5 DEF Settings!Table, Put
<1> HIDE DEF u
<1>7. \A id \in Settings!Rows(u) : id \in Ids /\ (id # k => Settings!Has(t, id))
  BY <1>6 DEF Settings!Rows, Settings!Has
<1>8. /\ \A i, j \in Ids : Settings!Has(s.skills, i) /\ s.skills[i].active
                           /\ Settings!Has(s.skills, j) /\ s.skills[j].active => i = j
      /\ \A i, j \in Ids : Settings!Has(s.skills, i) /\ s.skills[i].default
                           /\ Settings!Has(s.skills, j) /\ s.skills[j].default => i = j
  BY DEF TablesOK, Settings!OneOfEachIn, Settings!AtMostOne, Settings!Rows
<1>9. ASSUME NEW i \in Settings!Rows(u), NEW j \in Settings!Rows(u)
      PROVE  (u[i].active /\ u[j].active => i = j) /\ (u[i].default /\ u[j].default => i = j)
  BY <1>4, <1>6, <1>7, <1>8, <1>2
<1>10. /\ Settings!AtMostOne({i \in Settings!Rows(u) : u[i].active})
       /\ Settings!AtMostOne({i \in Settings!Rows(u) : u[i].default})
  BY <1>9 DEF Settings!AtMostOne
<1> QED
  BY <1>1, <1>6, <1>10, WrittenSkills

----------------------------------------------------------------------------
(* The requests: what one has read, and what an administrator alone may rely on. *)

RequestOK(r) ==
    /\ r.at \in {"UpdateProvider", "UpdateModel", "UpdateSkill"} =>
          r.id \in Ids /\ r.flags.active \in BOOLEAN /\ r.flags.default \in BOOLEAN
    /\ r.at = "UpdateModel" /\ r.flags.default => r.flags.active
    /\ r.at = "BulkUpdate" =>
          /\ r = [at |-> r.at, of |-> r.of, action |-> r.action, todo |-> r.todo,
                  clear |-> r.clear, chosen |-> r.chosen]
          /\ r.action \in Settings!Actions /\ r.todo \subseteq Ids /\ r.clear \in BOOLEAN
    /\ r.at = "Sync" =>
          /\ r = [at |-> r.at, of |-> r.of, action |-> r.action, todo |-> r.todo]
          /\ r.action = "sync" /\ r.of \in Ids /\ r.todo \subseteq Settings!Names
    /\ r.at \in {"clear", "recommend"} =>
          /\ r = [at |-> r.at, of |-> r.of, action |-> r.action, chosen |-> r.chosen]
          /\ r.action = "sync"

\* The models that are left to do are of the provider, and when all are turned off none
\* is the default any more.
BulkOK(s, r) ==
    r.at = "BulkUpdate" =>
        /\ \A m \in r.todo : m \in Settings!Rows(s.models) => s.models[m].of = r.of
        /\ ~r.clear /\ r.action = "deactivate_all" =>
              \A m \in Settings!ModelsOf(s, r.of) : ~s.models[m].default

SettingsOK ==
    /\ scenario \in Scenarios /\ TablesOK(tables)
    /\ admin = [a \in Admins |-> admin[a]]
    /\ \A a \in Admins : RequestOK(admin[a]) /\ (a \notin scenario.admins => admin[a].at = "idle")
    /\ Settings!Alone =>
          Settings!DefaultIsActiveIn(tables) /\ \A a \in Admins : BulkOK(tables, admin[a])

\* What a step of the request of a leaves.
StepOK(a) ==
    /\ scenario' = scenario /\ TablesOK(tables')
    /\ admin' = [admin EXCEPT ![a] = admin'[a]] /\ RequestOK(admin'[a])
    /\ a \in scenario.admins
    /\ Settings!Alone => KeepsActive(tables, tables') /\ BulkOK(tables', admin'[a])

LEMMA AloneIsOne ==
    ASSUME Settings!Alone, NEW a \in scenario.admins, NEW b \in scenario.admins
    PROVE  a = b
  BY DEF Settings!Alone, Settings!AtMostOne

LEMMA StepKeeps ==
    ASSUME Settings!SettingsAssumption, SettingsOK, NEW a \in Admins, StepOK(a)
    PROVE  SettingsOK'
<1>1. \A b \in Admins : b # a => admin'[b] = admin[b]
  BY DEF SettingsOK, StepOK
<1>2. admin' = [b \in Admins |-> admin'[b]]
  BY DEF SettingsOK, StepOK
<1>3. \A b \in Admins : RequestOK(admin'[b]) /\ (b \notin scenario.admins => admin'[b].at = "idle")
  BY <1>1 DEF SettingsOK, StepOK
<1>4. ASSUME Settings!Alone, NEW b \in Admins PROVE BulkOK(tables', admin'[b])
  <2>1. CASE b = a
    BY <1>4, <2>1 DEF StepOK
  <2>2. CASE b # a
    BY <1>4, <2>2, AloneIsOne, <1>3 DEF SettingsOK, StepOK, BulkOK
  <2> QED
    BY <2>1, <2>2
<1>5. Settings!Alone => Settings!DefaultIsActiveIn(tables')
  BY DEF SettingsOK, StepOK, KeepsActive
<1>6. scenario' = scenario /\ TablesOK(tables') /\ (Settings!Alone)' = Settings!Alone
  BY DEF StepOK, Settings!Alone
<1>7. RequestOK(admin'[a])
  BY DEF StepOK
<1> QED
  BY <1>2, <1>3, <1>4, <1>5, <1>6 DEF SettingsOK, TablesOK, BulkOK, RequestOK

LEMMA InitSettings == ASSUME Settings!SettingsAssumption, Settings!Init PROVE SettingsOK
BY DEF Settings!Init, TablesOK, Settings!SettingsAssumption, Settings!Idle, SettingsOK, RequestOK,
   BulkOK

\* A request is asked: what it has read is in the record.
LEMMA AskOK ==
    ASSUME SettingsOK, NEW a \in Admins, NEW r, Settings!Ask(a, r), RequestOK(r),
           Settings!Alone => BulkOK(tables, r)
    PROVE  StepOK(a)
BY DEF Settings!Ask, Settings!Free, SettingsOK, StepOK, KeepsActive, TablesOK

\* A statement works or fails; a request that failed is over.
LEMMA StatementOK ==
    ASSUME SettingsOK, NEW a \in Admins, NEW written, NEW next, Settings!Statement(a, written, next),
           admin[a].at # "idle", TablesOK(written), RequestOK(next),
           Settings!Alone => KeepsActive(tables, written) /\ BulkOK(written, next)
    PROVE  StepOK(a)
<1>1. PICK fails \in BOOLEAN :
         /\ tables' = IF fails THEN tables ELSE written
         /\ admin' = [admin EXCEPT ![a] = IF fails THEN Settings!Idle ELSE next]
         /\ scenario' = scenario
  BY DEF Settings!Statement, Settings!Faults
<1>2. a \in scenario.admins
  BY DEF SettingsOK
<1>3. admin' = [admin EXCEPT ![a] = admin'[a]] /\ admin'[a] = IF fails THEN Settings!Idle ELSE next
  BY <1>1 DEF SettingsOK
<1>4. RequestOK(Settings!Idle) /\ \A s : BulkOK(s, Settings!Idle)
  BY DEF RequestOK, BulkOK, Settings!Idle
<1>5. CASE fails
  BY <1>1, <1>3, <1>5, <1>2, <1>4 DEF SettingsOK, StepOK, KeepsActive, TablesOK
<1>6. CASE ~fails
  BY <1>1, <1>3, <1>6, <1>2 DEF StepOK
<1> QED
  BY <1>5, <1>6

\* A request of one statement.
LEMMA OnceOK ==
    ASSUME SettingsOK, NEW a \in Admins, NEW op, NEW written, Settings!Once(a, op, written),
           TablesOK(written), KeepsActive(tables, written)
    PROVE  StepOK(a)
<1>1. /\ tables' = tables \/ tables' = written
      /\ admin' = [admin EXCEPT ![a] = Settings!Idle]
      /\ scenario' = scenario /\ a \in scenario.admins
  BY DEF Settings!Once, Settings!Faults, Settings!Free
<1>2. admin'[a] = Settings!Idle /\ admin' = [admin EXCEPT ![a] = admin'[a]]
  BY <1>1 DEF SettingsOK
<1>3. RequestOK(Settings!Idle) /\ \A s : BulkOK(s, Settings!Idle)
  BY DEF RequestOK, BulkOK, Settings!Idle
<1>4. TablesOK(tables') /\ KeepsActive(tables, tables')
  BY <1>1 DEF SettingsOK, KeepsActive, TablesOK
<1> QED
  BY <1>1, <1>2, <1>3, <1>4 DEF StepOK

\* The flags that are not named are those that were read.
LEMMA TakenFlags ==
    ASSUME Settings!SettingsAssumption, NEW given \in Settings!Given, NEW seen,
           seen.active \in BOOLEAN, seen.default \in BOOLEAN
    PROVE  Settings!Take(given, seen).active \in BOOLEAN /\ Settings!Take(given, seen).default \in BOOLEAN
<1>1. given.active \in BOOLEAN \cup {None} /\ given.default \in BOOLEAN \cup {None}
  BY DEF Settings!Given, Settings!Flags
<1>2. /\ Settings!Take(given, seen).active = IF given.active = None THEN seen.active ELSE given.active
      /\ Settings!Take(given, seen).default = IF given.default = None THEN seen.default ELSE given.default
  BY DEF Settings!Take, Settings!Flags
<1>3. Settings!Take(given, seen).active \in BOOLEAN
  BY <1>2, <1>1
<1>4. Settings!Take(given, seen).default \in BOOLEAN
  BY <1>2, <1>1
<1> QED
  BY <1>3, <1>4

----------------------------------------------------------------------------
(* The steps of a request (handlers/admin_brain.go).                       *)

LEMMA ProviderSteps ==
    ASSUME Settings!SettingsAssumption, SettingsOK, NEW a \in Admins,
           Settings!CreateProvider(a) \/ Settings!UpdateProvider(a) \/ Settings!DeleteProvider(a)
    PROVE  StepOK(a)
<1>t. TablesOK(tables)
  BY DEF SettingsOK
<1>1. CASE Settings!CreateProvider(a)
  <2>1. PICK p \in Ids, active \in BOOLEAN, default \in BOOLEAN :
           Settings!Once(a, "CreateProvider", Settings!CreateBrainProvider(tables, p, active, default))
    BY <1>1 DEF Settings!CreateProvider, Settings!New
  <2> QED
    BY <1>t, <2>1, CreateProviderOK, OnceOK
<1>2. CASE Settings!DeleteProvider(a)
  <2>1. PICK p \in Ids : Settings!Once(a, "DeleteProvider", Settings!DeleteBrainProvider(tables, p))
    BY <1>2 DEF Settings!DeleteProvider, Settings!Rows
  <2> QED
    BY <1>t, <2>1, DeleteProviderOK, OnceOK
<1>3. ASSUME NEW p \in Settings!Rows(tables.providers), NEW given \in Settings!Given,
             Settings!Ask(a, [at |-> "UpdateProvider", id |-> p,
                              flags |-> Settings!Take(given, tables.providers[p])])
      PROVE  StepOK(a)
  <2> DEFINE r == [at |-> "UpdateProvider", id |-> p,
                   flags |-> Settings!Take(given, tables.providers[p])]
  <2>1. p \in Ids /\ tables.providers[p] \in Settings!FlagRow
    BY <1>t, RowTypes DEF TablesOK, Settings!Rows
  <2>2. tables.providers[p].active \in BOOLEAN /\ tables.providers[p].default \in BOOLEAN
    BY <2>1 DEF Settings!FlagRow
  <2>3. r.flags.active \in BOOLEAN /\ r.flags.default \in BOOLEAN
    BY <2>2, TakenFlags
  <2>4. r.at = "UpdateProvider" /\ r.id \in Ids
    BY <2>1
  <2>5. Settings!Ask(a, r)
    BY <1>3
  <2> HIDE DEF r
  <2>6. RequestOK(r) /\ BulkOK(tables, r)
    BY <2>3, <2>4 DEF RequestOK, BulkOK
  <2> QED
    BY <2>5, <2>6, AskOK
<1>4. ASSUME admin[a].at = "UpdateProvider",
             Settings!Statement(a, Settings!UpdateBrainProvider(tables, admin[a].id,
                                       admin[a].flags.active, admin[a].flags.default), Settings!Idle)
      PROVE  StepOK(a)
  <2>1. /\ admin[a].id \in Ids /\ admin[a].flags.active \in BOOLEAN
        /\ admin[a].flags.default \in BOOLEAN
    BY <1>4 DEF SettingsOK, RequestOK
  <2> DEFINE n == Settings!UpdateBrainProvider(tables, admin[a].id,
                                       admin[a].flags.active, admin[a].flags.default)
  <2>2. TablesOK(n) /\ KeepsActive(tables, n)
    BY <1>t, <2>1, UpdateProviderOK
  <2>3. RequestOK(Settings!Idle) /\ BulkOK(n, Settings!Idle)
    BY DEF RequestOK, BulkOK, Settings!Idle
  <2> QED
    BY <1>4, <2>2, <2>3, StatementOK
<1> QED
  BY <1>1, <1>2, <1>3, <1>4 DEF Settings!UpdateProvider

LEMMA ModelSteps ==
    ASSUME Settings!SettingsAssumption, SettingsOK, NEW a \in Admins, Settings!UpdateModel(a)
    PROVE  StepOK(a)
<1>t. TablesOK(tables)
  BY DEF SettingsOK
<1>1. ASSUME NEW m \in Settings!Rows(tables.models), NEW given \in Settings!Given,
             NEW f, f = Settings!Take(given, tables.models[m]),
             Settings!Ask(a, [at |-> "UpdateModel", id |-> m,
                              flags |-> [active |-> f.active \/ f.default,
                                         default |-> f.default /\ (f.active \/ f.default)]])
      PROVE  StepOK(a)
  <2> DEFINE r == [at |-> "UpdateModel", id |-> m,
                   flags |-> [active |-> f.active \/ f.default,
                              default |-> f.default /\ (f.active \/ f.default)]]
  <2>1. m \in Ids
    BY DEF Settings!Rows
  <2>2. r.flags.active = (f.active \/ f.default) /\ r.flags.default = (f.default /\ (f.active \/ f.default))
    OBVIOUS
  <2>3. r.at = "UpdateModel" /\ r.id \in Ids
    BY <2>1
  <2>4. Settings!Ask(a, r)
    BY <1>1
  <2> HIDE DEF r
  <2>5. RequestOK(r) /\ BulkOK(tables, r)
    BY <2>2, <2>3 DEF RequestOK, BulkOK
  <2> QED
    BY <2>4, <2>5, AskOK
<1>2. ASSUME admin[a].at = "UpdateModel",
             Settings!Statement(a, Settings!UpdateBrainModel(tables, admin[a].id,
                                       admin[a].flags.active, admin[a].flags.default), Settings!Idle)
      PROVE  StepOK(a)
  <2>1. /\ admin[a].flags.active \in BOOLEAN /\ admin[a].flags.default \in BOOLEAN
        /\ admin[a].flags.default => admin[a].flags.active
    BY <1>2 DEF SettingsOK, RequestOK
  <2> DEFINE n == Settings!UpdateBrainModel(tables, admin[a].id,
                                       admin[a].flags.active, admin[a].flags.default)
  <2>2. TablesOK(n) /\ KeepsActive(tables, n)
    BY <1>t, <2>1, UpdateModelOK
  <2>3. RequestOK(Settings!Idle) /\ BulkOK(n, Settings!Idle)
    BY DEF RequestOK, BulkOK, Settings!Idle
  <2> QED
    BY <1>2, <2>2, <2>3, StatementOK
<1> QED
  BY <1>1, <1>2 DEF Settings!UpdateModel

LEMMA SkillSteps ==
    ASSUME Settings!SettingsAssumption, SettingsOK, NEW a \in Admins,
           Settings!CreateSkill(a) \/ Settings!UpdateSkill(a)
    PROVE  StepOK(a)
<1>t. TablesOK(tables)
  BY DEF SettingsOK
<1>1. CASE Settings!CreateSkill(a)
  <2>1. PICK k \in Ids, active \in BOOLEAN, default \in BOOLEAN :
           Settings!Once(a, "CreateSkill", Settings!Skill(tables, k, active, default))
    BY <1>1 DEF Settings!CreateSkill, Settings!New
  <2> QED
    BY <1>t, <2>1, SkillOK, OnceOK
<1>2. ASSUME NEW k \in Settings!Rows(tables.skills), NEW given \in Settings!Given,
             Settings!Ask(a, [at |-> "UpdateSkill", id |-> k,
                              flags |-> Settings!Take(given, tables.skills[k])])
      PROVE  StepOK(a)
  <2> DEFINE r == [at |-> "UpdateSkill", id |-> k, flags |-> Settings!Take(given, tables.skills[k])]
  <2>1. k \in Ids /\ tables.skills[k] \in Settings!FlagRow
    BY <1>t, RowTypes DEF TablesOK, Settings!Rows
  <2>2. tables.skills[k].active \in BOOLEAN /\ tables.skills[k].default \in BOOLEAN
    BY <2>1 DEF Settings!FlagRow
  <2>3. r.flags.active \in BOOLEAN /\ r.flags.default \in BOOLEAN
    BY <2>2, TakenFlags
  <2>4. r.at = "UpdateSkill" /\ r.id \in Ids
    BY <2>1
  <2>5. Settings!Ask(a, r)
    BY <1>2
  <2> HIDE DEF r
  <2>6. RequestOK(r) /\ BulkOK(tables, r)
    BY <2>3, <2>4 DEF RequestOK, BulkOK
  <2> QED
    BY <2>5, <2>6, AskOK
<1>3. ASSUME admin[a].at = "UpdateSkill",
             Settings!Statement(a, Settings!Skill(tables, admin[a].id,
                                       admin[a].flags.active, admin[a].flags.default), Settings!Idle)
      PROVE  StepOK(a)
  <2>1. /\ admin[a].id \in Ids /\ admin[a].flags.active \in BOOLEAN
        /\ admin[a].flags.default \in BOOLEAN
    BY <1>3 DEF SettingsOK, RequestOK
  <2> DEFINE n == Settings!Skill(tables, admin[a].id, admin[a].flags.active, admin[a].flags.default)
  <2>2. TablesOK(n) /\ KeepsActive(tables, n)
    BY <1>t, <2>1, SkillOK
  <2>3. RequestOK(Settings!Idle) /\ BulkOK(n, Settings!Idle)
    BY DEF RequestOK, BulkOK, Settings!Idle
  <2> QED
    BY <1>3, <2>2, <2>3, StatementOK
<1> QED
  BY <1>1, <1>2, <1>3 DEF Settings!UpdateSkill

\* The models of a provider are its own.
LEMMA BulkAsked ==
    ASSUME Settings!SettingsAssumption, SettingsOK, NEW a \in Admins, Settings!BulkUpdate(a)
    PROVE  StepOK(a)
<1>1. PICK p \in Settings!Rows(tables.providers), action \in Settings!Actions :
         \E chosen :
            Settings!Ask(a, [at |-> "BulkUpdate", of |-> p, action |-> action,
                             todo |-> Settings!ModelsOf(tables, p),
                             clear |-> action # "activate_all", chosen |-> chosen])
  BY DEF Settings!BulkUpdate
<1>2. PICK chosen :
         Settings!Ask(a, [at |-> "BulkUpdate", of |-> p, action |-> action,
                          todo |-> Settings!ModelsOf(tables, p),
                          clear |-> action # "activate_all", chosen |-> chosen])
  BY <1>1
<1> DEFINE r == [at |-> "BulkUpdate", of |-> p, action |-> action,
                 todo |-> Settings!ModelsOf(tables, p),
                 clear |-> action # "activate_all", chosen |-> chosen]
<1>3. /\ r = [at |-> r.at, of |-> r.of, action |-> r.action, todo |-> r.todo,
              clear |-> r.clear, chosen |-> r.chosen]
      /\ r.at = "BulkUpdate" /\ r.of = p /\ r.action = action
      /\ r.todo = Settings!ModelsOf(tables, p) /\ r.clear = (action # "activate_all")
  OBVIOUS
<1>4. Settings!Ask(a, r)
  BY <1>2
<1> HIDE DEF r
<1>5. RequestOK(r)
  BY <1>3 DEF RequestOK, Settings!ModelsOf, Settings!Rows
<1>6. BulkOK(tables, r)
  BY <1>3 DEF BulkOK, Settings!ModelsOf
<1> QED
  BY <1>4, <1>5, <1>6, AskOK

\* First the flag of every model is cleared, then they are written one by one.
LEMMA BulkSteps ==
    ASSUME Settings!SettingsAssumption, SettingsOK, NEW a \in Admins,
           Settings!applyModelBulkAction(a)
    PROVE  StepOK(a)
<1>t. TablesOK(tables) /\ (Settings!Alone => BulkOK(tables, admin[a]))
  BY DEF SettingsOK
<1>1. /\ admin[a].at = "BulkUpdate"
      /\ admin[a] = [at |-> admin[a].at, of |-> admin[a].of, action |-> admin[a].action,
                     todo |-> admin[a].todo, clear |-> admin[a].clear, chosen |-> admin[a].chosen]
      /\ admin[a].action \in Settings!Actions /\ admin[a].todo \subseteq Ids
      /\ admin[a].clear \in BOOLEAN
  BY DEF SettingsOK, RequestOK, Settings!applyModelBulkAction
<1>2. ASSUME Settings!Statement(a, Settings!ClearDefaultBrainModelsByProvider(tables, admin[a].of),
                                [admin[a] EXCEPT !.clear = FALSE])
      PROVE  StepOK(a)
  <2> DEFINE n == Settings!ClearDefaultBrainModelsByProvider(tables, admin[a].of)
             r == [admin[a] EXCEPT !.clear = FALSE]
  <2>1. /\ TablesOK(n) /\ KeepsActive(tables, n) /\ SameModels(tables, n)
        /\ \A m \in Settings!ModelsOf(n, admin[a].of) : ~n.models[m].default
    BY <1>t, ClearDefaultOK
  <2>2. /\ r = [at |-> r.at, of |-> r.of, action |-> r.action, todo |-> r.todo,
                clear |-> r.clear, chosen |-> r.chosen]
        /\ r.at = "BulkUpdate" /\ r.of = admin[a].of /\ r.action = admin[a].action
        /\ r.todo = admin[a].todo /\ r.clear = FALSE
    <3>1. r = [admin[a] EXCEPT !.clear = FALSE]
      OBVIOUS
    <3> HIDE DEF n, r
    <3> QED
      BY <1>1, <3>1
  <2>3. Settings!Statement(a, n, r)
    BY <1>2
  <2> HIDE DEF n, r
  <2>4. RequestOK(r)
    BY <1>1, <2>2 DEF RequestOK
  <2>5. Settings!Alone => BulkOK(n, r)
    BY <1>1, <1>t, <2>1, <2>2 DEF BulkOK, SameModels
  <2> QED
    BY <1>1, <2>1, <2>3, <2>4, <2>5, StatementOK
<1>3. ASSUME ~admin[a].clear, NEW m \in admin[a].todo,
             Settings!Statement(a, Settings!WrittenModel(a, m), Settings!AfterModel(a, m))
      PROVE  StepOK(a)
  <2> DEFINE n == Settings!WrittenModel(a, m)
             r == Settings!AfterModel(a, m)
  <2>1. m \in Ids
    BY <1>1
  <2>2. /\ Settings!Alone /\ admin[a].action = "deactivate_all" /\ Settings!Has(tables.models, m) =>
              ~tables.models[m].default
    BY <1>1, <1>3, <1>t, <2>1 DEF BulkOK, Settings!ModelsOf, Settings!Rows
  <2>3. /\ TablesOK(n) /\ SameModels(tables, n)
        /\ Settings!Alone => KeepsActive(tables, n)
        /\ admin[a].action = "deactivate_all" => NoNewDefault(tables, n)
    <3>1. CASE admin[a].action = "deactivate_all"
      <4>1. n = Settings!SetBrainModelActive(tables, m, FALSE)
        BY <3>1 DEF Settings!WrittenModel
      <4> QED
        BY <1>t, <2>1, <2>2, <3>1, <4>1, SetActiveOK
    <3>2. CASE admin[a].action = "activate_all"
      <4>1. n = Settings!UpdateBrainModel(tables, m, TRUE, m = admin[a].chosen)
        BY <3>2 DEF Settings!WrittenModel
      <4>2. \/ n = Settings!UpdateBrainModel(tables, m, TRUE, TRUE)
            \/ n = Settings!UpdateBrainModel(tables, m, TRUE, FALSE)
        BY <4>1 DEF Settings!UpdateBrainModel
      <4> HIDE DEF n
      <4> QED
        BY <1>t, <3>2, <4>2, UpdateModelOK
    <3>3. CASE admin[a].action = "activate_recommended"
      <4>1. n = Settings!UpdateBrainModel(tables, m, m = admin[a].chosen, m = admin[a].chosen)
        BY <3>3 DEF Settings!WrittenModel
      <4>2. \/ n = Settings!UpdateBrainModel(tables, m, TRUE, TRUE)
            \/ n = Settings!UpdateBrainModel(tables, m, FALSE, FALSE)
        BY <4>1 DEF Settings!UpdateBrainModel
      <4> HIDE DEF n
      <4> QED
        BY <1>t, <3>3, <4>2, UpdateModelOK
    <3> QED
      BY <1>1, <3>1, <3>2, <3>3 DEF Settings!Actions
  <2>4. \/ r.at = "idle"
        \/ /\ r = [at |-> r.at, of |-> r.of, action |-> r.action, todo |-> r.todo,
                   clear |-> r.clear, chosen |-> r.chosen]
           /\ r.at = "BulkUpdate" /\ r.of = admin[a].of /\ r.action = admin[a].action
           /\ r.todo \subseteq admin[a].todo /\ r.clear = admin[a].clear
    <3>1. CASE admin[a].todo = {m}
      BY <3>1 DEF Settings!AfterModel, Settings!Finished
    <3>2. CASE admin[a].todo # {m}
      BY <3>2, <1>1 DEF Settings!AfterModel
    <3> QED
      BY <3>1, <3>2
  <2>5. Settings!Statement(a, n, r)
    BY <1>3
  <2> HIDE DEF n, r
  <2>6. RequestOK(r)
    BY <1>1, <1>3, <2>4 DEF RequestOK
  <2>7. Settings!Alone => BulkOK(n, r)
    <3> SUFFICES ASSUME Settings!Alone, r.at = "BulkUpdate" PROVE BulkOK(n, r)
      BY DEF BulkOK
    <3>1. \A k \in r.todo : k \in Settings!Rows(n.models) => n.models[k].of = r.of
      BY <1>1, <1>t, <2>3, <2>4 DEF BulkOK, SameModels
    <3>2. ASSUME r.action = "deactivate_all", NEW k \in Settings!ModelsOf(n, r.of)
          PROVE  ~n.models[k].default
      <4>1. k \in Settings!ModelsOf(tables, admin[a].of)
        BY <2>3, <2>4, <3>2 DEF SameModels, Settings!ModelsOf
      <4>2. ~tables.models[k].default
        BY <1>1, <1>3, <1>t, <2>4, <3>2, <4>1 DEF BulkOK
      <4> QED
        BY <2>3, <2>4, <3>2, <4>2 DEF NoNewDefault, Settings!ModelsOf
    <3> QED
      BY <3>1, <3>2 DEF BulkOK
  <2> QED
    BY <1>1, <2>3, <2>5, <2>6, <2>7, StatementOK
<1> QED
  BY <1>2, <1>3 DEF Settings!applyModelBulkAction

LEMMA SyncSteps ==
    ASSUME Settings!SettingsAssumption, SettingsOK, NEW a \in Admins,
           Settings!Sync(a) \/ Settings!Ensure(a) \/ Settings!Choose(a) \/ Settings!Recommend(a)
    PROVE  StepOK(a)
<1>t. TablesOK(tables)
  BY DEF SettingsOK
<1>k. KeepsActive(tables, tables)
  BY DEF KeepsActive
<1>f. RequestOK(Settings!Finished(a)) /\ \A s : BulkOK(s, Settings!Finished(a))
  BY DEF RequestOK, BulkOK, Settings!Finished
<1>1. CASE Settings!Sync(a)
  <2>1. PICK p \in Settings!Rows(tables.providers), names \in SUBSET Settings!Names \ {{}} :
           Settings!Ask(a, [at |-> "Sync", of |-> p, action |-> "sync", todo |-> names])
    BY <1>1 DEF Settings!Sync
  <2> DEFINE r == [at |-> "Sync", of |-> p, action |-> "sync", todo |-> names]
  <2>2. RequestOK(r) /\ BulkOK(tables, r)
    BY DEF RequestOK, BulkOK, Settings!Rows
  <2> QED
    BY <2>1, <2>2, AskOK
<1>2. CASE Settings!Ensure(a)
  <2>1. /\ admin[a].at = "Sync" /\ admin[a].action = "sync" /\ admin[a].of \in Ids /\ admin[a].todo \subseteq Settings!Names
        /\ admin[a] = [at |-> admin[a].at, of |-> admin[a].of, action |-> admin[a].action,
                       todo |-> admin[a].todo]
        /\ scenario' = scenario
    BY <1>2 DEF Settings!Ensure, SettingsOK, RequestOK
  <2>2. PICK name \in admin[a].todo, fails \in Settings!Faults :
           /\ tables' = IF fails \/ \E m \in Settings!ModelsOf(tables, admin[a].of) : tables.models[m].name = name
                        THEN tables ELSE Settings!InsertModel(tables, admin[a].of, name)
           /\ admin' = [admin EXCEPT ![a].todo = admin[a].todo \ {name}]
    BY <1>2 DEF Settings!Ensure
  <2>3. TablesOK(tables') /\ KeepsActive(tables, tables')
    <3>1. CASE tables' = tables
      BY <1>k, <1>t, <3>1
    <3>2. CASE tables' # tables
      <4>1. /\ tables' = Settings!InsertModel(tables, admin[a].of, name)
            /\ \A m \in Settings!ModelsOf(tables, admin[a].of) : tables.models[m].name # name
        BY <2>2, <3>2
      <4> QED
        BY <1>t, <2>1, <4>1, InsertModelOK
    <3> QED
      BY <3>1, <3>2
  <2>4. /\ admin' = [admin EXCEPT ![a] = admin'[a]]
        /\ admin'[a] = [admin[a] EXCEPT !.todo = admin[a].todo \ {name}]
    BY <2>2 DEF SettingsOK
  <2>5. RequestOK(admin'[a]) /\ BulkOK(tables', admin'[a])
    BY <2>1, <2>4 DEF RequestOK, BulkOK
  <2> QED
    BY <2>1, <2>3, <2>4, <2>5 DEF StepOK, SettingsOK
<1>3. CASE Settings!Choose(a)
  <2>1. /\ admin[a].at = "Sync" /\ tables' = tables /\ scenario' = scenario
        /\ \/ admin' = [admin EXCEPT ![a] = Settings!Finished(a)]
           \/ \E chosen : admin' = [admin EXCEPT ![a] =
                 [at |-> "clear", of |-> admin[a].of, action |-> "sync", chosen |-> chosen]]
    BY <1>3 DEF Settings!Choose
  <2>2. /\ admin' = [admin EXCEPT ![a] = admin'[a]]
        /\ RequestOK(admin'[a]) /\ BulkOK(tables', admin'[a])
    <3>1. CASE admin' = [admin EXCEPT ![a] = Settings!Finished(a)]
      <4>1. admin'[a] = Settings!Finished(a)
        BY <3>1 DEF SettingsOK
      <4> QED
        BY <1>f, <3>1, <4>1
    <3>2. ASSUME NEW chosen, admin' = [admin EXCEPT ![a] =
                    [at |-> "clear", of |-> admin[a].of, action |-> "sync", chosen |-> chosen]]
          PROVE  /\ admin' = [admin EXCEPT ![a] = admin'[a]]
                 /\ RequestOK(admin'[a]) /\ BulkOK(tables', admin'[a])
      BY <3>2 DEF SettingsOK, RequestOK, BulkOK
    <3> QED
      BY <2>1, <3>1, <3>2
  <2> QED
    BY <1>k, <1>t, <2>1, <2>2 DEF StepOK, SettingsOK, TablesOK
<1>4. CASE Settings!Recommend(a)
  <2>1. /\ admin[a].at \in {"clear", "recommend"} /\ scenario' = scenario
        /\ admin[a] = [at |-> admin[a].at, of |-> admin[a].of, action |-> admin[a].action,
                       chosen |-> admin[a].chosen]
        /\ admin[a].action = "sync"
    BY <1>4 DEF Settings!Recommend, SettingsOK, RequestOK
  <2>2. \/ tables' = tables
        \/ tables' = Settings!ClearDefaultBrainModelsByProvider(tables, admin[a].of)
        \/ tables' = Settings!UpdateBrainModel(tables, admin[a].chosen, TRUE, TRUE)
    BY <1>4 DEF Settings!Recommend
  <2>3. TablesOK(tables') /\ KeepsActive(tables, tables')
    <3>1. CASE tables' = tables
      BY <1>k, <1>t, <3>1
    <3>2. CASE tables' = Settings!ClearDefaultBrainModelsByProvider(tables, admin[a].of)
      BY <1>t, <3>2, ClearDefaultOK
    <3>3. CASE tables' = Settings!UpdateBrainModel(tables, admin[a].chosen, TRUE, TRUE)
      BY <1>t, <3>3, UpdateModelOK
    <3> QED
      BY <2>2, <3>1, <3>2, <3>3
  <2>4. \/ admin' = [admin EXCEPT ![a].at = "recommend"]
        \/ admin' = [admin EXCEPT ![a] = Settings!Finished(a)]
    BY <1>4 DEF Settings!Recommend
  <2>5. /\ admin' = [admin EXCEPT ![a] = admin'[a]]
        /\ RequestOK(admin'[a]) /\ BulkOK(tables', admin'[a])
    <3>1. CASE admin' = [admin EXCEPT ![a] = Settings!Finished(a)]
      <4>1. admin'[a] = Settings!Finished(a)
        BY <3>1 DEF SettingsOK
      <4> QED
        BY <1>f, <3>1, <4>1
    <3>2. CASE admin' = [admin EXCEPT ![a].at = "recommend"]
      BY <3>2, <2>1 DEF SettingsOK, RequestOK, BulkOK
    <3> QED
      BY <2>4, <3>1, <3>2
  <2> QED
    BY <2>1, <2>3, <2>5 DEF StepOK, SettingsOK
<1> QED
  BY <1>1, <1>2, <1>3, <1>4

----------------------------------------------------------------------------
(***************************************************************************)
(* BulkDone.  ResultOK says how far a request for all models of a provider *)
(* has come, when its administrator is alone and nothing fails: the models *)
(* that are not left to do are as they shall be, and the one that was      *)
(* chosen is the default once it was written.                              *)
(***************************************************************************)

\* There is a first name of N among the preferred ones.
LEMMA FirstName ==
    ASSUME Settings!SettingsAssumption, NEW N, N \subseteq Settings!Names, N # {}
    PROVE  \E i \in DOMAIN Preferred :
              Preferred[i] \in N /\ \A j \in 1 .. i - 1 : Preferred[j] \notin N
<1> DEFINE R == {ss \in Nat \X Nat : ss[1] < ss[2]}
           S == {i \in DOMAIN Preferred : Preferred[i] \in N}
<1>1. DOMAIN Preferred = 1 .. Len(Preferred) /\ Len(Preferred) \in Nat
  BY DEF Settings!SettingsAssumption
<1>2. S # {} /\ S \subseteq Nat
  BY <1>1 DEF Settings!Names
<1>3. PICK i \in S : \A j \in S : ~ (<<j, i>> \in R)
  <2>1. IsWellFoundedOn(R, Nat)
    BY NatLessThanWellFounded DEF OpToRel
  <2> HIDE DEF R, S
  <2> QED
    BY <1>2, <2>1, WFMin
<1>4. ASSUME NEW j \in 1 .. i - 1 PROVE Preferred[j] \notin N
  <2>1. j \in DOMAIN Preferred /\ <<j, i>> \in R
    BY <1>1, <1>2
  <2>2. j \notin S
    <3> HIDE DEF R, S
    <3> QED
      BY <1>3, <2>1
  <2> QED
    BY <2>1, <2>2
<1> QED
  BY <1>3, <1>4

\* The name that is preferred among N.
Best(N) ==
    Preferred[CHOOSE i \in DOMAIN Preferred :
                 Preferred[i] \in N /\ \A j \in 1 .. i - 1 : Preferred[j] \notin N]

NamesOf(s, all) == {s.models[m].name : m \in all}

LEMMA PickIs ==
    ASSUME Settings!SettingsAssumption, NEW s, TablesOK(s), NEW p,
           NEW all, all = Settings!ModelsOf(s, p), all # {},
           NEW c, c = Settings!pickRecommendedModel(s, all)
    PROVE  c \in all /\ s.models[c].name = Best(NamesOf(s, all))
<1> DEFINE N == NamesOf(s, all)
<1>1. \A m \in all : s.models[m].name \in Settings!Names
  <2> SUFFICES ASSUME NEW m \in all PROVE s.models[m].name \in Settings!Names
    OBVIOUS
  <2>1. s.models[m] \in Settings!ModelRow
    BY RowTypes DEF TablesOK, Settings!ModelsOf, Settings!Rows
  <2> QED
    BY <2>1 DEF Settings!ModelRow
<1>2. N \subseteq Settings!Names /\ N # {}
  BY <1>1 DEF NamesOf
<1>3. Best(N) \in N
  <2> HIDE DEF N
  <2> QED
    BY <1>2, FirstName DEF Best
<1>4. c = CHOOSE m \in all : s.models[m].name = Best(N)
  BY DEF Settings!pickRecommendedModel, Best, NamesOf
<1>5. \E m \in all : s.models[m].name = Best(N)
  BY <1>3 DEF NamesOf
<1> QED
  BY <1>4, <1>5

\* The same rows have the same model recommended.
LEMMA SamePick ==
    ASSUME Settings!SettingsAssumption, NEW s, TablesOK(s), NEW t, TablesOK(t), SameRows(s, t),
           NEW p
    PROVE  /\ Settings!ModelsOf(t, p) = Settings!ModelsOf(s, p)
           /\ Settings!ModelsOf(s, p) # {} =>
                 Settings!pickRecommendedModel(t, Settings!ModelsOf(s, p)) =
                 Settings!pickRecommendedModel(s, Settings!ModelsOf(s, p))
<1> DEFINE all == Settings!ModelsOf(s, p)
           b == Settings!pickRecommendedModel(s, all)
           c == Settings!pickRecommendedModel(t, all)
<1>1. Settings!ModelsOf(t, p) = all
  BY DEF SameRows, Settings!ModelsOf, Settings!Rows
<1>2. \A m \in all : m \in Settings!Rows(s.models) /\ t.models[m].name = s.models[m].name
                        /\ s.models[m].of = p
  BY DEF SameRows, Settings!ModelsOf, Settings!Rows
<1>3. ASSUME all # {} PROVE b = c
  <2> HIDE DEF all
  <2>1. NamesOf(t, all) = NamesOf(s, all)
    BY <1>2 DEF NamesOf
  <2>2. b \in all /\ s.models[b].name = Best(NamesOf(s, all))
    BY <1>3, PickIs DEF all
  <2>3. c \in all /\ t.models[c].name = Best(NamesOf(t, all))
    BY <1>1, <1>3, PickIs
  <2>4. <<s.models[b].of, s.models[b].name>> = <<s.models[c].of, s.models[c].name>>
    BY <1>2, <2>1, <2>2, <2>3
  <2> HIDE DEF b, c
  <2> QED
    BY <1>2, <2>2, <2>3, <2>4 DEF TablesOK, Settings!OneOfEachIn
<1> QED
  BY <1>1, <1>3

\* The default of a set of models is one of them, if there is one.
LEMMA DefaultOfIs ==
    ASSUME Settings!SettingsAssumption, NEW s, NEW all, all \subseteq Ids,
           NEW d, d = Settings!DefaultOf(s, all)
    PROVE  /\ d # None => d \in all /\ s.models[d].default
           /\ d = None <=> \A m \in all : ~s.models[m].default
<1> DEFINE D == {m \in all : s.models[m].default}
<1>1. d = IF D = {} THEN None ELSE CHOOSE m \in D : TRUE
  BY DEF Settings!DefaultOf
<1>2. None \notin D
  BY DEF Settings!SettingsAssumption
<1>3. D # {} => d \in D
  BY <1>1
<1> QED
  BY <1>1, <1>2, <1>3

\* How far the request r has come.
ResultOK(s, r) ==
    LET all == Settings!ModelsOf(s, r.of)
        written == all \ r.todo IN
    /\ Settings!IsDone(s, r)
    /\ r.at = "BulkUpdate" =>
          /\ r.todo \subseteq all /\ r.todo # {}
          /\ r.clear => r.todo = all
          /\ r.action = "deactivate_all" => \A m \in written : ~s.models[m].active
          /\ r.action = "activate_all" => \A m \in written : s.models[m].active
          /\ r.action # "deactivate_all" =>
                r.chosen \in all /\ (r.chosen \in written => s.models[r.chosen].default)
          /\ r.action = "activate_recommended" =>
                /\ r.chosen = Settings!pickRecommendedModel(s, all)
                /\ \A m \in written : s.models[m].active <=> m = r.chosen
                /\ ~r.clear => \A m \in all : s.models[m].default => m = r.chosen
    /\ r.at \in {"clear", "recommend"} => r.chosen \in all

Undisturbed == Settings!Alone /\ ~scenario.faults

ResultsOK ==
    /\ \A a \in Admins : a \notin scenario.admins => admin[a] = Settings!Idle
    /\ Undisturbed => \A a \in Admins : ResultOK(tables, admin[a])

GoesOn(a) == Undisturbed => ResultOK(tables', admin'[a])

LEMMA PlainRequest ==
    ASSUME Settings!SettingsAssumption, NEW s, NEW r,
           \/ r = Settings!Idle
           \/ r.at \in {"UpdateProvider", "UpdateModel", "UpdateSkill", "Sync"}
    PROVE  ResultOK(s, r)
<1>1. CASE r = Settings!Idle
  BY <1>1 DEF Settings!Idle, Settings!SettingsAssumption, ResultOK, Settings!IsDone,
     Settings!Actions
<1>2. CASE r.at \in {"UpdateProvider", "UpdateModel", "UpdateSkill", "Sync"}
  BY <1>2 DEF ResultOK, Settings!IsDone
<1> QED
  BY <1>1, <1>2

LEMMA ResultsStep ==
    ASSUME Settings!SettingsAssumption, SettingsOK, ResultsOK, NEW a \in Admins, StepOK(a),
           GoesOn(a)
    PROVE  ResultsOK'
<1>1. /\ \A b \in Admins : b # a => admin'[b] = admin[b]
      /\ scenario' = scenario /\ a \in scenario.admins /\ Undisturbed' = Undisturbed
  BY DEF SettingsOK, StepOK, Undisturbed, Settings!Alone
<1>2. ASSUME Undisturbed, NEW b \in Admins PROVE ResultOK(tables', admin'[b])
  <2>1. CASE b = a
    BY <1>2, <2>1 DEF GoesOn
  <2>2. CASE b # a
    BY <1>1, <1>2, <2>2, AloneIsOne, PlainRequest DEF ResultsOK, Undisturbed
  <2> QED
    BY <2>1, <2>2
<1> QED
  BY <1>1, <1>2 DEF ResultsOK

LEMMA InitResults ==
    ASSUME Settings!SettingsAssumption, Settings!Init PROVE ResultsOK
  BY PlainRequest DEF Settings!Init, ResultsOK

\* A request is asked.
LEMMA AskGoesOn ==
    ASSUME SettingsOK, NEW a \in Admins, NEW r, Settings!Ask(a, r), ResultOK(tables, r)
    PROVE  GoesOn(a)
BY DEF Settings!Ask, SettingsOK, GoesOn

\* A statement of a request that nothing disturbs works.
LEMMA StatementGoesOn ==
    ASSUME SettingsOK, NEW a \in Admins, NEW written, NEW next, Settings!Statement(a, written, next),
           Undisturbed => ResultOK(written, next)
    PROVE  GoesOn(a)
<1> SUFFICES ASSUME Undisturbed PROVE ResultOK(tables', admin'[a])
  BY DEF GoesOn
<1>1. Settings!Faults = {FALSE}
  BY DEF Undisturbed, Settings!Faults
<1>2. tables' = written /\ admin' = [admin EXCEPT ![a] = next]
  BY <1>1 DEF Settings!Statement
<1> QED
  BY <1>2 DEF SettingsOK

\* A request that is not for all models says nothing of them.
LEMMA PlainGoesOn ==
    ASSUME Settings!SettingsAssumption, SettingsOK, NEW a \in Admins,
           \/ Settings!CreateProvider(a) \/ Settings!UpdateProvider(a) \/ Settings!DeleteProvider(a)
           \/ Settings!UpdateModel(a) \/ Settings!CreateSkill(a) \/ Settings!UpdateSkill(a)
           \/ Settings!Sync(a)
    PROVE  GoesOn(a)
<1>1. ASSUME NEW op, NEW written, Settings!Once(a, op, written) PROVE GoesOn(a)
  BY <1>1, PlainRequest DEF Settings!Once, SettingsOK, GoesOn
<1>2. ASSUME NEW r, Settings!Ask(a, r),
             r.at \in {"UpdateProvider", "UpdateModel", "UpdateSkill", "Sync"}
      PROVE  GoesOn(a)
  BY <1>2, PlainRequest, AskGoesOn
<1>3. ASSUME NEW written, Settings!Statement(a, written, Settings!Idle) PROVE GoesOn(a)
  BY <1>3, PlainRequest, StatementGoesOn
<1>4. CASE Settings!CreateProvider(a) \/ Settings!DeleteProvider(a) \/ Settings!CreateSkill(a)
  BY <1>1, <1>4 DEF Settings!CreateProvider, Settings!DeleteProvider, Settings!CreateSkill
<1>5. CASE Settings!UpdateProvider(a)
  BY <1>2, <1>3, <1>5 DEF Settings!UpdateProvider
<1>6. CASE Settings!UpdateModel(a)
  BY <1>2, <1>3, <1>6 DEF Settings!UpdateModel
<1>7. CASE Settings!UpdateSkill(a)
  BY <1>2, <1>3, <1>7 DEF Settings!UpdateSkill
<1>8. CASE Settings!Sync(a)
  BY <1>2, <1>8 DEF Settings!Sync
<1> QED
  BY <1>4, <1>5, <1>6, <1>7, <1>8

\* What is asked for all models of a provider: none is written yet.
LEMMA BulkAskedGoesOn ==
    ASSUME Settings!SettingsAssumption, SettingsOK, NEW a \in Admins, Settings!BulkUpdate(a)
    PROVE  GoesOn(a)
<1>t. TablesOK(tables)
  BY DEF SettingsOK
<1>1. PICK p \in Settings!Rows(tables.providers), action \in Settings!Actions :
         LET all == Settings!ModelsOf(tables, p)
             rec == Settings!pickRecommendedModel(tables, all)
             default == Settings!DefaultOf(tables, all) IN
         /\ all # {}
         /\ Settings!Ask(a, [at |-> "BulkUpdate", of |-> p, action |-> action, todo |-> all,
                   clear |-> action # "activate_all",
                   chosen |-> IF action = "activate_all" /\ default # None THEN default ELSE rec])
  BY DEF Settings!BulkUpdate
<1> DEFINE all == Settings!ModelsOf(tables, p)
           rec == Settings!pickRecommendedModel(tables, all)
           default == Settings!DefaultOf(tables, all)
           chosen == IF action = "activate_all" /\ default # None THEN default ELSE rec
           r == [at |-> "BulkUpdate", of |-> p, action |-> action, todo |-> all,
                 clear |-> action # "activate_all", chosen |-> chosen]
<1>2. all # {} /\ Settings!Ask(a, r)
  BY <1>1
<1>3. all \subseteq Ids
  BY DEF Settings!ModelsOf, Settings!Rows
<1>4. rec \in all
  BY <1>t, <1>2, PickIs
<1>5. default # None => default \in all
  BY <1>3, DefaultOfIs
<1>6. chosen \in all /\ (action = "activate_recommended" => chosen = rec)
  BY <1>4, <1>5
<1>7. /\ r.at = "BulkUpdate" /\ r.of = p /\ r.action = action /\ r.todo = all
      /\ r.clear = (action # "activate_all") /\ r.chosen = chosen
  OBVIOUS
<1> HIDE DEF r, chosen
<1>8. ResultOK(tables, r)
  BY <1>2, <1>6, <1>7 DEF ResultOK, Settings!IsDone
<1> QED
  BY <1>2, <1>8, AskGoesOn

\* The first statement takes the default from all models of the provider.
LEMMA ClearGoesOn ==
    ASSUME Settings!SettingsAssumption, NEW s, TablesOK(s), NEW r, ResultOK(s, r),
           r.at = "BulkUpdate", NEW q,
           q.at = r.at, q.of = r.of, q.action = r.action, q.todo = r.todo, q.chosen = r.chosen,
           r.clear, ~q.clear
    PROVE  ResultOK(Settings!ClearDefaultBrainModelsByProvider(s, r.of), q)
<1> DEFINE t == Settings!ClearDefaultBrainModelsByProvider(s, r.of)
           all == Settings!ModelsOf(s, r.of)
<1>1. /\ TablesOK(t) /\ SameRows(s, t)
      /\ \A m \in Settings!ModelsOf(t, r.of) : ~t.models[m].default
  BY ClearDefaultOK
<1> HIDE DEF t
<1>2. /\ Settings!ModelsOf(t, r.of) = all
      /\ all # {} => Settings!pickRecommendedModel(t, all) = Settings!pickRecommendedModel(s, all)
  BY <1>1, SamePick
<1> HIDE DEF all
<1>3. r.todo = all /\ all # {} /\ all \ q.todo = {}
  BY <1>2 DEF ResultOK, all
<1>4. /\ r.action # "deactivate_all" => r.chosen \in all
      /\ r.action = "activate_recommended" => r.chosen = Settings!pickRecommendedModel(s, all)
  BY DEF ResultOK, all
<1> QED
  BY <1>1, <1>2, <1>3, <1>4 DEF ResultOK, Settings!IsDone, t

\* The last model has been written: what was asked for is done.
LEMMA AllWritten ==
    ASSUME Settings!SettingsAssumption, NEW s, NEW all, all \subseteq Ids,
           NEW r, r.at = "idle", all = Settings!ModelsOf(s, r.of),
           r.done \in Settings!Actions, NEW chosen,
           r.done = "deactivate_all" =>
              \A m \in all : ~s.models[m].active /\ ~s.models[m].default,
           r.done = "activate_all" => \A m \in all : s.models[m].active,
           r.done # "deactivate_all" => chosen \in all /\ s.models[chosen].default,
           r.done = "activate_recommended" =>
              /\ chosen = Settings!pickRecommendedModel(s, all)
              /\ \A m \in all : s.models[m].active <=> m = chosen
              /\ \A m \in all : s.models[m].default => m = chosen
    PROVE  ResultOK(s, r)
<1> DEFINE d == Settings!DefaultOf(s, all)
<1>1. /\ d # None => d \in all /\ s.models[d].default
      /\ d = None <=> \A m \in all : ~s.models[m].default
  BY DefaultOfIs
<1> HIDE DEF d
<1>2. r.done = "deactivate_all" => {m \in all : s.models[m].active} = {} /\ d = None
  BY <1>1
<1>3. r.done = "activate_all" => {m \in all : s.models[m].active} = all /\ d # None
  BY <1>1
<1>4. r.done = "activate_recommended" =>
         /\ {m \in all : s.models[m].active} = {d}
         /\ d = Settings!pickRecommendedModel(s, all)
  <2> SUFFICES ASSUME r.done = "activate_recommended"
               PROVE  /\ {m \in all : s.models[m].active} = {d}
                      /\ d = Settings!pickRecommendedModel(s, all)
    OBVIOUS
  <2>1. /\ chosen \in all /\ s.models[chosen].default
        /\ chosen = Settings!pickRecommendedModel(s, all)
        /\ \A m \in all : s.models[m].active <=> m = chosen
        /\ \A m \in all : s.models[m].default => m = chosen
    OBVIOUS
  <2>2. d \in all /\ s.models[d].default
    BY <1>1, <2>1
  <2>3. d = chosen
    BY <2>1, <2>2
  <2>4. {m \in all : s.models[m].active} = {chosen}
    BY <2>1
  <2> QED
    BY <2>1, <2>3, <2>4
<1>5. r.done # "sync"
  BY DEF Settings!Actions
<1> QED
  BY <1>2, <1>3, <1>4, <1>5 DEF ResultOK, Settings!IsDone, d

\* What a statement on model m makes of the tables.
LEMMA ModelWritten ==
    ASSUME Settings!SettingsAssumption, SettingsOK, NEW a \in Admins,
           admin[a].at = "BulkUpdate", ResultOK(tables, admin[a]), Undisturbed,
           ~admin[a].clear, NEW m \in admin[a].todo,
           NEW t, t = Settings!WrittenModel(a, m)
    PROVE  /\ TablesOK(t)
           /\ admin[a].action = "deactivate_all" => Rewritten(tables, t, m, FALSE, FALSE)
           /\ admin[a].action = "activate_all" =>
                 Rewritten(tables, t, m, TRUE, m = admin[a].chosen)
           /\ admin[a].action = "activate_recommended" =>
                 Rewritten(tables, t, m, m = admin[a].chosen, m = admin[a].chosen)
<1>1. TablesOK(tables) /\ BulkOK(tables, admin[a]) /\ admin[a].action \in Settings!Actions
  BY DEF SettingsOK, RequestOK, Undisturbed
<1>2. m \in Settings!ModelsOf(tables, admin[a].of)
  BY DEF ResultOK
<1>3. m \in Settings!Rows(tables.models) /\ m \in Ids
  BY <1>2 DEF Settings!ModelsOf, Settings!Rows
<1>5. CASE admin[a].action = "deactivate_all"
  <2>1. t = Settings!SetBrainModelActive(tables, m, FALSE)
    BY <1>5 DEF Settings!WrittenModel
  <2>2. ~tables.models[m].default
    BY <1>1, <1>2, <1>5 DEF BulkOK
  <2>3. TablesOK(t) /\ Rewritten(tables, t, m, FALSE, tables.models[m].default)
    BY <1>1, <1>3, <2>1, <2>2, SetActiveOK
  <2>4. tables.models[m] \in Settings!ModelRow
    BY <1>1, <1>3, RowTypes DEF TablesOK, Settings!Rows
  <2>5. tables.models[m].default = FALSE
    BY <2>2, <2>4 DEF Settings!ModelRow
  <2> QED
    BY <1>5, <2>3, <2>5
<1>6. CASE admin[a].action = "activate_all"
  <2> DEFINE b == m = admin[a].chosen
  <2>1. t = Settings!UpdateBrainModel(tables, m, TRUE, b) /\ b \in BOOLEAN
    BY <1>6 DEF Settings!WrittenModel
  <2> HIDE DEF b
  <2>2. TablesOK(t) /\ Rewritten(tables, t, m, TRUE, b)
    BY <1>1, <1>3, <2>1, UpdateModelOK
  <2> QED
    BY <1>6, <2>2 DEF b
<1>7. CASE admin[a].action = "activate_recommended"
  <2> DEFINE b == m = admin[a].chosen
  <2>1. t = Settings!UpdateBrainModel(tables, m, b, b) /\ b \in BOOLEAN
    BY <1>7 DEF Settings!WrittenModel
  <2> HIDE DEF b
  <2>2. TablesOK(t) /\ Rewritten(tables, t, m, b, b)
    BY <1>1, <1>3, <2>1, UpdateModelOK
  <2> QED
    BY <1>7, <2>2 DEF b
<1> QED
  BY <1>1, <1>5, <1>6, <1>7 DEF Settings!Actions

\* Then the models are written one by one.
LEMMA WriteGoesOn ==
    ASSUME Settings!SettingsAssumption, SettingsOK, NEW a \in Admins,
           admin[a].at = "BulkUpdate", ResultOK(tables, admin[a]), Undisturbed,
           ~admin[a].clear, NEW m \in admin[a].todo
    PROVE  ResultOK(Settings!WrittenModel(a, m), Settings!AfterModel(a, m))
<1> DEFINE t == Settings!WrittenModel(a, m)
           q == Settings!AfterModel(a, m)
           r == admin[a]
           all == Settings!ModelsOf(tables, r.of)
           c == r.chosen
<1>1. /\ TablesOK(tables) /\ r.action \in Settings!Actions
      /\ r = [at |-> r.at, of |-> r.of, action |-> r.action, todo |-> r.todo,
              clear |-> r.clear, chosen |-> r.chosen]
      /\ r.action = "deactivate_all" => \A k \in all : ~tables.models[k].default
  BY DEF SettingsOK, RequestOK, Undisturbed, BulkOK
<1>2. /\ TablesOK(t)
      /\ r.action = "deactivate_all" => Rewritten(tables, t, m, FALSE, FALSE)
      /\ r.action = "activate_all" => Rewritten(tables, t, m, TRUE, m = c)
      /\ r.action = "activate_recommended" => Rewritten(tables, t, m, m = c, m = c)
  BY ModelWritten
<1>3. SameRows(tables, t)
  BY <1>1, <1>2 DEF Rewritten, Settings!Actions
<1> HIDE DEF t
<1>4. /\ Settings!ModelsOf(t, r.of) = all
      /\ all # {} => Settings!pickRecommendedModel(t, all) =
                        Settings!pickRecommendedModel(tables, all)
  BY <1>1, <1>2, <1>3, SamePick
<1>5. /\ all \subseteq Settings!Rows(tables.models) /\ all \subseteq Ids
      /\ \A k \in all : tables.models[k].of = r.of
  BY DEF Settings!ModelsOf, Settings!Rows
<1>6. m \in all /\ r.todo \subseteq all
  BY DEF ResultOK
<1>7. /\ r.action = "deactivate_all" => \A k \in all \ r.todo : ~tables.models[k].active
      /\ r.action = "activate_all" => \A k \in all \ r.todo : tables.models[k].active
      /\ r.action # "deactivate_all" =>
            c \in all /\ (c \in all \ r.todo => tables.models[c].default)
      /\ r.action = "activate_recommended" =>
            /\ c = Settings!pickRecommendedModel(tables, all)
            /\ \A k \in all \ r.todo : tables.models[k].active <=> k = c
            /\ \A k \in all : tables.models[k].default => k = c
  BY DEF ResultOK
<1> HIDE DEF all, r, c, q
\* What is written now, with m.
<1>8. \A k \in all \ (r.todo \ {m}) : k = m \/ (k \in all \ r.todo /\ k # m)
  OBVIOUS
<1>9. r.action = "deactivate_all" =>
         /\ \A k \in all \ (r.todo \ {m}) : ~t.models[k].active
         /\ \A k \in all : ~t.models[k].default
  BY <1>1, <1>2, <1>5, <1>6, <1>7, <1>8 DEF Rewritten
<1>10. r.action = "activate_all" => \A k \in all \ (r.todo \ {m}) : t.models[k].active
  BY <1>2, <1>5, <1>6, <1>7, <1>8 DEF Rewritten
<1>11. ASSUME r.action # "deactivate_all", c \in all \ (r.todo \ {m})
       PROVE  t.models[c].default
  <2>1. CASE c = m
    BY <1>1, <1>2, <1>11, <2>1 DEF Rewritten, Settings!Actions
  <2>2. CASE c # m
    BY <1>1, <1>2, <1>11, <2>2, <1>5, <1>7 DEF Settings!Actions, Rewritten
  <2> QED
    BY <2>1, <2>2
<1>12. r.action = "activate_recommended" =>
          /\ \A k \in all \ (r.todo \ {m}) : t.models[k].active <=> k = c
          /\ \A k \in all : t.models[k].default => k = c
  BY <1>2, <1>5, <1>6, <1>7, <1>8 DEF Rewritten
<1>13. CASE r.todo = {m}
  <2>1. q = [at |-> "idle", done |-> r.action, of |-> r.of]
    BY <1>13 DEF q, r, Settings!AfterModel, Settings!Finished
  <2>2. all \ (r.todo \ {m}) = all /\ q.at = "idle" /\ q.done = r.action /\ q.of = r.of
    BY <1>13, <2>1
  <2>3. ResultOK(t, q)
    <3>1. all \subseteq Ids /\ all = Settings!ModelsOf(t, q.of) /\ q.done \in Settings!Actions
      BY <1>1, <1>4, <1>5, <1>6, <2>2
    <3>2. /\ q.done = "deactivate_all" => \A k \in all : ~t.models[k].active /\ ~t.models[k].default
          /\ q.done = "activate_all" => \A k \in all : t.models[k].active
      BY <1>9, <1>10, <2>2
    <3>3. q.done # "deactivate_all" => c \in all /\ t.models[c].default
      BY <1>7, <1>11, <2>2
    <3>4. q.done = "activate_recommended" =>
             /\ c = Settings!pickRecommendedModel(t, all)
             /\ \A k \in all : t.models[k].active <=> k = c
             /\ \A k \in all : t.models[k].default => k = c
      BY <1>4, <1>6, <1>7, <1>12, <2>2
    <3> QED
      BY ONLY Settings!SettingsAssumption, <2>2, <3>1, <3>2, <3>3, <3>4, AllWritten
  <2> QED
    BY <2>3 DEF t, q
<1>14. CASE r.todo # {m}
  <2>1. q = [r EXCEPT !.todo = r.todo \ {m}]
    BY <1>14 DEF q, r, Settings!AfterModel
  <2>2. /\ q.at = "BulkUpdate" /\ q.of = r.of /\ q.action = r.action /\ q.clear = r.clear
        /\ q.todo = r.todo \ {m} /\ q.chosen = c
    BY <1>1, <2>1 DEF r, c
  <2>3. q.todo # {} /\ ~q.clear /\ m \in r.todo
    BY <1>14, <2>2 DEF r
  <2>4. ResultOK(t, q)
    BY <1>4, <1>6, <1>7, <1>9, <1>10, <1>11, <1>12, <2>2, <2>3 DEF ResultOK, Settings!IsDone
  <2> QED
    BY <2>4 DEF t, q
<1> QED
  BY <1>13, <1>14

LEMMA BulkGoesOn ==
    ASSUME Settings!SettingsAssumption, SettingsOK, ResultsOK, NEW a \in Admins,
           Settings!applyModelBulkAction(a)
    PROVE  GoesOn(a)
<1> DEFINE r == admin[a]
<1>1. TablesOK(tables) /\ r.at = "BulkUpdate" /\ (Undisturbed => ResultOK(tables, r))
  BY DEF SettingsOK, ResultsOK, Settings!applyModelBulkAction
<1>2. r = [at |-> r.at, of |-> r.of, action |-> r.action, todo |-> r.todo,
           clear |-> r.clear, chosen |-> r.chosen]
  BY <1>1 DEF SettingsOK, RequestOK
<1>3. ASSUME r.clear,
             Settings!Statement(a, Settings!ClearDefaultBrainModelsByProvider(tables, r.of),
                                [r EXCEPT !.clear = FALSE])
      PROVE  GoesOn(a)
  <2> DEFINE q == [r EXCEPT !.clear = FALSE]
  <2> HIDE DEF r
  <2>1. /\ q.at = r.at /\ q.of = r.of /\ q.action = r.action /\ q.todo = r.todo
        /\ q.chosen = r.chosen /\ ~q.clear
    BY <1>2
  <2>2. Undisturbed => ResultOK(Settings!ClearDefaultBrainModelsByProvider(tables, r.of), q)
    <3> HIDE DEF q
    <3> QED
      BY <1>1, <1>3, <2>1, ClearGoesOn
  <2> QED
    BY <1>3, <2>2, StatementGoesOn
<1>4. ASSUME ~r.clear, NEW m \in r.todo,
             Settings!Statement(a, Settings!WrittenModel(a, m), Settings!AfterModel(a, m))
      PROVE  GoesOn(a)
  BY <1>1, <1>4, WriteGoesOn, StatementGoesOn
<1> QED
  BY <1>3, <1>4 DEF Settings!applyModelBulkAction

\* The default that a sync leaves is active: it was there before, or is written now.
LEMMA SyncGoesOn ==
    ASSUME Settings!SettingsAssumption, SettingsOK, ResultsOK, NEW a \in Admins,
           Settings!Ensure(a) \/ Settings!Choose(a) \/ Settings!Recommend(a)
    PROVE  GoesOn(a)
<1> DEFINE r == admin[a]
           all == Settings!ModelsOf(tables, r.of)
<1>1. TablesOK(tables) /\ (Undisturbed => ResultOK(tables, r) /\ Settings!DefaultIsActiveIn(tables))
  BY DEF SettingsOK, ResultsOK, Undisturbed
<1>2. all \subseteq Ids
  BY DEF Settings!ModelsOf, Settings!Rows
<1>3. CASE Settings!Ensure(a)
  <2>1. PICK todo : r.at = "Sync" /\ admin'[a] = [r EXCEPT !.todo = todo]
    BY <1>3 DEF Settings!Ensure, SettingsOK
  <2>2. r = [at |-> r.at, of |-> r.of, action |-> r.action, todo |-> r.todo]
    BY <2>1 DEF SettingsOK, RequestOK
  <2>3. admin'[a].at = "Sync"
    <3> HIDE DEF r
    <3> QED
      BY <2>1, <2>2
  <2> QED
    BY <2>3, PlainRequest DEF GoesOn
<1>4. CASE Settings!Choose(a)
  <2> DEFINE chosen == Settings!pickRecommendedModel(tables, all)
             d == Settings!DefaultOf(tables, all)
  <2>1. /\ tables' = tables
        /\ admin'[a] = IF Settings!NeedsDefault(tables, all) /\ all # {}
                       THEN [at |-> "clear", of |-> r.of, action |-> "sync", chosen |-> chosen]
                       ELSE Settings!Finished(a)
    BY <1>4 DEF Settings!Choose, SettingsOK
  <2>2. CASE Settings!NeedsDefault(tables, all) /\ all # {}
    BY <2>1, <2>2, <1>1, PickIs DEF GoesOn, ResultOK, Settings!IsDone
  <2>3. CASE ~(Settings!NeedsDefault(tables, all) /\ all # {})
    <3>1. /\ admin'[a] = [at |-> "idle", done |-> r.action, of |-> r.of]
          /\ r.action = "sync"
      BY <1>4, <2>1, <2>3 DEF Settings!Finished, Settings!Choose, SettingsOK, RequestOK
    <3>2. admin'[a].at = "idle" /\ admin'[a].done = "sync" /\ admin'[a].of = r.of
      BY <3>1
    <3>3. Undisturbed => all = {} \/ d \in {m \in all : tables.models[m].active}
      BY <2>3, <1>2, DefaultOfIs, <1>1 DEF Settings!NeedsDefault, Settings!DefaultIsActiveIn,
         Settings!ModelsOf
    <3> QED
      BY <2>1, <3>2, <3>3 DEF GoesOn, ResultOK, Settings!IsDone
  <2> QED
    BY <2>2, <2>3
<1>5. CASE Settings!Recommend(a)
  <2>1. /\ r.at \in {"clear", "recommend"} /\ (Undisturbed => r.chosen \in all)
        /\ r = [at |-> r.at, of |-> r.of, action |-> r.action, chosen |-> r.chosen]
        /\ r.action = "sync"
    BY <1>1, <1>5 DEF Settings!Recommend, SettingsOK, RequestOK, ResultOK
  <2>2. CASE r.at = "clear"
    <3> DEFINE t == Settings!ClearDefaultBrainModelsByProvider(tables, r.of)
    <3>1. Undisturbed => tables' = t
      BY <1>5, <2>2 DEF Settings!Recommend, Undisturbed, Settings!Faults
    <3>2. admin'[a] = [r EXCEPT !.at = "recommend"]
      BY <1>5, <2>2 DEF Settings!Recommend, SettingsOK
    <3>3. admin'[a].at = "recommend" /\ admin'[a].of = r.of /\ admin'[a].chosen = r.chosen
      <4> HIDE DEF r
      <4> QED
        BY <2>1, <3>2
    <3>4. Settings!ModelsOf(t, r.of) = all
      BY <1>1, ClearDefaultOK, SamePick
    <3> HIDE DEF t, r
    <3> QED
      BY <2>1, <3>1, <3>3, <3>4 DEF GoesOn, ResultOK, Settings!IsDone
  <2>3. CASE r.at = "recommend"
    <3> DEFINE t == Settings!UpdateBrainModel(tables, r.chosen, TRUE, TRUE)
               d == Settings!DefaultOf(t, all)
    <3>1. Undisturbed => tables' = t
      BY <1>5, <2>3 DEF Settings!Recommend, Undisturbed, Settings!Faults
    <3>2. admin'[a] = [at |-> "idle", done |-> r.action, of |-> r.of]
      BY <1>5, <2>3 DEF Settings!Recommend, Settings!Finished, SettingsOK
    <3>3. admin'[a].at = "idle" /\ admin'[a].of = r.of /\ admin'[a].done = "sync"
      BY <2>1, <3>2
    <3>4. ASSUME Undisturbed
          PROVE  Settings!ModelsOf(t, r.of) = all /\ d \in all /\ t.models[d].active
      <4>1. r.chosen \in Settings!Rows(tables.models) /\ r.chosen \in all
        BY <2>1, <3>4 DEF Settings!ModelsOf
      <4>2. TablesOK(t) /\ Rewritten(tables, t, r.chosen, TRUE, TRUE)
        BY <1>1, <4>1, UpdateModelOK
      <4>3. Settings!ModelsOf(t, r.of) = all
        <5> HIDE DEF t
        <5> QED
          BY <1>1, <4>2, SamePick DEF Rewritten
      <4>4. t.models[r.chosen].active /\ t.models[r.chosen].default
        BY <4>2 DEF Rewritten
      <4>5. d \in all /\ t.models[d].default
        <5> HIDE DEF t
        <5> QED
          BY <1>2, <4>1, <4>4, DefaultOfIs
      <4>6. d = r.chosen
        <5>1. /\ d \in Ids /\ r.chosen \in Ids
              /\ Settings!Has(t.models, d) /\ Settings!Has(t.models, r.chosen)
              /\ t.models[d].of = r.of /\ t.models[r.chosen].of = r.of
          BY <4>1, <4>3, <4>5 DEF Settings!ModelsOf, Settings!Rows
        <5> HIDE DEF t, d, r
        <5> QED
          BY <4>2, <4>4, <4>5, <5>1, OneDefault
      <4> QED
        BY <4>3, <4>4, <4>5, <4>6
    <3> HIDE DEF t, d, r, all
    <3> QED
      BY <3>1, <3>3, <3>4 DEF GoesOn, ResultOK, Settings!IsDone, d
  <2> QED
    BY <2>1, <2>2, <2>3
<1> QED
  BY <1>3, <1>4, <1>5
\* However many administrators work at once, and wherever a request stops: every table has
\* one default, every provider one default model, no name comes twice in a provider and no
\* model without its provider, and a chat that names no model gets the default if it can be
\* used. One administrator alone keeps every default model active, and, as long as no
\* statement fails, a request for all models of a provider does what it says
\* (handlers/admin_brain.go, database/brain.go).
THEOREM SettingsAgree ==
    ASSUME Settings!SettingsAssumption
    PROVE  Settings!Spec => []Settings!SettingsInv
<1> USE Settings!SettingsAssumption
<1>1. Settings!Init => SettingsOK /\ ResultsOK
  BY InitSettings, InitResults
<1>2. SettingsOK /\ ResultsOK /\ [Settings!Next]_Settings!vars => SettingsOK' /\ ResultsOK'
  <2> SUFFICES ASSUME SettingsOK, ResultsOK, [Settings!Next]_Settings!vars
               PROVE  SettingsOK' /\ ResultsOK'
    OBVIOUS
  <2>1. ASSUME NEW a \in Admins,
               \/ Settings!CreateProvider(a) \/ Settings!UpdateProvider(a) \/ Settings!DeleteProvider(a)
               \/ Settings!UpdateModel(a) \/ Settings!CreateSkill(a) \/ Settings!UpdateSkill(a)
               \/ Settings!BulkUpdate(a) \/ Settings!applyModelBulkAction(a)
               \/ Settings!Sync(a) \/ Settings!Ensure(a) \/ Settings!Choose(a) \/ Settings!Recommend(a)
        PROVE  SettingsOK' /\ ResultsOK'
    <3>1. StepOK(a)
      BY <2>1, ProviderSteps, ModelSteps, SkillSteps, BulkAsked, BulkSteps, SyncSteps
    <3>2. GoesOn(a)
      BY <2>1, PlainGoesOn, BulkAskedGoesOn, BulkGoesOn, SyncGoesOn
    <3> QED
      BY <3>1, <3>2, StepKeeps, ResultsStep
  <2>2. CASE UNCHANGED Settings!vars
    BY <2>2 DEF Settings!vars, SettingsOK, ResultsOK, TablesOK, Settings!Alone, Undisturbed
  <2> QED
    BY <2>1, <2>2 DEF Settings!Next
<1>3. SettingsOK /\ ResultsOK => Settings!SettingsInv
  <2> SUFFICES ASSUME SettingsOK, ResultsOK PROVE Settings!SettingsInv
    OBVIOUS
  <2>1. Settings!OneOfEach /\ Settings!DefaultIsActive
    BY DEF SettingsOK, TablesOK, Settings!OneOfEach, Settings!DefaultIsActive
  <2>2. Settings!BulkDone
    BY DEF ResultsOK, ResultOK, Undisturbed, Settings!BulkDone
  <2>3. Settings!DefaultIsUsed
    BY DEF Settings!DefaultIsUsed, Settings!GetDefaultBrainModelRuntime
  <2> QED
    BY <2>1, <2>2, <2>3 DEF Settings!SettingsInv
<1> QED
  BY <1>1, <1>2, <1>3, PTL DEF Settings!Spec

----------------------------------------------------------------------------
(***************************************************************************)
(* Logins.  LoginTypes says what a request, a row and a session hold.      *)
(* RoleInv: what an administrator has checked still holds when the role is *)
(* stored, since nobody else takes a role away, and what a login was       *)
(* resolved to has its row until a role is changed.  LimitInv: with one    *)
(* client a row is between its check and its count as the check left it;   *)
(* RowOK and TimesOK say what a row tells of the attempts before.          *)
(***************************************************************************)
CONSTANTS Window, Lockouts, Clients, Ips, Conns, Tokens, MaxAttempts
VARIABLES clock, limits, roles, sessions, cookie, client, failed, booted, overlapped

Login == INSTANCE Logins

MaybeRole == Login!Roles \cup {None}
MaybeRow == Login!LimitRow \cup {None}
Attempts == {"check", "upsert", "test", "failed", "count", "role", "admins", "bootstrap",
             "leave", "session", "reset", "sso"}
AttemptRec ==
    [at : Attempts, op : {"login", "switch", "sso"}, key : Login!Keys \cup {None},
     ip : Ips \cup {None}, user : Users, conn : Conns, role : MaybeRole, left : MaybeRow,
     denied : BOOLEAN]
SessionRec ==
    [conn : Conns, user : Users, role : MaybeRole, subject : Clients \cup {None}, expired : BOOLEAN]
ChangeRec == [at : {"target", "count", "store", "refresh"}, user : Users, role : MaybeRole]

\* The key of the user in an attempt.
KeyOf(r) == <<r.user, r.conn>>

\* The request of a client and of an administrator.
ClientOK(r) ==
    r.at \in Attempts =>
        /\ r \in AttemptRec
        /\ r.op = "login" => r.ip \in Ips /\ r.key \in {r.ip, KeyOf(r)}
        /\ r.at \in {"check", "upsert", "failed", "count", "reset"} => r.op = "login"
        /\ r.at \in {"role", "admins", "bootstrap", "test", "session"} => r.op \in {"login", "switch"}
        /\ r.at = "leave" => r.op = "switch"
        /\ r.at = "sso" => r.op = "sso"
ChangeOK(r) == r.at = "idle" \/ r \in ChangeRec

ClientsOK ==
    /\ client = [c \in Clients |-> client[c]]
    /\ \A c \in Clients : ClientOK(client[c]) /\ (c \notin scenario.clients => client[c].at = "idle")
AdminsOK ==
    /\ admin = [a \in Admins |-> admin[a]]
    /\ \A a \in Admins : ChangeOK(admin[a]) /\ (a \notin scenario.admins => admin[a].at = "idle")
SessionsOK ==
    /\ sessions = [t \in Tokens |-> sessions[t]]
    /\ \A t \in Tokens : Login!HasSession(t) => sessions[t] \in SessionRec
StoreOK ==
    /\ scenario \in Scenarios /\ clock \in Nat
    /\ roles \in [Users -> MaybeRole] /\ limits \in [Login!Keys -> MaybeRow]
LoginTypes == StoreOK /\ ClientsOK /\ AdminsOK /\ SessionsOK

LEMMA InitLogin == ASSUME Login!LoginAssumption, Login!Init PROVE LoginTypes
<1>1. StoreOK
  BY DEF Login!Init, Login!LoginAssumption, StoreOK, MaybeRole, MaybeRow
<1>2. ClientsOK /\ AdminsOK
  BY DEF Login!Init, Login!Idle, ClientsOK, AdminsOK, ClientOK, ChangeOK, Attempts
<1>3. SessionsOK
  BY DEF Login!Init, SessionsOK, Login!HasSession
<1> QED
  BY <1>1, <1>2, <1>3 DEF LoginTypes

----------------------------------------------------------------------------
(* The row of a limit (middleware/ratelimit.go).                            *)

\* The first lock.
Shortest == Lockouts[1]

\* An attempt that this row lets in, and that counts, does not pass the maximum.
RowFree(e, max) == e = None \/ (e.until = None /\ e.attempts < max)

\* What the row e tells of the times f of the attempts before. While no lock is set, its
\* window counts the last ones, of which unsaved are not in the row yet; the others were
\* before its window, all but the last max of them by as long as the first lock.
RowOK(e, f, unsaved, max, now) ==
    /\ e = None => Len(f) = unsaved
    /\ e # None /\ e.until = None =>
          /\ e.first <= now /\ e.attempts + unsaved <= max
          /\ \A i \in 1 .. Len(f) : i <= Len(f) - e.attempts - unsaved => f[i] <= e.first
          /\ \A i \in 1 .. Len(f) : i <= Len(f) - e.attempts - unsaved - max => f[i] + Shortest <= e.first
    /\ e # None /\ e.until # None =>
          unsaved = 0 /\ \A i \in 1 .. Len(f) : f[i] + Shortest <= e.until

TimesOK(f, max, now) ==
    /\ f \in Seq(Nat)
    /\ \A i \in 1 .. Len(f) : f[i] <= now
    /\ \A i \in 1 .. Len(f) : i + 2 * max <= Len(f) => f[i + 2 * max] - f[i] >= Shortest

\* What the assumption says of locks.
LEMMA LockTimes ==
    ASSUME Login!LoginAssumption
    PROVE  /\ Shortest \in Nat \ {0} /\ Window \in Nat /\ Shortest <= Window + 1
           /\ Len(Lockouts) \in Nat \ {0}
           /\ \A l \in 0 .. Len(Lockouts) :
                 /\ Login!lockoutDurationForLevel(l) \in Nat /\ Login!lockoutDurationForLevel(l) >= Shortest
                 /\ Login!nextLockoutLevel(l) \in 0 .. Len(Lockouts)
           /\ None \notin Nat /\ None \notin Login!LimitRow
BY DEF Login!LoginAssumption, Shortest, Login!lockoutDurationForLevel, Login!nextLockoutLevel

\* What a row holds.
LEMMA RowFields ==
    ASSUME NEW e \in Login!LimitRow
    PROVE  /\ e.attempts \in Nat /\ e.level \in 0 .. Len(Lockouts) /\ e.first \in Nat
           /\ e.until \in Nat \cup {None}
  BY DEF Login!LimitRow

\* The row that a check leaves is locked or free, tells the same of the attempts, and is
\* locked if the row before was.
LEMMA CheckRow ==
    ASSUME Login!LoginAssumption, NEW e \in MaybeRow, NEW max \in Nat \ {0}, NEW now \in Nat,
           NEW f, NEW left, left = Login!CheckAuthRateLimit(e, max, now)
    PROVE  /\ left \in MaybeRow /\ (left = None <=> e = None)
           /\ Login!Locked(left, now) \in BOOLEAN
           /\ Login!Locked(e, now) => left.until # None
           /\ Login!Locked(left, now) \/ RowFree(left, max)
           /\ TimesOK(f, max, now) /\ RowOK(e, f, 0, max, now) => RowOK(left, f, 0, max, now)
<1>b. Login!Locked(left, now) \in BOOLEAN
  BY DEF Login!Locked
<1>1. CASE e = None
  <2>1. left = None
    BY <1>1 DEF Login!CheckAuthRateLimit
  <2> QED
    BY <1>b, <1>1, <2>1 DEF RowFree, MaybeRow, Login!Locked
<1>2. CASE e # None
  <2>1. /\ e \in Login!LimitRow
        /\ e.attempts \in Nat /\ e.level \in 0 .. Len(Lockouts) /\ e.first \in Nat
        /\ e.until \in Nat \cup {None}
    BY <1>2, RowFields DEF MaybeRow
  <2>2. /\ Shortest \in Nat \ {0} /\ Window \in Nat /\ Shortest <= Window + 1 /\ None \notin Nat
        /\ None \notin Login!LimitRow /\ 0 \in 0 .. Len(Lockouts)
    BY LockTimes
  <2>3. CASE Login!Locked(e, now)
    <3> DEFINE level == IF e.level = 0 THEN 1 ELSE e.level
               longest == Login!lockoutDurationForLevel(level)
    <3>0. level \in 0 .. Len(Lockouts)
      BY LockTimes, <2>1
    <3> HIDE DEF level
    <3>1. level \in 0 .. Len(Lockouts) /\ longest \in Nat /\ longest >= Shortest
      BY <3>0, LockTimes
    <3>2. left = IF e.until - now > longest THEN Login!Entry(e.attempts, level, now, now + longest) ELSE e
      BY <1>2, <2>1, <2>3 DEF Login!CheckAuthRateLimit, Login!Locked, Login!LockEnded,
         Login!WindowEnded, Login!TooMany, Login!Shortened, level
    <3>3. e.until \in Nat /\ now < e.until
      BY <2>1, <2>3 DEF Login!Locked
    <3>4. CASE e.until - now > longest
      <4>1. /\ left \in Login!LimitRow /\ left.until = now + longest /\ left.until \in Nat
        <5>1. now + longest \in Nat /\ left = Login!Entry(e.attempts, level, now, now + longest)
          BY <3>1, <3>2, <3>4
        <5> HIDE DEF level, longest
        <5>2. now + longest \in Nat \cup {None}
          BY <5>1
        <5> QED
          BY ONLY <2>1, <3>1, <5>1, <5>2, now \in Nat DEF Login!Entry, Login!LimitRow
      <4>2. Login!Locked(left, now) /\ left # None /\ left.until # None
        BY <2>2, <3>1, <4>1 DEF Login!Locked
      <4>3. ASSUME TimesOK(f, max, now) PROVE RowOK(left, f, 0, max, now)
        <5>1. \A i \in 1 .. Len(f) : f[i] \in Nat /\ f[i] <= now
          BY <4>3 DEF TimesOK
        <5>2. \A i \in 1 .. Len(f) : f[i] + Shortest <= left.until
          BY <2>2, <3>1, <4>1, <5>1
        <5> QED
          BY <4>2, <5>2 DEF RowOK
      <4> QED
        BY <1>b, <1>2, <4>1, <4>2, <4>3 DEF MaybeRow
    <3>5. CASE ~(e.until - now > longest)
      <4>1. left = e
        BY <3>2, <3>5
      <4> QED
        BY <1>b, <2>2, <2>3, <3>3, <4>1
    <3> QED
      BY <3>4, <3>5
  <2>4. CASE ~Login!Locked(e, now) /\ Login!LockEnded(e, now)
    <3>1. left = Login!Entry(0, e.level, now, None)
      BY <1>2, <2>4 DEF Login!CheckAuthRateLimit, Login!LockEnded, Login!WindowEnded, Login!TooMany
    <3>2. left \in Login!LimitRow /\ left.attempts = 0 /\ left.first = now /\ left.until = None
      BY <2>1, <3>1 DEF Login!Entry, Login!LimitRow
    <3>3. RowFree(left, max) /\ left # None
      BY <2>2, <3>2 DEF RowFree
    <3>4. ASSUME TimesOK(f, max, now), RowOK(e, f, 0, max, now) PROVE RowOK(left, f, 0, max, now)
      <4>1. \A i \in 1 .. Len(f) : f[i] \in Nat /\ f[i] <= now
        BY <3>4 DEF TimesOK
      <4>2. e.until \in Nat /\ now >= e.until
        BY <2>1, <2>4 DEF Login!LockEnded
      <4>3. \A i \in 1 .. Len(f) : f[i] + Shortest <= now
        BY <1>2, <2>2, <3>4, <4>1, <4>2 DEF RowOK
      <4> QED
        BY <3>2, <3>3, <4>1, <4>3 DEF RowOK
    <3> QED
      BY <1>b, <1>2, <2>4, <3>2, <3>3, <3>4 DEF MaybeRow
  <2>5. CASE ~Login!Locked(e, now) /\ ~Login!LockEnded(e, now)
    <3>1. e.until = None
      BY <1>2, <2>1, <2>2, <2>5 DEF Login!Locked, Login!LockEnded
    <3>2. CASE Login!WindowEnded(e, now)
      <4>1. left = Login!Entry(0, 0, now, None)
        BY <1>2, <2>5, <3>2 DEF Login!CheckAuthRateLimit
      <4>2. left \in Login!LimitRow /\ left.attempts = 0 /\ left.first = now /\ left.until = None
        BY <2>2, <4>1 DEF Login!Entry, Login!LimitRow
      <4>3. RowFree(left, max) /\ left # None
        BY <2>2, <4>2 DEF RowFree
      <4>4. ASSUME TimesOK(f, max, now), RowOK(e, f, 0, max, now) PROVE RowOK(left, f, 0, max, now)
        <5>1. Len(f) \in Nat /\ \A i \in 1 .. Len(f) : f[i] \in Nat /\ f[i] <= now
          BY <4>4 DEF TimesOK
        <5>2. now - e.first >= Shortest
          BY <2>1, <2>2, <3>2 DEF Login!WindowEnded
        <5>3. e.attempts <= max /\ \A i \in 1 .. Len(f) : i <= Len(f) - e.attempts => f[i] <= e.first
          BY <1>2, <2>1, <3>1, <4>4, <5>1 DEF RowOK
        <5>4. \A i \in 1 .. Len(f) : i <= Len(f) - max => f[i] + Shortest <= now
          <6> SUFFICES ASSUME NEW i \in 1 .. Len(f), i <= Len(f) - max PROVE f[i] + Shortest <= now
            OBVIOUS
          <6>1. i <= Len(f) - e.attempts
            BY <2>1, <5>1, <5>3
          <6>2. f[i] \in Nat /\ f[i] <= e.first
            BY <5>1, <5>3, <6>1
          <6> QED
            BY <2>1, <2>2, <5>2, <6>2
        <5> QED
          BY <4>2, <4>3, <5>1, <5>4 DEF RowOK
      <4> QED
        BY <1>b, <1>2, <2>5, <4>2, <4>3, <4>4 DEF MaybeRow
    <3>3. CASE ~Login!WindowEnded(e, now) /\ Login!TooMany(e, max)
      <4> DEFINE level == Login!nextLockoutLevel(e.level)
                 time == Login!lockoutDurationForLevel(level)
      <4>1. left = Login!Entry(e.attempts, level, e.first, now + time)
        BY <1>2, <2>5, <3>3 DEF Login!CheckAuthRateLimit, Login!LockedOut
      <4>2. level \in 0 .. Len(Lockouts) /\ time \in Nat /\ time >= Shortest
        BY <2>1, LockTimes
      <4>3. left \in Login!LimitRow /\ left.until = now + time /\ left.until \in Nat
        <5>1. now + time \in Nat
          BY <4>2
        <5> HIDE DEF level, time
        <5>2. now + time \in Nat \cup {None}
          BY <5>1
        <5> QED
          BY ONLY <2>1, <4>1, <4>2, <5>1, <5>2 DEF Login!Entry, Login!LimitRow
      <4>4. Login!Locked(left, now) /\ left # None /\ left.until # None
        BY <2>2, <4>2, <4>3 DEF Login!Locked
      <4>5. ASSUME TimesOK(f, max, now) PROVE RowOK(left, f, 0, max, now)
        <5>1. \A i \in 1 .. Len(f) : f[i] \in Nat /\ f[i] <= now
          BY <4>5 DEF TimesOK
        <5>2. \A i \in 1 .. Len(f) : f[i] + Shortest <= left.until
          BY <2>2, <4>2, <4>3, <5>1
        <5> QED
          BY <4>4, <5>2 DEF RowOK
      <4> QED
        BY <1>b, <1>2, <2>5, <4>3, <4>4, <4>5 DEF MaybeRow
    <3>4. CASE ~Login!WindowEnded(e, now) /\ ~Login!TooMany(e, max)
      <4>1. left = e
        BY <1>2, <2>5, <3>4 DEF Login!CheckAuthRateLimit
      <4>2. RowFree(left, max)
        BY <2>1, <3>1, <3>4, <4>1 DEF Login!TooMany, RowFree
      <4> QED
        BY <1>b, <1>2, <2>5, <4>1, <4>2
    <3> QED
      BY <3>2, <3>3, <3>4
  <2> QED
    BY <2>3, <2>4, <2>5
<1> QED
  BY <1>1, <1>2

\* A failed attempt that the row has let in: first its time is remembered, ...
LEMMA AppendedTime ==
    ASSUME Login!LoginAssumption, NEW e \in MaybeRow, NEW max \in Nat \ {0}, NEW now \in Nat,
           NEW f, TimesOK(f, max, now), RowOK(e, f, 0, max, now), RowFree(e, max)
    PROVE  TimesOK(Append(f, now), max, now) /\ RowOK(e, Append(f, now), 1, max, now)
<1> DEFINE g == Append(f, now)
           L == Len(f)
<1>1. /\ f \in Seq(Nat) /\ L \in Nat /\ g \in Seq(Nat) /\ Len(g) = L + 1 /\ g[L + 1] = now
      /\ \A i \in 1 .. L : g[i] = f[i] /\ f[i] \in Nat /\ f[i] <= now
  BY DEF TimesOK
<1>2. Shortest \in Nat \ {0} /\ None \notin Nat
  BY LockTimes
<1>3. ASSUME e # None
      PROVE  /\ e.until = None /\ e.attempts \in Nat /\ e.attempts < max /\ e.first \in Nat
             /\ e.first <= now
             /\ \A i \in 1 .. L : i <= L - e.attempts => f[i] <= e.first
             /\ \A i \in 1 .. L : i <= L - e.attempts - max => f[i] + Shortest <= e.first
  BY <1>3, RowFields, <1>1 DEF RowFree, MaybeRow, RowOK
<1> HIDE DEF g, L
<1>4. ASSUME NEW i \in 1 .. L + 1, i + 2 * max <= L + 1 PROVE g[i + 2 * max] - g[i] >= Shortest
  <2>1. i \in 1 .. L /\ i + 2 * max \in 1 .. L + 1
    BY <1>1, <1>4
  <2>2. CASE i + 2 * max <= L
    BY <2>1, <2>2, <1>1 DEF TimesOK, L
  <2>3. CASE i + 2 * max = L + 1
    <3>1. e # None
      BY <2>1 DEF RowOK, L
    <3>2. i <= L - e.attempts - max
      BY <1>1, <1>3, <2>3, <3>1
    <3>3. f[i] + Shortest <= now
      <4>1. f[i] + Shortest <= e.first /\ e.first <= now /\ e.first \in Nat /\ f[i] \in Nat
        BY <1>1, <1>3, <2>1, <3>1, <3>2
      <4> QED
        BY <1>2, <4>1
    <3> QED
      <4>1. g[i] = f[i] /\ f[i] \in Nat /\ g[i + 2 * max] = now
        BY <1>1, <2>1, <2>3
      <4> QED
        BY <1>2, <3>3, <4>1
  <2> QED
    BY <1>1, <1>4, <2>1, <2>2, <2>3
<1>5. TimesOK(g, max, now)
  BY <1>1, <1>4 DEF TimesOK
<1>6. RowOK(e, g, 1, max, now)
  <2>1. CASE e = None
    BY <2>1, <1>1 DEF RowOK, L
  <2>2. CASE e # None
    <3>1. \A i \in 1 .. Len(g) : i <= Len(g) - e.attempts - 1 => g[i] <= e.first
      <4> SUFFICES ASSUME NEW i \in 1 .. Len(g), i <= Len(g) - e.attempts - 1 PROVE g[i] <= e.first
        OBVIOUS
      <4>1. e.attempts \in Nat /\ i \in 1 .. L /\ i <= L - e.attempts
        BY <1>1, <1>3, <2>2
      <4>2. f[i] <= e.first
        BY <1>3, <2>2, <4>1
      <4> QED
        BY <1>1, <4>1, <4>2
    <3>2. \A i \in 1 .. Len(g) : i <= Len(g) - e.attempts - 1 - max => g[i] + Shortest <= e.first
      <4> SUFFICES ASSUME NEW i \in 1 .. Len(g), i <= Len(g) - e.attempts - 1 - max
                   PROVE  g[i] + Shortest <= e.first
        OBVIOUS
      <4>0. e.attempts \in Nat /\ L \in Nat /\ Len(g) = L + 1
        BY <1>1, <1>3, <2>2
      <4>1. e.attempts \in Nat /\ i \in 1 .. L /\ i <= L - e.attempts - max
        BY <4>0
      <4>2. f[i] + Shortest <= e.first
        BY <1>3, <2>2, <4>1
      <4> QED
        BY <1>1, <4>1, <4>2
    <3>3. e.first <= now /\ e.attempts + 1 <= max
      BY <1>3, <2>2
    <3>4. e.until = None
      BY <1>1, <1>3, <2>2
    <3> QED
      BY <2>2, <3>1, <3>2, <3>3, <3>4 DEF RowOK
  <2> QED
    BY <2>1, <2>2
<1> QED
  BY <1>5, <1>6 DEF g

\* ... then it is counted.
LEMMA RecordRow ==
    ASSUME Login!LoginAssumption, NEW e \in MaybeRow, NEW now \in Nat,
           NEW left, left = Login!RecordAttempt(e, now)
    PROVE  /\ left \in Login!LimitRow /\ left.until = None /\ left # None
           /\ \A f : \A max \in Nat \ {0} :
                 TimesOK(f, max, now) /\ RowFree(e, max) /\ RowOK(e, f, 1, max, now) =>
                    RowOK(left, f, 0, max, now)
<1>1. Len(Lockouts) \in Nat /\ None \notin Login!LimitRow
  BY LockTimes
<1>2. CASE e = None
  <2>1. left \in Login!LimitRow /\ left.attempts = 1 /\ left.first = now /\ left.until = None
    BY <1>1, <1>2 DEF Login!RecordAttempt, Login!Entry, Login!LimitRow
  <2>2. ASSUME NEW max \in Nat \ {0}, NEW f, RowOK(e, f, 1, max, now)
        PROVE  RowOK(left, f, 0, max, now)
    <3>1. Len(f) = 1
      BY <1>2, <2>2 DEF RowOK
    <3> QED
      BY <1>1, <2>1, <3>1 DEF RowOK
  <2> QED
    BY <1>1, <2>1, <2>2
<1>3. CASE e # None
  <2>1. e.attempts \in Nat /\ e.level \in 0 .. Len(Lockouts) /\ e.first \in Nat
    BY <1>3, RowFields DEF MaybeRow
  <2>2. left \in Login!LimitRow /\ left.attempts = e.attempts + 1 /\ left.first = e.first
        /\ left.until = None
    BY <1>1, <1>3, <2>1 DEF Login!RecordAttempt, Login!Entry, Login!LimitRow
  <2>3. ASSUME NEW max \in Nat \ {0}, NEW f, TimesOK(f, max, now), RowFree(e, max),
               RowOK(e, f, 1, max, now)
        PROVE  RowOK(left, f, 0, max, now)
    <3>1. Len(f) \in Nat /\ e.until = None
      BY <1>3, <2>3 DEF TimesOK, RowFree
    <3>2. Len(f) - e.attempts - 1 = Len(f) - (e.attempts + 1) - 0
      BY <2>1, <3>1
    <3> QED
      BY <1>1, <1>3, <2>1, <2>2, <2>3, <3>1, <3>2 DEF RowOK
  <2> QED
    BY <1>1, <2>2, <2>3
<1> QED
  BY <1>2, <1>3


----------------------------------------------------------------------------
(* The invariants of the roles and of the limits.                           *)

\* What an administrator relies on.
ChangesOK ==
    \A a \in Admins :
       /\ admin[a].at \in {"target", "count", "store"} => Login!Admin(a)
       /\ admin[a].at = "store" /\ admin[a].role # "admin" =>
             \E v \in Login!AllAdmins : v # admin[a].user
       /\ admin[a].at = "refresh" /\ admin[a].role = "admin" => Login!Admin(admin[a].user)

\* Who has a session as admin, or gets one, has the role, or is being told otherwise.
RoleTold(u) == \E a \in Admins : admin[a].at = "refresh" /\ admin[a].user = u
RolesHeld ==
    ~overlapped =>
    /\ \A c \in Clients : client[c].at \in {"leave", "session"} /\ client[c].role = "admin" =>
          Login!Admin(client[c].user)
    /\ \A t \in Tokens :
          Login!HasSession(t) /\ sessions[t].subject = None /\ sessions[t].role = "admin" =>
             Login!Admin(sessions[t].user) \/ RoleTold(sessions[t].user)

\* Nobody becomes admin by a login while there is one.
BootOK ==
    Login!OneClient =>
    /\ booted # {} => Login!AllAdmins # {}
    /\ Login!AtMostOne(booted)
    /\ \A c \in Clients : client[c].at = "bootstrap" => booted = {}

RoleInv == Login!OneAdmin => ChangesOK /\ RolesHeld /\ BootOK

\* An attempt was let in, and its end is not known to the limits.
Passed == {"test", "role", "admins", "bootstrap", "session", "reset"}
FreeIn(lim, k) == RowFree(lim[k], Login!Max(k))

\* Does the row of k lack the attempt r?
Pending(r, k) ==
    IF r.at \in {"failed", "count"} /\ (k = KeyOf(r) \/ (k = r.ip /\ r.key = r.ip)) THEN 1 ELSE 0

\* What the rows lim tell of the times f, and what the attempt r knows of them.
RowsOK(r, lim, f, now) ==
    \A k \in Login!Keys : RowOK(lim[k], f[k], Pending(r, k), Login!Max(k), now)
UpsertOK(r, lim, f, now) ==
    /\ r.left # None /\ (~r.denied => RowFree(r.left, Login!Max(r.key)))
    /\ Login!Locked(lim[r.key], now) => r.left.until # None
    /\ RowOK(r.left, f[r.key], 0, Login!Max(r.key), now)
CountOK(r, f, now) ==
    r.left # None /\ r.left.until = None /\ RowOK(r.left, f[r.key], 0, Login!Max(r.key), now)
AttemptOK(r, lim, f, now) ==
    /\ r.at \in {"check", "upsert"} /\ r.key # r.ip => FreeIn(lim, r.ip)
    /\ r.at = "upsert" => UpsertOK(r, lim, f, now)
    /\ r.at \in Passed /\ r.op = "login" => FreeIn(lim, r.ip) /\ FreeIn(lim, KeyOf(r))
    /\ r.at \in {"failed", "count"} => FreeIn(lim, KeyOf(r)) /\ (r.key = r.ip => FreeIn(lim, r.ip))
    /\ r.at = "count" => CountOK(r, f, now)
AllTimes(f, now) == \A k \in Login!Keys : TimesOK(f[k], Login!Max(k), now)
LimitsOf(r, lim, f, now) == RowsOK(r, lim, f, now) /\ AttemptOK(r, lim, f, now)
LimitInv ==
    Login!OneClient =>
    /\ failed = [k \in Login!Keys |-> failed[k]] /\ AllTimes(failed, clock)
    /\ \A c \in Clients : c \in scenario.clients => LimitsOf(client[c], limits, failed, clock)

----------------------------------------------------------------------------
(* What a step of a client does to the request, the store and the sessions. *)

\* The next place s of the request of c, and what its role rests on.
ClientMoves(c, s) ==
    /\ client' = [client EXCEPT ![c] = s]
    /\ ClientOK(s) /\ (s.at # "idle" => c \in scenario.clients)
    /\ s.at = "bootstrap" => client[c].at = "admins" /\ Login!AllAdmins = {}
    /\ s.at \in {"leave", "session"} /\ s.role = "admin" =>
          \/ roles'[s.user] = "admin"
          \/ client[c].at \in {"leave", "session"} /\ client[c].role = "admin" /\ client[c].user = s.user

\* Logins only make admins, of whom the history knows.
RolesStep(c) ==
    /\ roles' \in [Users -> MaybeRole]
    /\ \A u \in Users : roles'[u] = roles[u] \/ roles'[u] = "admin"
    /\ \/ booted' = booted
       \/ /\ client[c].at = "bootstrap" /\ booted' = booted \cup {client[c].user}
          /\ client[c].user \in Users /\ roles'[client[c].user] = "admin"

\* A session was there with its role, was resolved to it, or comes from an identity provider.
SessionStep(c) ==
    /\ sessions' = [t \in Tokens |-> sessions'[t]]
    /\ \A t \in Tokens : sessions'[t] \notin {None, Gone} =>
          /\ sessions'[t] \in SessionRec
          /\ \/ /\ Login!HasSession(t) /\ sessions'[t].user = sessions[t].user
                /\ sessions'[t].role = sessions[t].role /\ sessions'[t].subject = sessions[t].subject
             \/ sessions'[t].subject # None
             \/ /\ client[c].at = "session" /\ sessions'[t].user = client[c].user
                /\ sessions'[t].role = client[c].role

\* The limits have nothing to do with it.
ClientQuiet(r, s) ==
    /\ r.at \notin {"failed", "count"} /\ s.at \notin {"upsert", "failed", "count"}
    /\ s.at = "check" => s.key = s.ip
    /\ s.at \in Passed /\ s.op = "login" =>
          r.at \in Passed /\ r.op = "login" /\ s.ip = r.ip /\ KeyOf(s) = KeyOf(r)

Kept == UNCHANGED <<scenario, clock, admin, overlapped>>
QuietStep(c) ==
    /\ Kept /\ limits' = limits /\ failed' = failed /\ RolesStep(c) /\ SessionStep(c)
    /\ \E s : ClientMoves(c, s) /\ ClientQuiet(client[c], s)

LEMMA SameRoles == ASSUME LoginTypes, NEW c, roles' = roles, booted' = booted PROVE RolesStep(c)
  BY DEF LoginTypes, StoreOK, RolesStep
LEMMA SameSessions == ASSUME LoginTypes, NEW c, sessions' = sessions PROVE SessionStep(c)
  BY DEF LoginTypes, SessionsOK, SessionStep, Login!HasSession

LEMMA AtAttempt ==
    ASSUME LoginTypes, NEW c \in Clients, client[c].at \in Attempts
    PROVE  /\ client[c] \in AttemptRec /\ ClientOK(client[c]) /\ c \in scenario.clients
           /\ client = [d \in Clients |-> client[d]]
BY DEF LoginTypes, ClientsOK, ClientOK, Attempts

\* The attempt s is r, but for its place, its key and what it knows.
SameTry(r, s) == s.op = r.op /\ s.ip = r.ip /\ s.user = r.user /\ s.conn = r.conn

LEMMA SetAt ==
    ASSUME NEW r \in AttemptRec, NEW at \in Attempts
    PROVE  LET s == [r EXCEPT !.at = at] IN
           s \in AttemptRec /\ s.at = at /\ s.key = r.key /\ s.role = r.role /\ s.left = r.left
           /\ s.denied = r.denied /\ SameTry(r, s)
<1> DEFINE s == [r EXCEPT !.at = at]
<1>1. s \in AttemptRec
  BY DEF AttemptRec
<1>2. s.at = at /\ s.key = r.key /\ s.role = r.role /\ s.left = r.left /\ s.denied = r.denied
  BY DEF AttemptRec
<1>3. SameTry(r, s)
  BY DEF AttemptRec, SameTry
<1> QED
  BY <1>1, <1>2, <1>3

LEMMA SetAtKey ==
    ASSUME NEW r \in AttemptRec, NEW at \in Attempts, NEW k \in Login!Keys
    PROVE  LET s == [r EXCEPT !.at = at, !.key = k] IN
           s \in AttemptRec /\ s.at = at /\ s.key = k /\ s.role = r.role /\ s.left = r.left
           /\ s.denied = r.denied /\ SameTry(r, s)
<1> DEFINE s == [r EXCEPT !.at = at, !.key = k]
<1>1. s \in AttemptRec
  BY DEF AttemptRec
<1>2. s.at = at /\ s.key = k /\ s.role = r.role /\ s.left = r.left /\ s.denied = r.denied
  BY DEF AttemptRec
<1>3. SameTry(r, s)
  BY DEF AttemptRec, SameTry
<1> QED
  BY <1>1, <1>2, <1>3

LEMMA SetRole ==
    ASSUME NEW r \in AttemptRec, NEW at \in Attempts, NEW role \in MaybeRole
    PROVE  LET s == [r EXCEPT !.role = role, !.at = at] IN
           s \in AttemptRec /\ s.at = at /\ s.key = r.key /\ s.role = role /\ SameTry(r, s)
<1> DEFINE s == [r EXCEPT !.role = role, !.at = at]
<1>1. s \in AttemptRec
  BY DEF AttemptRec
<1>2. s.at = at /\ s.key = r.key /\ s.role = role
  BY DEF AttemptRec
<1>3. SameTry(r, s)
  BY DEF AttemptRec, SameTry
<1> QED
  BY <1>1, <1>2, <1>3

\* The request of c is over.
LEMMA OverMoves ==
    ASSUME LoginTypes, NEW c \in Clients, client[c].at \notin {"failed", "count"}
    PROVE  /\ client' = [client EXCEPT ![c] = Login!Idle] => ClientMoves(c, Login!Idle)
           /\ client' = client => ClientMoves(c, client[c]) \/ client[c].at # "idle"
           /\ ClientQuiet(client[c], Login!Idle)
BY DEF LoginTypes, ClientsOK, ClientMoves, ClientOK, Attempts, Login!Idle, ClientQuiet, Passed

LEMMA KeysOf ==
    ASSUME Login!LoginAssumption, NEW r \in AttemptRec
    PROVE  /\ KeyOf(r) \in Login!Keys /\ KeyOf(r) \notin Ips /\ (r.ip \in Ips => r.ip \in Login!Keys)
           /\ r.user \in Users /\ r.conn \in Conns
BY DEF AttemptRec, KeyOf, Login!Keys, Login!LoginAssumption

----------------------------------------------------------------------------
(* The steps that the limits have nothing to do with. *)

LEMMA LoginStep ==
    ASSUME Login!LoginAssumption, LoginTypes, NEW c \in Clients, Login!Login(c)
    PROVE  QuietStep(c)
<1>1. PICK ip \in Ips, u \in scenario.users, conn \in Conns :
         client' = [client EXCEPT ![c] = Login!Attempt("check", "login", ip, u, conn, None)]
  BY DEF Login!Login, Login!Ask
<1> DEFINE s == Login!Attempt("check", "login", ip, u, conn, None)
<1>2. /\ UNCHANGED <<scenario, clock, admin, overlapped, limits, failed, roles, booted, sessions>>
      /\ c \in scenario.clients /\ client[c].at = "idle"
  BY DEF Login!Login, Login!CanAsk, Login!At, Login!tables, Login!history
<1>3. u \in Users
  BY DEF LoginTypes, StoreOK, Login!LoginAssumption
<1>4. s \in AttemptRec
  BY <1>3 DEF Login!Attempt, AttemptRec, Attempts, MaybeRole, MaybeRow, Login!Keys
<1>5. s.at = "check" /\ s.op = "login" /\ s.ip = ip /\ s.key = ip
  BY DEF Login!Attempt
<1> HIDE DEF s
<1>6. ClientMoves(c, s) /\ ClientQuiet(client[c], s)
  BY <1>1, <1>2, <1>4, <1>5 DEF s, ClientMoves, ClientOK, ClientQuiet, Passed
<1> QED
  BY <1>2, <1>6, SameRoles, SameSessions DEF QuietStep, Kept

LEMMA OfflineStep ==
    ASSUME LoginTypes, NEW c \in Clients, Login!Offline(c) PROVE QuietStep(c)
BY OverMoves, SameRoles, SameSessions DEF Login!Offline, Login!Over, Login!At, Login!tables,
   Login!history, Login!bounds, QuietStep, Kept

\* The credentials were right, or the session changes its connection.
LEMMA TestStep ==
    ASSUME LoginTypes, NEW c \in Clients, Login!TestConnection(c),
           ~(client[c].op = "login" /\ client'[c].at = "failed")
    PROVE  QuietStep(c)
<1>1. /\ UNCHANGED <<scenario, clock, admin, overlapped, limits, roles, booted, sessions>>
      /\ client[c].at = "test"
  BY DEF Login!TestConnection, Login!At, Login!tables, Login!bounds
<1>2. /\ client[c] \in AttemptRec /\ ClientOK(client[c]) /\ c \in scenario.clients
      /\ client = [d \in Clients |-> client[d]]
  BY <1>1, AtAttempt DEF Attempts
<1>3. failed' = failed /\ (Login!To(c, "role") \/ Login!Over(c))
  <2>1. SUFFICES ASSUME client[c].op = "login",
                        client' = [client EXCEPT ![c].at = "failed", ![c].key = client[c].ip]
                 PROVE  client'[c].at = "failed"
    BY DEF Login!TestConnection
  <2>2. client'[c] = [client[c] EXCEPT !.at = "failed", !.key = client[c].ip]
    BY <1>2, <2>1
  <2> QED
    BY <1>2, <2>2 DEF AttemptRec
<1>4. CASE Login!To(c, "role")
  <2> DEFINE s == [client[c] EXCEPT !.at = "role"]
  <2>1. client' = [client EXCEPT ![c] = s]
    BY <1>2, <1>4 DEF Login!To
  <2>2. s \in AttemptRec /\ s.at = "role" /\ s.key = client[c].key /\ SameTry(client[c], s)
    BY <1>2, SetAt DEF Attempts
  <2> HIDE DEF s
  <2>3. ClientMoves(c, s) /\ ClientQuiet(client[c], s)
    BY <1>1, <1>2, <2>1, <2>2 DEF ClientMoves, ClientQuiet, ClientOK, SameTry, KeyOf, Passed, Attempts
  <2> QED
    BY <1>1, <1>3, <2>3, SameRoles, SameSessions DEF QuietStep, Kept
<1>5. CASE Login!Over(c)
  BY <1>1, <1>5, OverMoves, <1>3, SameRoles, SameSessions DEF Login!Over, QuietStep, Kept
<1> QED
  BY <1>3, <1>4, <1>5

\* Once the role is known, it is admin only if its row says so.
LEMMA ResolvedMoves ==
    ASSUME LoginTypes, NEW c \in Clients, client[c].at \in {"role", "admins", "bootstrap"},
           NEW role \in MaybeRole, role = "admin" => roles'[client[c].user] = "admin",
           client' = [client EXCEPT ![c] = Login!Resolved(c, role)]
    PROVE  \E s : ClientMoves(c, s) /\ ClientQuiet(client[c], s)
<1>1. /\ client[c] \in AttemptRec /\ ClientOK(client[c]) /\ c \in scenario.clients
  BY AtAttempt DEF Attempts
<1> DEFINE at == IF client[c].op = "switch" THEN "leave" ELSE "session"
           s == [client[c] EXCEPT !.role = role, !.at = at]
<1>2. client' = [client EXCEPT ![c] = s]
  BY DEF Login!Resolved
<1>3. at \in {"leave", "session"} /\ (at = "leave" => client[c].op = "switch")
      /\ client[c].op \in {"login", "switch"}
  BY <1>1 DEF ClientOK, Attempts
<1>4. s \in AttemptRec /\ s.at = at /\ s.key = client[c].key /\ s.role = role /\ SameTry(client[c], s)
  <2>1. at \in Attempts
    BY <1>3 DEF Attempts
  <2> HIDE DEF at
  <2> QED
    BY ONLY <1>1, <2>1, role \in MaybeRole, SetRole DEF s
<1> HIDE DEF at, s
<1>5. ClientMoves(c, s)
  BY <1>1, <1>2, <1>3, <1>4 DEF ClientMoves, ClientOK, SameTry, KeyOf, Attempts
<1>6. ClientQuiet(client[c], s)
  BY <1>1, <1>3, <1>4 DEF ClientQuiet, SameTry, KeyOf, Passed
<1> QED
  BY <1>5, <1>6

LEMMA ManualRoleStep ==
    ASSUME Login!LoginAssumption, LoginTypes, NEW c \in Clients, Login!ManualRole(c)
    PROVE  QuietStep(c)
<1>1. /\ UNCHANGED <<scenario, clock, admin, overlapped, limits, failed, roles, booted, sessions>>
      /\ client[c].at = "role"
  BY DEF Login!ManualRole, Login!At, Login!tables, Login!history, Login!bounds
<1>2. /\ client[c] \in AttemptRec /\ ClientOK(client[c]) /\ c \in scenario.clients
      /\ client = [d \in Clients |-> client[d]]
  BY <1>1, AtAttempt DEF Attempts
<1>3. PICK detected \in Login!Roles, works \in Login!Works :
         LET manual == IF works THEN roles[client[c].user] ELSE None IN
         client' = [client EXCEPT ![c] =
            IF manual = None /\ detected = "admin" THEN [@ EXCEPT !.at = "admins"]
            ELSE Login!Resolved(c, IF manual = None THEN detected ELSE manual)]
  BY DEF Login!ManualRole
<1> DEFINE manual == IF works THEN roles[client[c].user] ELSE None
           role == IF manual = None THEN detected ELSE manual
<1>4. roles \in [Users -> MaybeRole] /\ client[c].user \in Users /\ None \notin Login!Roles
  BY <1>2 DEF LoginTypes, StoreOK, AttemptRec, Login!LoginAssumption
<1>5. CASE manual = None /\ detected = "admin"
  <2> DEFINE s == [client[c] EXCEPT !.at = "admins"]
  <2>1. client' = [client EXCEPT ![c] = s]
    BY <1>2, <1>3, <1>5
  <2>2. s \in AttemptRec /\ s.at = "admins" /\ s.key = client[c].key /\ SameTry(client[c], s)
    BY <1>2, SetAt DEF Attempts
  <2> HIDE DEF s
  <2>3. ClientMoves(c, s) /\ ClientQuiet(client[c], s)
    BY <1>1, <1>2, <2>1, <2>2 DEF ClientMoves, ClientQuiet, ClientOK, SameTry, KeyOf, Passed, Attempts
  <2> QED
    BY <1>1, <2>3, SameRoles, SameSessions DEF QuietStep, Kept
<1>6. CASE ~(manual = None /\ detected = "admin")
  <2>1. client' = [client EXCEPT ![c] = Login!Resolved(c, role)]
    BY <1>3, <1>6
  <2>2. role \in MaybeRole
    BY <1>4 DEF MaybeRole
  <2>3. role = "admin" => roles'[client[c].user] = "admin"
    BY <1>1, <1>4, <1>6
  <2> HIDE DEF role
  <2>4. \E s : ClientMoves(c, s) /\ ClientQuiet(client[c], s)
    BY <1>1, <2>1, <2>2, <2>3, ResolvedMoves
  <2> QED
    BY <1>1, <2>4, SameRoles, SameSessions DEF QuietStep, Kept
<1> QED
  BY <1>5, <1>6

LEMMA CountAdminsStep ==
    ASSUME LoginTypes, NEW c \in Clients, Login!CountAdmins(c) PROVE QuietStep(c)
<1>1. /\ UNCHANGED <<scenario, clock, admin, overlapped, limits, failed, roles, booted, sessions>>
      /\ client[c].at = "admins"
  BY DEF Login!CountAdmins, Login!At, Login!tables, Login!history, Login!bounds
<1>2. /\ client[c] \in AttemptRec /\ ClientOK(client[c]) /\ c \in scenario.clients
      /\ client = [d \in Clients |-> client[d]]
  BY <1>1, AtAttempt DEF Attempts
<1>3. \/ Login!AllAdmins = {} /\ client' = [client EXCEPT ![c] = [client[c] EXCEPT !.at = "bootstrap"]]
      \/ client' = [client EXCEPT ![c] = Login!Resolved(c, "viewer")]
  BY <1>2 DEF Login!CountAdmins
<1>4. CASE Login!AllAdmins = {} /\ client' = [client EXCEPT ![c] = [client[c] EXCEPT !.at = "bootstrap"]]
  <2> DEFINE s == [client[c] EXCEPT !.at = "bootstrap"]
  <2>1. s \in AttemptRec /\ s.at = "bootstrap" /\ s.key = client[c].key /\ SameTry(client[c], s)
    BY <1>2, SetAt DEF Attempts
  <2>2. client' = [client EXCEPT ![c] = s] /\ Login!AllAdmins = {}
    BY <1>4
  <2> HIDE DEF s
  <2>3. ClientMoves(c, s) /\ ClientQuiet(client[c], s)
    BY <1>1, <1>2, <2>1, <2>2 DEF ClientMoves, ClientQuiet, ClientOK, SameTry, KeyOf, Passed, Attempts
  <2> QED
    BY <1>1, <2>3, SameRoles, SameSessions DEF QuietStep, Kept
<1>5. CASE client' = [client EXCEPT ![c] = Login!Resolved(c, "viewer")]
  <2>1. \E s : ClientMoves(c, s) /\ ClientQuiet(client[c], s)
    BY <1>1, <1>5, ResolvedMoves, "viewer" \in MaybeRole, "viewer" # "admin"
       DEF MaybeRole, Login!Roles
  <2> QED
    BY <1>1, <2>1, SameRoles, SameSessions DEF QuietStep, Kept
<1> QED
  BY <1>3, <1>4, <1>5

LEMMA BootstrapStep ==
    ASSUME LoginTypes, NEW c \in Clients, Login!Bootstrap(c) PROVE QuietStep(c)
<1>1. /\ UNCHANGED <<scenario, clock, admin, overlapped, limits, failed, sessions>>
      /\ client[c].at = "bootstrap"
  BY DEF Login!Bootstrap, Login!At, Login!bounds
<1>2. client[c] \in AttemptRec /\ client[c].user \in Users /\ roles \in [Users -> MaybeRole]
  BY <1>1, AtAttempt DEF Attempts, AttemptRec, LoginTypes, StoreOK
<1>3. PICK works \in Login!Works :
         /\ roles' = IF works THEN [roles EXCEPT ![client[c].user] = "admin"] ELSE roles
         /\ booted' = IF works THEN booted \cup {client[c].user} ELSE booted
         /\ client' = [client EXCEPT ![c] = Login!Resolved(c, IF works THEN "admin" ELSE "viewer")]
  BY DEF Login!Bootstrap
<1>4. RolesStep(c)
  BY <1>1, <1>2, <1>3 DEF RolesStep, MaybeRole, Login!Roles
<1>5. "admin" \in MaybeRole /\ "viewer" \in MaybeRole
  BY DEF MaybeRole, Login!Roles
<1>6. \E s : ClientMoves(c, s) /\ ClientQuiet(client[c], s)
  <2>1. CASE works
    BY <1>2, <1>3, <2>1, <1>1, <1>5, ResolvedMoves
  <2>2. CASE ~works
    <3>1. client' = [client EXCEPT ![c] = Login!Resolved(c, "viewer")]
      BY <1>3, <2>2
    <3> QED
      BY <1>1, <1>5, <3>1, ResolvedMoves, "viewer" # "admin"
  <2> QED
    BY <2>1, <2>2
<1> QED
  BY <1>1, <1>4, <1>6, SameSessions DEF QuietStep, Kept

----------------------------------------------------------------------------
(* Sessions. *)

LEMMA LostSession ==
    ASSUME LoginTypes, NEW c, NEW t
    PROVE  /\ sessions' = Login!DeleteSession(t) => SessionStep(c)
           /\ sessions' = Login!GetSession(t) => SessionStep(c)
<1>1. /\ sessions = [x \in Tokens |-> sessions[x]]
      /\ \A x \in Tokens : Login!HasSession(x) => sessions[x] \in SessionRec
  BY DEF LoginTypes, SessionsOK
<1>2. sessions' = Login!DeleteSession(t) => SessionStep(c)
  <2>1. CASE Login!HasSession(t)
    <3>1. ASSUME sessions' = [sessions EXCEPT ![t] = Gone] PROVE SessionStep(c)
      BY <1>1, <3>1 DEF SessionStep, Login!HasSession
    <3> QED
      BY <2>1, <3>1 DEF Login!DeleteSession
  <2> QED
    BY <2>1, SameSessions DEF Login!DeleteSession
<1> QED
  BY <1>2, SameSessions DEF Login!GetSession

LEMMA ValidSession ==
    ASSUME LoginTypes, NEW t, Login!Valid(t) PROVE sessions[t] \in SessionRec
  BY DEF LoginTypes, SessionsOK, Login!Valid, Login!HasSession

\* A new session: what the request does next.
LEMMA Created ==
    ASSUME LoginTypes, NEW c \in Clients, client[c].at \in {"session", "sso"}, NEW new \in SessionRec,
           Login!CreateSession(c, new),
           new.subject # None \/
              (client[c].at = "session" /\ new.user = client[c].user /\ new.role = client[c].role),
           client[c].at = "session" => client[c].op \in {"login", "switch"}
    PROVE  SessionStep(c) /\ \E s : ClientMoves(c, s) /\ ClientQuiet(client[c], s)
<1>1. /\ client[c] \in AttemptRec /\ ClientOK(client[c]) /\ c \in scenario.clients
      /\ client = [d \in Clients |-> client[d]]
  BY AtAttempt DEF Attempts
<1>2. /\ sessions = [x \in Tokens |-> sessions[x]]
      /\ \A x \in Tokens : Login!HasSession(x) => sessions[x] \in SessionRec
  BY DEF LoginTypes, SessionsOK
<1>3. CASE Login!Over(c) /\ sessions' = sessions
  BY <1>3, OverMoves, SameSessions DEF Login!Over
<1>4. CASE ~(Login!Over(c) /\ sessions' = sessions)
  <2>1. PICK t \in Login!Fresh : sessions' = [sessions EXCEPT ![t] = new]
    BY <1>4 DEF Login!CreateSession
  <2>2. SessionStep(c)
    BY <1>2, <2>1 DEF Login!Fresh, SessionStep, Login!HasSession
  <2>3. CASE client[c].op = "login"
    <3> DEFINE s == [client[c] EXCEPT !.at = "reset", !.key = client[c].ip]
    <3>1. client' = [client EXCEPT ![c] = s] /\ client[c].at = "session"
      BY <1>1, <1>4, <2>3 DEF Login!CreateSession, ClientOK, Attempts
    <3>2. client[c].ip \in Login!Keys
      BY <1>1, <2>3 DEF ClientOK, Attempts, Login!Keys
    <3>3. s \in AttemptRec /\ s.at = "reset" /\ s.key = client[c].ip /\ SameTry(client[c], s)
      <4>1. client[c] \in AttemptRec /\ "reset" \in Attempts
        BY <1>1 DEF Attempts
      <4> QED
        BY ONLY <3>2, <4>1, SetAtKey DEF s
    <3> HIDE DEF s
    <3>4. ClientMoves(c, s) /\ ClientQuiet(client[c], s)
      BY <1>1, <2>3, <3>1, <3>3 DEF ClientMoves, ClientQuiet, ClientOK, SameTry, KeyOf, Passed, Attempts
    <3> QED
      BY <2>2, <3>4
  <2>4. CASE client[c].op # "login"
    BY <1>1, <1>4, <2>4, <2>2, OverMoves DEF Login!CreateSession
  <2> QED
    BY <2>3, <2>4
<1> QED
  BY <1>3, <1>4

LEMMA NewSessionStep ==
    ASSUME LoginTypes, NEW c \in Clients, Login!NewSession(c) PROVE QuietStep(c)
<1>1. /\ UNCHANGED <<scenario, clock, admin, overlapped, limits, failed, roles, booted>>
      /\ client[c].at = "session"
  BY DEF Login!NewSession, Login!At, Login!history, Login!bounds
<1>2. client[c] \in AttemptRec /\ client[c].op \in {"login", "switch"}
  BY <1>1, AtAttempt DEF Attempts, ClientOK
<1> DEFINE new == [conn |-> client[c].conn, user |-> client[c].user, role |-> client[c].role,
                   subject |-> None, expired |-> FALSE]
<1>3. new \in SessionRec /\ new.user = client[c].user /\ new.role = client[c].role
  BY <1>2 DEF AttemptRec, SessionRec
<1>4. Login!CreateSession(c, new)
  BY DEF Login!NewSession
<1> HIDE DEF new
<1>5. SessionStep(c) /\ \E s : ClientMoves(c, s) /\ ClientQuiet(client[c], s)
  BY <1>1, <1>2, <1>3, <1>4, Created
<1> QED
  BY <1>1, <1>5, SameRoles DEF QuietStep, Kept

\* A step of a client without an attempt, that leaves the roles and the limits alone.
LEMMA OtherStep ==
    ASSUME LoginTypes, NEW c \in Clients, client[c].at \notin {"failed", "count"},
           UNCHANGED <<scenario, clock, admin, overlapped, limits, failed, roles, booted>>,
           SessionStep(c), NEW s, client' = [client EXCEPT ![c] = s],
           s.at \notin Attempts, s.at # "idle" => c \in scenario.clients
    PROVE  QuietStep(c)
BY SameRoles DEF ClientMoves, ClientQuiet, ClientOK, Attempts, Passed, QuietStep, Kept

LEMMA RequestStep ==
    ASSUME LoginTypes, NEW c \in Clients, Login!Request(c) PROVE QuietStep(c)
<1> DEFINE t == cookie[c].token
<1>1. /\ UNCHANGED <<scenario, clock, admin, overlapped, limits, failed, roles, booted>>
      /\ client[c].at \in {"idle", "session role", "serving"} /\ client = [d \in Clients |-> client[d]]
  BY DEF Login!Request, Login!At, Login!CanAsk, Login!tables, Login!history, Login!bounds,
         LoginTypes, ClientsOK
<1>2. SessionStep(c) /\ (client[c].at = "idle" => c \in scenario.clients)
  BY LostSession, SameSessions DEF Login!Request, Login!At, Login!CanAsk, Login!tables
<1>3. c \notin scenario.clients => client[c].at = "idle"
  BY DEF LoginTypes, ClientsOK
<1>4. \E s : client' = [client EXCEPT ![c] = s] /\ s.at \in {"idle", "session role", "serving"}
  <2>1. CASE client[c].at = "idle"
    BY <2>1, <1>1 DEF Login!Request, Login!Ask, Login!At
  <2>2. CASE client[c].at = "session role"
    <3>1. PICK role : client' = [client EXCEPT ![c] = [at |-> "serving", session |-> client[c].session,
                                                       role |-> role]]
      BY <1>1, <2>2 DEF Login!Request, Login!At, Login!CanAsk
    <3>2. [at |-> "serving", session |-> client[c].session, role |-> role].at = "serving"
      OBVIOUS
    <3> QED
      BY <3>1, <3>2
  <2>3. CASE client[c].at = "serving"
    BY <2>3 DEF Login!Request, Login!At, Login!CanAsk, Login!Over, Login!Idle
  <2> QED
    BY <1>1, <2>1, <2>2, <2>3
<1>5. PICK s : client' = [client EXCEPT ![c] = s] /\ s.at \in {"idle", "session role", "serving"}
  BY <1>4
<1> QED
  BY <1>1, <1>2, <1>3, <1>5, OtherStep DEF Attempts

LEMMA SessionQuiet ==
    ASSUME LoginTypes, NEW c \in Clients, Login!Session(c) \/ Login!Logout(c) \/ Login!OIDCLogin(c)
    PROVE  QuietStep(c)
<1> DEFINE t == cookie[c].token
<1>1. /\ UNCHANGED <<scenario, clock, admin, overlapped, limits, failed, roles, booted>>
      /\ client[c].at = "idle" /\ c \in scenario.clients /\ client = [d \in Clients |-> client[d]]
  BY DEF Login!Session, Login!Logout, Login!OIDCLogin, Login!At, Login!CanAsk, Login!history,
         Login!tables, LoginTypes, ClientsOK
<1>2. SessionStep(c)
  BY LostSession, SameSessions DEF Login!Session, Login!Logout, Login!OIDCLogin, Login!tables
<1>3. \/ client' = [client EXCEPT ![c] = [at |-> "session role", session |-> sessions[t]]]
      \/ client' = client
  BY DEF Login!Session, Login!Logout, Login!OIDCLogin, Login!Ask
<1>4. client = [client EXCEPT ![c] = client[c]]
  BY <1>1
<1>5. [at |-> "session role", session |-> sessions[t]].at = "session role"
  OBVIOUS
<1>6. PICK s : client' = [client EXCEPT ![c] = s] /\ s.at \in {"idle", "session role"}
  BY <1>1, <1>3, <1>4, <1>5
<1> QED
  BY <1>1, <1>2, <1>6, OtherStep DEF Attempts

LEMMA SwitchStep ==
    ASSUME Login!LoginAssumption, LoginTypes, NEW c \in Clients, Login!Switch(c) PROVE QuietStep(c)
<1> DEFINE t == cookie[c].token
<1>1. /\ UNCHANGED <<scenario, clock, admin, overlapped, limits, failed, roles, booted>>
      /\ client[c].at \in {"idle", "leave"} /\ client = [d \in Clients |-> client[d]]
  BY DEF Login!Switch, Login!At, Login!CanAsk, Login!history, Login!bounds, LoginTypes, ClientsOK
<1>2. SessionStep(c)
  BY LostSession, SameSessions DEF Login!Switch
<1>3. CASE client[c].at = "idle"
  <2>1. /\ c \in scenario.clients
        /\ \/ \E u \in Users, conn \in Conns :
                 client' = [client EXCEPT ![c] = Login!Attempt("test", "switch", None, u, conn, None)]
           \/ client' = client
    BY <1>3 DEF Login!Switch, Login!CanAsk, Login!At, Login!Ask
  <2>2. CASE client' = client
    BY <1>1, <2>2, <1>2, <1>3, OtherStep DEF Attempts
  <2>3. CASE client' # client
    <3>1. PICK u \in Users, conn \in Conns :
             client' = [client EXCEPT ![c] = Login!Attempt("test", "switch", None, u, conn, None)]
      BY <2>1, <2>3
    <3> DEFINE s == Login!Attempt("test", "switch", None, u, conn, None)
    <3>2. s.at = "test" /\ s.op = "switch"
      BY DEF Login!Attempt
    <3>3. \E ip \in Ips \cup {None} : s.ip = ip /\ s.key = ip
      BY DEF Login!Attempt
    <3>4. s \in AttemptRec
      BY DEF Login!Attempt, AttemptRec, Attempts, MaybeRole, MaybeRow
    <3> HIDE DEF s
    <3>5. ClientMoves(c, s) /\ ClientQuiet(client[c], s)
      BY <1>1, <1>3, <2>1, <3>1, <3>2, <3>4 DEF s, ClientMoves, ClientOK, ClientQuiet, Passed
    <3> QED
      BY <1>1, <1>2, <3>5, SameRoles DEF QuietStep, Kept
  <2> QED
    BY <2>2, <2>3
<1>4. CASE client[c].at = "leave"
  <2>1. /\ client[c] \in AttemptRec /\ ClientOK(client[c]) /\ c \in scenario.clients
    BY <1>4, AtAttempt DEF Attempts
  <2> DEFINE s == [client[c] EXCEPT !.at = "session"]
  <2>2. client' = [client EXCEPT ![c] = s]
    BY <1>1, <1>4 DEF Login!Switch, Login!CanAsk, Login!At, Login!To
  <2>3. /\ s \in AttemptRec /\ s.at = "session" /\ s.key = client[c].key /\ s.role = client[c].role
        /\ SameTry(client[c], s)
    BY <2>1, SetAt DEF Attempts
  <2> HIDE DEF s
  <2>4. ClientMoves(c, s)
    BY <1>4, <2>1, <2>2, <2>3 DEF ClientMoves, ClientOK, SameTry, KeyOf, Attempts
  <2>5. ClientQuiet(client[c], s)
    BY <1>4, <2>1, <2>3 DEF ClientQuiet, Passed, ClientOK, SameTry, Attempts
  <2> QED
    BY <1>1, <1>2, <2>4, <2>5, SameRoles DEF QuietStep, Kept
<1> QED
  BY <1>1, <1>3, <1>4

LEMMA CallbackStep ==
    ASSUME Login!LoginAssumption, LoginTypes, NEW c \in Clients, Login!OIDCCallback(c)
    PROVE  QuietStep(c)
<1>1. /\ UNCHANGED <<scenario, clock, admin, overlapped, limits, failed, roles, booted>>
      /\ client[c].at \in {"idle", "sso"} /\ client = [d \in Clients |-> client[d]]
  BY DEF Login!OIDCCallback, Login!At, Login!tables, Login!history, Login!bounds, LoginTypes, ClientsOK
<1>2. CASE client[c].at = "idle"
  <2>1. /\ c \in scenario.clients /\ sessions' = sessions
        /\ \/ client' = client
           \/ \E conn \in Conns, u \in Users, role \in Login!Roles :
                 client' = [client EXCEPT ![c] = Login!Attempt("sso", "sso", None, u, conn, role)]
    BY <1>2 DEF Login!OIDCCallback, Login!At, Login!tables
  <2>2. CASE client' = client
    BY <1>1, <2>2, <1>2, <2>1, OtherStep, SameSessions DEF Attempts
  <2>3. CASE client' # client
    <3>1. PICK conn \in Conns, u \in Users, role \in Login!Roles :
             client' = [client EXCEPT ![c] = Login!Attempt("sso", "sso", None, u, conn, role)]
      BY <2>1, <2>3
    <3> DEFINE s == Login!Attempt("sso", "sso", None, u, conn, role)
    <3>2. s.at = "sso" /\ s.op = "sso"
      BY DEF Login!Attempt
    <3>3. s \in AttemptRec
      BY DEF Login!Attempt, AttemptRec, Attempts, MaybeRole, MaybeRow
    <3> HIDE DEF s
    <3>4. ClientMoves(c, s) /\ ClientQuiet(client[c], s)
      BY <1>1, <1>2, <2>1, <3>1, <3>2, <3>3 DEF s, ClientMoves, ClientOK, ClientQuiet, Passed
    <3> QED
      BY <1>1, <2>1, <3>4, SameRoles, SameSessions DEF QuietStep, Kept
  <2> QED
    BY <2>2, <2>3
<1>3. CASE client[c].at = "sso"
  <2>1. client[c] \in AttemptRec
    BY <1>3, AtAttempt DEF Attempts
  <2> DEFINE new == [conn |-> client[c].conn, user |-> client[c].user, role |-> client[c].role,
                     subject |-> c, expired |-> FALSE]
  <2>2. new \in SessionRec /\ new.subject # None
    BY <2>1 DEF AttemptRec, SessionRec, Login!LoginAssumption
  <2>3. Login!CreateSession(c, new)
    BY <1>3 DEF Login!OIDCCallback, Login!At
  <2> HIDE DEF new
  <2>4. SessionStep(c) /\ \E s : ClientMoves(c, s) /\ ClientQuiet(client[c], s)
    BY <1>3, <2>2, <2>3, Created
  <2> QED
    BY <1>1, <2>4, SameRoles DEF QuietStep, Kept
<1> QED
  BY <1>1, <1>2, <1>3

----------------------------------------------------------------------------
(* The steps on the limits.  With a working store the limits still tell of  *)
(* the attempts, and no lock is lost.                                       *)

FailedOK(f) == f = [k \in Login!Keys |-> f[k]]
LimitsKept(c, s) ==
    ~scenario.faults /\ FailedOK(failed) /\ AllTimes(failed, clock)
    /\ LimitsOf(client[c], limits, failed, clock) =>
       /\ FailedOK(failed') /\ AllTimes(failed', clock) /\ LimitsOf(s, limits', failed', clock)
       /\ \A k \in Login!Keys : Login!LockStays(k)
ServeStep(c) ==
    /\ Kept /\ limits' \in [Login!Keys -> MaybeRow] /\ RolesStep(c) /\ SessionStep(c)
    /\ \E s : ClientMoves(c, s) /\ LimitsKept(c, s)

LEMMA MaxOK == ASSUME Login!LoginAssumption, NEW k PROVE Login!Max(k) \in Nat \ {0}
  BY DEF Login!LoginAssumption, Login!Max

\* A row that is free is not locked.
LEMMA FreeStays ==
    ASSUME NEW k \in Login!Keys, FreeIn(limits, k) PROVE Login!LockStays(k)
  BY DEF FreeIn, RowFree, Login!LockStays, Login!Locked
LEMMA SameStays ==
    ASSUME Login!LoginAssumption, LoginTypes, NEW k \in Login!Keys, limits'[k] = limits[k]
    PROVE  Login!LockStays(k)
  BY DEF Login!LockStays, Login!Locked

LEMMA QuietServes ==
    ASSUME Login!LoginAssumption, LoginTypes, NEW c \in Clients, QuietStep(c) PROVE ServeStep(c)
<1>1. PICK s : ClientMoves(c, s) /\ ClientQuiet(client[c], s)
  BY DEF QuietStep
<1>2. Kept /\ limits' = limits /\ failed' = failed /\ RolesStep(c) /\ SessionStep(c)
  BY DEF QuietStep
<1>3. limits' \in [Login!Keys -> MaybeRow]
  BY <1>2 DEF LoginTypes, StoreOK
<1>4. ASSUME LimitsOf(client[c], limits, failed, clock) PROVE LimitsOf(s, limits', failed', clock)
  BY <1>1, <1>2, <1>4 DEF ClientQuiet, Pending, LimitsOf, RowsOK, AttemptOK, Passed
<1>5. LimitsKept(c, s)
  BY <1>2, <1>4, SameStays DEF LimitsKept
<1> QED
  BY <1>1, <1>2, <1>3, <1>5 DEF ServeStep

\* The attempt that may go on.
LEMMA DecidedIs ==
    ASSUME Login!LoginAssumption, NEW r \in AttemptRec, r.op = "login", r.ip \in Ips,
           r.key \in {r.ip, KeyOf(r)}, NEW s, s = Login!Decided(r)
    PROVE  \/ r.denied /\ s = Login!Idle
           \/ /\ ~r.denied /\ r.key = r.ip /\ s \in AttemptRec /\ s.at = "check" /\ s.key = KeyOf(r)
              /\ SameTry(r, s)
           \/ /\ ~r.denied /\ r.key # r.ip /\ r.key = KeyOf(r) /\ s \in AttemptRec /\ s.at = "test"
              /\ s.key = r.key /\ SameTry(r, s)
<1>1. KeyOf(r) \in Login!Keys
  BY KeysOf
<1>2. "check" \in Attempts /\ "test" \in Attempts
  BY DEF Attempts
<1>3. r.denied \in BOOLEAN
  BY DEF AttemptRec
<1>4. CASE ~r.denied /\ r.key = r.ip
  <2>1. s = [r EXCEPT !.at = "check", !.key = KeyOf(r)]
    BY <1>4 DEF Login!Decided, KeyOf
  <2> QED
    BY ONLY <1>1, <1>2, <1>4, <2>1, r \in AttemptRec, SetAtKey
<1>5. CASE ~r.denied /\ r.key # r.ip
  BY <1>5, <1>2, SetAt DEF Login!Decided
<1> QED
  BY <1>3, <1>4, <1>5 DEF Login!Decided

LEMMA DecidedOK ==
    ASSUME Login!LoginAssumption, LoginTypes, NEW c \in Clients, c \in scenario.clients,
           NEW r \in AttemptRec, r.op = "login", r.ip \in Ips, r.key \in {r.ip, KeyOf(r)},
           NEW s, s = Login!Decided(r), client' = [client EXCEPT ![c] = s]
    PROVE  /\ ClientMoves(c, s) /\ \A k \in Login!Keys : Pending(s, k) = 0
           /\ \A lim, f, now : (~r.denied => FreeIn(lim, r.key)) /\ (r.key # r.ip => FreeIn(lim, r.ip)) =>
                 AttemptOK(s, lim, f, now)
<1>1. KeyOf(r) \in Login!Keys /\ KeyOf(r) \notin Ips
  BY KeysOf
<1>2. CASE s = Login!Idle
  BY <1>2 DEF Login!Idle, ClientMoves, ClientOK, Attempts, Pending, AttemptOK, Passed
<1>3. CASE s # Login!Idle
  BY <1>3, DecidedIs DEF SameTry, KeyOf, ClientMoves, ClientOK, Pending, AttemptOK, Passed
<1> QED
  BY <1>2, <1>3

LEMMA WorksIs ==
    ASSUME ~scenario.faults
    PROVE  Login!Works = {TRUE} /\ \A k : Login!Read(k) = {limits[k]}
  BY DEF Login!Works, Login!Read

\* What a place on the way to the limits says.
LEMMA AtLimit ==
    ASSUME Login!LoginAssumption, LoginTypes, NEW c \in Clients,
           client[c].at \in {"check", "upsert", "failed", "count", "reset"}
    PROVE  /\ client[c] \in AttemptRec /\ c \in scenario.clients
           /\ client[c].op = "login" /\ client[c].ip \in Ips /\ client[c].ip \in Login!Keys
           /\ client[c].key \in {client[c].ip, KeyOf(client[c])} /\ client[c].key \in Login!Keys
           /\ KeyOf(client[c]) \in Login!Keys /\ KeyOf(client[c]) # client[c].ip
           /\ client = [d \in Clients |-> client[d]] /\ limits \in [Login!Keys -> MaybeRow]
           /\ clock \in Nat
BY AtAttempt, KeysOf DEF Attempts, ClientOK, LoginTypes, StoreOK

LEMMA CheckStep ==
    ASSUME Login!LoginAssumption, LoginTypes, NEW c \in Clients, Login!Check(c) PROVE ServeStep(c)
<1> DEFINE r == client[c]
           k == r.key
<1>1. /\ Kept /\ UNCHANGED <<limits, failed, roles, booted, sessions>> /\ r.at = "check"
  BY DEF Login!Check, Login!At, Login!tables, Login!history, Login!bounds, Kept
<1>2. /\ r \in AttemptRec /\ c \in scenario.clients
      /\ r.op = "login" /\ r.ip \in Ips /\ r.ip \in Login!Keys /\ k \in {r.ip, KeyOf(r)}
      /\ k \in Login!Keys /\ KeyOf(r) \in Login!Keys /\ KeyOf(r) # r.ip
      /\ client = [d \in Clients |-> client[d]] /\ limits \in [Login!Keys -> MaybeRow] /\ clock \in Nat
  BY <1>1, AtLimit
<1>3. PICK e \in Login!Read(k) :
         LET left == Login!CheckAuthRateLimit(e, Login!Max(k), clock)
             read == [r EXCEPT !.left = left, !.denied = Login!Locked(left, clock)]
         IN  client' = [client EXCEPT ![c] = IF left = e THEN Login!Decided(read)
                                             ELSE [read EXCEPT !.at = "upsert"]]
  BY DEF Login!Check
<1> DEFINE left == Login!CheckAuthRateLimit(e, Login!Max(k), clock)
           denied == Login!Locked(left, clock)
           read == [r EXCEPT !.left = left, !.denied = denied]
<1>4. e \in MaybeRow /\ Login!Max(k) \in Nat \ {0}
  BY <1>2, MaxOK DEF Login!Read, MaybeRow
<1>5. /\ left \in MaybeRow /\ (left = None <=> e = None)
      /\ denied \in BOOLEAN
      /\ Login!Locked(e, clock) => left.until # None
      /\ denied \/ RowFree(left, Login!Max(k))
      /\ TimesOK(failed[k], Login!Max(k), clock) /\ RowOK(e, failed[k], 0, Login!Max(k), clock) =>
            RowOK(left, failed[k], 0, Login!Max(k), clock)
  <2> HIDE DEF k
  <2> QED
    BY <1>2, <1>4, CheckRow
<1> HIDE DEF left, denied
<1>6. /\ read \in AttemptRec /\ read.at = "check" /\ read.key = k /\ read.left = left
      /\ read.denied = denied /\ SameTry(r, read)
  <2>1. r \in AttemptRec /\ r.at = "check" /\ left \in MaybeRow /\ denied \in BOOLEAN /\ k = r.key
    BY <1>1, <1>2, <1>5
  <2> HIDE DEF r, k
  <2>2. read \in AttemptRec
    BY <2>1 DEF AttemptRec
  <2>3. /\ read.at = "check" /\ read.key = r.key /\ read.left = left /\ read.denied = denied
    BY <2>1 DEF AttemptRec
  <2>4. SameTry(r, read)
    BY <2>1 DEF AttemptRec, SameTry
  <2> QED
    BY <2>1, <2>2, <2>3, <2>4
<1>7. read.op = "login" /\ read.ip = r.ip /\ read.ip \in Ips /\ KeyOf(read) = KeyOf(r)
  BY <1>2, <1>6 DEF SameTry, KeyOf
<1>8. client' = [client EXCEPT ![c] = IF left = e THEN Login!Decided(read) ELSE [read EXCEPT !.at = "upsert"]]
  BY <1>3 DEF left, denied
<1> HIDE DEF read
<1>9. \A j \in Login!Keys : Pending(r, j) = 0
  BY <1>1 DEF Pending
<1>10. ASSUME ~scenario.faults, AllTimes(failed, clock), LimitsOf(r, limits, failed, clock)
       PROVE  /\ e = limits[k] /\ (r.key # r.ip => FreeIn(limits, r.ip))
              /\ RowOK(left, failed[k], 0, Login!Max(k), clock)
  <2>1. e = limits[k]
    BY <1>10, WorksIs
  <2>2. RowOK(limits[k], failed[k], 0, Login!Max(k), clock)
    BY <1>2, <1>9, <1>10 DEF LimitsOf, RowsOK
  <2>3. TimesOK(failed[k], Login!Max(k), clock)
    BY <1>2, <1>10 DEF AllTimes
  <2> QED
    BY <1>1, <1>5, <1>10, <2>1, <2>2, <2>3 DEF LimitsOf, AttemptOK
<1>11. CASE left = e
  <2> DEFINE s == Login!Decided(read)
  <2>1. client' = [client EXCEPT ![c] = s]
    BY <1>8, <1>11
  <2>2. read.key \in {read.ip, KeyOf(read)}
    BY <1>2, <1>6, <1>7
  <2>3. /\ ClientMoves(c, s) /\ \A j \in Login!Keys : Pending(s, j) = 0
        /\ \A lim, f, now :
              (~read.denied => FreeIn(lim, read.key)) /\ (read.key # read.ip => FreeIn(lim, read.ip)) =>
                 AttemptOK(s, lim, f, now)
    BY <1>2, <1>6, <1>7, <2>1, <2>2, DecidedOK
  <2> HIDE DEF s
  <2>4. ASSUME ~scenario.faults, AllTimes(failed, clock), LimitsOf(r, limits, failed, clock)
        PROVE  LimitsOf(s, limits, failed, clock)
    <3>1. ~denied => FreeIn(limits, k)
      BY <1>5, <1>10, <1>11, <2>4 DEF FreeIn
    <3>2. AttemptOK(s, limits, failed, clock)
      BY <1>6, <1>7, <1>10, <2>3, <2>4, <3>1
    <3>3. RowsOK(s, limits, failed, clock)
      BY <1>9, <2>3, <2>4 DEF LimitsOf, RowsOK
    <3> QED
      BY <3>2, <3>3 DEF LimitsOf
  <2>5. LimitsKept(c, s)
    BY <1>1, <2>4, SameStays DEF LimitsKept, Kept
  <2> QED
    BY <1>1, <1>2, <2>3, <2>5, SameRoles, SameSessions DEF ServeStep
<1>12. CASE left # e
  <2> DEFINE s == [read EXCEPT !.at = "upsert"]
  <2>1. client' = [client EXCEPT ![c] = s]
    BY <1>8, <1>12
  <2>2. /\ s \in AttemptRec /\ s.at = "upsert" /\ s.key = k /\ s.left = left /\ s.denied = denied
        /\ SameTry(read, s)
    <3>1. "upsert" \in Attempts
      BY DEF Attempts
    <3> QED
      BY ONLY <1>6, <3>1, SetAt DEF s
  <2> HIDE DEF s
  <2>3. s.op = "login" /\ s.ip = r.ip /\ KeyOf(s) = KeyOf(r)
    BY <1>7, <2>2 DEF SameTry, KeyOf
  <2>4. ClientMoves(c, s)
    BY <1>2, <2>1, <2>2, <2>3 DEF ClientMoves, ClientOK
  <2>5. \A j \in Login!Keys : Pending(s, j) = 0
    BY <2>2 DEF Pending
  <2>6. ASSUME ~scenario.faults, AllTimes(failed, clock), LimitsOf(r, limits, failed, clock)
        PROVE  LimitsOf(s, limits, failed, clock)
    <3>1. left # None
      BY <1>5, <1>12
    <3>2. UpsertOK(s, limits, failed, clock)
      BY <1>5, <1>10, <2>2, <2>6, <3>1 DEF UpsertOK
    <3>3. AttemptOK(s, limits, failed, clock)
      BY <1>10, <2>2, <2>3, <2>6, <3>2 DEF AttemptOK, Passed
    <3>4. RowsOK(s, limits, failed, clock)
      BY <1>9, <2>5, <2>6 DEF LimitsOf, RowsOK
    <3> QED
      BY <3>3, <3>4 DEF LimitsOf
  <2>7. LimitsKept(c, s)
    BY <1>1, <2>6, SameStays DEF LimitsKept, Kept
  <2> QED
    BY <1>1, <1>2, <2>4, <2>7, SameRoles, SameSessions DEF ServeStep
<1> QED
  BY <1>11, <1>12

LEMMA UpsertStep ==
    ASSUME Login!LoginAssumption, LoginTypes, NEW c \in Clients, Login!Upsert(c) PROVE ServeStep(c)
<1> DEFINE r == client[c]
           k == r.key
           s == Login!Decided(r)
<1>1. /\ Kept /\ UNCHANGED <<failed, roles, booted, sessions>> /\ r.at = "upsert"
      /\ client' = [client EXCEPT ![c] = s]
  BY AtAttempt DEF Login!Upsert, Login!At, Login!history, Login!bounds, Kept, Attempts
<1>2. /\ r \in AttemptRec /\ c \in scenario.clients
      /\ r.op = "login" /\ r.ip \in Ips /\ r.ip \in Login!Keys /\ k \in {r.ip, KeyOf(r)}
      /\ k \in Login!Keys /\ KeyOf(r) \in Login!Keys /\ KeyOf(r) # r.ip
      /\ client = [d \in Clients |-> client[d]] /\ limits \in [Login!Keys -> MaybeRow] /\ clock \in Nat
  BY <1>1, AtLimit
<1>3. PICK works \in Login!Works :
         limits' = IF works THEN [limits EXCEPT ![k] = r.left] ELSE limits
  BY DEF Login!Upsert
<1>4. limits' \in [Login!Keys -> MaybeRow]
  BY <1>2, <1>3 DEF AttemptRec
<1>5. /\ ClientMoves(c, s) /\ \A j \in Login!Keys : Pending(s, j) = 0
      /\ \A lim, f, now :
            (~r.denied => FreeIn(lim, r.key)) /\ (r.key # r.ip => FreeIn(lim, r.ip)) =>
               AttemptOK(s, lim, f, now)
  BY <1>1, <1>2, DecidedOK
<1> HIDE DEF s
<1>6. ASSUME ~scenario.faults, AllTimes(failed, clock), LimitsOf(r, limits, failed, clock)
      PROVE  LimitsOf(s, limits', failed, clock) /\ \A j \in Login!Keys : Login!LockStays(j)
  <2>1. limits'[k] = r.left /\ \A j \in Login!Keys : j # k => limits'[j] = limits[j]
    <3>1. works = TRUE
      BY <1>3, <1>6, WorksIs
    <3> QED
      BY <1>2, <1>3, <3>1
  <2>2. UpsertOK(r, limits, failed, clock) /\ (r.key # r.ip => FreeIn(limits, r.ip))
    BY <1>1, <1>6 DEF LimitsOf, AttemptOK
  <2>3. (~r.denied => FreeIn(limits', r.key)) /\ (r.key # r.ip => FreeIn(limits', r.ip))
    BY <1>2, <2>1, <2>2 DEF FreeIn, UpsertOK
  <2>4. AttemptOK(s, limits', failed, clock)
    BY <1>5, <2>3
  <2>5. \A j \in Login!Keys : Pending(r, j) = 0
    BY <1>1 DEF Pending
  <2>6. RowsOK(s, limits', failed, clock)
    BY <1>2, <1>5, <1>6, <2>1, <2>2, <2>5 DEF RowsOK, LimitsOf, UpsertOK
  <2>7. ASSUME NEW j \in Login!Keys PROVE Login!LockStays(j)
    BY <2>1, <2>2, SameStays DEF UpsertOK, Login!LockStays
  <2> QED
    BY <2>4, <2>6, <2>7 DEF LimitsOf
<1>7. LimitsKept(c, s)
  BY <1>1, <1>6 DEF LimitsKept, Kept
<1> QED
  BY <1>1, <1>4, <1>5, <1>7, SameRoles, SameSessions DEF ServeStep

\* The credentials are wrong.
LEMMA WrongStep ==
    ASSUME Login!LoginAssumption, LoginTypes, NEW c \in Clients, Login!TestConnection(c),
           client[c].op = "login", client'[c].at = "failed"
    PROVE  ServeStep(c)
<1> DEFINE r == client[c]
           s == [r EXCEPT !.at = "failed", !.key = r.ip]
<1>1. /\ Kept /\ UNCHANGED <<limits, roles, booted, sessions>> /\ r.at = "test"
  BY DEF Login!TestConnection, Login!At, Login!tables, Login!history, Login!bounds, Kept
<1>2. /\ r \in AttemptRec /\ ClientOK(r) /\ c \in scenario.clients
      /\ client = [d \in Clients |-> client[d]] /\ limits \in [Login!Keys -> MaybeRow] /\ clock \in Nat
  BY <1>1, AtAttempt DEF Attempts, LoginTypes, StoreOK
<1>3. r.ip \in Ips /\ KeyOf(r) \in Login!Keys /\ r.ip \in Login!Keys /\ KeyOf(r) # r.ip
  BY <1>1, <1>2, KeysOf DEF ClientOK, Attempts
<1>4. /\ client' = [client EXCEPT ![c] = s]
      /\ failed' = [k \in Login!Keys |-> IF k \in {r.ip, KeyOf(r)}
                                         THEN Append(failed[k], clock) ELSE failed[k]]
  <2>1. ~Login!To(c, "role")
    <3>1. ASSUME Login!To(c, "role") PROVE client'[c].at = "role"
      BY <1>2, <3>1 DEF Login!To, AttemptRec
    <3> QED
      BY <3>1
  <2>2. /\ client' = [client EXCEPT ![c].at = "failed", ![c].key = r.ip]
        /\ failed' = [k \in Login!Keys |-> IF k \in {r.ip, Login!UserKey(c)}
                                           THEN Append(failed[k], clock) ELSE failed[k]]
    BY <2>1 DEF Login!TestConnection
  <2>3. client' = [client EXCEPT ![c] = s]
    BY <1>2, <2>2
  <2> QED
    BY <2>2, <2>3 DEF Login!UserKey, KeyOf
<1>5. /\ s \in AttemptRec /\ s.at = "failed" /\ s.key = r.ip /\ SameTry(r, s)
  <2>1. "failed" \in Attempts
    BY DEF Attempts
  <2>2. r \in AttemptRec /\ r.ip \in Login!Keys
    BY <1>2, <1>3
  <2> HIDE DEF r
  <2> QED
    BY ONLY <2>1, <2>2, SetAtKey DEF s
<1> HIDE DEF s
<1>6. s.op = "login" /\ s.ip = r.ip /\ KeyOf(s) = KeyOf(r)
  BY <1>5 DEF SameTry, KeyOf
<1>7. ClientMoves(c, s)
  BY <1>2, <1>3, <1>4, <1>5, <1>6 DEF ClientMoves, ClientOK
<1>8. \A k \in Login!Keys : Pending(r, k) = 0 /\ Pending(s, k) = IF k \in {r.ip, KeyOf(r)} THEN 1 ELSE 0
  BY <1>1, <1>5, <1>6 DEF Pending
<1>9. ASSUME AllTimes(failed, clock), LimitsOf(r, limits, failed, clock)
      PROVE  AllTimes(failed', clock) /\ LimitsOf(s, limits, failed', clock)
  <2>1. FreeIn(limits, r.ip) /\ FreeIn(limits, KeyOf(r))
    BY <1>1, <1>9 DEF LimitsOf, AttemptOK, Passed
  <2>2. ASSUME NEW k \in Login!Keys
        PROVE  /\ TimesOK(failed'[k], Login!Max(k), clock)
               /\ RowOK(limits[k], failed'[k], Pending(s, k), Login!Max(k), clock)
    <3>1. /\ TimesOK(failed[k], Login!Max(k), clock)
          /\ RowOK(limits[k], failed[k], 0, Login!Max(k), clock)
      BY <1>8, <1>9 DEF AllTimes, LimitsOf, RowsOK
    <3>2. CASE k \in {r.ip, KeyOf(r)}
      <4>1. RowFree(limits[k], Login!Max(k)) /\ limits[k] \in MaybeRow /\ Login!Max(k) \in Nat \ {0}
        BY <1>2, <2>1, <3>2, MaxOK DEF FreeIn
      <4>2. failed'[k] = Append(failed[k], clock) /\ Pending(s, k) = 1
        BY <1>4, <1>8, <3>2
      <4> QED
        BY <1>2, <3>1, <4>1, <4>2, AppendedTime
    <3>3. CASE k \notin {r.ip, KeyOf(r)}
      BY <1>4, <1>8, <3>1, <3>3
    <3> QED
      BY <3>2, <3>3
  <2>3. AttemptOK(s, limits, failed', clock)
    BY <1>5, <1>6, <2>1 DEF AttemptOK, Passed
  <2> QED
    BY <2>2, <2>3 DEF AllTimes, LimitsOf, RowsOK
<1>10. FailedOK(failed')
  BY <1>4 DEF FailedOK
<1>11. LimitsKept(c, s)
  BY <1>1, <1>9, <1>10, SameStays DEF LimitsKept, Kept
<1> QED
  BY <1>1, <1>2, <1>7, <1>11, SameRoles, SameSessions DEF ServeStep

LEMMA FailedStep ==
    ASSUME Login!LoginAssumption, LoginTypes, NEW c \in Clients, Login!Failed(c) PROVE ServeStep(c)
<1> DEFINE r == client[c]
           k == r.key
<1>1. /\ Kept /\ UNCHANGED <<limits, failed, roles, booted, sessions>> /\ r.at = "failed"
  BY DEF Login!Failed, Login!At, Login!tables, Login!history, Login!bounds, Kept
<1>2. /\ r \in AttemptRec /\ c \in scenario.clients
      /\ r.op = "login" /\ r.ip \in Ips /\ r.ip \in Login!Keys /\ k \in {r.ip, KeyOf(r)}
      /\ k \in Login!Keys /\ KeyOf(r) \in Login!Keys /\ KeyOf(r) # r.ip
      /\ client = [d \in Clients |-> client[d]] /\ limits \in [Login!Keys -> MaybeRow] /\ clock \in Nat
  BY <1>1, AtLimit
<1>3. PICK e \in Login!Read(k) :
         client' = [client EXCEPT ![c].left = Login!RecordAttempt(e, clock), ![c].at = "count"]
  BY DEF Login!Failed
<1> DEFINE left == Login!RecordAttempt(e, clock)
           s == [r EXCEPT !.left = left, !.at = "count"]
<1>4. e \in MaybeRow
  BY <1>2 DEF Login!Read, MaybeRow
<1>5. /\ left \in Login!LimitRow /\ left.until = None /\ left # None
      /\ \A f : \A max \in Nat \ {0} :
            TimesOK(f, max, clock) /\ RowFree(e, max) /\ RowOK(e, f, 1, max, clock) =>
               RowOK(left, f, 0, max, clock)
  <2> HIDE DEF k
  <2> QED
    BY <1>2, <1>4, RecordRow
<1>6. client' = [client EXCEPT ![c] = s]
  BY <1>2, <1>3
<1> HIDE DEF left
<1>7. /\ s \in AttemptRec
      /\ s.at = "count" /\ s.key = k /\ s.left = left /\ SameTry(r, s)
  <2>1. r \in AttemptRec /\ left \in MaybeRow /\ "count" \in Attempts /\ k = r.key
    BY <1>2, <1>5 DEF MaybeRow, Attempts
  <2> HIDE DEF r, k
  <2>2. s \in AttemptRec
    BY <2>1 DEF AttemptRec
  <2>3. s.at = "count" /\ s.key = r.key /\ s.left = left
    BY <2>1 DEF AttemptRec
  <2>4. SameTry(r, s)
    BY <2>1 DEF AttemptRec, SameTry
  <2> QED
    BY <2>1, <2>2, <2>3, <2>4
<1> HIDE DEF s
<1>8. s.op = "login" /\ s.ip = r.ip /\ KeyOf(s) = KeyOf(r)
  BY <1>2, <1>7 DEF SameTry, KeyOf
<1>9. ClientMoves(c, s)
  BY <1>2, <1>6, <1>7, <1>8 DEF ClientMoves, ClientOK
<1>10. \A j \in Login!Keys : Pending(s, j) = Pending(r, j)
  BY <1>1, <1>7, <1>8 DEF Pending
<1>11. ASSUME ~scenario.faults, AllTimes(failed, clock), LimitsOf(r, limits, failed, clock)
       PROVE  LimitsOf(s, limits, failed, clock)
  <2>1. e = limits[k]
    BY <1>11, WorksIs
  <2>2. /\ FreeIn(limits, KeyOf(r)) /\ (r.key = r.ip => FreeIn(limits, r.ip))
        /\ TimesOK(failed[k], Login!Max(k), clock)
    BY <1>1, <1>2, <1>11 DEF LimitsOf, AttemptOK, AllTimes
  <2>3. RowOK(e, failed[k], 1, Login!Max(k), clock) /\ RowFree(e, Login!Max(k))
    BY <1>1, <1>2, <1>11, <2>1, <2>2 DEF Pending, LimitsOf, RowsOK, FreeIn
  <2>4. CountOK(s, failed, clock)
    BY <1>5, <2>2, <2>3, MaxOK, <1>7 DEF CountOK
  <2>5. AttemptOK(s, limits, failed, clock)
    BY <1>7, <1>8, <2>2, <2>4 DEF AttemptOK, Passed
  <2>6. RowsOK(s, limits, failed, clock)
    BY <1>10, <1>11 DEF LimitsOf, RowsOK
  <2> QED
    BY <2>5, <2>6 DEF LimitsOf
<1>12. LimitsKept(c, s)
  BY <1>1, <1>11, SameStays DEF LimitsKept, Kept
<1> QED
  BY <1>1, <1>2, <1>9, <1>12, SameRoles, SameSessions DEF ServeStep

\* After the row of the address comes that of the user; so it is with the end of a row.
LEMMA NextKey ==
    ASSUME Login!LoginAssumption, LoginTypes, NEW c \in Clients,
           client[c].at \in {"count", "reset"}, NEW at \in {"failed", "reset"},
           client' = [client EXCEPT ![c] = IF @.key = @.ip
                         THEN [@ EXCEPT !.at = at, !.key = Login!UserKey(c)] ELSE Login!Idle]
    PROVE  \E s :
              /\ ClientMoves(c, s)
              /\ \/ client[c].key # client[c].ip /\ s = Login!Idle
                 \/ /\ client[c].key = client[c].ip /\ s \in AttemptRec /\ s.at = at
                    /\ s.op = "login" /\ s.ip = client[c].ip /\ KeyOf(s) = KeyOf(client[c])
                    /\ s.key = KeyOf(s)
<1> DEFINE r == client[c]
<1>1. /\ r \in AttemptRec /\ c \in scenario.clients /\ r.op = "login" /\ r.ip \in Ips
      /\ KeyOf(r) \in Login!Keys /\ KeyOf(r) # r.ip /\ client = [d \in Clients |-> client[d]]
  BY AtLimit
<1>2. CASE r.key # r.ip
  BY <1>1, <1>2 DEF ClientMoves, ClientOK, Attempts, Login!Idle
<1>3. CASE r.key = r.ip
  <2> DEFINE s == [r EXCEPT !.at = at, !.key = KeyOf(r)]
  <2>1. client' = [client EXCEPT ![c] = s]
    BY <1>1, <1>3 DEF Login!UserKey, KeyOf
  <2>2. /\ s \in AttemptRec /\ s.at = at /\ s.key = KeyOf(r) /\ SameTry(r, s)
    <3>1. at \in Attempts /\ r \in AttemptRec /\ KeyOf(r) \in Login!Keys
      BY <1>1 DEF Attempts
    <3> HIDE DEF r
    <3>2. s \in AttemptRec
      BY <3>1 DEF AttemptRec
    <3>3. s.at = at /\ s.key = KeyOf(r)
      BY <3>1 DEF AttemptRec
    <3>4. SameTry(r, s)
      BY <3>1 DEF AttemptRec, SameTry
    <3> QED
      BY <3>2, <3>3, <3>4
  <2> HIDE DEF s
  <2>3. s.op = "login" /\ s.ip = r.ip /\ KeyOf(s) = KeyOf(r)
    BY <1>1, <2>2 DEF SameTry, KeyOf
  <2>4. ClientMoves(c, s)
    BY <1>1, <2>1, <2>2, <2>3 DEF ClientMoves, ClientOK
  <2> QED
    BY <1>3, <2>2, <2>3, <2>4
<1> QED
  BY <1>2, <1>3

LEMMA CountStep ==
    ASSUME Login!LoginAssumption, LoginTypes, NEW c \in Clients, Login!Count(c) PROVE ServeStep(c)
<1> DEFINE r == client[c]
           k == r.key
<1>1. /\ Kept /\ UNCHANGED <<failed, roles, booted, sessions>> /\ r.at = "count"
  BY DEF Login!Count, Login!At, Login!history, Login!bounds, Kept
<1>2. /\ r \in AttemptRec /\ c \in scenario.clients
      /\ r.op = "login" /\ r.ip \in Ips /\ r.ip \in Login!Keys /\ k \in {r.ip, KeyOf(r)}
      /\ k \in Login!Keys /\ KeyOf(r) \in Login!Keys /\ KeyOf(r) # r.ip
      /\ client = [d \in Clients |-> client[d]] /\ limits \in [Login!Keys -> MaybeRow] /\ clock \in Nat
  BY <1>1, AtLimit
<1>3. PICK works \in Login!Works :
         limits' = IF works THEN [limits EXCEPT ![k] = r.left] ELSE limits
  BY DEF Login!Count
<1>4. limits' \in [Login!Keys -> MaybeRow]
  BY <1>2, <1>3 DEF AttemptRec
<1>5. PICK s : /\ ClientMoves(c, s)
               /\ \/ r.key # r.ip /\ s = Login!Idle
                  \/ /\ r.key = r.ip /\ s \in AttemptRec /\ s.at = "failed"
                     /\ s.op = "login" /\ s.ip = r.ip /\ KeyOf(s) = KeyOf(r) /\ s.key = KeyOf(s)
  BY <1>1, NextKey DEF Login!Count
<1>6. \A j \in Login!Keys : j # k => Pending(s, j) = Pending(r, j)
  BY <1>1, <1>2, <1>5 DEF Pending, Login!Idle
<1>7. Pending(s, k) = 0
  BY <1>2, <1>5 DEF Pending, Login!Idle
<1>8. ASSUME ~scenario.faults, AllTimes(failed, clock), LimitsOf(r, limits, failed, clock)
      PROVE  LimitsOf(s, limits', failed, clock) /\ \A j \in Login!Keys : Login!LockStays(j)
  <2>1. limits'[k] = r.left /\ \A j \in Login!Keys : j # k => limits'[j] = limits[j]
    <3>1. works = TRUE
      BY <1>3, <1>8, WorksIs
    <3> QED
      BY <1>2, <1>3, <3>1
  <2>2. /\ CountOK(r, failed, clock)
        /\ FreeIn(limits, KeyOf(r)) /\ (r.key = r.ip => FreeIn(limits, r.ip))
    BY <1>1, <1>8 DEF LimitsOf, AttemptOK
  <2>3. RowsOK(s, limits', failed, clock)
    BY <1>2, <1>6, <1>7, <1>8, <2>1, <2>2 DEF RowsOK, LimitsOf, CountOK
  <2>4. AttemptOK(s, limits', failed, clock)
    BY <1>2, <1>5, <2>1, <2>2 DEF AttemptOK, Passed, Login!Idle, FreeIn
  <2>5. ASSUME NEW j \in Login!Keys PROVE Login!LockStays(j)
    BY <1>2, <2>2, FreeStays, <2>1, SameStays
  <2> QED
    BY <2>3, <2>4, <2>5 DEF LimitsOf
<1>9. LimitsKept(c, s)
  BY <1>1, <1>8 DEF LimitsKept, Kept
<1> QED
  BY <1>1, <1>4, <1>5, <1>9, SameRoles, SameSessions DEF ServeStep

LEMMA ResetStep ==
    ASSUME Login!LoginAssumption, LoginTypes, NEW c \in Clients, Login!Reset(c) PROVE ServeStep(c)
<1> DEFINE r == client[c]
           k == r.key
<1>1. /\ Kept /\ UNCHANGED <<roles, booted, sessions>> /\ r.at = "reset"
  BY DEF Login!Reset, Login!At, Login!bounds, Kept
<1>2. /\ r \in AttemptRec /\ c \in scenario.clients
      /\ r.op = "login" /\ r.ip \in Ips /\ r.ip \in Login!Keys /\ k \in {r.ip, KeyOf(r)}
      /\ k \in Login!Keys /\ KeyOf(r) \in Login!Keys /\ KeyOf(r) # r.ip
      /\ client = [d \in Clients |-> client[d]] /\ limits \in [Login!Keys -> MaybeRow] /\ clock \in Nat
  BY <1>1, AtLimit
<1>3. PICK works \in Login!Works :
         /\ limits' = IF works THEN [limits EXCEPT ![k] = None] ELSE limits
         /\ failed' = IF works THEN [failed EXCEPT ![k] = <<>>] ELSE failed
  BY DEF Login!Reset
<1>4. limits' \in [Login!Keys -> MaybeRow]
  BY <1>2, <1>3 DEF MaybeRow
<1>5. PICK s : /\ ClientMoves(c, s)
               /\ \/ r.key # r.ip /\ s = Login!Idle
                  \/ /\ r.key = r.ip /\ s \in AttemptRec /\ s.at = "reset"
                     /\ s.op = "login" /\ s.ip = r.ip /\ KeyOf(s) = KeyOf(r) /\ s.key = KeyOf(s)
  <2>1. client' = [client EXCEPT ![c] = IF @.key = @.ip
                      THEN [@ EXCEPT !.at = "reset", !.key = Login!UserKey(c)] ELSE Login!Idle]
    BY <1>2, <1>1 DEF Login!Reset, AttemptRec
  <2> QED
    BY <1>1, <2>1, NextKey
<1>6. \A j \in Login!Keys : Pending(s, j) = 0 /\ Pending(r, j) = 0
  BY <1>1, <1>5 DEF Pending, Login!Idle
<1>7. ASSUME ~scenario.faults, FailedOK(failed), AllTimes(failed, clock), LimitsOf(r, limits, failed, clock)
      PROVE  /\ FailedOK(failed') /\ AllTimes(failed', clock) /\ LimitsOf(s, limits', failed', clock)
             /\ \A j \in Login!Keys : Login!LockStays(j)
  <2>1. /\ limits'[k] = None /\ \A j \in Login!Keys : j # k => limits'[j] = limits[j]
        /\ failed'[k] = <<>> /\ \A j \in Login!Keys : j # k => failed'[j] = failed[j]
        /\ FailedOK(failed')
    <3>1. works = TRUE
      BY <1>3, <1>7, WorksIs
    <3> QED
      BY <1>2, <1>3, <1>7, <3>1 DEF FailedOK
  <2>2. FreeIn(limits, r.ip) /\ FreeIn(limits, KeyOf(r))
    BY <1>1, <1>2, <1>7 DEF LimitsOf, AttemptOK, Passed
  <2>3. AllTimes(failed', clock)
    <3>1. \A max \in Nat \ {0} : TimesOK(<<>>, max, clock)
      BY DEF TimesOK
    <3> QED
      BY <1>7, <2>1, <3>1, MaxOK DEF AllTimes
  <2>4. RowsOK(s, limits', failed', clock)
    BY <1>6, <1>7, <2>1 DEF RowOK, LimitsOf, RowsOK
  <2>5. AttemptOK(s, limits', failed', clock)
    BY <1>2, <1>5, <2>1, <2>2 DEF AttemptOK, Passed, Login!Idle, FreeIn, RowFree
  <2>6. ASSUME NEW j \in Login!Keys PROVE Login!LockStays(j)
    BY <1>2, <2>2, FreeStays, <2>1, SameStays
  <2> QED
    BY <2>1, <2>3, <2>4, <2>5, <2>6 DEF LimitsOf
<1>8. LimitsKept(c, s)
  BY <1>1, <1>7 DEF LimitsKept, Kept
<1> QED
  BY <1>1, <1>4, <1>5, <1>8, SameRoles, SameSessions DEF ServeStep

LEMMA Served ==
    ASSUME Login!LoginAssumption, LoginTypes, NEW c \in Clients, Login!Serve(c) PROVE ServeStep(c)
<1>1. ASSUME Login!TestConnection(c) PROVE ServeStep(c)
  BY <1>1, TestStep, WrongStep, QuietServes
<1> QED
  BY <1>1, LoginStep, OfflineStep, ManualRoleStep, CountAdminsStep, BootstrapStep, NewSessionStep,
     RequestStep, SessionQuiet, SwitchStep, CallbackStep, QuietServes,
     CheckStep, UpsertStep, FailedStep, CountStep, ResetStep DEF Login!Serve

----------------------------------------------------------------------------
(* The invariants are kept. *)

LEMMA ServedBy ==
    ASSUME LoginTypes, NEW c \in Clients, Login!Serve(c) PROVE c \in scenario.clients
<1>1. client[c].at # "idle" => c \in scenario.clients
  BY DEF LoginTypes, ClientsOK
<1>2. ASSUME Login!Check(c) \/ Login!Upsert(c) \/ Login!Offline(c) \/ Login!TestConnection(c)
             \/ Login!Failed(c) \/ Login!Count(c) \/ Login!ManualRole(c) \/ Login!CountAdmins(c)
             \/ Login!Bootstrap(c) \/ Login!NewSession(c) \/ Login!Reset(c)
      PROVE  c \in scenario.clients
  BY <1>1, <1>2 DEF Login!At, Login!Check, Login!Upsert, Login!Offline, Login!TestConnection, Login!Failed,
     Login!Count, Login!ManualRole, Login!CountAdmins, Login!Bootstrap, Login!NewSession, Login!Reset
<1>3. ASSUME Login!Login(c) \/ Login!Session(c) \/ Login!Logout(c) \/ Login!OIDCLogin(c)
      PROVE  c \in scenario.clients
  BY <1>3 DEF Login!CanAsk, Login!Login, Login!Session, Login!Logout, Login!OIDCLogin
<1>4. ASSUME Login!Request(c) \/ Login!Switch(c) \/ Login!OIDCCallback(c) PROVE c \in scenario.clients
  BY <1>1, <1>4 DEF Login!At, Login!CanAsk, Login!Request, Login!Switch, Login!OIDCCallback
<1> QED
  BY <1>2, <1>3, <1>4 DEF Login!Serve

LEMMA ServedTypes ==
    ASSUME LoginTypes, NEW c \in Clients, ServeStep(c) PROVE LoginTypes'
<1>1. PICK s : ClientMoves(c, s)
  BY DEF ServeStep
<1>2. Kept /\ limits' \in [Login!Keys -> MaybeRow] /\ RolesStep(c) /\ SessionStep(c)
  BY DEF ServeStep
<1>3. StoreOK'
  BY <1>2 DEF LoginTypes, StoreOK, Kept, RolesStep
<1>4. ClientsOK'
  BY <1>1, <1>2 DEF LoginTypes, ClientsOK, ClientMoves, Kept
<1>5. AdminsOK'
  BY <1>2 DEF LoginTypes, AdminsOK, Kept
<1>6. SessionsOK'
  BY <1>2 DEF SessionsOK, SessionStep, Login!HasSession
<1> QED
  BY <1>3, <1>4, <1>5, <1>6 DEF LoginTypes

\* Logins take no role away.
LEMMA ServedRoles ==
    ASSUME Login!LoginAssumption, LoginTypes, Login!OneAdmin, ChangesOK, RolesHeld, BootOK,
           NEW c \in Clients, c \in scenario.clients, ServeStep(c)
    PROVE  /\ ChangesOK' /\ RolesHeld' /\ BootOK'
           /\ Login!AllAdmins # {} => Login!AllAdmins' # {}
<1>1. PICK s : ClientMoves(c, s)
  BY DEF ServeStep
<1>2. Kept /\ RolesStep(c) /\ SessionStep(c)
  BY DEF ServeStep
<1>3. \A u \in Users : Login!Admin(u) => roles'[u] = "admin"
  BY <1>2 DEF RolesStep, Login!Admin
<1>4. /\ client' = [d \in Clients |-> IF d = c THEN s ELSE client[d]]
      /\ \A d \in Clients : d # c => client'[d] = client[d]
      /\ client'[c] = s
  BY <1>1 DEF LoginTypes, ClientsOK, ClientMoves
<1>5. \A v \in Login!AllAdmins : v \in Users /\ v \in Login!AllAdmins'
  BY <1>3 DEF Login!AllAdmins, Login!Admin
<1>6. \A d \in Clients : client[d].at \in Attempts => client[d].user \in Users
  BY AtAttempt DEF AttemptRec
<1>7. ChangesOK'
  <2> SUFFICES ASSUME NEW a \in Admins
               PROVE  /\ admin[a].at \in {"target", "count", "store"} => roles'[a] = "admin"
                      /\ admin[a].at = "store" /\ admin[a].role # "admin" =>
                            \E v \in Login!AllAdmins' : v # admin[a].user
                      /\ admin[a].at = "refresh" /\ admin[a].role = "admin" => roles'[admin[a].user] = "admin"
    BY <1>2 DEF ChangesOK, Kept, Login!Admin
  <2>1. a \in Users
    BY DEF Login!LoginAssumption
  <2>2. admin[a].at = "refresh" => admin[a].user \in Users
    BY DEF LoginTypes, AdminsOK, ChangeOK, ChangeRec
  <2> QED
    BY <1>3, <1>5, <2>1, <2>2 DEF ChangesOK
<1>8. RolesHeld'
  <2> SUFFICES ASSUME ~overlapped PROVE RolesHeld'
    BY <1>2 DEF RolesHeld, Kept
  <2>1. ASSUME NEW d \in Clients, client'[d].at \in {"leave", "session"}, client'[d].role = "admin"
        PROVE  roles'[client'[d].user] = "admin"
    BY <1>3, <1>6, <1>1, <1>4, <2>1 DEF RolesHeld, Attempts, ClientMoves
  <2>2. ASSUME NEW t \in Tokens, sessions'[t] \notin {None, Gone}, sessions'[t].subject = None,
               sessions'[t].role = "admin"
        PROVE  roles'[sessions'[t].user] = "admin" \/ RoleTold(sessions'[t].user)
    BY <1>2, <2>2, <1>3 DEF SessionStep, SessionRec, RolesHeld
  <2> QED
    BY <1>2, <2>1, <2>2 DEF RolesHeld, Kept, RoleTold, Login!Admin, Login!HasSession
<1>9. BootOK'
  <2> SUFFICES ASSUME Login!OneClient
               PROVE  /\ booted' # {} => Login!AllAdmins' # {}
                      /\ Login!AtMostOne(booted')
                      /\ \A d \in Clients : client'[d].at = "bootstrap" => booted' = {}
    BY <1>2 DEF BootOK, Kept, Login!OneClient, Login!AtMostOne
  <2>1. CASE booted' = booted
    <3>1. ASSUME NEW d \in Clients, client'[d].at = "bootstrap" PROVE booted = {}
      BY <1>1, <1>4, <3>1 DEF ClientMoves, BootOK
    <3> QED
      BY <1>5, <2>1, <3>1 DEF BootOK
  <2>2. CASE booted' # booted
    <3>1. /\ client[c].at = "bootstrap" /\ booted' = booted \cup {client[c].user}
          /\ client[c].user \in Users /\ roles'[client[c].user] = "admin"
      BY <1>2, <2>2 DEF RolesStep
    <3>2. booted' = {client[c].user}
      BY <3>1 DEF BootOK
    <3>3. Login!AllAdmins' # {}
      BY <3>1 DEF Login!AllAdmins, Login!Admin
    <3>4. Login!AtMostOne(booted')
      BY <3>2 DEF Login!AtMostOne
    <3>5. ASSUME NEW d \in Clients, client'[d].at = "bootstrap" PROVE FALSE
      <4>1. CASE d = c
        BY <1>1, <1>4, <3>1, <3>5, <4>1 DEF ClientMoves
      <4>2. CASE d # c
        BY <1>4, <3>5, <4>2 DEF LoginTypes, ClientsOK, Login!OneClient, Login!AtMostOne
      <4> QED
        BY <4>1, <4>2
    <3> QED
      BY <3>3, <3>4, <3>5
  <2> QED
    BY <2>1, <2>2
<1> QED
  BY <1>5, <1>7, <1>8, <1>9

----------------------------------------------------------------------------
(* The steps of an administrator. *)

GovernKept == UNCHANGED <<scenario, clock, limits, client, failed, booted>>
AdminMoves(a, s) ==
    admin' = [admin EXCEPT ![a] = s] /\ ChangeOK(s) /\ (s.at # "idle" => a \in scenario.admins)
GovernStep(a) ==
    /\ GovernKept /\ \E s : AdminMoves(a, s)
    /\ roles' \in [Users -> MaybeRole] /\ SessionsOK'
    /\ Login!OneAdmin /\ ChangesOK /\ RolesHeld /\ BootOK =>
          /\ ChangesOK' /\ RolesHeld' /\ BootOK'
          /\ Login!AllAdmins # {} => Login!AllAdmins' # {}

LEMMA AtChange ==
    ASSUME LoginTypes, NEW a \in Admins, admin[a].at # "idle"
    PROVE  /\ admin[a] \in ChangeRec /\ a \in scenario.admins /\ admin = [b \in Admins |-> admin[b]]
           /\ admin[a].user \in Users /\ admin[a].role \in MaybeRole
BY DEF LoginTypes, AdminsOK, ChangeOK, ChangeRec

LEMMA OthersIdle ==
    ASSUME LoginTypes, Login!OneAdmin, NEW a \in Admins, a \in scenario.admins, NEW b \in Admins, b # a
    PROVE  admin[b].at = "idle"
  BY DEF LoginTypes, AdminsOK, Login!OneAdmin, Login!AtMostOne

\* A step that changes no role and no session, to a place s that is sound.
LEMMA GovernQuiet ==
    ASSUME Login!LoginAssumption, LoginTypes, NEW a \in Admins, a \in scenario.admins, NEW s,
           GovernKept, UNCHANGED <<roles, sessions, overlapped>>, AdminMoves(a, s),
           admin[a].at # "refresh", s.at # "refresh",
           Login!OneAdmin /\ ChangesOK =>
              /\ s.at \in {"target", "count", "store"} => Login!Admin(a)
              /\ s.at = "store" /\ s.role # "admin" => \E v \in Login!AllAdmins : v # s.user
    PROVE  GovernStep(a)
<1>1. admin' = [b \in Admins |-> IF b = a THEN s ELSE admin[b]]
  BY DEF AdminMoves, LoginTypes, AdminsOK
<1>2. roles' \in [Users -> MaybeRole] /\ SessionsOK'
  BY DEF LoginTypes, StoreOK, SessionsOK, Login!HasSession
<1>3. Login!AllAdmins' = Login!AllAdmins /\ \A u : Login!Admin(u)' <=> Login!Admin(u)
  BY DEF Login!AllAdmins, Login!Admin
<1>4. Login!OneAdmin /\ ChangesOK => ChangesOK'
  BY <1>1 DEF ChangesOK, Login!AllAdmins, Login!Admin
<1>5. \A u : RoleTold(u) => RoleTold(u)'
  BY <1>1 DEF RoleTold
<1>6. RolesHeld => RolesHeld'
  BY <1>5 DEF RolesHeld, GovernKept, Login!HasSession, Login!Admin
<1>7. BootOK => BootOK'
  BY <1>3 DEF BootOK, GovernKept, Login!OneClient, Login!AtMostOne
<1> QED
  BY <1>2, <1>3, <1>4, <1>6, <1>7 DEF GovernStep

LEMMA SetChange ==
    ASSUME NEW r \in ChangeRec, NEW at \in {"target", "count", "store", "refresh"}
    PROVE  LET s == [r EXCEPT !.at = at] IN
           s \in ChangeRec /\ s.at = at /\ s.user = r.user /\ s.role = r.role
  BY DEF ChangeRec

LEMMA LeaveMoves ==
    ASSUME LoginTypes, NEW a \in Admins, Login!Leave(a)
    PROVE  AdminMoves(a, Login!Idle) /\ Login!Idle.at = "idle"
  BY DEF Login!Leave, AdminMoves, ChangeOK, Login!Idle

LEMMA StepMoves ==
    ASSUME LoginTypes, NEW a \in Admins, admin[a].at # "idle",
           NEW at \in {"target", "count", "store", "refresh"}, Login!Step(a, at)
    PROVE  \E s : AdminMoves(a, s) /\ s.at = at /\ s.user = admin[a].user /\ s.role = admin[a].role
<1>1. admin[a] \in ChangeRec /\ a \in scenario.admins /\ admin = [b \in Admins |-> admin[b]]
  BY AtChange
<1> DEFINE s == [admin[a] EXCEPT !.at = at]
<1>2. admin' = [admin EXCEPT ![a] = s]
  BY <1>1 DEF Login!Step
<1>3. s \in ChangeRec /\ s.at = at /\ s.user = admin[a].user /\ s.role = admin[a].role
  BY <1>1, SetChange
<1> HIDE DEF s
<1> QED
  BY <1>1, <1>2, <1>3 DEF AdminMoves, ChangeOK

LEMMA ChangeRoleStep ==
    ASSUME Login!LoginAssumption, LoginTypes, NEW a \in Admins, Login!ChangeRole(a) PROVE GovernStep(a)
<1>1. /\ GovernKept /\ UNCHANGED <<roles, sessions, overlapped>>
      /\ a \in scenario.admins /\ admin[a].at = "idle" /\ Login!Admin(a)
  BY DEF Login!ChangeRole, Login!Free, GovernKept, Login!tables, Login!history
<1>2. PICK u \in Users, role \in MaybeRole :
         admin' = [admin EXCEPT ![a] = [at |-> "target", user |-> u, role |-> role]]
  BY DEF Login!ChangeRole, MaybeRole
<1> DEFINE s == [at |-> "target", user |-> u, role |-> role]
<1>3. s \in ChangeRec /\ s.at = "target"
  BY DEF ChangeRec
<1> HIDE DEF s
<1>4. AdminMoves(a, s)
  BY <1>1, <1>2, <1>3 DEF s, AdminMoves, ChangeOK
<1> QED
  BY <1>1, <1>3, <1>4, GovernQuiet

LEMMA IsUserRoleStep ==
    ASSUME Login!LoginAssumption, LoginTypes, NEW a \in Admins, Login!IsUserRole(a) PROVE GovernStep(a)
<1>1. /\ GovernKept /\ UNCHANGED <<roles, sessions, overlapped>> /\ admin[a].at = "target"
  BY DEF Login!IsUserRole, GovernKept, Login!tables, Login!history, Login!bounds
<1>2. a \in scenario.admins /\ a \in Users
  BY <1>1, AtChange DEF Login!LoginAssumption
<1>3. CASE Login!Leave(a)
  BY <1>1, <1>2, <1>3, LeaveMoves, GovernQuiet
<1>4. CASE ~Login!Leave(a)
  <2> DEFINE at == IF Login!Admin(admin[a].user) /\ admin[a].role # "admin" THEN "count" ELSE "store"
  <2>1. Login!Step(a, at)
    BY <1>4 DEF Login!IsUserRole
  <2>2. at \in {"count", "store"}
    OBVIOUS
  <2>3. at = "store" /\ admin[a].role # "admin" => ~Login!Admin(admin[a].user)
    OBVIOUS
  <2> HIDE DEF at
  <2>4. PICK s : AdminMoves(a, s) /\ s.at = at /\ s.user = admin[a].user /\ s.role = admin[a].role
    BY <1>1, <2>1, <2>2, StepMoves
  <2>5. ASSUME ChangesOK
        PROVE  /\ Login!Admin(a)
               /\ s.at = "store" /\ s.role # "admin" => \E v \in Login!AllAdmins : v # s.user
    BY <1>1, <2>5, <1>2, <2>3, <2>4 DEF ChangesOK, Login!AllAdmins
  <2> QED
    BY <1>1, <1>2, <2>2, <2>4, <2>5, GovernQuiet
<1> QED
  BY <1>3, <1>4

LEMMA CountUsersStep ==
    ASSUME Login!LoginAssumption, LoginTypes, NEW a \in Admins, Login!CountUsersWithRole(a)
    PROVE  GovernStep(a)
<1>1. /\ GovernKept /\ UNCHANGED <<roles, sessions, overlapped>> /\ admin[a].at = "count"
  BY DEF Login!CountUsersWithRole, GovernKept, Login!tables, Login!history, Login!bounds
<1>2. a \in scenario.admins
  BY <1>1, AtChange
<1>3. CASE Login!Leave(a)
  BY <1>1, <1>2, <1>3, LeaveMoves, GovernQuiet
<1>4. CASE ~Login!Leave(a)
  <2>1. Login!KeepsAdmin /\ Login!Step(a, "store")
    BY <1>4 DEF Login!CountUsersWithRole
  <2>2. PICK s : AdminMoves(a, s) /\ s.at = "store" /\ s.user = admin[a].user /\ s.role = admin[a].role
    BY <1>1, <2>1, StepMoves
  <2>3. \E v \in Login!AllAdmins : v # s.user
    BY <2>1 DEF Login!KeepsAdmin
  <2>4. ChangesOK => Login!Admin(a)
    BY <1>1 DEF ChangesOK
  <2> QED
    BY <1>1, <1>2, <2>2, <2>3, <2>4, GovernQuiet
<1> QED
  BY <1>3, <1>4

LEMMA StoreRoleStep ==
    ASSUME Login!LoginAssumption, LoginTypes, NEW a \in Admins, Login!StoreRole(a) PROVE GovernStep(a)
<1> DEFINE r == admin[a]
<1>1. /\ GovernKept /\ UNCHANGED sessions /\ r.at = "store"
  BY DEF Login!StoreRole, GovernKept, Login!tables, Login!history, Login!bounds
<1>2. /\ a \in scenario.admins /\ r.user \in Users /\ r.role \in MaybeRole
      /\ admin = [b \in Admins |-> admin[b]] /\ roles \in [Users -> MaybeRole]
  BY <1>1, AtChange DEF LoginTypes, StoreOK
<1>3. CASE Login!Leave(a) /\ UNCHANGED <<roles, overlapped>>
  BY <1>1, <1>2, <1>3, LeaveMoves, GovernQuiet
<1>4. CASE ~(Login!Leave(a) /\ UNCHANGED <<roles, overlapped>>)
  <2>1. /\ roles' = [roles EXCEPT ![r.user] = r.role]
        /\ overlapped' = (overlapped \/ Login!LoggingIn)
        /\ Login!Step(a, "refresh")
    BY <1>4 DEF Login!StoreRole
  <2>2. PICK s : AdminMoves(a, s) /\ s.at = "refresh" /\ s.user = r.user /\ s.role = r.role
    BY <1>1, <2>1, StepMoves
  <2>3. admin' = [b \in Admins |-> IF b = a THEN s ELSE admin[b]]
    BY <1>2, <2>2 DEF AdminMoves
  <2>4. roles' \in [Users -> MaybeRole] /\ SessionsOK'
    BY <1>1, <1>2, <2>1 DEF LoginTypes, SessionsOK, Login!HasSession
  <2>5. roles'[r.user] = r.role /\ \A u \in Users : u # r.user => roles'[u] = roles[u]
    BY <1>2, <2>1
  <2>6. ASSUME Login!OneAdmin, ChangesOK, RolesHeld, BootOK
        PROVE  ChangesOK' /\ RolesHeld' /\ BootOK' /\ Login!AllAdmins' # {}
    <3>1. \A b \in Admins : b # a => admin[b].at = "idle" /\ admin'[b].at = "idle"
      BY <1>2, <2>3, <2>6, OthersIdle
    <3>2. admin'[a] = s
      BY <2>3
    <3>3. Login!AllAdmins' # {}
      <4>1. CASE r.role = "admin"
        BY <1>2, <2>5, <4>1 DEF Login!AllAdmins, Login!Admin
      <4>2. CASE r.role # "admin"
        <5>1. PICK v \in Login!AllAdmins : v # r.user
          BY <1>1, <2>6, <4>2 DEF ChangesOK
        <5> QED
          BY <2>5, <5>1 DEF Login!AllAdmins, Login!Admin
      <4> QED
        BY <4>1, <4>2
    <3>4. ChangesOK'
      <4> SUFFICES ASSUME NEW b \in Admins
                   PROVE  /\ admin'[b].at \notin {"target", "count", "store"}
                          /\ admin'[b].at = "refresh" /\ admin'[b].role = "admin" =>
                                roles'[admin'[b].user] = "admin"
        BY DEF ChangesOK, Login!Admin
      <4>1. CASE b = a
        BY <2>2, <2>5, <3>2, <4>1
      <4>2. CASE b # a
        BY <3>1, <4>2
      <4> QED
        BY <4>1, <4>2
    <3>5. RolesHeld'
      <4> SUFFICES ASSUME ~overlapped' PROVE RolesHeld'
        BY DEF RolesHeld
      <4>1. ~overlapped /\ \A c \in Clients : client[c].at \notin {"leave", "session"}
        BY <2>1 DEF Login!LoggingIn
      <4>2. ASSUME NEW t \in Tokens, Login!HasSession(t), sessions[t].subject = None,
                   sessions[t].role = "admin"
            PROVE  roles'[sessions[t].user] = "admin" \/ RoleTold(sessions[t].user)'
        <5>1. sessions[t].user \in Users
          BY <4>2 DEF LoginTypes, SessionsOK, SessionRec
        <5>2. CASE sessions[t].user = r.user
          BY <1>1, <2>2, <3>2, <5>2 DEF RoleTold
        <5>3. CASE sessions[t].user # r.user
          <6>1. ~RoleTold(sessions[t].user)
            BY <1>1, <3>1 DEF RoleTold
          <6> QED
            BY <2>5, <2>6, <4>1, <4>2, <5>1, <5>3, <6>1 DEF RolesHeld, Login!Admin
        <5> QED
          BY <5>2, <5>3
      <4> QED
        BY <1>1, <4>1, <4>2 DEF RolesHeld, GovernKept, Login!HasSession, Login!Admin
    <3>6. BootOK'
      BY <1>1, <2>6, <3>3 DEF BootOK, GovernKept, Login!OneClient, Login!AtMostOne
    <3> QED
      BY <3>3, <3>4, <3>5, <3>6
  <2> QED
    BY <1>1, <2>2, <2>4, <2>6 DEF GovernStep
<1> QED
  BY <1>3, <1>4

LEMMA RefreshStep ==
    ASSUME Login!LoginAssumption, LoginTypes, NEW a \in Admins, Login!SetSessionsUserRole(a)
    PROVE  GovernStep(a)
<1> DEFINE r == admin[a]
<1>1. /\ GovernKept /\ UNCHANGED <<roles, overlapped>> /\ r.at = "refresh" /\ Login!Leave(a)
  BY DEF Login!SetSessionsUserRole, GovernKept, Login!history, Login!bounds
<1>2. /\ a \in scenario.admins /\ r.user \in Users /\ r.role \in MaybeRole
      /\ admin = [b \in Admins |-> admin[b]] /\ roles \in [Users -> MaybeRole]
  BY <1>1, AtChange DEF LoginTypes, StoreOK
<1>3. PICK works \in Login!Works :
         sessions' = IF works THEN [t \in Tokens |-> Login!SessionRole(t, r.user, r.role)] ELSE sessions
  BY DEF Login!SetSessionsUserRole
<1>4. AdminMoves(a, Login!Idle) /\ admin' = [b \in Admins |-> IF b = a THEN Login!Idle ELSE admin[b]]
  BY <1>1, <1>2, LeaveMoves DEF AdminMoves
<1>5. ASSUME NEW t \in Tokens, NEW x, x = Login!SessionRole(t, r.user, r.role), x \notin {None, Gone}
      PROVE  /\ x \in SessionRec /\ Login!HasSession(t) /\ sessions[t] \in SessionRec
             /\ x.user = sessions[t].user /\ x.subject = sessions[t].subject
             /\ IF sessions[t].user = r.user THEN x.role = IF r.role = None THEN "viewer" ELSE r.role
                ELSE x = sessions[t]
  <2>1. Login!HasSession(t)
    BY <1>5 DEF Login!SessionRole, Login!HasSession
  <2>2. sessions[t] \in SessionRec
    BY <2>1 DEF LoginTypes, SessionsOK
  <2>3. CASE sessions[t].user = r.user
    <3> DEFINE role == IF r.role = None THEN "viewer" ELSE r.role
    <3>1. x = [sessions[t] EXCEPT !.role = role]
      BY <1>5, <2>1, <2>3 DEF Login!SessionRole
    <3>2. role \in MaybeRole
      BY <1>2 DEF MaybeRole, Login!Roles
    <3> HIDE DEF role
    <3>3. x \in SessionRec
      BY <2>2, <3>1, <3>2 DEF SessionRec
    <3>4. x.user = sessions[t].user /\ x.subject = sessions[t].subject /\ x.role = role
      BY <2>2, <3>1 DEF SessionRec
    <3> QED
      BY <2>1, <2>2, <2>3, <3>3, <3>4 DEF role
  <2>4. CASE sessions[t].user # r.user
    BY <1>5, <2>1, <2>2, <2>4 DEF Login!SessionRole
  <2> QED
    BY <2>3, <2>4
<1>6. SessionsOK'
  BY <1>3, <1>5 DEF SessionsOK, Login!HasSession, LoginTypes
<1>7. ASSUME Login!OneAdmin, ChangesOK, RolesHeld, BootOK
      PROVE  /\ ChangesOK' /\ RolesHeld' /\ BootOK'
             /\ Login!AllAdmins # {} => Login!AllAdmins' # {}
  <2>1. \A b \in Admins : admin'[b].at = "idle" /\ (b # a => admin[b].at = "idle")
    BY <1>2, <1>4, <1>7, OthersIdle DEF Login!Idle
  <2>2. sessions' = [t \in Tokens |-> Login!SessionRole(t, r.user, r.role)]
    <3>1. works = TRUE
      BY <1>3, <1>7, WorksIs DEF Login!OneAdmin
    <3> QED
      BY <1>3, <3>1
  <2>3. ChangesOK'
    BY <2>1 DEF ChangesOK
  <2>4. BootOK'
    BY <1>1, <1>7 DEF BootOK, GovernKept, Login!OneClient, Login!AtMostOne, Login!AllAdmins, Login!Admin
  <2>5. ASSUME ~overlapped, NEW t \in Tokens, sessions'[t] \notin {None, Gone},
               sessions'[t].subject = None, sessions'[t].role = "admin"
        PROVE  Login!Admin(sessions'[t].user)
    <3> DEFINE x == sessions'[t]
    <3>1. x = Login!SessionRole(t, r.user, r.role)
      BY <2>2
    <3>2. /\ x \in SessionRec /\ Login!HasSession(t) /\ sessions[t] \in SessionRec
          /\ x.user = sessions[t].user /\ x.subject = sessions[t].subject
          /\ IF sessions[t].user = r.user THEN x.role = IF r.role = None THEN "viewer" ELSE r.role
             ELSE x = sessions[t]
      BY <1>5, <2>5, <3>1
    <3>3. CASE sessions[t].user = r.user
      BY <2>5, <3>2, <3>3, <1>1, <1>7 DEF ChangesOK
    <3>4. CASE sessions[t].user # r.user
      BY <2>1, <3>4, <1>7, <2>5, <3>2 DEF RoleTold, RolesHeld
    <3> QED
      BY <3>3, <3>4
  <2>6. RolesHeld'
    BY <1>1, <1>7, <2>5 DEF RolesHeld, GovernKept, Login!HasSession, Login!Admin
  <2> QED
    BY <1>1, <2>3, <2>4, <2>6 DEF Login!AllAdmins, Login!Admin
<1> QED
  BY <1>1, <1>2, <1>4, <1>6, <1>7 DEF GovernStep

LEMMA Governed ==
    ASSUME Login!LoginAssumption, LoginTypes, NEW a \in Admins, Login!Govern(a) PROVE GovernStep(a)
  BY ChangeRoleStep, IsUserRoleStep, CountUsersStep, StoreRoleStep, RefreshStep DEF Login!Govern

LEMMA GovernedTypes ==
    ASSUME LoginTypes, NEW a \in Admins, GovernStep(a) PROVE LoginTypes'
<1>1. PICK s : AdminMoves(a, s)
  BY DEF GovernStep
<1>2. GovernKept /\ roles' \in [Users -> MaybeRole] /\ SessionsOK'
  BY DEF GovernStep
<1>3. StoreOK' /\ ClientsOK'
  BY <1>2 DEF LoginTypes, StoreOK, ClientsOK, GovernKept
<1>4. AdminsOK'
  BY <1>1, <1>2 DEF AdminMoves, LoginTypes, AdminsOK, GovernKept
<1> QED
  BY <1>2, <1>3, <1>4 DEF LoginTypes

----------------------------------------------------------------------------
(* Time, the invariant, and the properties. *)

\* What a row tells still holds later.
LEMMA LaterRow ==
    ASSUME Login!LoginAssumption, NEW e \in MaybeRow, NEW now \in Nat, NEW f, NEW unsaved, NEW max,
           RowOK(e, f, unsaved, max, now)
    PROVE  RowOK(e, f, unsaved, max, now + 1)
BY RowFields DEF MaybeRow, RowOK

LEMMA LaterTimes ==
    ASSUME NEW f, NEW max, NEW now \in Nat, TimesOK(f, max, now) PROVE TimesOK(f, max, now + 1)
BY DEF TimesOK

LEMMA LaterLocked ==
    ASSUME Login!LoginAssumption, NEW e \in MaybeRow, NEW now \in Nat, Login!Locked(e, now + 1)
    PROVE  Login!Locked(e, now)
BY RowFields DEF Login!Locked, MaybeRow

LEMMA Later ==
    ASSUME Login!LoginAssumption, LoginTypes, NEW c \in Clients, LimitsOf(client[c], limits, failed, clock)
    PROVE  LimitsOf(client[c], limits, failed, clock + 1)
<1> DEFINE r == client[c]
<1>1. limits \in [Login!Keys -> MaybeRow] /\ clock \in Nat
  BY DEF LoginTypes, StoreOK
<1>2. RowsOK(r, limits, failed, clock + 1)
  BY <1>1, LaterRow DEF LimitsOf, RowsOK
<1>3. r.at \in {"upsert", "count"} => r.left \in MaybeRow /\ r.key \in Login!Keys
  BY AtLimit DEF AttemptRec
<1>4. r.at = "upsert" => UpsertOK(r, limits, failed, clock + 1)
  <2> SUFFICES ASSUME r.at = "upsert" PROVE UpsertOK(r, limits, failed, clock + 1)
    OBVIOUS
  <2>1. UpsertOK(r, limits, failed, clock)
    BY DEF LimitsOf, AttemptOK
  <2>2. RowOK(r.left, failed[r.key], 0, Login!Max(r.key), clock + 1)
    BY <1>1, <1>3, <2>1, LaterRow DEF UpsertOK
  <2>3. Login!Locked(limits[r.key], clock + 1) => Login!Locked(limits[r.key], clock)
    BY <1>1, <1>3, LaterLocked
  <2> QED
    BY <2>1, <2>2, <2>3 DEF UpsertOK
<1>5. r.at = "count" => CountOK(r, failed, clock + 1)
  <2> SUFFICES ASSUME r.at = "count" PROVE CountOK(r, failed, clock + 1)
    OBVIOUS
  <2>1. CountOK(r, failed, clock)
    BY DEF LimitsOf, AttemptOK
  <2> QED
    BY <1>1, <1>3, <2>1, LaterRow DEF CountOK
<1>6. AttemptOK(r, limits, failed, clock + 1)
  BY <1>4, <1>5 DEF LimitsOf, AttemptOK
<1> QED
  BY <1>2, <1>6 DEF LimitsOf

LEMMA TickKeeps ==
    ASSUME Login!LoginAssumption, LoginTypes, Login!Tick
    PROVE  LoginTypes' /\ (RoleInv => RoleInv') /\ (LimitInv => LimitInv')
<1>1. UNCHANGED <<limits, roles, sessions, client, admin, failed, booted, overlapped, scenario>>
      /\ clock' = clock + 1 /\ clock \in Nat
  BY DEF Login!Tick, Login!tables, Login!history, Login!bounds, LoginTypes, StoreOK
<1>2. LoginTypes'
  BY <1>1 DEF LoginTypes, StoreOK, ClientsOK, AdminsOK, SessionsOK, Login!HasSession
<1>3. RoleInv => RoleInv'
  BY <1>1 DEF RoleInv, ChangesOK, RolesHeld, BootOK, RoleTold, Login!OneAdmin, Login!OneClient,
     Login!AtMostOne, Login!Admin, Login!AllAdmins, Login!HasSession
<1>4. LimitInv => LimitInv'
  <2> SUFFICES ASSUME LimitInv, Login!OneClient
               PROVE  /\ FailedOK(failed) /\ AllTimes(failed, clock + 1)
                      /\ \A c \in Clients : c \in scenario.clients =>
                            LimitsOf(client[c], limits, failed, clock + 1)
    BY <1>1 DEF LimitInv, FailedOK, Login!OneClient, Login!AtMostOne
  <2>1. FailedOK(failed) /\ AllTimes(failed, clock + 1)
    BY <1>1, LaterTimes DEF LimitInv, FailedOK, AllTimes
  <2> QED
    BY <2>1, Later DEF LimitInv
<1> QED
  BY <1>2, <1>3, <1>4

LEMMA ExpireKeeps ==
    ASSUME Login!LoginAssumption, LoginTypes, Login!Expire
    PROVE  LoginTypes' /\ (RoleInv => RoleInv') /\ (LimitInv => LimitInv')
<1>1. UNCHANGED <<limits, roles, client, admin, failed, booted, overlapped, scenario, clock>>
  BY DEF Login!Expire, Login!history, Login!bounds
<1>2. PICK t \in Tokens : Login!Valid(t) /\ sessions' = [sessions EXCEPT ![t].expired = TRUE]
  BY DEF Login!Expire
<1>3. Login!HasSession(t) /\ sessions[t] \in SessionRec
  BY <1>2, ValidSession DEF Login!Valid
<1> DEFINE x == [sessions[t] EXCEPT !.expired = TRUE]
<1>4. sessions' = [u \in Tokens |-> IF u = t THEN x ELSE sessions[u]]
  BY <1>2 DEF LoginTypes, SessionsOK
<1>5. x \in SessionRec /\ x.user = sessions[t].user /\ x.role = sessions[t].role
      /\ x.subject = sessions[t].subject
  BY <1>3 DEF SessionRec
<1> HIDE DEF x
<1>6. SessionsOK'
  BY <1>3, <1>4, <1>5 DEF LoginTypes, SessionsOK, Login!HasSession
<1>7. LoginTypes'
  BY <1>1, <1>6 DEF LoginTypes, StoreOK, ClientsOK, AdminsOK
<1>8. \A u \in Tokens : sessions'[u] \notin {None, Gone} =>
         /\ Login!HasSession(u) /\ sessions'[u].user = sessions[u].user
         /\ sessions'[u].role = sessions[u].role /\ sessions'[u].subject = sessions[u].subject
  BY <1>3, <1>4, <1>5 DEF Login!HasSession
<1>9. RoleInv => RoleInv'
  <2>1. RolesHeld => RolesHeld'
    BY <1>1, <1>8 DEF RolesHeld, RoleTold, Login!HasSession, Login!Admin
  <2>2. (ChangesOK => ChangesOK') /\ (BootOK => BootOK') /\ (Login!OneAdmin' => Login!OneAdmin)
    BY <1>1 DEF ChangesOK, BootOK, Login!OneAdmin, Login!OneClient, Login!AtMostOne, Login!Admin,
       Login!AllAdmins
  <2> QED
    BY <2>1, <2>2 DEF RoleInv
<1>10. LimitInv => LimitInv'
  BY <1>1 DEF LimitInv, Login!OneClient, Login!AtMostOne
<1> QED
  BY <1>7, <1>9, <1>10

LEMMA ServeKeeps ==
    ASSUME Login!LoginAssumption, LoginTypes, RoleInv, LimitInv, NEW c \in Clients, Login!Serve(c)
    PROVE  LoginTypes' /\ RoleInv' /\ LimitInv' /\ Login!LoginSteps
<1>1. c \in scenario.clients /\ ServeStep(c)
  BY Served, ServedBy
<1>2. LoginTypes'
  BY <1>1, ServedTypes
<1>3. Kept
  BY <1>1 DEF ServeStep
<1>4. /\ Login!OneAdmin => ChangesOK' /\ RolesHeld' /\ BootOK'
      /\ Login!OneAdmin /\ Login!AllAdmins # {} => Login!AllAdmins' # {}
  BY <1>1, ServedRoles DEF RoleInv
<1>5. RoleInv'
  BY <1>3, <1>4 DEF RoleInv, Kept, Login!OneAdmin, Login!AtMostOne
<1>6. PICK s : ClientMoves(c, s) /\ LimitsKept(c, s)
  BY <1>1 DEF ServeStep
<1>7. client'[c] = s
  BY <1>6 DEF ClientMoves, LoginTypes, ClientsOK
<1>8. ASSUME Login!OneClient
      PROVE  /\ FailedOK(failed') /\ AllTimes(failed', clock) /\ LimitsOf(client'[c], limits', failed', clock)
             /\ \A k \in Login!Keys : Login!LockStays(k)
             /\ \A d \in Clients : d \in scenario.clients => d = c
  BY <1>1, <1>6, <1>7, <1>8 DEF LimitInv, FailedOK, LimitsKept, Login!OneClient, Login!AtMostOne
<1>9. LimitInv'
  BY <1>3, <1>8 DEF LimitInv, FailedOK, Kept, Login!OneClient, Login!AtMostOne
<1>10. Login!LoginSteps
  BY <1>4, <1>8 DEF Login!LoginSteps
<1> QED
  BY <1>2, <1>5, <1>9, <1>10

LEMMA GovernKeeps ==
    ASSUME Login!LoginAssumption, LoginTypes, RoleInv, LimitInv, NEW a \in Admins, Login!Govern(a)
    PROVE  LoginTypes' /\ RoleInv' /\ LimitInv' /\ Login!LoginSteps
BY Governed, GovernedTypes, SameStays DEF GovernStep, RoleInv, GovernKept, Login!OneAdmin,
   Login!AtMostOne, LimitInv, Login!OneClient, Login!LoginSteps

LEMMA LoginKeeps ==
    ASSUME Login!LoginAssumption, LoginTypes, RoleInv, LimitInv, [Login!Next]_(Login!vars)
    PROVE  LoginTypes' /\ RoleInv' /\ LimitInv' /\ Login!LoginSteps
<1>1. CASE UNCHANGED Login!vars
  <2>1. UNCHANGED <<limits, roles, sessions, client, admin, failed, booted, overlapped, scenario, clock>>
    BY <1>1 DEF Login!vars, Login!tables, Login!history, Login!bounds
  <2>2. LoginTypes'
    BY <2>1 DEF LoginTypes, StoreOK, ClientsOK, AdminsOK, SessionsOK, Login!HasSession
  <2>3. RoleInv'
    BY <2>1 DEF RoleInv, ChangesOK, RolesHeld, BootOK, RoleTold, Login!OneAdmin, Login!OneClient,
       Login!AtMostOne, Login!Admin, Login!AllAdmins, Login!HasSession
  <2>4. LimitInv'
    BY <2>1 DEF LimitInv, Login!OneClient, Login!AtMostOne
  <2>5. Login!LoginSteps
    BY <2>1, SameStays DEF Login!LoginSteps, Login!AllAdmins, Login!Admin
  <2> QED
    BY <2>2, <2>3, <2>4, <2>5
<1>2. CASE Login!Tick \/ Login!Expire
  BY <1>2, SameStays, TickKeeps, ExpireKeeps DEF Login!Tick, Login!Expire, Login!tables,
     Login!LoginSteps, Login!AllAdmins, Login!Admin
<1>3. ASSUME NEW c \in Clients, Login!Serve(c) PROVE LoginTypes' /\ RoleInv' /\ LimitInv' /\ Login!LoginSteps
  BY <1>3, ServeKeeps
<1>4. ASSUME NEW a \in Admins, Login!Govern(a) PROVE LoginTypes' /\ RoleInv' /\ LimitInv' /\ Login!LoginSteps
  BY <1>4, GovernKeeps
<1> QED
  BY <1>1, <1>2, <1>3, <1>4 DEF Login!Next

\* The rows from before the start hold their attempts; nothing was locked since.
LEMMA InitLimits ==
    ASSUME Login!LoginAssumption, Login!Init PROVE LimitInv
<1>1. /\ scenario \in Scenarios /\ clock = 0 /\ limits = scenario.limits
      /\ client = [c \in Clients |-> Login!Idle]
      /\ failed = [k \in Login!Keys |->
            LET e == limits[k] IN
            [i \in 1 .. (IF e = None \/ e.until # None THEN 0 ELSE e.attempts) |-> e.first]]
  BY DEF Login!Init
<1>2. /\ limits \in [Login!Keys -> MaybeRow]
      /\ \A k \in Login!Keys : limits[k] # None /\ limits[k].until = None =>
            limits[k].first = 0 /\ limits[k].attempts <= Login!Max(k)
  BY <1>1 DEF Login!LoginAssumption, MaybeRow
<1>3. ASSUME NEW k \in Login!Keys
      PROVE  /\ TimesOK(failed[k], Login!Max(k), clock)
             /\ RowOK(limits[k], failed[k], 0, Login!Max(k), clock)
  <2>1. Login!Max(k) \in Nat \ {0} /\ limits[k] \in MaybeRow
    BY <1>2, MaxOK
  <2>2. CASE limits[k] = None \/ limits[k].until # None
    <3>1. failed[k] = [i \in 1 .. 0 |-> limits[k].first]
      BY <1>1, <2>2
    <3>2. failed[k] = <<>>
      BY <3>1
    <3> QED
      BY <2>1, <2>2, <3>2 DEF TimesOK, RowOK
  <2>3. CASE limits[k] # None /\ limits[k].until = None
    <3> DEFINE n == limits[k].attempts
    <3>1. n \in Nat /\ n <= Login!Max(k) /\ limits[k].first = 0
      BY <1>2, <2>1, <2>3, RowFields DEF MaybeRow
    <3>2. failed[k] = [i \in 1 .. n |-> 0]
      BY <1>1, <2>3, <3>1
    <3> HIDE DEF n
    <3>3. failed[k] \in Seq(Nat) /\ Len(failed[k]) = n /\ \A i \in 1 .. n : failed[k][i] = 0
      BY <3>1, <3>2
    <3>4. TimesOK(failed[k], Login!Max(k), clock)
      <4>1. \A i \in 1 .. n : ~(i + 2 * Login!Max(k) <= n)
        BY <2>1, <3>1
      <4>2. clock = 0 /\ \A i \in 1 .. Len(failed[k]) : failed[k][i] = 0
        BY <1>1, <3>3
      <4>3. \A i \in 1 .. Len(failed[k]) : ~(i + 2 * Login!Max(k) <= Len(failed[k]))
        BY <3>3, <4>1
      <4> QED
        BY <3>3, <4>2, <4>3 DEF TimesOK
    <3>5. RowOK(limits[k], failed[k], 0, Login!Max(k), clock)
      BY <2>1, <3>1, <1>1, <2>3, <3>3 DEF RowOK, n
    <3> QED
      BY <3>4, <3>5
  <2> QED
    BY <2>2, <2>3
<1>4. \A c \in Clients : LimitsOf(client[c], limits, failed, clock)
  BY <1>1, <1>3 DEF LimitsOf, RowsOK, AttemptOK, Pending, Passed, Login!Idle
<1>5. failed = [k \in Login!Keys |-> failed[k]] /\ AllTimes(failed, clock)
  BY <1>1, <1>3 DEF AllTimes
<1> QED
  BY <1>4, <1>5 DEF LimitInv

LEMMA InitRoles == ASSUME Login!Init PROVE RoleInv
  BY DEF Login!Init, Login!Idle, RoleInv, ChangesOK, RolesHeld, BootOK, Login!HasSession, Login!AtMostOne

\* The invariant gives what the runs check.
LEMMA LoginHolds ==
    ASSUME Login!LoginAssumption, LoginTypes, RoleInv, LimitInv PROVE Login!LoginInv
<1>1. Login!AttemptsBounded
  <2> SUFFICES ASSUME Login!OneClient, NEW k \in Login!Keys,
                      NEW i \in 1 .. Len(failed[k]) - 2 * Login!Max(k)
               PROVE  failed[k][i + 2 * Login!Max(k)] - failed[k][i] >= Lockouts[1]
    BY DEF Login!AttemptsBounded
  <2>1. TimesOK(failed[k], Login!Max(k), clock)
    BY DEF LimitInv, AllTimes
  <2>2. Len(failed[k]) \in Nat /\ Login!Max(k) \in Nat \ {0}
    BY <2>1, MaxOK DEF TimesOK
  <2>3. i \in 1 .. Len(failed[k]) /\ i + 2 * Login!Max(k) <= Len(failed[k])
    BY <2>2
  <2> QED
    BY <2>1, <2>3 DEF TimesOK, Shortest
<1>2. Login!RoleIsBacked
  BY DEF Login!RoleIsBacked, RoleInv, RolesHeld, RoleTold
<1>3. Login!OneBootstrap
  BY DEF Login!OneBootstrap, RoleInv, BootOK
<1> QED
  BY <1>1, <1>2, <1>3 DEF Login!LoginInv

\* LoginInv: from one client, and with a working store, more than twice the attempts of a
\* limit take at least the shortest lock; with one administrator a session that was let in as
\* admin has its explicit row; logins make at most one user admin.  LoginSteps: no step leaves
\* nobody as admin, and no lock goes before its time.
THEOREM LoginsHold ==
    ASSUME Login!LoginAssumption
    PROVE  Login!Spec => []Login!LoginInv /\ [][Login!LoginSteps]_(Login!vars)
<1> DEFINE HeldInv == LoginTypes /\ RoleInv /\ LimitInv
<1>1. Login!Init => HeldInv
  BY InitLogin, InitRoles, InitLimits
<1>2. HeldInv /\ [Login!Next]_(Login!vars) => HeldInv' /\ Login!LoginSteps
  BY LoginKeeps
<1>3. HeldInv => Login!LoginInv
  BY LoginHolds
<1> QED
  BY <1>1, <1>2, <1>3, PTL DEF Login!Spec
=============================================================================
