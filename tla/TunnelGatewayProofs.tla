------------------------- MODULE TunnelGatewayProofs ------------------------
(***************************************************************************)
(* Theorems about TunnelGateway for any number of sessions, agents and     *)
(* requests: its invariants, NoLiveRemoval, and the safety part of the     *)
(* refinement of RemoteCall.                                               *)
(***************************************************************************)
EXTENDS TunnelGateway, TLAPS

\* Sessions whose ConnectedTunnel has been registered at some time.
Registered == {s \in Sessions : loop[s] \in {"announce", "read", "pong", "drop", "done"}}

\* A goroutine is in handleDisconnect exactly when its loop says so, and only
\* for a tunnel that was registered and whose websocket no longer works.
DiscInv ==
    /\ \A p \in Procs : discPc[p] = "idle" <=> discOf[p] = None
    /\ \A s \in Sessions : loop[s] \in {"evict", "drop"} <=> discPc[s] # "idle"
    /\ \A s \in Sessions : loop[s] = "drop" => discOf[s] = s
    /\ \A p \in Procs : discPc[p] # "idle" =>
          discOf[p] \in Registered /\ ws[discOf[p]] # "open"
    /\ \A p \in Procs : discPc[p] \in {"reject", "status"} => tunnels # discOf[p]

\* A request is pending only in the tunnel its caller loaded, while the caller
\* has not returned, and what the channels hold was put there for that caller.
CallInv ==
    /\ \A r \in Requests : callOn[r] # None => callOn[r] \in Registered
    /\ \A r \in Requests : call[r] \in {"loaded", "stored", "waiting"} => callOn[r] # None
    /\ \A s \in Sessions : \A r \in pending[s] :
          callOn[r] = s /\ call[r] \in {"stored", "waiting"}
    /\ \A r \in Requests : callOn[r] = None => replies[r] = {}
    /\ \A r \in Requests : agent[r] # "unsent" => call[r] \in {"waiting", "done"}
    /\ \A r \in Requests : "result" \in replies[r] => agent[r] = "answered"
    /\ \A r \in Requests : call[r] = "done" <=> outcome[r] # "none"
    /\ \A r \in Requests : call[r] = "idle" => callOn[r] = None /\ agent[r] = "unsent"

IInv == TypeOK /\ NoGhostTunnel /\ DiscInv /\ CallInv /\ DroppedOnlyIfGone

\* Every step keeps the types.
LEMMA TypeStep == TypeOK /\ [Next]_vars => TypeOK'
<1> SUFFICES ASSUME TypeOK, [Next]_vars PROVE TypeOK'
  OBVIOUS
<1> USE TunnelAssumption DEF TypeOK, Procs, sessionVars, discVars, callVars
<1>1. ASSUME NEW s \in Sessions, Connect(s) PROVE TypeOK'
  BY <1>1 DEF Connect
<1>2. ASSUME NEW s \in Sessions, Break(s) PROVE TypeOK'
  BY <1>2 DEF Break
<1>3. ASSUME Age PROVE TypeOK'
  BY <1>3 DEF Age
<1>4. ASSUME NEW s \in Sessions, AuthFail(s) PROVE TypeOK'
  BY <1>4 DEF AuthFail
<1>5. ASSUME NEW s \in Sessions, AuthReject(s) PROVE TypeOK'
  BY <1>5 DEF AuthReject
<1>6. ASSUME NEW s \in Sessions, AuthEvict(s) PROVE TypeOK'
  BY <1>6 DEF AuthEvict
<1>7. ASSUME NEW s \in Sessions, AuthFree(s) PROVE TypeOK'
  BY <1>7 DEF AuthFree
<1>8. ASSUME NEW s \in Sessions, AuthStore(s) PROVE TypeOK'
  BY <1>8 DEF AuthStore
<1>9. ASSUME NEW s \in Sessions, AuthAnnounce(s) PROVE TypeOK'
  BY <1>9 DEF AuthAnnounce
<1>0. ASSUME NEW s \in Sessions, ReadPing(s) PROVE TypeOK'
  BY <1>0 DEF ReadPing, Touch
<1>10. ASSUME NEW s \in Sessions, ReadPong(s) PROVE TypeOK'
  BY <1>10 DEF ReadPong, Touch
<1>11. ASSUME NEW s \in Sessions, PongStatus(s) PROVE TypeOK'
  BY <1>11 DEF PongStatus
<1>12. ASSUME NEW s \in Sessions, ReadFail(s) PROVE TypeOK'
  BY <1>12 DEF ReadFail
<1>13. ASSUME NEW s \in Sessions, NEW r \in Requests, NEW kind \in {"result", "error"}, ReadAnswer(s, r, kind) PROVE TypeOK'
  BY <1>13 DEF ReadAnswer, Touch
<1>14. ASSUME NEW p \in Procs, DiscSkip(p) PROVE TypeOK'
  BY <1>14 DEF DiscSkip, DiscReturn
<1>15. ASSUME NEW p \in Procs, DiscDelete(p) PROVE TypeOK'
  BY <1>15 DEF DiscDelete
<1>16. ASSUME NEW p \in Procs, DiscReject(p) PROVE TypeOK'
  BY <1>16 DEF DiscReject
<1>17. ASSUME NEW p \in Procs, DiscStatus(p) PROVE TypeOK'
  BY <1>17 DEF DiscStatus, DiscReturn
<1>18. ASSUME HeartDrop PROVE TypeOK'
  BY <1>18 DEF HeartDrop
<1>19. ASSUME NEW r \in Requests, CallOffline(r) PROVE TypeOK'
  BY <1>19 DEF CallOffline
<1>20. ASSUME NEW r \in Requests, CallLoad(r) PROVE TypeOK'
  BY <1>20 DEF CallLoad
<1>21. ASSUME NEW r \in Requests, CallStore(r) PROVE TypeOK'
  BY <1>21 DEF CallStore
<1>22. ASSUME NEW r \in Requests, CallWrite(r) PROVE TypeOK'
  BY <1>22 DEF CallWrite
<1>23. ASSUME NEW r \in Requests, CallWriteFails(r) PROVE TypeOK'
  BY <1>23 DEF CallWriteFails, CallReturn
<1>24. ASSUME NEW r \in Requests, NEW reply \in {"result", "error", "dropped"}, CallAnswered(r, reply) PROVE TypeOK'
  BY <1>24 DEF CallAnswered, CallReturn
<1>25. ASSUME NEW r \in Requests, CallTimeout(r) PROVE TypeOK'
  BY <1>25 DEF CallTimeout, CallReturn
<1>26. ASSUME NEW r \in Requests, CallForget(r) PROVE TypeOK'
  BY <1>26 DEF CallForget
<1>27. CASE UNCHANGED vars
  BY <1>27 DEF vars
<1> HIDE DEF TypeOK, Procs, sessionVars, discVars, callVars
<1> QED
  BY <1>0, <1>1, <1>2, <1>3, <1>4, <1>5, <1>6, <1>7, <1>8, <1>9, <1>10, <1>11, <1>12, <1>13, <1>14,
     <1>15, <1>16, <1>17, <1>18, <1>19, <1>20, <1>21, <1>22, <1>23, <1>24, <1>25, <1>26, <1>27
     DEF Next, SessionStep, AnswerStep, DiscStep, CallStep

\* Every step keeps a registered tunnel in the care of its readLoop.
LEMMA GhostStep == TypeOK /\ NoGhostTunnel /\ DiscInv /\ [Next]_vars => NoGhostTunnel'
<1> SUFFICES ASSUME TypeOK, NoGhostTunnel, DiscInv, [Next]_vars PROVE NoGhostTunnel'
  OBVIOUS
<1> USE TunnelAssumption DEF TypeOK, NoGhostTunnel, DiscInv, Registered, Procs, sessionVars, discVars, callVars
<1>1. ASSUME NEW s \in Sessions, Connect(s) PROVE NoGhostTunnel'
  BY <1>1 DEF Connect, Unreferenced
<1>2. ASSUME NEW s \in Sessions, Break(s) PROVE NoGhostTunnel'
  BY <1>2 DEF Break
<1>3. ASSUME Age PROVE NoGhostTunnel'
  BY <1>3 DEF Age
<1>4. ASSUME NEW s \in Sessions, AuthFail(s) PROVE NoGhostTunnel'
  BY <1>4 DEF AuthFail
<1>5. ASSUME NEW s \in Sessions, AuthReject(s) PROVE NoGhostTunnel'
  BY <1>5 DEF AuthReject
<1>6. ASSUME NEW s \in Sessions, AuthEvict(s) PROVE NoGhostTunnel'
  BY <1>6 DEF AuthEvict
<1>7. ASSUME NEW s \in Sessions, AuthFree(s) PROVE NoGhostTunnel'
  BY <1>7 DEF AuthFree
<1>8. ASSUME NEW s \in Sessions, AuthStore(s) PROVE NoGhostTunnel'
  BY <1>8 DEF AuthStore
<1>9. ASSUME NEW s \in Sessions, AuthAnnounce(s) PROVE NoGhostTunnel'
  BY <1>9 DEF AuthAnnounce
<1>0. ASSUME NEW s \in Sessions, ReadPing(s) PROVE NoGhostTunnel'
  BY <1>0 DEF ReadPing, Touch
<1>10. ASSUME NEW s \in Sessions, ReadPong(s) PROVE NoGhostTunnel'
  BY <1>10 DEF ReadPong, Touch
<1>11. ASSUME NEW s \in Sessions, PongStatus(s) PROVE NoGhostTunnel'
  BY <1>11 DEF PongStatus
<1>12. ASSUME NEW s \in Sessions, ReadFail(s) PROVE NoGhostTunnel'
  BY <1>12 DEF ReadFail
<1>13. ASSUME NEW s \in Sessions, NEW r \in Requests, NEW kind \in {"result", "error"}, ReadAnswer(s, r, kind) PROVE NoGhostTunnel'
  BY <1>13 DEF ReadAnswer, Touch
<1>14. ASSUME NEW p \in Procs, DiscSkip(p) PROVE NoGhostTunnel'
  BY <1>14 DEF DiscSkip, DiscReturn
<1>15. ASSUME NEW p \in Procs, DiscDelete(p) PROVE NoGhostTunnel'
  BY <1>15 DEF DiscDelete
<1>16. ASSUME NEW p \in Procs, DiscReject(p) PROVE NoGhostTunnel'
  BY <1>16 DEF DiscReject
<1>17. ASSUME NEW p \in Procs, DiscStatus(p) PROVE NoGhostTunnel'
  BY <1>17 DEF DiscStatus, DiscReturn
<1>18. ASSUME HeartDrop PROVE NoGhostTunnel'
  BY <1>18 DEF HeartDrop
<1>19. ASSUME NEW r \in Requests, CallOffline(r) PROVE NoGhostTunnel'
  BY <1>19 DEF CallOffline
<1>20. ASSUME NEW r \in Requests, CallLoad(r) PROVE NoGhostTunnel'
  BY <1>20 DEF CallLoad
<1>21. ASSUME NEW r \in Requests, CallStore(r) PROVE NoGhostTunnel'
  BY <1>21 DEF CallStore
<1>22. ASSUME NEW r \in Requests, CallWrite(r) PROVE NoGhostTunnel'
  BY <1>22 DEF CallWrite
<1>23. ASSUME NEW r \in Requests, CallWriteFails(r) PROVE NoGhostTunnel'
  BY <1>23 DEF CallWriteFails, CallReturn
<1>24. ASSUME NEW r \in Requests, NEW reply \in {"result", "error", "dropped"}, CallAnswered(r, reply) PROVE NoGhostTunnel'
  BY <1>24 DEF CallAnswered, CallReturn
<1>25. ASSUME NEW r \in Requests, CallTimeout(r) PROVE NoGhostTunnel'
  BY <1>25 DEF CallTimeout, CallReturn
<1>26. ASSUME NEW r \in Requests, CallForget(r) PROVE NoGhostTunnel'
  BY <1>26 DEF CallForget
<1>27. CASE UNCHANGED vars
  BY <1>27 DEF vars
<1> HIDE DEF TypeOK, NoGhostTunnel, DiscInv, Registered, Procs, sessionVars, discVars, callVars
<1> QED
  BY <1>0, <1>1, <1>2, <1>3, <1>4, <1>5, <1>6, <1>7, <1>8, <1>9, <1>10, <1>11, <1>12, <1>13, <1>14,
     <1>15, <1>16, <1>17, <1>18, <1>19, <1>20, <1>21, <1>22, <1>23, <1>24, <1>25, <1>26, <1>27
     DEF Next, SessionStep, AnswerStep, DiscStep, CallStep

\* Every step keeps who is in handleDisconnect, and for which tunnel.
LEMMA DiscInvStep == TypeOK /\ NoGhostTunnel /\ DiscInv /\ [Next]_vars => DiscInv'
<1> SUFFICES ASSUME TypeOK, NoGhostTunnel, DiscInv, [Next]_vars PROVE DiscInv'
  OBVIOUS
<1> USE TunnelAssumption DEF TypeOK, NoGhostTunnel, DiscInv, Registered, Procs, sessionVars, discVars, callVars
<1>1. ASSUME NEW s \in Sessions, Connect(s) PROVE DiscInv'
  BY <1>1 DEF Connect, Unreferenced
<1>2. ASSUME NEW s \in Sessions, Break(s) PROVE DiscInv'
  BY <1>2 DEF Break
<1>3. ASSUME Age PROVE DiscInv'
  BY <1>3 DEF Age
<1>4. ASSUME NEW s \in Sessions, AuthFail(s) PROVE DiscInv'
  BY <1>4 DEF AuthFail
<1>5. ASSUME NEW s \in Sessions, AuthReject(s) PROVE DiscInv'
  BY <1>5 DEF AuthReject
<1>6. ASSUME NEW s \in Sessions, AuthEvict(s) PROVE DiscInv'
  BY <1>6 DEF AuthEvict
<1>7. ASSUME NEW s \in Sessions, AuthFree(s) PROVE DiscInv'
  BY <1>7 DEF AuthFree
<1>8. ASSUME NEW s \in Sessions, AuthStore(s) PROVE DiscInv'
  BY <1>8 DEF AuthStore
<1>9. ASSUME NEW s \in Sessions, AuthAnnounce(s) PROVE DiscInv'
  BY <1>9 DEF AuthAnnounce
<1>0. ASSUME NEW s \in Sessions, ReadPing(s) PROVE DiscInv'
  BY <1>0 DEF ReadPing, Touch
<1>10. ASSUME NEW s \in Sessions, ReadPong(s) PROVE DiscInv'
  BY <1>10 DEF ReadPong, Touch
<1>11. ASSUME NEW s \in Sessions, PongStatus(s) PROVE DiscInv'
  BY <1>11 DEF PongStatus
<1>12. ASSUME NEW s \in Sessions, ReadFail(s) PROVE DiscInv'
  BY <1>12 DEF ReadFail
<1>13. ASSUME NEW s \in Sessions, NEW r \in Requests, NEW kind \in {"result", "error"}, ReadAnswer(s, r, kind) PROVE DiscInv'
  BY <1>13 DEF ReadAnswer, Touch
<1>14. ASSUME NEW p \in Procs, DiscSkip(p) PROVE DiscInv'
  BY <1>14 DEF DiscSkip, DiscReturn
<1>15. ASSUME NEW p \in Procs, DiscDelete(p) PROVE DiscInv'
  BY <1>15 DEF DiscDelete
<1>16. ASSUME NEW p \in Procs, DiscReject(p) PROVE DiscInv'
  BY <1>16 DEF DiscReject
<1>17. ASSUME NEW p \in Procs, DiscStatus(p) PROVE DiscInv'
  BY <1>17 DEF DiscStatus, DiscReturn
<1>18. ASSUME HeartDrop PROVE DiscInv'
  BY <1>18 DEF HeartDrop
<1>19. ASSUME NEW r \in Requests, CallOffline(r) PROVE DiscInv'
  BY <1>19 DEF CallOffline
<1>20. ASSUME NEW r \in Requests, CallLoad(r) PROVE DiscInv'
  BY <1>20 DEF CallLoad
<1>21. ASSUME NEW r \in Requests, CallStore(r) PROVE DiscInv'
  BY <1>21 DEF CallStore
<1>22. ASSUME NEW r \in Requests, CallWrite(r) PROVE DiscInv'
  BY <1>22 DEF CallWrite
<1>23. ASSUME NEW r \in Requests, CallWriteFails(r) PROVE DiscInv'
  BY <1>23 DEF CallWriteFails, CallReturn
<1>24. ASSUME NEW r \in Requests, NEW reply \in {"result", "error", "dropped"}, CallAnswered(r, reply) PROVE DiscInv'
  BY <1>24 DEF CallAnswered, CallReturn
<1>25. ASSUME NEW r \in Requests, CallTimeout(r) PROVE DiscInv'
  BY <1>25 DEF CallTimeout, CallReturn
<1>26. ASSUME NEW r \in Requests, CallForget(r) PROVE DiscInv'
  BY <1>26 DEF CallForget
<1>27. CASE UNCHANGED vars
  BY <1>27 DEF vars
<1> HIDE DEF TypeOK, NoGhostTunnel, DiscInv, Registered, Procs, sessionVars, discVars, callVars
<1> QED
  BY <1>0, <1>1, <1>2, <1>3, <1>4, <1>5, <1>6, <1>7, <1>8, <1>9, <1>10, <1>11, <1>12, <1>13, <1>14,
     <1>15, <1>16, <1>17, <1>18, <1>19, <1>20, <1>21, <1>22, <1>23, <1>24, <1>25, <1>26, <1>27
     DEF Next, SessionStep, AnswerStep, DiscStep, CallStep

\* Every step keeps the pending requests with the callers that own them.
LEMMA CallInvStep == TypeOK /\ NoGhostTunnel /\ DiscInv /\ CallInv /\ [Next]_vars => CallInv'
<1> SUFFICES ASSUME TypeOK, NoGhostTunnel, DiscInv, CallInv, [Next]_vars PROVE CallInv'
  OBVIOUS
<1> USE TunnelAssumption DEF TypeOK, NoGhostTunnel, DiscInv, CallInv, Registered, Procs, sessionVars, discVars, callVars
<1>1. ASSUME NEW s \in Sessions, Connect(s) PROVE CallInv'
  BY <1>1 DEF Connect, Unreferenced
<1>2. ASSUME NEW s \in Sessions, Break(s) PROVE CallInv'
  BY <1>2 DEF Break
<1>3. ASSUME Age PROVE CallInv'
  BY <1>3 DEF Age
<1>4. ASSUME NEW s \in Sessions, AuthFail(s) PROVE CallInv'
  BY <1>4 DEF AuthFail
<1>5. ASSUME NEW s \in Sessions, AuthReject(s) PROVE CallInv'
  BY <1>5 DEF AuthReject
<1>6. ASSUME NEW s \in Sessions, AuthEvict(s) PROVE CallInv'
  BY <1>6 DEF AuthEvict
<1>7. ASSUME NEW s \in Sessions, AuthFree(s) PROVE CallInv'
  BY <1>7 DEF AuthFree
<1>8. ASSUME NEW s \in Sessions, AuthStore(s) PROVE CallInv'
  BY <1>8 DEF AuthStore
<1>9. ASSUME NEW s \in Sessions, AuthAnnounce(s) PROVE CallInv'
  BY <1>9 DEF AuthAnnounce
<1>0. ASSUME NEW s \in Sessions, ReadPing(s) PROVE CallInv'
  BY <1>0 DEF ReadPing, Touch
<1>10. ASSUME NEW s \in Sessions, ReadPong(s) PROVE CallInv'
  BY <1>10 DEF ReadPong, Touch
<1>11. ASSUME NEW s \in Sessions, PongStatus(s) PROVE CallInv'
  BY <1>11 DEF PongStatus
<1>12. ASSUME NEW s \in Sessions, ReadFail(s) PROVE CallInv'
  BY <1>12 DEF ReadFail
<1>13. ASSUME NEW s \in Sessions, NEW r \in Requests, NEW kind \in {"result", "error"}, ReadAnswer(s, r, kind) PROVE CallInv'
  BY <1>13 DEF ReadAnswer, Touch
<1>14. ASSUME NEW p \in Procs, DiscSkip(p) PROVE CallInv'
  BY <1>14 DEF DiscSkip, DiscReturn
<1>15. ASSUME NEW p \in Procs, DiscDelete(p) PROVE CallInv'
  BY <1>15 DEF DiscDelete
<1>16. ASSUME NEW p \in Procs, DiscReject(p) PROVE CallInv'
  BY <1>16 DEF DiscReject
<1>17. ASSUME NEW p \in Procs, DiscStatus(p) PROVE CallInv'
  BY <1>17 DEF DiscStatus, DiscReturn
<1>18. ASSUME HeartDrop PROVE CallInv'
  BY <1>18 DEF HeartDrop
<1>19. ASSUME NEW r \in Requests, CallOffline(r) PROVE CallInv'
  BY <1>19 DEF CallOffline
<1>20. ASSUME NEW r \in Requests, CallLoad(r) PROVE CallInv'
  BY <1>20 DEF CallLoad
<1>21. ASSUME NEW r \in Requests, CallStore(r) PROVE CallInv'
  BY <1>21 DEF CallStore
<1>22. ASSUME NEW r \in Requests, CallWrite(r) PROVE CallInv'
  BY <1>22 DEF CallWrite
<1>23. ASSUME NEW r \in Requests, CallWriteFails(r) PROVE CallInv'
  BY <1>23 DEF CallWriteFails, CallReturn
<1>24. ASSUME NEW r \in Requests, NEW reply \in {"result", "error", "dropped"}, CallAnswered(r, reply) PROVE CallInv'
  BY <1>24 DEF CallAnswered, CallReturn
<1>25. ASSUME NEW r \in Requests, CallTimeout(r) PROVE CallInv'
  BY <1>25 DEF CallTimeout, CallReturn
<1>26. ASSUME NEW r \in Requests, CallForget(r) PROVE CallInv'
  BY <1>26 DEF CallForget
<1>27. CASE UNCHANGED vars
  BY <1>27 DEF vars
<1> HIDE DEF TypeOK, NoGhostTunnel, DiscInv, CallInv, Registered, Procs, sessionVars, discVars, callVars
<1> QED
  BY <1>0, <1>1, <1>2, <1>3, <1>4, <1>5, <1>6, <1>7, <1>8, <1>9, <1>10, <1>11, <1>12, <1>13, <1>14,
     <1>15, <1>16, <1>17, <1>18, <1>19, <1>20, <1>21, <1>22, <1>23, <1>24, <1>25, <1>26, <1>27
     DEF Next, SessionStep, AnswerStep, DiscStep, CallStep

\* Every step rejects only calls of tunnels that left the registry.
LEMMA DroppedStep ==
  TypeOK /\ NoGhostTunnel /\ DiscInv /\ CallInv /\ DroppedOnlyIfGone /\ [Next]_vars
    => DroppedOnlyIfGone'
<1> SUFFICES ASSUME TypeOK, NoGhostTunnel, DiscInv, CallInv, DroppedOnlyIfGone, [Next]_vars
             PROVE  DroppedOnlyIfGone'
  OBVIOUS
<1> USE TunnelAssumption DEF TypeOK, DroppedOnlyIfGone, sessionVars, discVars, callVars
\* Only four kinds of step change the registry, the replies or what a call is on.
<1>1. ASSUME NEW s \in Sessions, AuthStore(s) PROVE DroppedOnlyIfGone'
  BY <1>1 DEF AuthStore, CallInv, Registered
<1>2. ASSUME NEW s \in Sessions, NEW r \in Requests,
             NEW kind \in {"result", "error"}, ReadAnswer(s, r, kind)
      PROVE  DroppedOnlyIfGone'
  BY <1>2 DEF ReadAnswer
<1>3. ASSUME NEW p \in Procs, DiscDelete(p) PROVE DroppedOnlyIfGone'
  BY <1>3 DEF DiscDelete, CallInv
<1>4. ASSUME NEW p \in Procs, DiscReject(p) PROVE DroppedOnlyIfGone'
  BY <1>4 DEF DiscReject, DiscInv, CallInv, Procs
<1>5. ASSUME NEW r \in Requests, CallLoad(r) PROVE DroppedOnlyIfGone'
  BY <1>5 DEF CallLoad, CallInv
<1>6. ASSUME NEW r \in Requests, CallForget(r) PROVE DroppedOnlyIfGone'
  BY <1>6 DEF CallForget
<1>7. CASE UNCHANGED <<tunnels, callOn, replies>>
  BY <1>7
<1> HIDE DEF TypeOK, DroppedOnlyIfGone
<1> QED
  BY <1>1, <1>2, <1>3, <1>4, <1>5, <1>6, <1>7
     DEF Next, SessionStep, AnswerStep, DiscStep, CallStep, vars,
         Connect, Break, Age, AuthFail, AuthReject, AuthEvict, AuthFree,
         AuthAnnounce, ReadPing, ReadPong, Touch, PongStatus, ReadFail, DiscSkip, DiscStatus,
         HeartDrop, CallOffline, CallStore, CallWrite, CallWriteFails,
         CallAnswered, CallTimeout, CallReturn

\* Together the invariants hold in every reachable state.
LEMMA InductiveInvariant == Spec => []IInv
<1>1. Init => IInv
  BY TunnelAssumption
     DEF Init, IInv, TypeOK, NoGhostTunnel, DiscInv, CallInv, DroppedOnlyIfGone,
         Registered, Procs
<1>2. IInv /\ [Next]_vars => IInv'
  BY TypeStep, GhostStep, DiscInvStep, CallInvStep, DroppedStep DEF IInv
<1> QED
  BY <1>1, <1>2, PTL DEF Spec

\* Every reachable state has the types TypeOK gives the gateway's state.
THEOREM TypeCorrect == Spec => []TypeOK
<1>1. IInv => TypeOK
  BY DEF IInv
<1> QED
  BY <1>1, InductiveInvariant, PTL

\* A registered tunnel always has a readLoop that serves it or is about to
\* remove it (handleAuth, readLoop and handleDisconnect together).
THEOREM NoGhostTunnels == Spec => []NoGhostTunnel
<1>1. IInv => NoGhostTunnel
  BY DEF IInv
<1> QED
  BY <1>1, InductiveInvariant, PTL

\* "tunnel disconnected" reaches only calls whose own tunnel left the registry.
THEOREM DroppedCallsAreGone == Spec => []DroppedOnlyIfGone
<1>1. IInv => DroppedOnlyIfGone
  BY DEF IInv
<1> QED
  BY <1>1, InductiveInvariant, PTL

\* The registry and the calls agree on which tunnels are served.
THEOREM RegistryIsSound == Spec => []RegistryInv
<1>1. NoGhostTunnel /\ DroppedOnlyIfGone => RegistryInv
  BY DEF RegistryInv
<1> QED
  BY <1>1, NoGhostTunnels, DroppedCallsAreGone, PTL

\* handleDisconnect never takes a tunnel with a working websocket out of the
\* registry, although it runs in any goroutine and compares only pointers.
THEOREM LiveTunnelsAreNotRemoved == Spec => NoLiveRemoval
<1>1. IInv /\ [Next]_vars
        => [\A s \in Sessions : tunnels = s /\ tunnels' = None => ws[s] # "open"]_vars
  <2> SUFFICES ASSUME IInv, Next, NEW s \in Sessions, tunnels = s, tunnels' = None
               PROVE  ws[s] # "open"
    BY DEF vars
  <2>1. PICK p \in Procs : DiscDelete(p)
    BY TunnelAssumption
       DEF Next, SessionStep, AnswerStep, DiscStep, CallStep, sessionVars,
           Connect, Break, Age, AuthFail, AuthReject, AuthEvict, AuthFree,
           AuthStore, AuthAnnounce, ReadPing, ReadPong, PongStatus, ReadFail, ReadAnswer,
           DiscSkip, DiscReject, DiscStatus, HeartDrop, CallOffline, CallLoad,
           CallStore, CallWrite, CallWriteFails, CallAnswered, CallTimeout,
           CallReturn, CallForget
  <2> QED
    BY <2>1 DEF IInv, DiscInv, DiscDelete
<1> QED
  BY <1>1, InductiveInvariant, PTL DEF Spec, NoLiveRemoval

\* A call that returns o ends in phase o, and no other call moves.
LEMMA PhaseReturn ==
  ASSUME TypeOK, NEW r \in Requests, NEW o,
         call' = [call EXCEPT ![r] = "done"], outcome' = [outcome EXCEPT ![r] = o]
  PROVE  Phase' = [Phase EXCEPT ![r] = o]
<1>1. ASSUME NEW q \in Requests
      PROVE  Phase'[q] = [Phase EXCEPT ![r] = o][q]
  <2>1. CASE q = r
    BY <2>1 DEF Phase, TypeOK
  <2>2. CASE q # r
    BY <2>2 DEF Phase, TypeOK
  <2> QED
    BY <2>1, <2>2
<1>2. Phase' = [q \in Requests |-> Phase'[q]]
  BY DEF Phase
<1>3. [Phase EXCEPT ![r] = o] = [q \in Requests |-> [Phase EXCEPT ![r] = o][q]]
  BY DEF Phase
<1> QED
  BY <1>1, <1>2, <1>3, Zenon

\* The gateway implements RemoteCall: whatever the interleaving of sessions,
\* disconnects and time-outs, a caller gets a result only if the agent has
\* answered that very call, and each call ends at most once.
THEOREM ImplementsRemoteCall == Spec => RemoteCallSpec
<1>1. Init => RC!Init
  BY DEF Init, RC!Init, Phase, Executed
<1>2. IInv /\ [Next]_vars => [RC!Next]_RC!vars
  <2> SUFFICES ASSUME IInv, [Next]_vars PROVE [RC!Next]_RC!vars
    OBVIOUS
  <2>1. ASSUME NEW s \in Sessions, NEW r \in Requests,
               NEW kind \in {"result", "error"}, ReadAnswer(s, r, kind)
        PROVE  RC!Execute(r)
    BY <2>1 DEF IInv, TypeOK, CallInv, ReadAnswer, callVars, Phase, Executed, RC!Execute
  <2>2. ASSUME NEW r \in Requests, CallOffline(r) PROVE RC!Refuse(r)
    <3>1. Phase' = [Phase EXCEPT ![r] = "error"]
      BY <2>2, PhaseReturn DEF IInv, CallOffline
    <3>2. Phase[r] = "idle" /\ UNCHANGED Executed
      BY <2>2 DEF CallOffline, Phase, Executed
    <3> QED
      BY <3>1, <3>2 DEF RC!Refuse
  <2>3. ASSUME NEW r \in Requests, CallLoad(r) PROVE RC!Begin(r)
    <3>1. Phase' = [Phase EXCEPT ![r] = "running"]
      BY <2>3 DEF IInv, TypeOK, CallLoad, Phase
    <3>2. Phase[r] = "idle" /\ UNCHANGED Executed
      BY <2>3 DEF CallLoad, Phase, Executed
    <3> QED
      BY <3>1, <3>2 DEF RC!Begin
  <2>4. ASSUME NEW r \in Requests, CallStore(r) PROVE UNCHANGED RC!vars
    BY <2>4 DEF IInv, TypeOK, CallStore, Phase, Executed, RC!vars
  <2>5. ASSUME NEW r \in Requests, CallWrite(r) PROVE UNCHANGED RC!vars
    BY <2>5 DEF IInv, TypeOK, CallInv, CallWrite, Phase, Executed, RC!vars
  <2>6. ASSUME NEW r \in Requests, NEW o \in RC!Endings, CallReturn(r, o),
               call[r] \in {"stored", "waiting"}, o = "result" => r \in Executed
        PROVE  RC!End(r, o)
    <3>1. Phase' = [Phase EXCEPT ![r] = o]
      BY <2>6, PhaseReturn DEF IInv, CallReturn
    <3>2. Phase[r] = "running" /\ UNCHANGED Executed
      BY <2>6 DEF CallReturn, Phase, Executed
    <3> QED
      BY <2>6, <3>1, <3>2 DEF RC!End
  <2>7. ASSUME NEW r \in Requests, CallWriteFails(r) \/ CallTimeout(r) PROVE RC!Next
    BY <2>6, <2>7 DEF CallWriteFails, CallTimeout, RC!Next, RC!Endings
  <2>8. ASSUME NEW r \in Requests, NEW reply \in {"result", "error", "dropped"},
               CallAnswered(r, reply)
        PROVE  RC!Next
    <3> DEFINE o == IF reply = "result" THEN "result" ELSE "error"
    <3>1. o = "result" => r \in Executed
      BY <2>8 DEF CallAnswered, IInv, CallInv, Executed
    <3>2. RC!End(r, o) /\ o \in RC!Endings
      BY <2>6, <2>8, <3>1 DEF CallAnswered, RC!Endings
    <3> QED
      BY <3>2 DEF RC!Next
  <2>9. ASSUME NEW r \in Requests, CallForget(r) PROVE RC!Forget(r)
    <3>1. Phase[r] \in RC!Endings
      BY <2>9 DEF CallForget, Phase, IInv, TypeOK, CallInv, RC!Endings
    <3>2. Phase' = [Phase EXCEPT ![r] = "idle"]
      BY <2>9 DEF CallForget, Phase, IInv, TypeOK
    <3>3. Executed' = Executed \ {r}
      BY <2>9 DEF CallForget, Executed, IInv, TypeOK
    <3> QED
      BY <3>1, <3>2, <3>3 DEF RC!Forget
  <2>10. CASE UNCHANGED <<call, outcome, agent>>
    BY <2>10 DEF Phase, Executed, RC!vars
  <2> QED
    BY <2>1, <2>2, <2>3, <2>4, <2>5, <2>6, <2>7, <2>8, <2>9, <2>10
       DEF RC!Next, Next, SessionStep, AnswerStep, DiscStep, CallStep, vars, callVars,
           Connect, Break, Age, AuthFail, AuthReject, AuthEvict, AuthFree,
           AuthStore, AuthAnnounce, ReadPing, ReadPong, PongStatus, ReadFail,
           DiscSkip, DiscDelete, DiscReject, DiscStatus, HeartDrop
<1> QED
  BY <1>1, <1>2, InductiveInvariant, PTL DEF Spec, RC!Spec, RemoteCallSpec

=============================================================================
