--------------------------- MODULE ConnectorProofs ---------------------------
(***************************************************************************)
(* SocketInv and AnswersReachAsker of the agent, for any number of         *)
(* websockets and of queries, any delays, and any number of broken         *)
(* connections.                                                            *)
(* Below, ServerInv of the other processes, the commands around the        *)
(* server, for any number of them.                                         *)
(***************************************************************************)
EXTENDS Connector, Sequences, FiniteSetTheorems, TLAPS

(***************************************************************************)
(* connect and messageLoop pass the live websocket from one field to the   *)
(* other: it is conn, except between the dial and the assignment of conn,  *)
(* when only the local variable holds it.  A failed connect leaves a       *)
(* closed websocket in conn, and reconnect dials only after the reader has *)
(* seen conn fail, so that a second one never comes to life.               *)
(***************************************************************************)
LiveIsHeld ==
    /\ \A s \in Sockets : ws[s] = "open" => s = IF pc = "store" THEN sock ELSE conn
    /\ pc \in {"dial", "wait"} => \A s \in Sockets : ws[s] # "open"
    /\ pc \in {"auth", "reply"} => conn = sock
    /\ pc = "loop" /\ ~cancelled => conn # None

\* A running query came on some websocket, and never on the one just dialled.
AskedOnOther ==
    \A q \in Queries :
        /\ query[q].at = "running" => query[q].on # None
        /\ pc = "store" => query[q].on # sock

HoldInv == TypeOK /\ LiveIsHeld /\ AskedOnOther

LEMMA HoldInit == Init => HoldInv
<1> SUFFICES ASSUME Init PROVE HoldInv
  OBVIOUS
<1>1. ws \in [Sockets -> {"open", "gone", "closed"}] /\ \A s \in Sockets : ws[s] = "closed"
  BY DEF Init
<1>2. /\ query \in [Queries -> [at : {"idle", "running", "answered", "stray", "lost"},
                                on : Sockets \cup {None}]]
      /\ \A q \in Queries : query[q] = Idle
  BY DEF Init, Idle
<1>3. MinDelay \in MinDelay .. MaxDelay /\ 0 \in Nat /\ 0 \in 0 .. 2
  BY ConnectorAssumption
<1>4. TypeOK
  BY <1>1, <1>2, <1>3, ConnectorAssumption DEF ConnectorAssumption, Init, TypeOK
<1>5. LiveIsHeld
  BY <1>1 DEF Init, LiveIsHeld
<1>6. AskedOnOther
  BY <1>2 DEF Init, AskedOnOther, Idle
<1> QED
  BY <1>4, <1>5, <1>6 DEF HoldInv

\* Every step keeps it.
LEMMA HoldStep == HoldInv /\ [Next]_vars => HoldInv'
<1> SUFFICES ASSUME HoldInv, [Next]_vars PROVE HoldInv'
  OBVIOUS
<1>c. /\ Embedded \in BOOLEAN /\ None \notin Sockets
      /\ MinDelay \in Nat /\ MaxDelay \in Nat /\ MaxTroubles \in Nat
      /\ 0 < MinDelay /\ MinDelay <= MaxDelay
  BY ConnectorAssumption
<1> USE <1>c DEF HoldInv, TypeOK, LiveIsHeld, AskedOnOther, Alive, socketVars, endVars, envVars
<1>1. ASSUME NEW s \in Sockets, Dial(s) PROVE HoldInv'
  BY <1>1 DEF Dial, Referenced
<1>2. ASSUME DialFails PROVE HoldInv'
  BY <1>2 DEF DialFails, Failed, Trouble
<1>3. ASSUME StoreConn PROVE HoldInv'
  BY <1>3 DEF StoreConn
<1>4. ASSUME SendAuth PROVE HoldInv'
  BY <1>4 DEF SendAuth
<1>5. ASSUME AuthBreaks PROVE HoldInv'
  BY <1>5 DEF AuthBreaks, Failed
<1>6. ASSUME AuthOK PROVE HoldInv'
  <2>1. /\ pc = "reply" /\ ws[sock] = "open"
        /\ authenticated' = TRUE /\ delay' = MinDelay
        /\ pc' = "loop" /\ first' = FALSE /\ sock' = None
        /\ UNCHANGED <<conn, ws, cancelled, closes, shut, run, query, token, troubles>>
    BY <1>6 DEF AuthOK
  <2>2. TypeOK'
    <3>1. MinDelay \in MinDelay .. MaxDelay
      OBVIOUS
    <3> HIDE DEF LiveIsHeld, AskedOnOther
    <3> QED
      BY <2>1, <3>1
  <2>3. LiveIsHeld' /\ AskedOnOther'
    BY <2>1
  <2> QED
    BY <2>2, <2>3
<1>7. ASSUME Rejected PROVE HoldInv'
  BY <1>7 DEF Rejected, Failed
<1>8. ASSUME RejectedForNow PROVE HoldInv'
  BY <1>8 DEF RejectedForNow, Failed, Trouble
<1>9. ASSUME Loop PROVE HoldInv'
  BY <1>9 DEF Loop
<1>10. ASSUME ReadFails PROVE HoldInv'
  BY <1>10 DEF ReadFails
<1>11. ASSUME Wait PROVE HoldInv'
  BY <1>11 DEF Wait
<1>12. ASSUME NEW q \in Queries, ReadQuery(q) PROVE HoldInv'
  BY <1>12 DEF ReadQuery
<1>13. ASSUME NEW q \in Queries, Answer(q) PROVE HoldInv'
  BY <1>13 DEF Answer
<1>14. ASSUME Cancel PROVE HoldInv'
  BY <1>14 DEF Cancel
<1>15. ASSUME CloseConn PROVE HoldInv'
  BY <1>15 DEF CloseConn
<1>16. ASSUME CloseDone PROVE HoldInv'
  BY <1>16 DEF CloseDone
<1>17. ASSUME RunReturns PROVE HoldInv'
  BY <1>17 DEF RunReturns
<1>18. ASSUME NEW s \in Sockets, Break(s) PROVE HoldInv'
  BY <1>18 DEF Break, Trouble
<1>19. ASSUME Revoke PROVE HoldInv'
  <2>1. token' \in BOOLEAN
    BY <1>19 DEF Revoke
  <2>2. UNCHANGED <<pc, first, sock, conn, ws, authenticated, delay, cancelled, closes, shut, run,
                    query, troubles>>
    BY <1>19 DEF Revoke
  <2> QED
    BY <2>1, <2>2
<1>20. CASE UNCHANGED vars
  BY <1>20 DEF vars
<1> HIDE DEF HoldInv, TypeOK, LiveIsHeld, AskedOnOther, Alive, socketVars, endVars, envVars
<1> QED
  BY <1>1, <1>2, <1>3, <1>4, <1>5, <1>6, <1>7, <1>8, <1>9, <1>10, <1>11, <1>12, <1>13, <1>14, <1>15, <1>16, <1>17, <1>18, <1>19, <1>20
     DEF Next, Connecting, Reading, Shutdown

\* In every reachable state.
LEMMA Held == Spec => []HoldInv
<1>1. Init => HoldInv
  BY HoldInit
<1>2. HoldInv /\ [Next]_vars => HoldInv'
  BY HoldStep
<1> QED
  BY <1>1, <1>2, PTL DEF Spec

LEMMA AtMostOne == LiveIsHeld => OneLiveSocket
<1> SUFFICES ASSUME LiveIsHeld PROVE OneLiveSocket
  OBVIOUS
<1> DEFINE Live == {s \in Sockets : ws[s] = "open"}
           holder == IF pc = "store" THEN sock ELSE conn
<1>1. Live \subseteq {holder}
  BY DEF LiveIsHeld
<1>2. IsFiniteSet({holder}) /\ Cardinality({holder}) = 1
  BY FS_Singleton
<1>3. Cardinality(Live) <= Cardinality({holder})
  BY <1>1, <1>2, FS_Subset
<1> QED
  BY <1>2, <1>3 DEF OneLiveSocket

\* The agent never holds two live websockets, and the goroutine that reads
\* always has one to read from, whatever broke, was rejected or shut down.
THEOREM OneSocketAtATime == Spec => []SocketInv
<1>1. HoldInv => SocketInv
  BY AtMostOne DEF HoldInv, SocketInv
<1> QED
  BY <1>1, Held, PTL

\* An answer that is lost, or written to another session than the one that
\* asked, belongs to a websocket that has ended.
THEOREM AnswersAreForTheAsker == Spec => AnswersReachAsker
<1> DEFINE Reach == \A q \in Queries :
             query[q].at = "running" /\ query'[q].at \in {"lost", "stray"}
                => ws[query[q].on] # "open"
<1>1. ASSUME HoldInv, [Next]_vars PROVE [Reach]_vars
  <2> SUFFICES ASSUME NEW q \in Queries, query[q].at = "running",
                      query'[q].at \in {"lost", "stray"}, ws[query[q].on] = "open"
               PROVE  FALSE
    BY Zenon
  <2>1. query[q].on \in Sockets
    BY <1>1 DEF HoldInv, TypeOK, AskedOnOther
  <2>2. query[q].on = conn
    BY <1>1, <2>1 DEF HoldInv, LiveIsHeld, AskedOnOther
  <2>3. ASSUME Answer(q) PROVE FALSE
    BY ConnectorAssumption, <2>1, <2>2, <1>1, <2>3 DEF HoldInv, TypeOK, Answer
  <2>4. ASSUME NEW p \in Queries, p # q, Answer(p) PROVE FALSE
    BY <1>1, <2>4 DEF HoldInv, TypeOK, Answer
  <2>5. ASSUME NEW p \in Queries, ReadQuery(p) PROVE FALSE
    BY <1>1, <2>5 DEF HoldInv, TypeOK, ReadQuery
  <2>6. query' = query \/ (\E p \in Queries : ReadQuery(p) \/ Answer(p))
    BY <1>1 DEF Next, Connecting, Reading, Shutdown, vars, Dial, DialFails, StoreConn, SendAuth,
       AuthBreaks, AuthOK, Rejected, RejectedForNow, Failed, Loop, ReadFails, Wait, Cancel,
       CloseConn, CloseDone, RunReturns, Break, Revoke
  <2> QED
    BY <2>3, <2>4, <2>5, <2>6
<1> QED
  BY <1>1, Held, PTL DEF Spec, AnswersReachAsker
----------------------------------------------------------------------------
(***************************************************************************)
(* The commands around the server.  ServerTypes says which phases and      *)
(* places a command has.  NamesKept: while no id is used twice, whoever    *)
(* the PID file or a reader of it names is a start.  StartsServe: of       *)
(* starts that overlap one goes on to serve, since a start that finds a    *)
(* file gives up only after another one wrote it.  InTurn is for commands  *)
(* that come one after the other: one process acts, or one waits for the   *)
(* server that it stops; the file names the one that listens, and what a   *)
(* process has made of the file excludes that another listens.             *)
(***************************************************************************)
CONSTANTS Pids, Inodes, Scenarios
VARIABLES file, proc, port, disk, binary, tmp, stranger, scenario, requests, crashes

Server == INSTANCE ServerProcess

PhasesOf(op) ==
    CASE op = "start" -> {<<"check", "serve">>, <<"serve">>}
      [] op = "detach" -> {<<"check", "spawn">>, <<"spawn">>}
      [] op = "stop" -> {<<"stop">>}
      [] op = "restart" -> {<<"stop", "check", "spawn">>, <<"check", "spawn">>, <<"spawn">>}
      [] op = "update" -> {<<"inspect", "install", "stop", "check", "spawn">>,
                           <<"install", "stop", "check", "spawn">>, <<"install">>,
                           <<"stop", "check", "spawn">>, <<"check", "spawn">>, <<"spawn">>}
      [] op = "other" -> {<<>>}
PidReading == {"read", "judge", "remove"}
PlacesOf(phase) ==
    CASE phase \in {"check", "inspect"} -> PidReading
      [] phase = "stop" -> PidReading \cup {"signal", "wait", "stopped", "vanished"}
      [] phase = "serve" -> {"truncate", "write", "open", "bind", "listen", "closing", "clean", "leave"}
      [] phase = "spawn" -> {"spawn"}
      [] phase = "install" -> {"fetch", "create", "copy", "verify", "rename"}

\* The record of a process that runs.
ProcessOK(r) ==
    /\ r \in Server!Processes /\ r.phases \in PhasesOf(r.op)
    /\ r.at \in IF r.op = "other" THEN {"running"} ELSE PlacesOf(Head(r.phases))
    /\ r.at = "signal" => r.seen \in Pids

Files == Pids \cup {None, "empty"}
ServerTypes ==
    /\ scenario \in Scenarios /\ requests \in Int /\ crashes \in Nat
    /\ proc = [p \in Pids |-> proc[p]]
    /\ \A p \in Pids : Server!Alive(p) => ProcessOK(proc[p])
    /\ file \in Files /\ port \in Pids \cup {None}
    /\ disk \in [Inodes -> Server!Contents] /\ binary \in Inodes /\ tmp \in Inodes \cup {None}

----------------------------------------------------------------------------
(* What the invariants say. *)

Named(x) == x \in Pids => proc[x] # None /\ proc[x].op \in {"start", "gone"}
NamesKept ==
    ~scenario.reuse =>
        /\ Named(file) /\ ~stranger
        /\ \A p \in Pids : Server!Alive(p) => Named(proc[p].seen)

OnlyStarts ==
    scenario.commands \subseteq {"start", "detach"} /\ ~scenario.faults /\ scenario.crashes = 0
    /\ scenario.file = None
Serves(r) == r.at \in {"write", "open", "bind"}
Idles(r) == r.at \in {"listen", "running"}
Leaves(r) == r.at \in {"closing", "clean", "leave"}
Busy(p) == Server!Alive(p) /\ ~Idles(proc[p])
StartsServe ==
    OnlyStarts =>
        /\ \A p \in Pids : Server!Alive(p) =>
              proc[p].op \in {"start", "detach", "other"} /\ proc[p].at # "closing"
        /\ disk[binary] = "old"
        /\ port = None =>
              /\ \A p \in Pids : Server!Alive(p) => proc[p].at # "listen" /\ ~Leaves(proc[p])
              /\ file # None \/ (\E p \in Pids : Server!Alive(p) /\ proc[p].seen # None) =>
                    \E p \in Pids : Server!Alive(p) /\ Serves(proc[p])
              /\ requests < scenario.requests => \E p \in Pids : Busy(p)

NobodyListens == \A p \in Pids : ~Server!At(p, "listen")
\* Who is here knows that nobody listens.
Knows(r) ==
    \/ r.at \in {"remove", "spawn", "truncate", "write", "open", "bind", "closing", "clean", "leave",
                 "wait", "stopped", "vanished"}
    \/ r.phases = <<"install">>
WaitsFor(p, q) == proc[p].at = "wait" /\ proc[p].seen = q /\ Leaves(proc[q])
\* Who is here stops the server before it starts the new one.
WillStop(r) ==
    r.op = "update" /\ Head(r.phases) = "stop" /\ r.at \in {"read", "judge", "signal"}
\* What the process p, with the record r, knows of these paths.
KnowsPaths(p, r, f, t, d, b) ==
    /\ r.at \in {"judge", "signal"} => f = r.seen
    /\ r.at \in {"open", "bind"} => f = p
    /\ r.op = "start" /\ ~Leaves(r) => r.bin = d[b]
    /\ r.at = "copy" => t # None /\ r.fd = t
    /\ r.at = "rename" => t # None /\ d[t] = "new"
InTurn ==
    scenario.patient =>
        /\ \A p, q \in Pids : Busy(p) /\ Busy(q) /\ p # q => WaitsFor(p, q) \/ WaitsFor(q, p)
        /\ \A p \in Pids : Server!At(p, "listen") => port = p /\ file = p
        /\ \A p \in Pids : Busy(p) =>
              (Knows(proc[p]) => NobodyListens) /\ KnowsPaths(p, proc[p], file, tmp, disk, binary)
        /\ tmp # binary /\ disk[binary] \in {"old", "new"}
        /\ scenario.crashes = 0 =>
              \A p \in Pids : Server!At(p, "listen") =>
                 proc[p].bin = disk[binary] \/ \E q \in Pids : Busy(q) /\ WillStop(proc[q])

----------------------------------------------------------------------------
(* Records, and what comes after a phase. *)

LEMMA ListHeads ==
    /\ Head(<<"check", "serve">>) = "check" /\ Head(<<"check", "spawn">>) = "check"
    /\ Head(<<"serve">>) = "serve" /\ Head(<<"spawn">>) = "spawn"
    /\ Head(<<"stop">>) = "stop" /\ Head(<<"stop", "check", "spawn">>) = "stop"
    /\ Head(<<"inspect", "install", "stop", "check", "spawn">>) = "inspect"
    /\ Head(<<"install", "stop", "check", "spawn">>) = "install" /\ Head(<<"install">>) = "install"
  OBVIOUS

LEMMA ListTails ==
    /\ Tail(<<"check", "serve">>) = <<"serve">> /\ Tail(<<"check", "spawn">>) = <<"spawn">>
    /\ Tail(<<"stop", "check", "spawn">>) = <<"check", "spawn">>
    /\ Tail(<<"inspect", "install", "stop", "check", "spawn">>) = <<"install", "stop", "check", "spawn">>
    /\ Tail(<<"install", "stop", "check", "spawn">>) = <<"stop", "check", "spawn">>
OBVIOUS

LEMMA ListLens ==
    /\ Len(<<"check", "serve">>) = 2 /\ Len(<<"check", "spawn">>) = 2
    /\ Len(<<"serve">>) = 1 /\ Len(<<"spawn">>) = 1 /\ Len(<<"stop">>) = 1
    /\ Len(<<"stop", "check", "spawn">>) = 3 /\ Len(<<"install">>) = 1
    /\ Len(<<"inspect", "install", "stop", "check", "spawn">>) = 5
    /\ Len(<<"install", "stop", "check", "spawn">>) = 4
  OBVIOUS

LEMMA ListSeqs ==
    ASSUME NEW S, S = {"check", "serve", "spawn", "stop", "inspect", "install"}
    PROVE  /\ <<"serve">> \in Seq(S) /\ <<"spawn">> \in Seq(S) /\ <<"check", "spawn">> \in Seq(S)
           /\ <<"stop", "check", "spawn">> \in Seq(S) /\ <<"install">> \in Seq(S)
           /\ <<"install", "stop", "check", "spawn">> \in Seq(S)
  OBVIOUS

\* Where a process is tells its command and its phase.
LEMMA Places ==
    ASSUME NEW r, ProcessOK(r)
    PROVE  /\ r.at \in PlacesOf("serve") => r.op = "start" /\ r.phases = <<"serve">>
           /\ r.at \in PidReading => Head(r.phases) \in {"check", "stop", "inspect"}
           /\ r.at = "spawn" => r.phases = <<"spawn">> /\ r.op \in {"detach", "restart", "update"}
           /\ r.at \in {"signal", "wait", "stopped", "vanished"} =>
                 r.phases \in {<<"stop">>, <<"stop", "check", "spawn">>} /\ r.op \in {"stop", "restart", "update"}
           /\ r.at \in PlacesOf("install") =>
                 r.op = "update" /\ r.phases \in {<<"install">>, <<"install", "stop", "check", "spawn">>}
           /\ r.at = "running" <=> r.op = "other"
BY ListHeads DEF ProcessOK, Server!Processes, PhasesOf, PlacesOf, PidReading, Server!Ops

LEMMA Names ==
    ASSUME Server!ServerAssumption
    PROVE  /\ None \notin Pids /\ "empty" \notin Pids /\ None # "empty" /\ None \notin Inodes
           /\ None \notin {"old", "new", "part", "bad"} /\ None \notin Server!Processes
  BY DEF Server!ServerAssumption

LEMMA Records ==
    ASSUME Server!ServerAssumption, NEW r, ProcessOK(r)
    PROVE  /\ r # None /\ r # Server!Ended /\ r.op # "gone" /\ r.op \in Server!Ops /\ r.at \in Server!Ats
           /\ r.seen \in Files /\ r.bin \in Server!Contents /\ r.fd \in Inodes \cup {None}
           /\ r \in Server!Processes
BY Names DEF ProcessOK, Server!Processes, Files, Server!Ops, Server!Ended

\* x comes after the first phase of r.
Follows(r, x) ==
    /\ ProcessOK(x) /\ x.op = r.op /\ x.bin = r.bin /\ x.seen = r.seen
    /\ r.phases = <<"check", "serve">> => x.at = "truncate"
    /\ r.phases = <<"check", "spawn">> => x.at = "spawn"
    /\ r.phases = <<"stop", "check", "spawn">> => x.at = "read" /\ x.phases = <<"check", "spawn">>
    /\ r.phases = <<"install", "stop", "check", "spawn">> =>
          x.at = "read" /\ x.phases = <<"stop", "check", "spawn">>
    /\ r.phases = <<"inspect", "install", "stop", "check", "spawn">> =>
          x.at = "fetch" /\ x.phases = <<"install", "stop", "check", "spawn">>

LEMMA AfterFollows ==
    ASSUME Server!ServerAssumption, NEW p \in Pids, ProcessOK(proc[p]), proc[p].op # "other"
    PROVE  IF proc[p].phases \in {<<"serve">>, <<"spawn">>, <<"stop">>, <<"install">>}
           THEN Server!After(p) = Server!Ended ELSE Follows(proc[p], Server!After(p))
<1> DEFINE r == proc[p]
           x == [r EXCEPT !.phases = Tail(r.phases), !.at = Server!Begins(Head(Tail(r.phases)))]
<1>1. CASE r.phases \in {<<"serve">>, <<"spawn">>, <<"stop">>, <<"install">>}
  BY <1>1, ListLens DEF Server!After
<1>2. CASE r.phases \notin {<<"serve">>, <<"spawn">>, <<"stop">>, <<"install">>}
  <2>1. r.op \in Server!Ops /\ r \in Server!Processes /\ r.at \in Server!Ats /\ r.phases \in PhasesOf(r.op)
    BY Records DEF ProcessOK
  <2>2. r.phases \in {<<"check", "serve">>, <<"check", "spawn">>, <<"stop", "check", "spawn">>,
                      <<"install", "stop", "check", "spawn">>,
                      <<"inspect", "install", "stop", "check", "spawn">>}
    BY <1>2, <2>1 DEF PhasesOf, Server!Ops
  <2>3. Server!After(p) = x
    <3>1. Len(r.phases) # 1
      BY <2>2, ListLens
    <3> QED
      BY <3>1 DEF Server!After
  <2> DEFINE rest == Tail(r.phases)
             at == Server!Begins(Head(rest))
  <2>4. /\ r.phases = <<"check", "serve">> => rest = <<"serve">> /\ at = "truncate"
        /\ r.phases = <<"check", "spawn">> => rest = <<"spawn">> /\ at = "spawn"
        /\ r.phases = <<"stop", "check", "spawn">> => rest = <<"check", "spawn">> /\ at = "read"
        /\ r.phases = <<"install", "stop", "check", "spawn">> =>
              rest = <<"stop", "check", "spawn">> /\ at = "read"
        /\ r.phases = <<"inspect", "install", "stop", "check", "spawn">> =>
              rest = <<"install", "stop", "check", "spawn">> /\ at = "fetch"
    BY ListTails, ListHeads DEF Server!Begins
  <2>5. /\ rest \in PhasesOf(r.op) /\ at \in PlacesOf(Head(rest)) /\ at \in Server!Ats
        /\ rest \in Seq({"check", "serve", "spawn", "stop", "inspect", "install"}) /\ at # "signal"
    BY <2>2, <2>4, ListHeads, <1>2, <2>1, ListSeqs DEF PlacesOf, PidReading, Server!Ats, PhasesOf,
       Server!Ops
  <2> HIDE DEF rest, at
  <2>6. x = [r EXCEPT !.phases = rest, !.at = at]
    BY DEF rest, at
  <2> HIDE DEF x
  <2>7. /\ x \in Server!Processes /\ x.op = r.op /\ x.bin = r.bin /\ x.seen = r.seen
        /\ x.phases = rest /\ x.at = at
    BY <2>1, <2>5, <2>6 DEF Server!Processes
  <2>8. ProcessOK(x)
    BY <2>5, <2>7 DEF ProcessOK
  <2>9. Follows(r, x)
    BY <2>4, <2>7, <2>8 DEF Follows
  <2> QED
    BY <1>2, <2>3, <2>9
<1> QED
  BY <1>1, <1>2

\* What a reader of the file does when no server runs.
LEMMA NotRunningFollows ==
    ASSUME Server!ServerAssumption, NEW p \in Pids, ProcessOK(proc[p]), proc[p].at \in {"judge", "remove"},
           NEW x, x = Server!NotRunning(p)
    PROVE  \/ x = Server!Ended /\ proc[p].op \in {"stop", "update"}
           \/ /\ ProcessOK(x) /\ x.op = proc[p].op /\ x.bin = proc[p].bin /\ x.seen = proc[p].seen
              /\ ~(proc[p].op = "update" /\ Head(proc[p].phases) = "stop")
              /\ \/ x.at \in {"truncate", "spawn"}
                 \/ x.at = "read" /\ x.phases = <<"check", "spawn">>
                 \/ x.at = "fetch" /\ x.phases = <<"install">>
              /\ x.op = "start" => x.at = "truncate"
<1> DEFINE r == proc[p]
<1>1. /\ r.op \in Server!Ops /\ r \in Server!Processes /\ r.phases \in PhasesOf(r.op)
      /\ Head(r.phases) \in {"check", "stop", "inspect"} /\ r.op # "other"
  BY Records, Places DEF ProcessOK, PidReading
<1>2. CASE Head(r.phases) = "check"
  BY <1>1, <1>2, ListHeads, AfterFollows DEF PhasesOf, Server!Ops, Server!NotRunning,
     Server!Phase, Follows
<1>3. CASE Head(r.phases) = "stop"
  BY <1>3, <1>1, ListHeads, AfterFollows DEF Server!NotRunning, Server!Phase, PhasesOf, Follows,
     Server!Ops
<1>4. CASE Head(r.phases) = "inspect"
  <2>1. r.phases = <<"inspect", "install", "stop", "check", "spawn">> /\ r.op = "update"
    BY <1>1, <1>4, ListHeads DEF PhasesOf, Server!Ops
  <2> DEFINE y == Server!After(p)
  <2>2. x = [y EXCEPT !.phases = <<"install">>]
    BY <1>4 DEF Server!NotRunning, Server!Phase
  <2>3. Follows(r, y)
    BY <1>1, <2>1, AfterFollows
  <2> HIDE DEF y
  <2>4. y \in Server!Processes /\ ProcessOK(y) /\ y.at = "fetch" /\ y.op = "update"
        /\ y.bin = r.bin /\ y.seen = r.seen
    BY <2>1, <2>3, Records DEF Follows
  <2>5. /\ x \in Server!Processes /\ x.at = "fetch" /\ x.op = "update" /\ x.phases = <<"install">>
        /\ x.bin = r.bin /\ x.seen = r.seen
    BY <2>2, <2>4, ListSeqs DEF Server!Processes
  <2>6. ProcessOK(x)
    BY <2>5, ListHeads DEF ProcessOK, PhasesOf, PlacesOf
  <2> QED
    BY <1>4, <2>1, <2>5, <2>6
<1> QED
  BY <1>1, <1>2, <1>3, <1>4

----------------------------------------------------------------------------
(* Steps of one process. *)

\* The process p goes on with the record x, or ends.
Acts(p, x) == proc' = [q \in Pids |-> IF q = p THEN x ELSE proc[q]]
Goes(p, x) == x = Server!Ended \/ (ProcessOK(x) /\ x.op = proc[p].op)

LEMMA ActsOn ==
    ASSUME Server!ServerAssumption, NEW p \in Pids, NEW x, Acts(p, x), Goes(p, x)
    PROVE  /\ proc'[p] = x /\ \A q \in Pids : q # p => proc'[q] = proc[q]
           /\ \A q \in Pids : q # p => (Server!Alive(q)' <=> Server!Alive(q))
           /\ Server!Alive(p)' <=> x # Server!Ended
           /\ proc' = [q \in Pids |-> proc'[q]]
BY Names, Records DEF Acts, Server!ServerAssumption, Server!Ended, Goes, Server!Alive

LEMMA ActTypes ==
    ASSUME Server!ServerAssumption, ServerTypes, NEW p \in Pids, NEW x, Acts(p, x), Goes(p, x),
           scenario' = scenario, requests' = requests, crashes' = crashes, file' \in Files, port' \in Pids \cup {None},
           disk' \in [Inodes -> Server!Contents], binary' \in Inodes, tmp' \in Inodes \cup {None}
    PROVE  ServerTypes'
BY ActsOn DEF ServerTypes, Goes

LEMMA ActNames ==
    ASSUME Server!ServerAssumption, ServerTypes, NamesKept, NEW p \in Pids, Server!Alive(p),
           NEW x, Acts(p, x), Goes(p, x), scenario' = scenario, ~stranger => ~stranger',
           x # Server!Ended => x.seen \in {proc[p].seen, file},
           file' \in {file, None, "empty"} \/ (file' = p /\ proc[p].op = "start")
    PROVE  NamesKept'
<1> SUFFICES ASSUME ~scenario.reuse
             PROVE  Named(file)' /\ ~stranger' /\ \A q \in Pids : Server!Alive(q)' => Named(proc[q].seen)'
  BY DEF NamesKept
<1>1. Named(file) /\ ~stranger /\ \A q \in Pids : Server!Alive(q) => Named(proc[q].seen)
  BY DEF NamesKept
<1>2. x # None /\ x.op \in {proc[p].op, "gone"}
  BY Records DEF Server!ServerAssumption, Server!Ended, Goes
<1>3. ASSUME NEW y, Named(y) PROVE y \in Pids => proc'[y] # None /\ proc'[y].op \in {"start", "gone"}
  BY <1>2, <1>3, ActsOn DEF Named
<1>4. Named(file)'
  BY <1>1, <1>3, Names, <1>2, ActsOn DEF Named
<1>5. ASSUME NEW q \in Pids, Server!Alive(q)' PROVE Named(proc[q].seen)'
  BY <1>1, <1>5, ActsOn, <1>3 DEF Named
<1> QED
  BY <1>1, <1>4, <1>5

\* Of starts only: nobody installs, a process that gives up has read of another.
LEMMA ActStarts ==
    ASSUME Server!ServerAssumption, ServerTypes, StartsServe, NEW p \in Pids, Busy(p),
           NEW x, Acts(p, x), Goes(p, x), scenario' = scenario, requests' = requests,
           OnlyStarts /\ proc[p].op \in {"start", "detach"} =>
              /\ x # Server!Ended => x.at # "closing"
              /\ disk'[binary'] = "old"
              /\ port' = None /\ port = None /\ ~Leaves(proc[p]) =>
                    /\ x # Server!Ended => x.at # "listen" /\ ~Leaves(x)
                    /\ Serves(proc[p]) => x # Server!Ended /\ Serves(x)
                    /\ file' # None \/ (x # Server!Ended /\ x.seen # None) =>
                          \/ file # None \/ proc[p].seen # None
                          \/ x # Server!Ended /\ Serves(x)
                    /\ x = Server!Ended => (file # None \/ proc[p].seen # None) /\ ~Serves(proc[p])
              /\ port' = None => port = None \/ proc[p].at = "closing"
    PROVE  StartsServe'
<1> SUFFICES ASSUME OnlyStarts
             PROVE  /\ \A q \in Pids : Server!Alive(q)' =>
                          proc'[q].op \in {"start", "detach", "other"} /\ proc'[q].at # "closing"
                    /\ disk'[binary'] = "old"
                    /\ port' = None =>
                          /\ \A q \in Pids : Server!Alive(q)' => proc'[q].at # "listen" /\ ~Leaves(proc'[q])
                          /\ file' # None \/ (\E q \in Pids : Server!Alive(q)' /\ proc'[q].seen # None) =>
                                \E q \in Pids : Server!Alive(q)' /\ Serves(proc'[q])
                          /\ requests' < scenario'.requests => \E q \in Pids : Busy(q)'
  BY DEF StartsServe, OnlyStarts, Leaves, Serves
<1>1. Server!Alive(p) /\ ProcessOK(proc[p]) /\ ~Idles(proc[p])
  BY DEF Busy, ServerTypes
<1>2. proc[p].op \in {"start", "detach"}
  BY <1>1, Places DEF StartsServe, Idles
<1>3. \A q \in Pids : Server!Alive(q)' =>
         proc'[q].op \in {"start", "detach", "other"} /\ proc'[q].at # "closing"
  BY <1>1, <1>2, ActsOn DEF StartsServe, Goes
<1>4. ASSUME port' = None
      PROVE  /\ \A q \in Pids : Server!Alive(q)' => proc'[q].at # "listen" /\ ~Leaves(proc'[q])
             /\ file' # None \/ (\E q \in Pids : Server!Alive(q)' /\ proc'[q].seen # None) =>
                   \E q \in Pids : Server!Alive(q)' /\ Serves(proc'[q])
             /\ requests' < scenario'.requests => \E q \in Pids : Busy(q)'
  <2>1. port = None /\ proc[p].at # "listen" /\ ~Leaves(proc[p])
    BY <1>1, <1>2, <1>4 DEF StartsServe
  <2>2. /\ x # Server!Ended => x.at # "listen" /\ ~Leaves(x)
        /\ Serves(proc[p]) => x # Server!Ended /\ Serves(x)
        /\ file' # None \/ (x # Server!Ended /\ x.seen # None) =>
              file # None \/ proc[p].seen # None \/ (x # Server!Ended /\ Serves(x))
        /\ x = Server!Ended => (file # None \/ proc[p].seen # None) /\ ~Serves(proc[p])
    BY <1>2, <1>4, <2>1
  <2>3. \A q \in Pids : Server!Alive(q)' => proc'[q].at # "listen" /\ ~Leaves(proc'[q])
    BY <2>1, <2>2, ActsOn DEF StartsServe
  <2>4. ASSUME file # None \/ \E q \in Pids : Server!Alive(q) /\ proc[q].seen # None
        PROVE  \E q \in Pids : Server!Alive(q)' /\ Serves(proc'[q])
    <3>1. PICK q \in Pids : Server!Alive(q) /\ Serves(proc[q])
      BY <2>1, <2>4 DEF StartsServe
    <3>2. Server!Alive(q)' /\ Serves(proc'[q])
      BY <2>2, <3>1, ActsOn
    <3> QED
      BY <3>2
  <2>5. file' # None \/ (\E q \in Pids : Server!Alive(q)' /\ proc'[q].seen # None) =>
           \E q \in Pids : Server!Alive(q)' /\ Serves(proc'[q])
    BY <1>1, <2>2, <2>4, ActsOn
  <2>6. \E q \in Pids : Busy(q)'
    <3>1. CASE x = Server!Ended
      <4>1. PICK q \in Pids : Server!Alive(q)' /\ Serves(proc'[q])
        BY <1>1, <2>2, <2>4, <3>1
      <4> QED
        BY <4>1 DEF Busy, Serves, Idles
    <3>2. CASE x # Server!Ended
      BY <1>2, <2>2, <3>2, Places, ActsOn DEF Goes, Idles, Busy
    <3> QED
      BY <3>1, <3>2
  <2> QED
    BY <2>3, <2>5, <2>6
<1>5. disk'[binary'] = "old"
  BY <1>2
<1> QED
  BY <1>3, <1>4, <1>5

\* With commands in turn: who acts is alone, or leaves while another one waits for it.
Alone(p) == \A q \in Pids : Busy(q) => q = p
LEMMA ActTurn ==
    ASSUME Server!ServerAssumption, ServerTypes, InTurn, NEW p \in Pids, Busy(p),
           NEW x, Acts(p, x), Goes(p, x), scenario' = scenario,
           scenario.patient =>
              /\ Alone(p) \/ x = Server!Ended \/ (Leaves(proc[p]) /\ Leaves(x))
              /\ x # Server!Ended /\ x.at = "listen" =>
                    file' = p /\ port' = p /\ NobodyListens /\ x.bin = disk'[binary']
              /\ NobodyListens \/ (file' = file /\ port' = port)
              /\ x # Server!Ended =>
                    (Knows(x) => NobodyListens) /\ KnowsPaths(p, x, file', tmp', disk', binary')
              /\ tmp' # binary' /\ disk'[binary'] \in {"old", "new"}
              /\ \/ NobodyListens
                 \/ x # Server!Ended /\ WillStop(x)
                 \/ disk'[binary'] = disk[binary] /\ ~WillStop(proc[p])
    PROVE  InTurn'
<1> SUFFICES ASSUME scenario.patient
             PROVE  /\ \A q, r \in Pids : Busy(q)' /\ Busy(r)' /\ q # r => WaitsFor(q, r)' \/ WaitsFor(r, q)'
                    /\ \A q \in Pids : Server!At(q, "listen")' => port' = q /\ file' = q
                    /\ \A q \in Pids : Busy(q)' =>
                          /\ Knows(proc'[q]) => NobodyListens'
                          /\ KnowsPaths(q, proc'[q], file', tmp', disk', binary')
                    /\ tmp' # binary' /\ disk'[binary'] \in {"old", "new"}
                    /\ scenario.crashes = 0 =>
                          \A q \in Pids : Server!At(q, "listen")' =>
                             proc'[q].bin = disk'[binary'] \/ \E r \in Pids : Busy(r)' /\ WillStop(proc'[r])
  BY DEF InTurn, Knows, KnowsPaths, WillStop, Leaves
<1>1. Server!Alive(p) /\ ProcessOK(proc[p]) /\ ~Idles(proc[p])
  BY DEF Busy, ServerTypes
<1>2. /\ proc'[p] = x /\ \A q \in Pids : q # p => proc'[q] = proc[q]
      /\ \A q \in Pids : q # p => (Server!Alive(q)' <=> Server!Alive(q)) /\ (Busy(q)' <=> Busy(q))
      /\ Server!Alive(p)' <=> x # Server!Ended
      /\ Busy(p)' <=> x # Server!Ended /\ ~Idles(x)
      /\ \A q \in Pids : q # p => (Server!At(q, "listen")' <=> Server!At(q, "listen"))
      /\ Server!At(p, "listen")' <=> x # Server!Ended /\ x.at = "listen"
  BY ActsOn DEF Busy, Idles, Server!At
<1>3. ASSUME NEW q \in Pids, q # p, Busy(q)
      PROVE  /\ ~Alone(p) /\ (WaitsFor(p, q) \/ WaitsFor(q, p))
             /\ x = Server!Ended \/ (Leaves(x) /\ WaitsFor(q, p)')
             /\ ~WillStop(proc[q]) /\ KnowsPaths(q, proc[q], file', tmp', disk', binary')
  BY <1>3, <1>2, Places DEF Alone, InTurn, WaitsFor, Leaves, Busy, ServerTypes, KnowsPaths,
     WillStop
<1>4. ASSUME NEW q \in Pids, NEW r \in Pids, Busy(q)', Busy(r)', q # r
      PROVE  WaitsFor(q, r)' \/ WaitsFor(r, q)'
  BY <1>2, <1>4, <1>3 DEF InTurn, WaitsFor, Leaves
<1>5. ASSUME NEW q \in Pids, Server!At(q, "listen")' PROVE port' = q /\ file' = q
  BY <1>2, <1>5 DEF InTurn, NobodyListens
<1>6. NobodyListens /\ ~(x # Server!Ended /\ x.at = "listen") => NobodyListens'
  BY <1>2 DEF NobodyListens
<1>7. ASSUME NEW q \in Pids, Busy(q)'
      PROVE  (Knows(proc'[q]) => NobodyListens') /\ KnowsPaths(q, proc'[q], file', tmp', disk', binary')
  BY <1>2, <1>7, <1>6, <1>3 DEF Idles, Leaves, InTurn
<1>8. ASSUME scenario.crashes = 0, NEW q \in Pids, Server!At(q, "listen")'
      PROVE  proc'[q].bin = disk'[binary'] \/ \E r \in Pids : Busy(r)' /\ WillStop(proc'[r])
  BY <1>2, <1>8, <1>3 DEF WillStop, Idles, NobodyListens, InTurn
<1>9. tmp' # binary' /\ disk'[binary'] \in {"old", "new"}
  OBVIOUS
<1> QED
  BY <1>4, <1>5, <1>7, <1>8, <1>9

----------------------------------------------------------------------------
(* Each step keeps the invariants. *)

Keeps ==
    ServerTypes' /\ (NamesKept => NamesKept') /\ (StartsServe => StartsServe') /\ (InTurn => InTurn')

\* The record r, at another place.
Moved(r, x, at) ==
    /\ ProcessOK(x) /\ x.at = at /\ x.op = r.op /\ x.phases = r.phases /\ x.seen = r.seen
    /\ x.bin = r.bin /\ x.fd = r.fd

LEMMA ToMoves ==
    ASSUME Server!ServerAssumption, ServerTypes, NEW p \in Pids, Server!Alive(p), NEW at, Server!To(p, at),
           at \in PlacesOf(Head(proc[p].phases)) /\ at \in Server!Ats /\ proc[p].op # "other",
           at = "signal" => proc[p].seen \in Pids,
           NEW x, x = [proc[p] EXCEPT !.at = at]
    PROVE  Acts(p, x) /\ Goes(p, x) /\ Moved(proc[p], x, at) /\ x # Server!Ended
<1>1. ProcessOK(proc[p])
  BY DEF ServerTypes
<1>2. proc[p] \in Server!Processes
  BY <1>1, Records
<1>3. /\ x \in Server!Processes /\ x.at = at /\ x.op = proc[p].op /\ x.phases = proc[p].phases
      /\ x.seen = proc[p].seen /\ x.bin = proc[p].bin /\ x.fd = proc[p].fd
  BY <1>2 DEF Server!Processes
<1>4. ProcessOK(x)
  BY <1>1, <1>3 DEF ProcessOK
<1>5. Acts(p, x)
  BY DEF Server!To, Acts, ServerTypes
<1> QED
  BY <1>3, <1>4, <1>5, Records DEF Moved, Goes

LEMMA Acting ==
    ASSUME Server!ServerAssumption, ServerTypes, NEW p \in Pids, NEW at, Server!At(p, at), at \notin {"listen", "running"}
    PROVE  /\ Busy(p) /\ Server!Alive(p) /\ ProcessOK(proc[p]) /\ proc[p].at = at /\ proc[p].op # "other"
           /\ proc[p].op \in Server!Ops
BY Places, Records DEF Server!At, Busy, Idles, ServerTypes

LEMMA Solo ==
    ASSUME ServerTypes, InTurn, scenario.patient, NEW p \in Pids, Busy(p), ~Leaves(proc[p]),
           proc[p].at # "wait"
    PROVE  Alone(p)
  BY DEF InTurn, Alone, WaitsFor

LEMMA ReadPidKeeps ==
    ASSUME Server!ServerAssumption, ServerTypes, NEW p \in Pids, Server!ReadPid(p) PROVE Keeps
<1> DEFINE x == [proc[p] EXCEPT !.seen = file, !.at = "judge"]
<1>1. /\ Server!At(p, "read") /\ proc' = [proc EXCEPT ![p].seen = file, ![p].at = "judge"]
      /\ UNCHANGED <<file, port, disk, binary, tmp, stranger, scenario, requests, crashes>>
  BY DEF Server!ReadPid, Server!paths, Server!bounds
<1>2. Busy(p) /\ Server!Alive(p) /\ ProcessOK(proc[p]) /\ proc[p].at = "read" /\ proc[p].op # "other"
  BY <1>1, Acting
<1>3. /\ x \in Server!Processes /\ x.at = "judge" /\ x.op = proc[p].op /\ x.phases = proc[p].phases
      /\ x.seen = file /\ x.bin = proc[p].bin
  BY <1>2, Records DEF Server!Processes, Server!Ats, ServerTypes, Files
<1>4. Head(x.phases) \in {"check", "stop", "inspect"}
  BY <1>2, <1>3, Places DEF PidReading
<1>5. ProcessOK(x)
  BY <1>2, <1>3, <1>4 DEF ProcessOK, PlacesOf, PidReading
<1>6. Acts(p, x) /\ Goes(p, x) /\ x # Server!Ended
  BY <1>1, <1>3, <1>5, Records DEF Acts, Goes, ServerTypes
<1> HIDE DEF x
<1>7. ServerTypes'
  BY <1>1, <1>6, ActTypes DEF ServerTypes
<1>8. NamesKept => NamesKept'
  BY <1>1, <1>2, <1>3, <1>6, ActNames
<1>9. StartsServe => StartsServe'
  BY <1>1, <1>2, <1>3, <1>6, ActStarts DEF StartsServe, Leaves, Serves
<1>10. ASSUME InTurn PROVE InTurn'
  <2>1. scenario.patient => Alone(p)
    BY <1>2, <1>10, Solo DEF Leaves
  <2>2. scenario.patient =>
           KnowsPaths(p, x, file, tmp, disk, binary) /\ (Knows(x) => NobodyListens)
           /\ tmp # binary /\ disk[binary] \in {"old", "new"}
    BY <1>2, <1>3, <1>10 DEF InTurn, Knows, KnowsPaths, Leaves
  <2>3. WillStop(proc[p]) => WillStop(x)
    BY <1>2, <1>3 DEF WillStop
  <2> QED
    BY <1>1, <1>2, <1>3, <1>6, <1>10, <2>1, <2>2, <2>3, ActTurn
<1> QED
  BY <1>7, <1>8, <1>9, <1>10 DEF Keeps

\* What a process makes of what it read.
LEMMA Judged ==
    ASSUME Server!ServerAssumption, ServerTypes, NEW p \in Pids, Server!Judge(p), NEW x, x = proc'[p]
    PROVE  /\ Acts(p, x) /\ Goes(p, x)
           /\ x # Server!Ended => x.bin = proc[p].bin /\ x.seen = proc[p].seen /\ x.op = proc[p].op
           /\ \/ x = Server!Ended /\ proc[p].seen # None /\ (WillStop(proc[p]) => proc[p].seen \notin Pids)
              \/ x = Server!Ended /\ proc[p].seen = None /\ proc[p].op \in {"stop", "update"}
              \/ /\ x # Server!Ended /\ proc[p].seen = None /\ ~WillStop(proc[p])
                 /\ \/ x.at \in {"truncate", "spawn"}
                    \/ x.at = "read" /\ x.phases = <<"check", "spawn">>
                    \/ x.at = "fetch" /\ x.phases = <<"install">>
                 /\ x.op = "start" => x.at = "truncate"
              \/ /\ x # Server!Ended /\ x.at = "remove" /\ x.phases = proc[p].phases
                 /\ ~Server!Alive(proc[p].seen) \/ proc[p].seen = p
              \/ x # Server!Ended /\ x.at = "signal" /\ x.phases = proc[p].phases
              \/ /\ x # Server!Ended /\ x.at = "fetch"
                 /\ x.phases = <<"install", "stop", "check", "spawn">> /\ ~WillStop(proc[p])
<1> DEFINE r == proc[p]
           q == r.seen
<1>1. /\ Server!At(p, "judge")
      /\ proc' = [proc EXCEPT ![p] =
            CASE q = None -> Server!NotRunning(p)
              [] q = "empty" -> Server!Ended
              [] q \in Pids /\ ~Server!Alive(q) -> [r EXCEPT !.at = "remove"]
              [] q \in Pids /\ Server!Alive(q) ->
                    IF Server!Refused(p) THEN Server!Ended
                    ELSE IF Server!Phase(p) = "check" THEN [r EXCEPT !.at = "remove"]
                    ELSE IF Server!Phase(p) = "stop" THEN [r EXCEPT !.at = "signal"]
                    ELSE Server!After(p)]
  BY DEF Server!Judge
<1>2. /\ Busy(p) /\ Server!Alive(p) /\ ProcessOK(r) /\ r.at = "judge" /\ r.op # "other" /\ r \in Server!Processes
      /\ r.op \in Server!Ops /\ r.phases \in PhasesOf(r.op)
  BY <1>1, Acting, Records DEF ProcessOK
<1>3. Head(r.phases) \in {"check", "stop", "inspect"} /\ Server!Phase(p) = Head(r.phases)
  BY <1>2, Places DEF PidReading, Server!Phase
<1>4. Acts(p, x)
  <2>1. \E y : proc' = [proc EXCEPT ![p] = y]
    BY <1>1
  <2>2. PICK y : proc' = [proc EXCEPT ![p] = y]
    BY <2>1
  <2> QED
    BY <2>2 DEF Acts, ServerTypes
<1>5. /\ q = None \/ q = "empty" \/ q \in Pids
      /\ None \notin Pids /\ "empty" \notin Pids /\ None # "empty"
  BY <1>2, Records, Names DEF Files
<1>6. x = CASE q = None -> Server!NotRunning(p)
            [] q = "empty" -> Server!Ended
            [] q \in Pids /\ ~Server!Alive(q) -> [r EXCEPT !.at = "remove"]
            [] q \in Pids /\ Server!Alive(q) ->
                  IF Server!Refused(p) THEN Server!Ended
                  ELSE IF Server!Phase(p) = "check" THEN [r EXCEPT !.at = "remove"]
                  ELSE IF Server!Phase(p) = "stop" THEN [r EXCEPT !.at = "signal"]
                  ELSE Server!After(p)
  BY <1>1 DEF ServerTypes
<1>7. ASSUME NEW y, NEW at \in {"remove", "signal"}, y = [r EXCEPT !.at = at],
             at = "signal" => Head(r.phases) = "stop" /\ q \in Pids
      PROVE  Moved(r, y, at) /\ y # Server!Ended
  BY <1>2, <1>7, <1>3, Records DEF Server!Processes, Server!Ats, ProcessOK, PlacesOf, PidReading,
     Moved
<1>8. CASE q = None
  BY <1>5, <1>6, <1>8, <1>2, NotRunningFollows, <1>4, Records DEF WillStop, Goes
<1>9. CASE q = "empty"
  BY <1>5, <1>6, <1>9, <1>4 DEF Goes
<1>10. CASE q \in Pids /\ ~Server!Alive(q)
  BY <1>5, <1>6, <1>10, <1>7, <1>4 DEF Goes, Moved
<1>11. CASE q \in Pids /\ Server!Alive(q)
  <2>1. x = IF Server!Refused(p) THEN Server!Ended
            ELSE IF Server!Phase(p) = "check" THEN [r EXCEPT !.at = "remove"]
            ELSE IF Server!Phase(p) = "stop" THEN [r EXCEPT !.at = "signal"]
            ELSE Server!After(p)
    BY <1>5, <1>6, <1>11
  <2>2. CASE Server!Refused(p)
    BY <1>3, <2>1, <2>2, <1>4, <1>5, <1>11 DEF Server!Refused, WillStop, Goes
  <2>3. CASE ~Server!Refused(p) /\ Head(r.phases) = "check"
    BY <1>3, <2>1, <2>3, <1>7, <1>4 DEF Server!Refused, Goes, Moved
  <2>4. CASE Head(r.phases) = "stop"
    BY <1>3, <2>1, <2>4, <1>7, <1>11, <1>4 DEF Server!Refused, Goes, Moved
  <2>5. CASE Head(r.phases) = "inspect"
    <3>1. x = Server!After(p) /\ ~WillStop(r)
      BY <1>3, <2>1, <2>5 DEF Server!Refused, WillStop
    <3>2. r.phases = <<"inspect", "install", "stop", "check", "spawn">>
      BY <1>2, <2>5, ListHeads DEF PhasesOf, Server!Ops
    <3>3. Follows(r, x)
      BY <1>2, <3>1, <3>2, AfterFollows
    <3> QED
      BY <1>4, <3>1, <3>2, <3>3, Records DEF Follows, Goes
  <2> QED
    BY <1>3, <2>2, <2>3, <2>4, <2>5
<1> QED
  BY <1>5, <1>8, <1>9, <1>10, <1>11

\* Who has read the file knows that only the process in it may listen.
LEMMA ReadNobody ==
    ASSUME Server!ServerAssumption, ServerTypes, InTurn, scenario.patient, NEW p \in Pids, Busy(p),
           proc[p].at \in {"judge", "signal"}, ~Server!Alive(proc[p].seen) \/ proc[p].seen = p
    PROVE  NobodyListens
<1>1. SUFFICES ASSUME NEW q \in Pids, Server!At(q, "listen") PROVE FALSE
  BY DEF NobodyListens
<1>2. file = q /\ file = proc[p].seen /\ Server!Alive(q)
  BY <1>1 DEF InTurn, KnowsPaths, Server!At
<1>3. q # p
  BY <1>1 DEF Server!At, Busy, Idles
<1> QED
  BY <1>2, <1>3

LEMMA JudgeKeeps ==
    ASSUME Server!ServerAssumption, ServerTypes, NEW p \in Pids, Server!Judge(p) PROVE Keeps
<1> DEFINE x == proc'[p]
<1>1. /\ Server!At(p, "judge")
      /\ UNCHANGED <<file, port, disk, binary, tmp, stranger, scenario, requests, crashes>>
  BY DEF Server!Judge, Server!paths, Server!bounds
<1>2. Busy(p) /\ Server!Alive(p) /\ ProcessOK(proc[p]) /\ proc[p].at = "judge" /\ proc[p].op # "other"
  BY <1>1, Acting
<1>3. /\ Acts(p, x) /\ Goes(p, x)
      /\ x # Server!Ended => x.bin = proc[p].bin /\ x.seen = proc[p].seen /\ x.op = proc[p].op
      /\ \/ x = Server!Ended /\ proc[p].seen # None /\ (WillStop(proc[p]) => proc[p].seen \notin Pids)
         \/ x = Server!Ended /\ proc[p].seen = None /\ proc[p].op \in {"stop", "update"}
         \/ /\ x # Server!Ended /\ proc[p].seen = None /\ ~WillStop(proc[p])
            /\ \/ x.at \in {"truncate", "spawn"}
               \/ x.at = "read" /\ x.phases = <<"check", "spawn">>
               \/ x.at = "fetch" /\ x.phases = <<"install">>
            /\ x.op = "start" => x.at = "truncate"
         \/ /\ x # Server!Ended /\ x.at = "remove" /\ x.phases = proc[p].phases
            /\ ~Server!Alive(proc[p].seen) \/ proc[p].seen = p
         \/ x # Server!Ended /\ x.at = "signal" /\ x.phases = proc[p].phases
         \/ /\ x # Server!Ended /\ x.at = "fetch"
            /\ x.phases = <<"install", "stop", "check", "spawn">> /\ ~WillStop(proc[p])
  BY Judged
<1> HIDE DEF x
<1>4. x # Server!Ended => x.at \in {"truncate", "spawn", "read", "fetch", "remove", "signal"}
  BY <1>3
<1>5. ServerTypes'
  BY <1>1, <1>3, ActTypes DEF ServerTypes
<1>6. NamesKept => NamesKept'
  BY <1>1, <1>2, <1>3, ActNames
<1>7. StartsServe => StartsServe'
  BY <1>3, <1>1, <1>2, <1>4, ActStarts DEF StartsServe, Leaves, Serves
<1>8. ASSUME InTurn, scenario.patient PROVE InTurn'
  <2>1. Alone(p)
    BY <1>2, <1>8, Solo DEF Leaves
  <2>2. /\ file = proc[p].seen /\ (proc[p].op = "start" => proc[p].bin = disk[binary])
        /\ tmp # binary /\ disk[binary] \in {"old", "new"}
    BY <1>2, <1>8 DEF InTurn, KnowsPaths, Leaves
  <2>3. proc[p].seen \notin Pids \/ ~Server!Alive(proc[p].seen) \/ proc[p].seen = p => NobodyListens
    BY <1>2, <1>8, ReadNobody DEF Server!Alive
  <2>4. proc[p].seen = None => NobodyListens
    BY <2>3, Names
  <2>5. x # Server!Ended => KnowsPaths(p, x, file, tmp, disk, binary)
    BY <1>3, <1>4, <2>2 DEF KnowsPaths
  <2>6. Knows(proc[p]) => NobodyListens
    BY <1>2, <1>8 DEF InTurn
  <2>7. x # Server!Ended /\ Knows(x) => NobodyListens
    BY <1>3, <2>3, <2>4, <2>6 DEF Knows
  <2>8. NobodyListens \/ (x # Server!Ended /\ WillStop(x)) \/ ~WillStop(proc[p])
    BY <1>2, <1>3, <2>3, <2>4 DEF WillStop
  <2> QED
    BY <1>1, <1>2, <1>3, <1>4, <1>8, <2>1, <2>2, <2>5, <2>7, <2>8, ActTurn
<1>9. InTurn => InTurn'
  BY <1>1, <1>8 DEF InTurn
<1> QED
  BY <1>5, <1>6, <1>7, <1>9 DEF Keeps

LEMMA RemoveKeeps ==
    ASSUME Server!ServerAssumption, ServerTypes, NEW p \in Pids, Server!Remove(p) PROVE Keeps
<1> DEFINE x == proc'[p]
           r == proc[p]
<1>1. /\ Server!At(p, "remove") /\ file' = None /\ proc' = [proc EXCEPT ![p] = Server!NotRunning(p)]
      /\ UNCHANGED <<port, disk, binary, tmp, stranger, scenario, requests, crashes>>
  BY DEF Server!Remove, Server!paths, Server!bounds
<1>2. Busy(p) /\ Server!Alive(p) /\ ProcessOK(r) /\ r.at = "remove" /\ r.op # "other"
  BY <1>1, Acting
<1>3. Acts(p, x) /\ x = Server!NotRunning(p)
  BY <1>1 DEF Acts, ServerTypes
<1>4. \/ x = Server!Ended /\ r.op \in {"stop", "update"}
      \/ /\ ProcessOK(x) /\ x.op = r.op /\ x.bin = r.bin /\ x.seen = r.seen
         /\ \/ x.at \in {"truncate", "spawn"}
            \/ x.at = "read" /\ x.phases = <<"check", "spawn">>
            \/ x.at = "fetch" /\ x.phases = <<"install">>
  BY <1>2, <1>3, NotRunningFollows
<1> HIDE DEF x
<1>5. Goes(p, x) /\ (x # Server!Ended => x.at \in {"truncate", "spawn", "read", "fetch"} /\ x.seen = r.seen /\ x.bin = r.bin)
  BY <1>4 DEF Goes
<1>6. ServerTypes'
  BY <1>1, <1>3, <1>5, ActTypes DEF ServerTypes, Files
<1>7. NamesKept => NamesKept'
  BY <1>1, <1>2, <1>3, <1>5, ActNames
<1>8. StartsServe => StartsServe'
  BY <1>4, Records, <1>1, <1>2, <1>3, <1>5, ActStarts DEF StartsServe, Leaves, Serves
<1>9. ASSUME InTurn, scenario.patient PROVE InTurn'
  BY <1>2, <1>9, Solo, <1>4, <1>5, <1>1, <1>3, ActTurn DEF Leaves, InTurn, Knows, KnowsPaths
<1>10. InTurn => InTurn'
  BY <1>1, <1>9 DEF InTurn
<1> QED
  BY <1>6, <1>7, <1>8, <1>10 DEF Keeps

LEMMA WritePidKeeps ==
    ASSUME Server!ServerAssumption, ServerTypes, NEW p \in Pids, Server!WritePid(p) PROVE Keeps
<1> DEFINE r == proc[p]
<1>1. /\ \/ Server!At(p, "truncate") /\ file' = "empty" /\ Server!To(p, "write")
         \/ Server!At(p, "write") /\ file' = p /\ Server!To(p, "open")
      /\ UNCHANGED <<port, disk, binary, tmp, stranger, scenario, requests, crashes>>
  BY DEF Server!WritePid, Server!paths, Server!bounds
<1>2. Busy(p) /\ Server!Alive(p) /\ ProcessOK(r) /\ r.at \in {"truncate", "write"}
  BY <1>1, Acting
<1>3. r.op = "start" /\ Head(r.phases) = "serve" /\ r.phases # <<"install">>
  BY <1>2, Places, ListHeads DEF PlacesOf
<1>4. PICK at \in {"write", "open"} :
         /\ Server!To(p, at) /\ (at = "write" => r.at = "truncate" /\ file' = "empty")
         /\ (at = "open" => r.at = "write" /\ file' = p)
  BY <1>1, Acting
<1> DEFINE x == [r EXCEPT !.at = at]
<1>5. Acts(p, x) /\ Goes(p, x) /\ Moved(r, x, at) /\ x # Server!Ended
  BY <1>2, <1>3, <1>4, ToMoves DEF PlacesOf, Server!Ats
<1> HIDE DEF x
<1>6. x.at = at /\ x.seen = r.seen /\ x.bin = r.bin /\ x.op = r.op /\ x.phases = r.phases
  BY <1>5 DEF Moved
<1>7. ServerTypes'
  BY <1>1, <1>5, ActTypes DEF ServerTypes, Files
<1>8. NamesKept => NamesKept'
  BY <1>1, <1>2, <1>3, <1>5, <1>6, ActNames
<1>9. StartsServe => StartsServe'
  BY <1>1, <1>2, <1>5, <1>6, ActStarts DEF StartsServe, Leaves, Serves
<1>10. ASSUME InTurn, scenario.patient PROVE InTurn'
  <2>1. Alone(p) /\ NobodyListens
    BY <1>2, <1>10, Solo DEF Leaves, InTurn, Knows
  <2>2. r.bin = disk[binary] /\ tmp # binary /\ disk[binary] \in {"old", "new"}
    BY <1>2, <1>3, <1>10 DEF InTurn, KnowsPaths, Leaves
  <2>3. KnowsPaths(p, x, file', tmp, disk, binary)
    BY <1>4, <1>6, <2>2 DEF KnowsPaths
  <2> QED
    BY <1>1, <1>2, <1>5, <1>6, <1>10, <2>1, <2>2, <2>3, ActTurn
<1>11. InTurn => InTurn'
  BY <1>1, <1>10 DEF InTurn
<1> QED
  BY <1>7, <1>8, <1>9, <1>11 DEF Keeps

LEMMA OpenKeeps ==
    ASSUME Server!ServerAssumption, ServerTypes, NEW p \in Pids, Server!Open(p) PROVE Keeps
<1> DEFINE r == proc[p]
<1>1. /\ Server!At(p, "open") /\ (Server!To(p, "bind") \/ (scenario.faults /\ Server!To(p, "clean")))
      /\ UNCHANGED <<file, port, disk, binary, tmp, stranger, scenario, requests, crashes>>
  BY DEF Server!Open, Server!paths, Server!bounds
<1>2. Busy(p) /\ Server!Alive(p) /\ ProcessOK(r) /\ r.at = "open"
  BY <1>1, Acting
<1>3. r.op = "start" /\ Head(r.phases) = "serve" /\ r.phases # <<"install">>
  BY <1>2, Places, ListHeads DEF PlacesOf
<1>4. PICK at \in {"bind", "clean"} : Server!To(p, at) /\ (at = "clean" => scenario.faults)
  BY <1>1
<1> DEFINE x == [r EXCEPT !.at = at]
<1>5. Acts(p, x) /\ Goes(p, x) /\ Moved(r, x, at) /\ x # Server!Ended
  BY <1>2, <1>3, <1>4, ToMoves DEF PlacesOf, Server!Ats
<1> HIDE DEF x
<1>6. x.at = at /\ x.seen = r.seen /\ x.bin = r.bin /\ x.op = r.op /\ x.phases = r.phases
  BY <1>5 DEF Moved
<1>7. ServerTypes'
  BY <1>1, <1>5, ActTypes DEF ServerTypes
<1>8. NamesKept => NamesKept'
  BY <1>1, <1>2, <1>5, <1>6, ActNames
<1>9. StartsServe => StartsServe'
  BY <1>1, <1>2, <1>4, <1>5, <1>6, ActStarts DEF StartsServe, OnlyStarts, Leaves, Serves
<1>10. ASSUME InTurn, scenario.patient PROVE InTurn'
  <2>1. Alone(p) /\ NobodyListens
    BY <1>2, <1>10, Solo DEF Leaves, InTurn, Knows
  <2>2. file = p /\ r.bin = disk[binary] /\ tmp # binary /\ disk[binary] \in {"old", "new"}
    BY <1>2, <1>3, <1>10 DEF InTurn, KnowsPaths, Leaves
  <2>3. KnowsPaths(p, x, file, tmp, disk, binary)
    BY <1>4, <1>6, <2>2 DEF KnowsPaths
  <2> QED
    BY <1>1, <1>2, <1>5, <1>6, <1>10, <2>1, <2>2, <2>3, ActTurn
<1>11. InTurn => InTurn'
  BY <1>1, <1>10 DEF InTurn
<1> QED
  BY <1>7, <1>8, <1>9, <1>11 DEF Keeps

LEMMA ListenKeeps ==
    ASSUME Server!ServerAssumption, ServerTypes, NEW p \in Pids, Server!Listen(p) PROVE Keeps
<1> DEFINE r == proc[p]
<1>1. /\ Server!At(p, "bind")
      /\ IF port = None THEN port' = p /\ Server!To(p, "listen") ELSE port' = port /\ Server!To(p, "clean")
      /\ UNCHANGED <<file, disk, binary, tmp, stranger, scenario, requests, crashes>>
  BY DEF Server!Listen, Server!paths, Server!bounds
<1>2. Busy(p) /\ Server!Alive(p) /\ ProcessOK(r) /\ r.at = "bind"
  BY <1>1, Acting
<1>3. r.op = "start" /\ Head(r.phases) = "serve" /\ r.phases # <<"install">>
  BY <1>2, Places, ListHeads DEF PlacesOf
<1>4. PICK at \in {"listen", "clean"} :
         Server!To(p, at) /\ (at = "listen" => port' = p) /\ (at = "clean" => port # None /\ port' = port)
  BY <1>1
<1> DEFINE x == [r EXCEPT !.at = at]
<1>5. Acts(p, x) /\ Goes(p, x) /\ Moved(r, x, at) /\ x # Server!Ended
  BY <1>2, <1>3, <1>4, ToMoves DEF PlacesOf, Server!Ats
<1> HIDE DEF x
<1>6. /\ x.at = at /\ x.seen = r.seen /\ x.bin = r.bin /\ x.op = r.op /\ x.phases = r.phases
      /\ p # None /\ (port' = None => port = None /\ at = "clean")
  BY <1>4, <1>5, Names DEF Moved
<1>7. ServerTypes'
  BY <1>1, <1>4, <1>5, ActTypes DEF ServerTypes
<1>8. NamesKept => NamesKept'
  BY <1>1, <1>2, <1>5, <1>6, ActNames
<1>9. StartsServe => StartsServe'
  BY <1>4, <1>6, <1>1, <1>2, <1>5, ActStarts DEF StartsServe
<1>10. ASSUME InTurn, scenario.patient PROVE InTurn'
  <2>1. Alone(p) /\ NobodyListens
    BY <1>2, <1>10, Solo DEF Leaves, InTurn, Knows
  <2>2. file = p /\ r.bin = disk[binary] /\ tmp # binary /\ disk[binary] \in {"old", "new"}
    BY <1>2, <1>3, <1>10 DEF InTurn, KnowsPaths, Leaves
  <2>3. KnowsPaths(p, x, file, tmp, disk, binary)
    BY <1>4, <1>6, <2>2 DEF KnowsPaths
  <2> QED
    BY <1>1, <1>2, <1>4, <1>5, <1>6, <1>10, <2>1, <2>2, <2>3, ActTurn
<1>11. InTurn => InTurn'
  BY <1>1, <1>10 DEF InTurn
<1> QED
  BY <1>7, <1>8, <1>9, <1>11 DEF Keeps

LEMMA ShutdownKeeps ==
    ASSUME Server!ServerAssumption, ServerTypes, NEW p \in Pids, Server!Shutdown(p) PROVE Keeps
<1> DEFINE r == proc[p]
           x == [r EXCEPT !.at = "clean"]
<1>1. /\ Server!At(p, "closing") /\ port' = (IF port = p THEN None ELSE port) /\ Server!To(p, "clean")
      /\ UNCHANGED <<file, disk, binary, tmp, stranger, scenario, requests, crashes>>
  BY DEF Server!Shutdown, Server!paths, Server!bounds
<1>2. Busy(p) /\ Server!Alive(p) /\ ProcessOK(r) /\ r.at = "closing"
  BY <1>1, Acting
<1>3. r.op = "start" /\ Head(r.phases) = "serve" /\ r.phases # <<"install">>
  BY <1>2, Places, ListHeads DEF PlacesOf
<1>4. Acts(p, x) /\ Goes(p, x) /\ Moved(r, x, "clean") /\ x # Server!Ended
  BY <1>1, <1>2, <1>3, ToMoves DEF PlacesOf, Server!Ats
<1> HIDE DEF x
<1>5. x.at = "clean" /\ x.seen = r.seen /\ x.bin = r.bin /\ x.op = r.op /\ x.phases = r.phases
  BY <1>4 DEF Moved
<1>6. ServerTypes'
  BY <1>1, <1>4, ActTypes DEF ServerTypes
<1>7. NamesKept => NamesKept'
  BY <1>1, <1>2, <1>4, <1>5, ActNames
<1>8. StartsServe => StartsServe'
  BY <1>1, <1>2, <1>3, <1>4, <1>5, ActStarts DEF StartsServe, Leaves
<1>9. ASSUME InTurn, scenario.patient PROVE InTurn'
  BY <1>2, <1>9, <1>5, <1>1, <1>4, ActTurn DEF InTurn, Knows, KnowsPaths, Leaves
<1>10. InTurn => InTurn'
  BY <1>1, <1>9 DEF InTurn
<1> QED
  BY <1>6, <1>7, <1>8, <1>10 DEF Keeps

LEMMA CleanupKeeps ==
    ASSUME Server!ServerAssumption, ServerTypes, NEW p \in Pids, Server!CleanupServerPIDFile(p) PROVE Keeps
<1> DEFINE r == proc[p]
<1>1. /\ \/ Server!At(p, "clean") /\ file' = file
            /\ proc' = [proc EXCEPT ![p].seen = file, ![p].at = "leave"]
         \/ Server!At(p, "leave") /\ file' = (IF proc[p].seen = p THEN None ELSE file) /\ Server!Exit(p)
      /\ UNCHANGED <<port, disk, binary, tmp, stranger, scenario, requests, crashes>>
  BY DEF Server!CleanupServerPIDFile, Server!paths, Server!bounds
<1>2. Busy(p) /\ Server!Alive(p) /\ ProcessOK(r) /\ r.at \in {"clean", "leave"}
  BY <1>1, Acting
<1>3. r.op = "start" /\ Head(r.phases) = "serve" /\ r.phases # <<"install">> /\ Leaves(r)
  BY <1>2, Places, ListHeads DEF PlacesOf, Leaves
<1>4. PICK x : /\ Acts(p, x) /\ Goes(p, x) /\ file' \in {file, None}
               /\ x # Server!Ended => x.at = "leave" /\ x.seen = file /\ x.op = "start"
  <2>1. CASE Server!At(p, "clean")
    <3> DEFINE x == [r EXCEPT !.seen = file, !.at = "leave"]
    <3>1. file' = file /\ Acts(p, x)
      BY <1>1, <2>1 DEF Server!At, Acts, ServerTypes
    <3>2. x \in Server!Processes /\ x.at = "leave" /\ x.op = r.op /\ x.phases = r.phases /\ x.seen = file
      BY <1>2, Records DEF Server!Processes, Server!Ats, ServerTypes, Files
    <3>3. ProcessOK(x)
      BY <1>2, <1>3, <3>2 DEF ProcessOK, PlacesOf
    <3> QED
      BY <1>3, <3>1, <3>2, <3>3 DEF Goes
  <2>2. CASE Server!At(p, "leave")
    BY <1>1, <2>2 DEF Server!At, Server!Exit, Acts, ServerTypes, Goes
  <2> QED
    BY <1>1, <2>1, <2>2
<1>5. ServerTypes'
  BY <1>1, <1>4, ActTypes DEF ServerTypes, Files
<1>6. NamesKept => NamesKept'
  BY <1>1, <1>2, <1>4, ActNames
<1>7. StartsServe => StartsServe'
  BY <1>1, <1>2, <1>3, <1>4, ActStarts DEF StartsServe
<1>8. ASSUME InTurn, scenario.patient PROVE InTurn'
  BY <1>2, <1>8, <1>4, <1>1, <1>3, ActTurn DEF InTurn, Knows, KnowsPaths, Leaves
<1>9. InTurn => InTurn'
  BY <1>1, <1>8 DEF InTurn
<1> QED
  BY <1>5, <1>6, <1>7, <1>9 DEF Keeps

\* The process ends.
LEMMA Exits ==
    ASSUME ServerTypes, NEW p \in Pids, Server!Exit(p)
    PROVE  Acts(p, Server!Ended) /\ Goes(p, Server!Ended)
  BY DEF Server!Exit, Acts, Goes, ServerTypes

LEMMA WaitKeeps ==
    ASSUME Server!ServerAssumption, ServerTypes, NEW p \in Pids, Server!Wait(p) PROVE Keeps
<1> DEFINE r == proc[p]
<1>1. /\ Server!At(p, "wait")
      /\ \/ ~Server!Alive(r.seen) /\ Server!To(p, "stopped")
         \/ Server!Exit(p)
      /\ UNCHANGED <<file, port, disk, binary, tmp, stranger, scenario, requests, crashes>>
  BY DEF Server!Wait, Server!paths, Server!bounds
<1>2. Busy(p) /\ Server!Alive(p) /\ ProcessOK(r) /\ r.at = "wait"
  BY <1>1, Acting
<1>3. r.op \in {"stop", "restart", "update"} /\ Head(r.phases) = "stop" /\ r.phases # <<"install">>
  BY ListHeads, <1>2, Places
<1>4. PICK x : /\ Acts(p, x) /\ Goes(p, x)
               /\ x # Server!Ended =>
                     x.at = "stopped" /\ x.seen = r.seen /\ x.op = r.op /\ ~Server!Alive(r.seen)
  <2>1. CASE ~Server!Alive(r.seen) /\ Server!To(p, "stopped")
    <3> DEFINE x == [r EXCEPT !.at = "stopped"]
    <3>1. Acts(p, x) /\ Goes(p, x) /\ Moved(r, x, "stopped")
      BY <1>2, <1>3, <2>1, ToMoves DEF PlacesOf, Server!Ats
    <3> QED
      BY <2>1, <3>1 DEF Moved
  <2> QED
    BY <1>1, <2>1, Exits
<1>5. ServerTypes'
  BY <1>1, <1>4, ActTypes DEF ServerTypes
<1>6. NamesKept => NamesKept'
  BY <1>1, <1>2, <1>4, ActNames
<1>7. StartsServe => StartsServe'
  BY <1>1, <1>2, <1>3, <1>4, ActStarts
<1>8. ASSUME InTurn, scenario.patient PROVE InTurn'
  BY <1>2, <1>8, <1>3, <1>4, <1>1, ActTurn DEF InTurn, Knows, Alone, WaitsFor, Leaves, Busy,
     KnowsPaths
<1>9. InTurn => InTurn'
  BY <1>1, <1>8 DEF InTurn
<1> QED
  BY <1>5, <1>6, <1>7, <1>9 DEF Keeps

\* The process goes on after its phase.
LEMMA Advances ==
    ASSUME Server!ServerAssumption, ServerTypes, NEW p \in Pids, Server!Advance(p), ProcessOK(proc[p]),
           proc[p].op # "other"
    PROVE  \E x : /\ Acts(p, x) /\ Goes(p, x)
                  /\ IF proc[p].phases \in {<<"serve">>, <<"spawn">>, <<"stop">>, <<"install">>}
                     THEN x = Server!Ended ELSE Follows(proc[p], x)
<1> DEFINE x == Server!After(p)
<1>1. IF proc[p].phases \in {<<"serve">>, <<"spawn">>, <<"stop">>, <<"install">>}
      THEN x = Server!Ended ELSE Follows(proc[p], x)
  BY AfterFollows
<1>2. Acts(p, x)
  BY DEF Server!Advance, Acts, ServerTypes
<1> HIDE DEF x
<1>3. Goes(p, x)
  BY <1>1 DEF Goes, Follows
<1> QED
  BY <1>1, <1>2, <1>3

LEMMA StoppedKeeps ==
    ASSUME Server!ServerAssumption, ServerTypes, NEW p \in Pids, Server!Stopped(p) PROVE Keeps
<1> DEFINE r == proc[p]
<1>1. /\ Server!At(p, "stopped") \/ Server!At(p, "vanished")
      /\ file' = None /\ (Server!Advance(p) \/ Server!Exit(p))
      /\ UNCHANGED <<port, disk, binary, tmp, stranger, scenario, requests, crashes>>
  BY DEF Server!Stopped, Server!paths, Server!bounds
<1>2. Busy(p) /\ Server!Alive(p) /\ ProcessOK(r) /\ r.at \in {"stopped", "vanished"} /\ r.op # "other"
  BY <1>1, Acting
<1>3. r.op \in {"stop", "restart", "update"} /\ r.phases \in {<<"stop">>, <<"stop", "check", "spawn">>}
  BY <1>2, Places
<1>4. PICK x : /\ Acts(p, x) /\ Goes(p, x)
               /\ x # Server!Ended =>
                     x.at = "read" /\ x.phases = <<"check", "spawn">> /\ x.seen = r.seen /\ x.op = r.op
  <2>1. CASE Server!Advance(p)
    <3>1. PICK x : /\ Acts(p, x) /\ Goes(p, x)
                   /\ IF r.phases \in {<<"serve">>, <<"spawn">>, <<"stop">>, <<"install">>}
                      THEN x = Server!Ended ELSE Follows(r, x)
      BY <1>2, <2>1, Advances
    <3>2. r.phases = <<"stop">> => x = Server!Ended
      BY <3>1
    <3> QED
      BY <1>3, <3>1, <3>2 DEF Follows
  <2> QED
    BY <1>1, <2>1, Exits
<1>5. ServerTypes'
  BY <1>1, <1>4, ActTypes DEF ServerTypes, Files
<1>6. NamesKept => NamesKept'
  BY <1>1, <1>2, <1>4, ActNames
<1>7. StartsServe => StartsServe'
  BY <1>1, <1>2, <1>3, <1>4, ActStarts
<1>8. ASSUME InTurn, scenario.patient PROVE InTurn'
  BY <1>2, <1>8, Solo, <1>3, <1>4, <1>1, ActTurn DEF InTurn, Knows, Leaves, KnowsPaths
<1>9. InTurn => InTurn'
  BY <1>1, <1>8 DEF InTurn
<1> QED
  BY <1>5, <1>6, <1>7, <1>9 DEF Keeps

\* What an update does with the files, in its turn.
UpdateTurns(p, x) ==
    /\ Acts(p, x) /\ Goes(p, x)
    /\ x # Server!Ended => x.seen = proc[p].seen /\ x.at # "listen"
    /\ UNCHANGED <<file, port, stranger, scenario, requests>>
    /\ ServerTypes'
    /\ InTurn /\ scenario.patient =>
          /\ x # Server!Ended => (Knows(x) => NobodyListens) /\ KnowsPaths(p, x, file, tmp', disk', binary')
          /\ tmp' # binary' /\ disk'[binary'] \in {"old", "new"}
          /\ disk'[binary'] = disk[binary] \/ NobodyListens \/ (x # Server!Ended /\ WillStop(x))

LEMMA UpdateKeeps ==
    ASSUME Server!ServerAssumption, ServerTypes, NEW p \in Pids, NEW at \in PlacesOf("install"), Server!At(p, at),
           NEW x, UpdateTurns(p, x)
    PROVE  Keeps
BY Acting, Places, ActNames, ActStarts, Solo, ActTurn DEF PlacesOf, UpdateTurns, Leaves, WillStop,
   InTurn, Keeps

\* An update at a place of its installation, and what it knows in its turn.
LEMMA Updating ==
    ASSUME Server!ServerAssumption, ServerTypes, NEW p \in Pids, NEW at \in PlacesOf("install"), Server!At(p, at)
    PROVE  /\ ProcessOK(proc[p]) /\ proc[p].op = "update" /\ proc[p].at = at /\ Head(proc[p].phases) = "install"
           /\ proc[p] \in Server!Processes
           /\ proc[p].phases \in {<<"install">>, <<"install", "stop", "check", "spawn">>}
           /\ <<"install">> # <<"install", "stop", "check", "spawn">>
           /\ InTurn /\ scenario.patient =>
                 /\ (proc[p].phases = <<"install">> => NobodyListens)
                 /\ KnowsPaths(p, proc[p], file, tmp, disk, binary)
                 /\ tmp # binary /\ disk[binary] \in {"old", "new"}
           /\ disk \in [Inodes -> Server!Contents] /\ binary \in Inodes /\ tmp \in Inodes \cup {None}
           /\ file \in Files /\ port \in Pids \cup {None} /\ None \notin Inodes
BY Acting, ListLens, Places, ListHeads, Records, Names DEF PlacesOf, InTurn, Knows, ServerTypes

\* The update ends, or goes on to another place of its installation.
LEMMA UpdateMoves ==
    ASSUME Server!ServerAssumption, ServerTypes, NEW p \in Pids, NEW at \in PlacesOf("install"), Server!At(p, at),
           NEW to \in PlacesOf("install"), Server!Exit(p) \/ Server!To(p, to)
    PROVE  \E x : /\ Acts(p, x) /\ Goes(p, x)
                  /\ x = Server!Ended => Server!Exit(p)
                  /\ x # Server!Ended => Moved(proc[p], x, to) /\ Server!To(p, to)
<1>1. CASE Server!To(p, to)
  <2> DEFINE x == [proc[p] EXCEPT !.at = to]
  <2>1. to # "signal" /\ to \in Server!Ats
    BY DEF PlacesOf, Server!Ats
  <2>2. Acts(p, x) /\ Goes(p, x) /\ Moved(proc[p], x, to) /\ x # Server!Ended
    BY <1>1, <2>1, Updating, ToMoves DEF Server!At
  <2> QED
    BY <1>1, <2>2
<1>2. CASE Server!Exit(p)
  BY <1>2, Exits
<1> QED
  BY <1>1, <1>2

LEMMA FetchKeeps ==
    ASSUME Server!ServerAssumption, ServerTypes, NEW p \in Pids, Server!Fetch(p) PROVE Keeps
<1>1. /\ Server!At(p, "fetch") /\ (Server!Exit(p) \/ Server!To(p, "create"))
      /\ UNCHANGED <<file, port, disk, binary, tmp, stranger, scenario, requests, crashes>>
  BY DEF Server!Fetch, Server!paths, Server!bounds
<1>2. "fetch" \in PlacesOf("install") /\ "create" \in PlacesOf("install")
  BY DEF PlacesOf
<1>3. PICK x : /\ Acts(p, x) /\ Goes(p, x) /\ (x # Server!Ended => Moved(proc[p], x, "create"))
  BY <1>1, <1>2, UpdateMoves
<1>4. /\ proc[p].op = "update" /\ proc[p].phases \in {<<"install">>, <<"install", "stop", "check", "spawn">>}
      /\ InTurn /\ scenario.patient =>
            /\ (proc[p].phases = <<"install">> => NobodyListens)
            /\ tmp # binary /\ disk[binary] \in {"old", "new"}
  BY <1>1, <1>2, Updating
<1>5. ServerTypes'
  BY <1>1, <1>3, ActTypes DEF ServerTypes
<1>6. UpdateTurns(p, x)
  BY <1>1, <1>3, <1>4, <1>5 DEF UpdateTurns, Moved, Knows, KnowsPaths
<1> QED
  BY <1>1, <1>2, <1>6, UpdateKeeps

LEMMA CreateTmpKeeps ==
    ASSUME Server!ServerAssumption, ServerTypes, NEW p \in Pids, Server!CreateTmp(p) PROVE Keeps
<1> DEFINE r == proc[p]
<1>1. "create" \in PlacesOf("install")
  BY DEF PlacesOf
<1>2. PICK i \in Inodes :
         /\ IF tmp = None THEN disk[i] = None ELSE i = tmp
         /\ tmp' = i /\ disk' = [disk EXCEPT ![i] = "part"]
         /\ proc' = [proc EXCEPT ![p].fd = i, ![p].at = "copy"]
  BY DEF Server!CreateTmp
<1>3. Server!At(p, "create") /\ UNCHANGED <<file, port, binary, stranger, scenario, requests, crashes>>
  BY DEF Server!CreateTmp, Server!bounds
<1>4. /\ ProcessOK(r) /\ r.op = "update" /\ Head(r.phases) = "install" /\ r \in Server!Processes
      /\ r.phases \in {<<"install">>, <<"install", "stop", "check", "spawn">>}
      /\ InTurn /\ scenario.patient =>
            /\ (r.phases = <<"install">> => NobodyListens)
            /\ tmp # binary /\ disk[binary] \in {"old", "new"}
      /\ disk \in [Inodes -> Server!Contents] /\ binary \in Inodes /\ file \in Files
      /\ port \in Pids \cup {None} /\ None \notin Inodes
  BY <1>1, <1>3, Updating
<1> DEFINE x == [r EXCEPT !.fd = i, !.at = "copy"]
<1>5. /\ x \in Server!Processes /\ x.at = "copy" /\ x.op = r.op /\ x.phases = r.phases /\ x.fd = i
      /\ x.seen = r.seen
  BY <1>4 DEF Server!Processes, Server!Ats
<1>6. ProcessOK(x)
  BY <1>1, <1>4, <1>5 DEF ProcessOK, PlacesOf
<1>7. Acts(p, x) /\ Goes(p, x)
  BY <1>2, <1>5, <1>6 DEF Acts, Goes, ServerTypes
<1> HIDE DEF x
<1>8. disk' \in [Inodes -> Server!Contents]
  BY <1>2, <1>4 DEF Server!Contents
<1>9. ServerTypes'
  BY <1>2, <1>3, <1>4, <1>7, <1>8, ActTypes
<1>10. ASSUME InTurn, scenario.patient PROVE disk'[binary'] = disk[binary] /\ tmp' # binary'
  BY <1>2, <1>4, <1>10, Names, <1>3
<1>11. UpdateTurns(p, x)
  BY <1>2, <1>3, <1>4, <1>5, <1>7, <1>9, <1>10 DEF UpdateTurns, Knows, KnowsPaths
<1> QED
  BY <1>1, <1>3, <1>11, UpdateKeeps

LEMMA CopiedKeeps ==
    ASSUME Server!ServerAssumption, ServerTypes, NEW p \in Pids, Server!Copied(p) PROVE Keeps
<1> DEFINE r == proc[p]
<1>1. "copy" \in PlacesOf("install")
  BY DEF PlacesOf
<1>2. PICK got \in {"new", "bad"} :
         disk' = [disk EXCEPT ![r.fd] = IF Server!Writers(r.fd) = {p} THEN got ELSE "part"]
  BY DEF Server!Copied
<1>3. /\ Server!At(p, "copy") /\ proc' = [proc EXCEPT ![p].fd = None, ![p].at = "verify"]
      /\ UNCHANGED <<file, port, binary, tmp, stranger, scenario, requests, crashes>>
  BY DEF Server!Copied, Server!bounds
<1>4. /\ ProcessOK(r) /\ r.op = "update" /\ r.at = "copy" /\ Head(r.phases) = "install" /\ r \in Server!Processes
      /\ r.phases \in {<<"install">>, <<"install", "stop", "check", "spawn">>}
      /\ InTurn /\ scenario.patient =>
            /\ (r.phases = <<"install">> => NobodyListens)
            /\ KnowsPaths(p, r, file, tmp, disk, binary)
            /\ tmp # binary /\ disk[binary] \in {"old", "new"}
      /\ disk \in [Inodes -> Server!Contents] /\ binary \in Inodes /\ file \in Files
      /\ port \in Pids \cup {None} /\ tmp \in Inodes \cup {None}
  BY <1>1, <1>3, Updating
<1> DEFINE x == [r EXCEPT !.fd = None, !.at = "verify"]
<1>5. /\ x \in Server!Processes /\ x.at = "verify" /\ x.op = r.op /\ x.phases = r.phases
      /\ x.seen = r.seen
  BY <1>4 DEF Server!Processes, Server!Ats
<1>6. ProcessOK(x)
  BY <1>1, <1>4, <1>5 DEF ProcessOK, PlacesOf
<1>7. Acts(p, x) /\ Goes(p, x)
  BY <1>3, <1>5, <1>6 DEF Acts, Goes, ServerTypes
<1> HIDE DEF x
<1>8. disk' \in [Inodes -> Server!Contents]
  BY <1>2, <1>4 DEF Server!Contents
<1>9. ServerTypes'
  BY <1>3, <1>4, <1>7, <1>8, ActTypes
<1>10. ASSUME InTurn, scenario.patient PROVE disk'[binary'] = disk[binary]
  BY <1>4, <1>10, <1>2, <1>3 DEF KnowsPaths
<1>11. UpdateTurns(p, x)
  BY <1>3, <1>4, <1>5, <1>7, <1>9, <1>10 DEF UpdateTurns, Knows, KnowsPaths
<1> QED
  BY <1>1, <1>3, <1>11, UpdateKeeps

LEMMA DownloadFailsKeeps ==
    ASSUME Server!ServerAssumption, ServerTypes, NEW p \in Pids, Server!DownloadFails(p) PROVE Keeps
BY Updating, Exits, ActTypes, UpdateKeeps DEF PlacesOf, Server!DownloadFails, Server!bounds,
   ServerTypes, UpdateTurns

LEMMA VerifyKeeps ==
    ASSUME Server!ServerAssumption, ServerTypes, NEW p \in Pids, Server!Verify(p) PROVE Keeps
<1>1. "verify" \in PlacesOf("install") /\ "rename" \in PlacesOf("install")
  BY DEF PlacesOf
<1>2. /\ Server!At(p, "verify")
      /\ \/ tmp # None /\ Server!Verified(disk[tmp]) /\ Server!To(p, "rename") /\ tmp' = tmp
         \/ tmp' = None /\ Server!Exit(p)
      /\ UNCHANGED <<file, port, disk, binary, stranger, scenario, requests, crashes>>
  BY DEF Server!Verify, Server!bounds
<1>3. /\ proc[p].op = "update" /\ proc[p].phases \in {<<"install">>, <<"install", "stop", "check", "spawn">>}
      /\ InTurn /\ scenario.patient =>
            /\ (proc[p].phases = <<"install">> => NobodyListens)
            /\ tmp # binary /\ disk[binary] \in {"old", "new"}
      /\ binary \in Inodes /\ None \notin Inodes
  BY <1>1, <1>2, Updating
<1>4. PICK x : /\ Acts(p, x) /\ Goes(p, x) /\ tmp' \in {tmp, None}
               /\ x # Server!Ended => Moved(proc[p], x, "rename") /\ tmp' = tmp /\ tmp # None /\ disk[tmp] = "new"
  BY <1>1, <1>2, UpdateMoves, Exits DEF Server!Verified
<1>5. ServerTypes'
  BY <1>2, <1>4, ActTypes DEF ServerTypes
<1>6. UpdateTurns(p, x)
  BY <1>2, <1>3, <1>4, <1>5 DEF UpdateTurns, Moved, Knows, KnowsPaths
<1> QED
  BY <1>1, <1>2, <1>6, UpdateKeeps

LEMMA RenameKeeps ==
    ASSUME Server!ServerAssumption, ServerTypes, NEW p \in Pids, Server!Rename(p) PROVE Keeps
<1> DEFINE r == proc[p]
<1>1. "rename" \in PlacesOf("install")
  BY DEF PlacesOf
<1>2. /\ Server!At(p, "rename")
      /\ \/ tmp = None /\ Server!Exit(p) /\ binary' = binary /\ tmp' = tmp
         \/ tmp # None /\ binary' = tmp /\ tmp' = None /\ Server!Advance(p)
      /\ UNCHANGED <<file, port, disk, stranger, scenario, requests, crashes>>
  BY DEF Server!Rename, Server!bounds
<1>3. /\ ProcessOK(r) /\ r.op = "update" /\ r.at = "rename"
      /\ r.phases \in {<<"install">>, <<"install", "stop", "check", "spawn">>}
      /\ <<"install">> # <<"install", "stop", "check", "spawn">>
      /\ InTurn /\ scenario.patient =>
            /\ (r.phases = <<"install">> => NobodyListens)
            /\ KnowsPaths(p, r, file, tmp, disk, binary)
            /\ tmp # binary /\ disk[binary] \in {"old", "new"}
      /\ binary \in Inodes /\ None \notin Inodes /\ tmp \in Inodes \cup {None}
  BY <1>1, <1>2, Updating
<1>4. PICK x : /\ Acts(p, x) /\ Goes(p, x)
               /\ x = Server!Ended => (tmp = None /\ tmp' = tmp /\ binary' = binary) \/ r.phases = <<"install">>
               /\ x # Server!Ended =>
                     x.at = "read" /\ x.phases = <<"stop", "check", "spawn">> /\ x.seen = r.seen /\ x.op = r.op
  <2>1. CASE tmp = None /\ Server!Exit(p) /\ binary' = binary /\ tmp' = tmp
    BY <2>1, Exits
  <2>2. CASE Server!Advance(p)
    <3>1. PICK x : /\ Acts(p, x) /\ Goes(p, x)
                   /\ IF r.phases \in {<<"serve">>, <<"spawn">>, <<"stop">>, <<"install">>}
                      THEN x = Server!Ended ELSE Follows(r, x)
      BY <1>3, <2>2, Advances
    <3>2. r.phases = <<"install">> => x = Server!Ended
      BY <3>1
    <3>3. r.phases # <<"install">> => Follows(r, x)
      BY ListLens, <1>3, <3>1
    <3>4. r.phases # <<"install">> => x # Server!Ended
      BY <3>3, Records DEF Follows
    <3> QED
      BY <1>3, <3>1, <3>2, <3>3, <3>4 DEF Follows
  <2> QED
    BY <1>2, <2>1, <2>2
<1>5. binary' \in Inodes /\ tmp' \in Inodes \cup {None}
  BY <1>2, <1>3
<1>6. ServerTypes'
  BY <1>2, <1>4, <1>5, ActTypes DEF ServerTypes
<1>7. ASSUME InTurn, scenario.patient PROVE tmp' # binary' /\ disk'[binary'] \in {"old", "new"}
  BY <1>3, <1>7, <1>2 DEF KnowsPaths
<1>8. x # Server!Ended => WillStop(x) /\ ~Knows(x) /\ KnowsPaths(p, x, file, tmp', disk', binary')
  BY ListLens, <1>3, <1>4, ListHeads DEF WillStop, Knows, KnowsPaths
<1>9. UpdateTurns(p, x)
  BY <1>2, <1>3, <1>4, <1>6, <1>7, <1>8 DEF UpdateTurns
<1> QED
  BY <1>1, <1>2, <1>9, UpdateKeeps

----------------------------------------------------------------------------
(* Steps of two processes. *)

\* The record of a process that begins.
LEMMA Begun ==
    ASSUME Server!ServerAssumption, ServerTypes, NEW op \in Server!Ops \ {"other"}, NEW x, x = Server!Process(op)
    PROVE  /\ ProcessOK(x) /\ x.op = op /\ x.at = "read" /\ x.phases # <<"install">> /\ x.seen = None
           /\ x.bin = disk[binary] /\ x # Server!Ended
           /\ op = "update" => Head(x.phases) = "inspect"
<1> DEFINE s == Server!Phases[op]
<1>1. /\ s \in PhasesOf(op) /\ s # <<"install">> /\ s[1] = Head(s) /\ Head(s) \in {"check", "stop", "inspect"}
      /\ s \in Seq({"check", "serve", "spawn", "stop", "inspect", "install"})
      /\ op = "update" => Head(s) = "inspect"
  <2>1. CASE op = "start"
    BY <2>1 DEF Server!Phases, PhasesOf
  <2>2. CASE op = "detach"
    BY <2>2 DEF Server!Phases, PhasesOf
  <2>3. CASE op = "stop"
    BY <2>3 DEF Server!Phases, PhasesOf
  <2>4. CASE op = "restart"
    BY <2>4 DEF Server!Phases, PhasesOf
  <2>5. CASE op = "update"
    BY <2>5 DEF Server!Phases, PhasesOf
  <2> QED
    BY <2>1, <2>2, <2>3, <2>4, <2>5 DEF Server!Ops
<1>2. Server!Begins(s[1]) = "read" /\ "read" \in PlacesOf(Head(s))
  BY <1>1 DEF Server!Begins, PlacesOf, PidReading
<1> HIDE DEF s
<1>3. x = [op |-> op, at |-> "read", phases |-> s, seen |-> None, bin |-> disk[binary], fd |-> None]
  BY <1>2 DEF Server!Process, s
<1>4. x \in Server!Processes
  BY <1>1, <1>3 DEF Server!Processes, Server!Ats, ServerTypes
<1>5. ProcessOK(x)
  BY <1>1, <1>2, <1>3, <1>4 DEF ProcessOK
<1> QED
  BY <1>1, <1>3, <1>5, Records

\* Whose id is free does not run.
LEMMA Free ==
    ASSUME NEW p \in Server!Pick
    PROVE  p \in Pids /\ ~Server!Alive(p) /\ (~scenario.reuse => proc[p] = None)
BY DEF Server!Pick, Server!FreePids, Server!Alive

\* The process p ends, and c begins as a start.
LEMMA ChildKeeps ==
    ASSUME Server!ServerAssumption, ServerTypes, NEW p \in Pids, Server!At(p, "spawn"), NEW c \in Server!Pick,
           disk[binary] \in {"old", "new"},
           proc' = [proc EXCEPT ![p] = Server!Ended, ![c] = Server!Process("start")],
           UNCHANGED <<file, port, disk, binary, tmp, stranger, scenario, requests, crashes>>
    PROVE  Keeps
<1> DEFINE x == Server!Process("start")
<1>1. Busy(p) /\ Server!Alive(p) /\ ProcessOK(proc[p]) /\ proc[p].at = "spawn"
  BY Acting
<1>2. c \in Pids /\ ~Server!Alive(c) /\ (~scenario.reuse => proc[c] = None) /\ c # p
  BY <1>1, Free
<1>3. /\ ProcessOK(x) /\ x.op = "start" /\ x.at = "read" /\ x.phases # <<"install">> /\ x.seen = None
      /\ x.bin = disk[binary] /\ x # Server!Ended /\ x # None
  BY Begun, Records DEF Server!Ops
<1> HIDE DEF x
<1>4. /\ proc'[p] = Server!Ended /\ proc'[c] = x /\ \A q \in Pids : q # p /\ q # c => proc'[q] = proc[q]
      /\ proc' = [q \in Pids |-> proc'[q]]
  BY <1>2 DEF ServerTypes, x
<1>5. /\ ~Server!Alive(p)' /\ Server!Alive(c)'
      /\ \A q \in Pids : q # p /\ q # c => (Server!Alive(q)' <=> Server!Alive(q))
  BY <1>2, <1>3, <1>4 DEF Server!Alive
<1>6. ServerTypes'
  BY <1>3, <1>4, <1>5 DEF ServerTypes
<1>7. ASSUME NamesKept PROVE NamesKept'
  <2>1. Server!Ended # None /\ Server!Ended.op = "gone"
    BY DEF Server!ServerAssumption, Server!Ended
  <2>2. ASSUME NEW y, Named(y) PROVE y \in Pids => proc'[y] # None /\ proc'[y].op \in {"start", "gone"}
    BY <1>3, <1>4, <2>1, <2>2 DEF Named
  <2>3. ~scenario.reuse => Named(file)' /\ ~stranger'
    BY <1>7, <2>2 DEF NamesKept, Named
  <2>4. ASSUME ~scenario.reuse, NEW q \in Pids, Server!Alive(q)' PROVE Named(proc[q].seen)'
    BY <1>3, <1>4, Names, <1>5, <1>7, <2>4, <2>2 DEF Named, NamesKept
  <2> QED
    BY <2>3, <2>4 DEF NamesKept
<1>8. ASSUME StartsServe, OnlyStarts
      PROVE  /\ \A q \in Pids : Server!Alive(q)' =>
                   proc'[q].op \in {"start", "detach", "other"} /\ proc'[q].at # "closing"
             /\ port = None =>
                   /\ \A q \in Pids : Server!Alive(q)' => proc'[q].at # "listen" /\ ~Leaves(proc'[q])
                   /\ file # None \/ (\E q \in Pids : Server!Alive(q)' /\ proc'[q].seen # None) =>
                         \E q \in Pids : Server!Alive(q)' /\ Serves(proc'[q])
                   /\ \E q \in Pids : Busy(q)'
  <2>1. \A q \in Pids : Server!Alive(q)' =>
           proc'[q].op \in {"start", "detach", "other"} /\ proc'[q].at # "closing"
    BY <1>3, <1>4, <1>5, <1>8 DEF StartsServe
  <2>2. port = None => \A q \in Pids : Server!Alive(q)' => proc'[q].at # "listen" /\ ~Leaves(proc'[q])
    BY <1>3, <1>4, <1>5, <1>8 DEF StartsServe, Leaves
  <2>3. ASSUME port = None, file # None \/ (\E q \in Pids : Server!Alive(q)' /\ proc'[q].seen # None)
        PROVE  \E q \in Pids : Server!Alive(q)' /\ Serves(proc'[q])
    <3>1. file # None \/ \E q \in Pids : Server!Alive(q) /\ proc[q].seen # None
      BY <1>3, <1>4, <1>5, <2>3
    <3>2. PICK q \in Pids : Server!Alive(q) /\ Serves(proc[q])
      BY <1>8, <2>3, <3>1 DEF StartsServe
    <3>3. q # p /\ q # c
      BY <1>1, <1>2, <3>2 DEF Serves
    <3> QED
      BY <1>4, <1>5, <3>2, <3>3
  <2>4. Busy(c)'
    BY <1>3, <1>4, <1>5 DEF Busy, Idles
  <2> QED
    BY <1>2, <2>1, <2>2, <2>3, <2>4
<1>9. StartsServe => StartsServe'
  BY <1>8 DEF StartsServe, OnlyStarts, Leaves, Serves
<1>10. ASSUME InTurn, scenario.patient PROVE InTurn'
  <2>1. Alone(p) /\ NobodyListens /\ tmp # binary
    BY <1>1, <1>10, Solo DEF Leaves, InTurn, Knows
  <2>2. \A q \in Pids : Busy(q)' => q = c
    BY <1>4, <1>5, <2>1 DEF Alone, Busy, Idles
  <2>3. \A q \in Pids : ~Server!At(q, "listen")'
    BY <1>3, <1>4, <1>5, <2>1 DEF NobodyListens, Server!At
  <2>4. ~Knows(x) /\ KnowsPaths(c, x, file, tmp, disk, binary)
    BY <1>3 DEF Knows, KnowsPaths
  <2>5. \A q \in Pids : Busy(q)' =>
           (Knows(proc'[q]) => NobodyListens') /\ KnowsPaths(q, proc'[q], file', tmp', disk', binary')
    BY <1>4, <2>2, <2>4
  <2> QED
    BY <2>1, <2>2, <2>3, <2>5 DEF InTurn, Knows, KnowsPaths
<1>11. InTurn => InTurn'
  BY <1>10 DEF InTurn
<1> QED
  BY <1>6, <1>7, <1>9, <1>11 DEF Keeps

LEMMA SpawnKeeps ==
    ASSUME Server!ServerAssumption, ServerTypes, NEW p \in Pids, Server!Spawn(p) PROVE Keeps
<1>1. /\ Server!At(p, "spawn")
      /\ UNCHANGED <<file, port, disk, binary, tmp, stranger, scenario, requests, crashes>>
  BY DEF Server!Spawn, Server!paths, Server!bounds
<1>2. CASE disk[binary] \in {"old", "new"}
  <2>1. PICK c \in Server!Pick : proc' = [proc EXCEPT ![p] = Server!Ended, ![c] = Server!Process("start")]
    BY <1>2 DEF Server!Spawn
  <2> QED
    BY <1>1, <1>2, <2>1, ChildKeeps
<1>3. CASE disk[binary] \notin {"old", "new"}
  BY <1>1, Acting, <1>3, Exits, ActTypes, ActNames DEF Server!Spawn, ServerTypes, StartsServe,
     OnlyStarts, InTurn, Keeps
<1> QED
  BY <1>2, <1>3

\* The process p signals the process q, which goes on with the record y or ends.
LEMMA SignalledKeeps ==
    ASSUME Server!ServerAssumption, ServerTypes, NEW p \in Pids, Server!At(p, "signal"),
           NEW q, q = proc[p].seen, q # p, Server!Alive(q),
           proc' = [proc EXCEPT ![p].at = "wait",
                                ![q] = IF ~Server!Handles(q) THEN Server!Ended
                                       ELSE IF @.at \in {"bind", "listen"}
                                            THEN [@ EXCEPT !.at = "closing"] ELSE @],
           stranger' = (stranger \/ proc[q].op # "start"),
           UNCHANGED <<file, port, disk, binary, tmp, scenario, requests, crashes>>
    PROVE  Keeps
<1> DEFINE r == proc[p]
           x == [r EXCEPT !.at = "wait"]
           y == IF ~Server!Handles(q) THEN Server!Ended
                ELSE IF proc[q].at \in {"bind", "listen"} THEN [proc[q] EXCEPT !.at = "closing"] ELSE proc[q]
<1>1. Busy(p) /\ Server!Alive(p) /\ ProcessOK(r) /\ r.at = "signal" /\ r \in Server!Processes
  BY Acting, Records
<1>2. r.op \in {"stop", "restart", "update"} /\ Head(r.phases) = "stop" /\ r.phases # <<"install">>
  BY ListHeads, <1>1, Places
<1>3. q \in Pids /\ ProcessOK(proc[q]) /\ proc[q] \in Server!Processes /\ proc[q].op \in Server!Ops
  BY Records DEF Server!Alive, ServerTypes
<1>4. /\ x \in Server!Processes /\ x.at = "wait" /\ x.op = r.op /\ x.phases = r.phases /\ x.seen = q
  BY <1>1 DEF Server!Processes, Server!Ats
<1>5. ProcessOK(x) /\ x # Server!Ended /\ x # None
  <2>1. ProcessOK(x)
    BY <1>1, <1>2, <1>4 DEF ProcessOK, PlacesOf
  <2> QED
    BY <2>1, Records
<1>6. \/ y = Server!Ended
      \/ y # Server!Ended /\ ProcessOK(y) /\ y.op = "start" /\ y.seen = proc[q].seen /\ Leaves(y)
  <2>1. CASE Server!Handles(q)
    <3>1. proc[q].op = "start" /\ Head(proc[q].phases) = "serve"
          /\ proc[q].at \in {"bind", "listen", "closing"}
      BY <1>3, <2>1, Places, ListHeads DEF Server!Handles, PlacesOf
    <3>2. CASE proc[q].at \in {"bind", "listen"}
      <4> DEFINE z == [proc[q] EXCEPT !.at = "closing"]
      <4>1. z \in Server!Processes /\ z.at = "closing" /\ z.op = proc[q].op /\ z.phases = proc[q].phases
            /\ z.seen = proc[q].seen
        BY <1>3 DEF Server!Processes, Server!Ats
      <4>2. ProcessOK(z)
        BY <1>3, <3>1, <4>1 DEF ProcessOK, PlacesOf
      <4>3. y = z
        BY <2>1, <3>2
      <4> QED
        BY <3>1, <4>1, <4>2, <4>3, Records DEF Leaves
    <3>3. CASE proc[q].at \notin {"bind", "listen"}
      BY <2>1, <3>3, <1>3, <3>1, Records DEF Leaves
    <3> QED
      BY <3>2, <3>3
  <2> QED
    BY <2>1
<1>7. /\ proc'[p] = x /\ proc'[q] = y /\ \A s \in Pids : s # p /\ s # q => proc'[s] = proc[s]
      /\ proc' = [s \in Pids |-> proc'[s]]
  BY <1>3 DEF ServerTypes
<1> HIDE DEF x, y
<1>8. y # None
  BY <1>6, Records DEF Server!ServerAssumption, Server!Ended
<1>9. /\ Server!Alive(p)' /\ (Server!Alive(q)' <=> y # Server!Ended)
      /\ \A s \in Pids : s # p /\ s # q => (Server!Alive(s)' <=> Server!Alive(s))
  BY <1>3, <1>5, <1>7, <1>8 DEF Server!Alive
<1>10. ServerTypes'
  BY <1>5, <1>6, <1>7, <1>9 DEF ServerTypes
<1>11. ASSUME NamesKept PROVE NamesKept'
  <2> SUFFICES ASSUME ~scenario.reuse
               PROVE  Named(file)' /\ ~stranger' /\ \A s \in Pids : Server!Alive(s)' => Named(proc[s].seen)'
    BY DEF NamesKept
  <2>1. Named(file) /\ ~stranger /\ \A s \in Pids : Server!Alive(s) => Named(proc[s].seen)
    BY <1>11 DEF NamesKept
  <2>2. proc[q].op = "start"
    BY <1>1, <1>3, <2>1 DEF Named, Server!Ops
  <2>3. y.op \in {"start", "gone"}
    BY <1>6 DEF Server!Ended
  <2>4. ASSUME NEW z, Named(z) PROVE z \in Pids => proc'[z] # None /\ proc'[z].op \in {"start", "gone"}
    BY <1>4, <1>5, <1>7, <1>8, <2>3, <2>4 DEF Named
  <2>5. Named(file)' /\ ~stranger'
    BY <2>1, <2>2, <2>4 DEF Named
  <2>6. ASSUME NEW s \in Pids, Server!Alive(s)' PROVE Named(proc[s].seen)'
    <3>1. Named(proc'[s].seen)
      <4>1. CASE s = p
        BY <1>4, <1>7, <4>1, <1>1, <2>1
      <4>2. CASE s = q
        BY <1>6, <1>7, <1>9, <2>6, <4>2, <1>3, <2>1
      <4>3. CASE s # p /\ s # q
        BY <1>7, <1>9, <2>1, <2>6, <4>3
      <4> QED
        BY <4>1, <4>2, <4>3
    <3> QED
      BY <2>4, <3>1 DEF Named
  <2> QED
    BY <2>5, <2>6
<1>12. ASSUME StartsServe PROVE StartsServe'
  BY <1>1, <1>2, <1>12 DEF StartsServe, OnlyStarts
<1>13. ASSUME InTurn, scenario.patient PROVE InTurn'
  <2>1. Alone(p) /\ file = q /\ tmp # binary /\ disk[binary] \in {"old", "new"}
    BY <1>1, <1>13, Solo DEF Leaves, InTurn, KnowsPaths
  <2>2. \A s \in Pids : Server!At(s, "listen") => s = q
    BY <1>13, <2>1 DEF InTurn
  <2>3. \A s \in Pids : ~Server!At(s, "listen")'
    BY <1>4, <1>6, <1>7, <1>9, <2>2 DEF Server!At, Leaves
  <2>4. \A s \in Pids : Busy(s)' => s = p \/ (s = q /\ y # Server!Ended)
    BY <1>7, <1>9, <2>1 DEF Alone, Busy, Idles
  <2>5. y # Server!Ended => WaitsFor(p, q)'
    BY <1>4, <1>6, <1>7 DEF WaitsFor, Leaves
  <2>6. KnowsPaths(p, x, file, tmp, disk, binary) /\ (y # Server!Ended => KnowsPaths(q, y, file, tmp, disk, binary))
    BY <1>2, <1>4, <1>6 DEF KnowsPaths, Leaves
  <2>7. \A s \in Pids : Busy(s)' =>
           (Knows(proc'[s]) => NobodyListens') /\ KnowsPaths(s, proc'[s], file', tmp', disk', binary')
    BY <1>7, <2>3, <2>4, <2>6 DEF NobodyListens
  <2>8. \A s, t \in Pids : Busy(s)' /\ Busy(t)' /\ s # t => WaitsFor(s, t)' \/ WaitsFor(t, s)'
    BY <2>4, <2>5
  <2> QED
    BY <2>1, <2>3, <2>7, <2>8 DEF InTurn, Knows, KnowsPaths
<1>14. InTurn => InTurn'
  BY <1>13 DEF InTurn
<1> QED
  BY <1>10, <1>11, <1>12, <1>14 DEF Keeps

\* Whoever it was is gone, or it is the process itself.
LEMMA VanishedKeeps ==
    ASSUME Server!ServerAssumption, ServerTypes, NEW p \in Pids, Server!At(p, "signal"),
           NEW x, Acts(p, x), Goes(p, x), ~Server!Alive(proc[p].seen) \/ proc[p].seen = p,
           x # Server!Ended => Moved(proc[p], x, "vanished"),
           stranger' = (stranger \/ (Server!Alive(proc[p].seen) /\ proc[proc[p].seen].op # "start")),
           UNCHANGED <<file, port, disk, binary, tmp, scenario, requests, crashes>>
    PROVE  Keeps
<1> DEFINE r == proc[p]
<1>1. Busy(p) /\ Server!Alive(p) /\ ProcessOK(r) /\ r.at = "signal" /\ r.op \in Server!Ops
  BY Acting
<1>2. r.op \in {"stop", "restart", "update"} /\ r.phases # <<"install">>
  BY ListHeads, <1>1, Places
<1>3. ServerTypes'
  BY ActTypes DEF ServerTypes
<1>4. ASSUME NamesKept PROVE NamesKept'
  BY <1>1, <1>4, <1>2, ActNames DEF NamesKept, Named, Moved
<1>5. StartsServe => StartsServe'
  BY <1>1, <1>2, ActStarts
<1>6. ASSUME InTurn, scenario.patient PROVE InTurn'
  BY <1>1, <1>6, Solo, ReadNobody, <1>2, ActTurn DEF Leaves, InTurn, KnowsPaths, Moved
<1>7. InTurn => InTurn'
  BY <1>6 DEF InTurn
<1> QED
  BY <1>3, <1>4, <1>5, <1>7 DEF Keeps

LEMMA SignalKeeps ==
    ASSUME Server!ServerAssumption, ServerTypes, NEW p \in Pids, Server!Signal(p) PROVE Keeps
<1> DEFINE q == proc[p].seen
<1>1. /\ Server!At(p, "signal")
      /\ stranger' = (stranger \/ (Server!Alive(q) /\ proc[q].op # "start"))
      /\ UNCHANGED <<file, port, disk, binary, tmp, scenario, requests, crashes>>
  BY DEF Server!Signal, Server!paths, Server!bounds
<1>2. Server!Alive(p) /\ ProcessOK(proc[p]) /\ proc[p].at = "signal" /\ proc[p].op # "other"
  BY <1>1, Acting
<1>3. q \in Pids /\ Head(proc[p].phases) = "stop"
  BY <1>2, Places, ListHeads DEF ProcessOK
<1>4. CASE ~Server!Alive(q)
  <2> DEFINE x == [proc[p] EXCEPT !.at = "vanished"]
  <2>1. Server!To(p, "vanished")
    BY <1>4 DEF Server!Signal, Server!To
  <2>2. Acts(p, x) /\ Goes(p, x) /\ Moved(proc[p], x, "vanished")
    BY <1>2, <1>3, <2>1, ToMoves DEF PlacesOf, Server!Ats
  <2> HIDE DEF x
  <2> QED
    BY <1>1, <1>4, <2>2, VanishedKeeps
<1>5. CASE Server!Alive(q)
  <2>1. proc' = [proc EXCEPT ![p].at = "wait",
                             ![q] = IF ~Server!Handles(q) THEN Server!Ended
                                    ELSE IF @.at \in {"bind", "listen"}
                                         THEN [@ EXCEPT !.at = "closing"] ELSE @]
    BY <1>5 DEF Server!Signal
  <2>2. CASE q = p
    BY <1>2, <2>2, <1>3, <2>1, Exits, <1>1, VanishedKeeps DEF Server!Handles, ServerTypes,
       Server!Exit
  <2>3. CASE q # p
    <3>1. stranger' = (stranger \/ proc[q].op # "start")
      BY <1>1, <1>5
    <3> HIDE DEF q
    <3>2. q = proc[p].seen
      BY DEF q
    <3> QED
      BY <1>1, <1>5, <2>1, <2>3, <3>1, <3>2, SignalledKeeps
  <2> QED
    BY <2>2, <2>3
<1> QED
  BY <1>4, <1>5

----------------------------------------------------------------------------
(* Commands and crashes, and every step. *)

LEMMA CommandKeeps ==
    ASSUME Server!ServerAssumption, ServerTypes, Server!Command PROVE Keeps
<1>1. PICK p \in Server!Pick, op \in scenario.commands :
         disk[binary] \in {"old", "new"} /\ proc' = [proc EXCEPT ![p] = Server!Process(op)]
  BY DEF Server!Command
<1>2. /\ scenario.patient => Server!Quiet
      /\ requests' = requests - 1
      /\ UNCHANGED <<file, port, disk, binary, tmp, stranger, scenario, crashes>>
  BY DEF Server!Command, Server!paths
<1>3. op \in Server!Ops \ {"other"}
  BY DEF ServerTypes, Server!ServerAssumption
<1> DEFINE x == Server!Process(op)
<1>4. p \in Pids /\ ~Server!Alive(p) /\ (~scenario.reuse => proc[p] = None)
  BY Free
<1>5. /\ ProcessOK(x) /\ x.op = op /\ x.at = "read" /\ x.phases # <<"install">> /\ x.seen = None
      /\ x.bin = disk[binary] /\ x # Server!Ended /\ x # None
  BY <1>3, Begun, Records
<1> HIDE DEF x
<1>6. /\ proc'[p] = x /\ \A q \in Pids : q # p => proc'[q] = proc[q]
      /\ proc' = [q \in Pids |-> proc'[q]]
  BY <1>1, <1>4 DEF ServerTypes, x
<1>7. Server!Alive(p)' /\ \A q \in Pids : q # p => (Server!Alive(q)' <=> Server!Alive(q))
  BY <1>4, <1>5, <1>6 DEF Server!Alive
<1>8. ServerTypes'
  BY <1>5, <1>6, <1>7, <1>2 DEF ServerTypes
<1>9. ASSUME NamesKept PROVE NamesKept'
  <2> SUFFICES ASSUME ~scenario.reuse
               PROVE  Named(file)' /\ ~stranger' /\ \A q \in Pids : Server!Alive(q)' => Named(proc[q].seen)'
    BY <1>2 DEF NamesKept
  <2>1. ASSUME NEW y, Named(y) PROVE y \in Pids => proc'[y] # None /\ proc'[y].op \in {"start", "gone"}
    BY <1>4, <1>6, <2>1 DEF Named
  <2>2. Named(file)' /\ ~stranger'
    BY <1>2, <1>9, <2>1 DEF NamesKept, Named
  <2>3. ASSUME NEW q \in Pids, Server!Alive(q)' PROVE Named(proc[q].seen)'
    BY <1>5, <1>6, Names, <1>7, <1>9, <2>3, <2>1 DEF Named, NamesKept
  <2> QED
    BY <2>2, <2>3
<1>10. ASSUME StartsServe, OnlyStarts
      PROVE  /\ \A q \in Pids : Server!Alive(q)' =>
                   proc'[q].op \in {"start", "detach", "other"} /\ proc'[q].at # "closing"
             /\ port = None =>
                   /\ \A q \in Pids : Server!Alive(q)' => proc'[q].at # "listen" /\ ~Leaves(proc'[q])
                   /\ file # None \/ (\E q \in Pids : Server!Alive(q)' /\ proc'[q].seen # None) =>
                         \E q \in Pids : Server!Alive(q)' /\ Serves(proc'[q])
                   /\ \E q \in Pids : Busy(q)'
  <2>1. op \in {"start", "detach"}
    BY <1>10 DEF OnlyStarts
  <2>2. \A q \in Pids : Server!Alive(q)' =>
           proc'[q].op \in {"start", "detach", "other"} /\ proc'[q].at # "closing"
    BY <1>5, <1>6, <1>7, <1>10, <2>1 DEF StartsServe
  <2>3. port = None => \A q \in Pids : Server!Alive(q)' => proc'[q].at # "listen" /\ ~Leaves(proc'[q])
    BY <1>5, <1>6, <1>7, <1>10 DEF StartsServe, Leaves
  <2>4. ASSUME port = None, file # None \/ (\E q \in Pids : Server!Alive(q)' /\ proc'[q].seen # None)
        PROVE  \E q \in Pids : Server!Alive(q)' /\ Serves(proc'[q])
    <3>1. file # None \/ \E q \in Pids : Server!Alive(q) /\ proc[q].seen # None
      BY <1>5, <1>6, <1>7, <2>4
    <3>2. PICK q \in Pids : Server!Alive(q) /\ Serves(proc[q])
      BY <1>10, <2>4, <3>1 DEF StartsServe
    <3> QED
      BY <1>4, <1>6, <1>7, <3>2
  <2>5. Busy(p)'
    BY <1>5, <1>6, <1>7 DEF Busy, Idles
  <2> QED
    BY <1>4, <2>2, <2>3, <2>4, <2>5
<1>11. StartsServe => StartsServe'
  BY <1>2, <1>10 DEF StartsServe, OnlyStarts, Leaves, Serves
<1>12. ASSUME InTurn, scenario.patient PROVE InTurn'
  BY <1>2, <1>12, <1>6, <1>7, <1>5 DEF Server!Quiet, Busy, Idles, Server!At, Knows, KnowsPaths,
     InTurn
<1>13. InTurn => InTurn'
  BY <1>2, <1>12 DEF InTurn
<1> QED
  BY <1>8, <1>9, <1>11, <1>13 DEF Keeps

LEMMA CrashKeeps ==
    ASSUME Server!ServerAssumption, ServerTypes, Server!Crash PROVE Keeps
<1>1. PICK p \in Pids : Server!Alive(p) /\ Server!Exit(p) /\ port' = (IF port = p THEN None ELSE port)
  BY DEF Server!Crash
<1>2. /\ crashes < scenario.crashes /\ crashes' = crashes + 1
      /\ UNCHANGED <<file, disk, binary, tmp, stranger, scenario, requests>>
  BY DEF Server!Crash, Server!paths
<1>3. scenario.crashes # 0 /\ crashes' \in Nat
  BY <1>2 DEF ServerTypes
<1>4. Acts(p, Server!Ended) /\ Goes(p, Server!Ended)
  BY <1>1, Exits
<1>5. /\ proc'[p] = Server!Ended /\ ~Server!Alive(p)' /\ proc' = [q \in Pids |-> proc'[q]]
      /\ \A q \in Pids : q # p => proc'[q] = proc[q] /\ (Server!Alive(q)' <=> Server!Alive(q))
  BY <1>4, ActsOn
<1>6. ServerTypes'
  BY <1>5, <1>1, <1>2, <1>3 DEF ServerTypes
<1>7. NamesKept => NamesKept'
  BY <1>1, <1>2, <1>4, ActNames
<1>8. StartsServe => StartsServe'
  BY <1>2, <1>3 DEF StartsServe, OnlyStarts
<1>9. ASSUME InTurn, scenario.patient PROVE InTurn'
  BY <1>5, <1>2, <1>9, <1>1, <1>3 DEF Busy, Idles, Server!At, NobodyListens, InTurn, WaitsFor,
     Leaves, Knows, KnowsPaths
<1>10. InTurn => InTurn'
  BY <1>2, <1>9 DEF InTurn
<1> QED
  BY <1>6, <1>7, <1>8, <1>10 DEF Keeps

LEMMA StutterKeeps ==
    ASSUME ServerTypes, UNCHANGED Server!vars PROVE Keeps
<1>1. UNCHANGED <<file, proc, port, disk, binary, tmp, stranger, scenario, requests, crashes>>
  BY DEF Server!vars, Server!paths, Server!bounds
<1>2. /\ \A p : (Server!Alive(p)' <=> Server!Alive(p)) /\ (Busy(p)' <=> Busy(p))
      /\ \A p, at : Server!At(p, at)' <=> Server!At(p, at)
      /\ \A y : Named(y)' <=> Named(y)
      /\ \A p, q : WaitsFor(p, q)' <=> WaitsFor(p, q)
      /\ NobodyListens' <=> NobodyListens
  BY <1>1 DEF Server!Alive, Busy, Server!At, Named, WaitsFor, NobodyListens, Idles, Leaves
<1>3. ServerTypes'
  BY <1>1, <1>2 DEF ServerTypes
<1>4. NamesKept => NamesKept'
  BY <1>1, <1>2 DEF NamesKept, Named
<1>5. StartsServe => StartsServe'
  BY <1>1, <1>2 DEF StartsServe, OnlyStarts, Leaves, Serves
<1>6. InTurn => InTurn'
  BY <1>1, <1>2 DEF InTurn, Knows, KnowsPaths, WillStop
<1> QED
  BY <1>3, <1>4, <1>5, <1>6 DEF Keeps

LEMMA NextKeeps ==
    ASSUME Server!ServerAssumption, ServerTypes, [Server!Next]_Server!vars PROVE Keeps
<1>1. ASSUME NEW p \in Pids, Server!Run(p) PROVE Keeps
  BY <1>1, ReadPidKeeps, JudgeKeeps, RemoveKeeps, WritePidKeeps, OpenKeeps, ListenKeeps, ShutdownKeeps,
     CleanupKeeps, SpawnKeeps, SignalKeeps, WaitKeeps, StoppedKeeps, FetchKeeps, CreateTmpKeeps,
     CopiedKeeps, DownloadFailsKeeps, VerifyKeeps, RenameKeeps DEF Server!Run
<1> QED
  BY <1>1, CommandKeeps, CrashKeeps, StutterKeeps DEF Server!Next

----------------------------------------------------------------------------
LEMMA ServerInit ==
    ASSUME Server!ServerAssumption, Server!Init PROVE ServerTypes /\ NamesKept /\ StartsServe /\ InTurn
<1>1. /\ scenario \in Scenarios /\ file = scenario.file /\ port = None /\ tmp = None /\ stranger = FALSE
      /\ binary \in Inodes /\ disk = [i \in Inodes |-> IF i = binary THEN "old" ELSE None]
      /\ requests = scenario.requests /\ crashes = 0
      /\ proc = [p \in Pids |-> IF p = scenario.other THEN Server!Other ELSE None]
  BY DEF Server!Init
<1>2. scenario.requests \in Nat /\ file \in Files /\ (file # None => scenario.reuse)
  BY <1>1 DEF Server!ServerAssumption, Files
<1> DEFINE r == Server!Other
<1>3. /\ r \in Server!Processes /\ r.op = "other" /\ r.at = "running" /\ r.phases = <<>> /\ r.seen = None
  BY DEF Server!Other, Server!Processes, Server!Ops, Server!Ats, Server!Contents
<1>4. ProcessOK(r)
  BY <1>3 DEF ProcessOK, PhasesOf
<1> HIDE DEF r
<1>5. \A p \in Pids : Server!Alive(p) => proc[p] = r
  BY <1>1 DEF Server!Alive, r
<1>6. \A p \in Pids : ~Busy(p) /\ ~Server!At(p, "listen")
  BY <1>3, <1>5 DEF Busy, Idles, Server!At
<1>7. disk[binary] = "old" /\ disk \in [Inodes -> Server!Contents]
  BY <1>1 DEF Server!Contents
<1>8. ServerTypes
  BY <1>4, <1>5, <1>1, <1>2, <1>7 DEF ServerTypes
<1>9. NamesKept
  BY <1>1, <1>2, <1>3, <1>5, Names DEF NamesKept, Named
<1>10. StartsServe
  BY <1>1, <1>2, <1>3, <1>5, <1>7 DEF StartsServe, OnlyStarts, Leaves
<1>11. InTurn
  BY <1>1, <1>6, <1>7, Names DEF InTurn
<1> QED
  BY <1>8, <1>9, <1>10, <1>11

LEMMA ServerImplied ==
    ASSUME ServerTypes, NamesKept, StartsServe, InTurn PROVE Server!ServerInv
<1>1. \A p \in Pids : Server!Quiet => ~Busy(p)
  BY DEF Server!Quiet, Busy, Idles
<1>2. scenario.patient => Server!BinaryIsVerified
  BY DEF InTurn, Server!BinaryIsVerified
<1>3. Server!ListenerIsNamed
  BY DEF InTurn, Server!ListenerIsNamed
<1>4. Server!RunsWhatIsInstalled
  BY <1>1 DEF InTurn, Server!RunsWhatIsInstalled
<1>5. Server!OnlyServersStop
  BY DEF NamesKept, Server!OnlyServersStop
<1>6. Server!SomeoneServes
  <2> SUFFICES ASSUME scenario.commands \subseteq {"start", "detach"}, ~scenario.faults, scenario.crashes = 0,
                      scenario.file = None, requests = 0, scenario.requests > 0, Server!Quiet, port = None
               PROVE  FALSE
    BY DEF Server!SomeoneServes
  <2>1. OnlyStarts
    BY DEF OnlyStarts
  <2>2. requests < scenario.requests
    OBVIOUS
  <2> QED
    BY <1>1, <2>1, <2>2 DEF StartsServe
<1> QED
  BY <1>2, <1>3, <1>4, <1>5, <1>6 DEF Server!ServerInv

\* However the commands overlap, crash and find ids used again, what is said of the server
\* holds: in turn, the file names who listens, the binary is a verified one and the server runs
\* it; of overlapping starts one serves; and only servers are stopped.
THEOREM ServersHold ==
    ASSUME Server!ServerAssumption PROVE Server!Spec => []Server!ServerInv
<1> DEFINE Inv == ServerTypes /\ NamesKept /\ StartsServe /\ InTurn
<1>1. Server!Init => Inv
  BY ServerInit
<1>2. Inv /\ [Server!Next]_Server!vars => Inv'
  BY NextKeeps DEF Keeps
<1>3. Inv => Server!ServerInv
  BY ServerImplied
<1> QED
  BY <1>1, <1>2, <1>3, PTL DEF Server!Spec
=============================================================================
