---------------------------- MODULE ServerProcess ----------------------------
(***************************************************************************)
(* The commands around the server (cmd/server.go, cmd/update.go): starts   *)
(* in the foreground and detached, stop, restart and update, which find    *)
(* the server by its PID file.  A command is a process, too, and runs      *)
(* through phases.  Every read or write of the file system is one step.    *)
(***************************************************************************)
EXTENDS Naturals, Sequences

CONSTANTS
    Pids,
    Inodes,
    None,
    Scenarios    \* bound: [commands, requests, patient, reuse, crashes, faults, file, other]

VARIABLES
    file,        \* the PID file: None, "empty", or a process
    proc,        \* what runs under each process id
    port,        \* who listens
    disk,        \* the content of each inode: None, "old", "new", "part" or "bad"
    binary, tmp, \* the inodes of the binary and of binary.update-tmp
    stranger,    \* was a process stopped that is no server
    scenario, requests, crashes

paths == <<disk, binary, tmp>>
bounds == <<scenario, requests, crashes>>
vars == <<file, proc, port, paths, stranger, bounds>>

\* What a process knows: its command, the phases to come, what it read in the PID file, the
\* content of the binary it began with, and the file it writes.
Ops == {"start", "detach", "stop", "restart", "update", "other"}
Ats == {"read", "judge", "remove", "truncate", "write", "open", "bind", "listen", "closing", "clean",
        "leave", "spawn", "signal", "wait", "stopped", "vanished", "fetch", "create", "copy",
        "verify", "rename", "running"}
Contents == {"old", "new", "part", "bad", None}
Processes == [op : Ops, at : Ats,
              phases : Seq({"check", "serve", "spawn", "stop", "inspect", "install"}),
              seen : Pids \cup {None, "empty"}, bin : Contents, fd : Inodes \cup {None}]

Ended == [op |-> "gone"]

\* What the proofs assume of the constants: nothing is taken for a missing value, and a file
\* from before names a process whose id may be used again.
ServerAssumption ==
    /\ None \notin Pids \cup Inodes \cup Processes \cup {"empty", "old", "new", "part", "bad"}
    /\ None # Ended /\ "empty" \notin Pids /\ Inodes # {}
    /\ \A sc \in Scenarios :
          /\ sc.commands \subseteq Ops \ {"other"} /\ sc.requests \in Nat
          /\ sc.file \in Pids \cup {None} /\ (sc.file # None => sc.reuse)

Alive(p) == p \in Pids /\ proc[p] # None /\ proc[p] # Ended
Other == [op |-> "other", at |-> "running", phases |-> <<>>, seen |-> None, bin |-> None, fd |-> None]

Init ==
    /\ scenario \in Scenarios
    /\ file = scenario.file
    /\ proc = [p \in Pids |-> IF p = scenario.other THEN Other ELSE None]
    /\ port = None
    /\ \E i \in Inodes : binary = i /\ i = CHOOSE j \in Inodes : TRUE
    /\ tmp = None /\ disk = [i \in Inodes |-> IF i = binary THEN "old" ELSE None]
    /\ stranger = FALSE /\ requests = scenario.requests /\ crashes = 0

----------------------------------------------------------------------------
(* Processes and their phases. *)

Phases == [start   |-> <<"check", "serve">>,
           detach  |-> <<"check", "spawn">>,
           stop    |-> <<"stop">>,
           restart |-> <<"stop", "check", "spawn">>,
           update  |-> <<"inspect", "install", "stop", "check", "spawn">>]

Begins(phase) ==
    CASE phase \in {"check", "stop", "inspect"} -> "read"
      [] phase = "serve" -> "truncate"
      [] phase = "spawn" -> "spawn"
      [] phase = "install" -> "fetch"

Process(op) ==
    [op |-> op, at |-> Begins(Phases[op][1]), phases |-> Phases[op], seen |-> None,
     bin |-> disk[binary], fd |-> None]

\* The record of a process after its phase; the last one ends it.
After(p) ==
    IF Len(proc[p].phases) = 1 THEN Ended
    ELSE LET rest == Tail(proc[p].phases) IN
         [proc[p] EXCEPT !.phases = rest, !.at = Begins(Head(rest))]

At(p, at) == Alive(p) /\ proc[p].at = at
To(p, at) == proc' = [proc EXCEPT ![p].at = at]
Advance(p) == proc' = [proc EXCEPT ![p] = After(p)]
Exit(p) == proc' = [proc EXCEPT ![p] = Ended]
Phase(p) == Head(proc[p].phases)

FreePids == {p \in Pids : proc[p] = None \/ (scenario.reuse /\ proc[p] = Ended)}
Pick == IF FreePids = {} THEN {} ELSE {CHOOSE p \in FreePids : TRUE}

\* Who is patient gives the next command when all is quiet.
Quiet == \A p \in Pids : Alive(p) => proc[p].at \in {"listen", "running"}

Command ==
    /\ requests > 0 /\ (scenario.patient => Quiet)
    /\ \E p \in Pick, op \in scenario.commands :
          disk[binary] \in {"old", "new"} /\ proc' = [proc EXCEPT ![p] = Process(op)]
    /\ requests' = requests - 1
    /\ UNCHANGED <<file, port, paths, stranger, scenario, crashes>>

----------------------------------------------------------------------------
(* getRunningServerPID, and what each phase makes of it. *)

ReadPid(p) ==
    /\ At(p, "read")
    /\ proc' = [proc EXCEPT ![p].seen = file, ![p].at = "judge"]
    /\ UNCHANGED <<file, port, paths, stranger, bounds>>

\* Faulty: a running server does not keep another from starting.
RefusedNever(p) == FALSE
Refused(p) == Phase(p) = "check" /\ proc[p].seen # p

NotRunning(p) ==
    CASE Phase(p) = "check" -> After(p)
      [] Phase(p) = "stop" -> IF proc[p].op = "restart" THEN After(p) ELSE Ended
      [] Phase(p) = "inspect" -> [After(p) EXCEPT !.phases = <<"install">>]

\* processExists.  Who finds its own id in the file removes it, as a stale one.
Judge(p) ==
    LET q == proc[p].seen IN
    /\ At(p, "judge")
    /\ proc' = [proc EXCEPT ![p] =
          CASE q = None -> NotRunning(p)
            [] q = "empty" -> Ended
            [] q \in Pids /\ ~Alive(q) -> [@ EXCEPT !.at = "remove"]
            [] q \in Pids /\ Alive(q) ->
                  IF Refused(p) THEN Ended
                  ELSE IF Phase(p) = "check" THEN [@ EXCEPT !.at = "remove"]
                  ELSE IF Phase(p) = "stop" THEN [@ EXCEPT !.at = "signal"]
                  ELSE After(p)]
    /\ UNCHANGED <<file, port, paths, stranger, bounds>>

Remove(p) ==
    /\ At(p, "remove")
    /\ file' = None
    /\ proc' = [proc EXCEPT ![p] = NotRunning(p)]
    /\ UNCHANGED <<port, paths, stranger, bounds>>

----------------------------------------------------------------------------
(* runServer. *)

\* os.WriteFile truncates, then writes.
WritePid(p) ==
    /\ \/ At(p, "truncate") /\ file' = "empty" /\ To(p, "write")
       \/ At(p, "write") /\ file' = p /\ To(p, "open")
    /\ UNCHANGED <<port, paths, stranger, bounds>>

\* The key, the database and its migrations; the schedulers start before the port is bound.
Open(p) ==
    /\ At(p, "open")
    /\ To(p, "bind") \/ (scenario.faults /\ To(p, "clean"))
    /\ UNCHANGED <<file, port, paths, stranger, bounds>>

Listen(p) ==
    /\ At(p, "bind")
    /\ IF port = None THEN port' = p /\ To(p, "listen") ELSE port' = port /\ To(p, "clean")
    /\ UNCHANGED <<file, paths, stranger, bounds>>

\* The schedulers, the runner and the gateway stop, then the listener.
Shutdown(p) ==
    /\ At(p, "closing")
    /\ port' = IF port = p THEN None ELSE port
    /\ To(p, "clean")
    /\ UNCHANGED <<file, paths, stranger, bounds>>

\* Only its own PID file is removed.
CleanupServerPIDFile(p) ==
    /\ \/ At(p, "clean") /\ file' = file
          /\ proc' = [proc EXCEPT ![p].seen = file, ![p].at = "leave"]
       \/ At(p, "leave") /\ file' = (IF proc[p].seen = p THEN None ELSE file) /\ Exit(p)
    /\ UNCHANGED <<port, paths, stranger, bounds>>

----------------------------------------------------------------------------
(* startDetachedServer and stopServer. *)

\* The child checks the PID file again; a binary that is not whole cannot run.
Spawn(p) ==
    /\ At(p, "spawn")
    /\ IF disk[binary] \in {"old", "new"}
       THEN \E child \in Pick :
               proc' = [proc EXCEPT ![p] = Ended, ![child] = Process("start")]
       ELSE Exit(p)
    /\ UNCHANGED <<file, port, paths, stranger, bounds>>

\* A server that has its signal handler shuts down, any other process dies; the handler is
\* gone when runServer returns, before the PID file and the process are.
Handles(q) == proc[q].at \in {"bind", "listen", "closing"}

Signal(p) ==
    LET q == proc[p].seen IN
    /\ At(p, "signal")
    /\ proc' = IF ~Alive(q) THEN [proc EXCEPT ![p].at = "vanished"]
               ELSE [proc EXCEPT ![p].at = "wait",
                                 ![q] = IF ~Handles(q) THEN Ended
                                        ELSE IF @.at \in {"bind", "listen"}
                                             THEN [@ EXCEPT !.at = "closing"] ELSE @]
    /\ stranger' = (stranger \/ (Alive(q) /\ proc[q].op # "start"))
    /\ UNCHANGED <<file, port, paths, bounds>>

Wait(p) ==
    /\ At(p, "wait")
    /\ \/ ~Alive(proc[p].seen) /\ To(p, "stopped")
       \/ scenario.faults /\ Exit(p)
    /\ UNCHANGED <<file, port, paths, stranger, bounds>>

\* Whatever the file says by now.  Only a stop that was seen lets an update go on.
Stopped(p) ==
    /\ At(p, "stopped") \/ At(p, "vanished")
    /\ file' = None
    /\ IF At(p, "stopped") \/ proc[p].op = "restart" THEN Advance(p) ELSE Exit(p)
    /\ UNCHANGED <<port, paths, stranger, bounds>>

----------------------------------------------------------------------------
(* runUpdate: the download goes to one path, whoever updates. *)

\* The version asked about is that of the process, whatever is on disk by now.
Fetch(p) ==
    /\ At(p, "fetch")
    /\ Exit(p) \/ (proc[p].bin = "old" /\ To(p, "create"))
    /\ UNCHANGED <<file, port, paths, stranger, bounds>>

\* os.Create truncates what is there.
CreateTmp(p) ==
    /\ At(p, "create")
    /\ \E i \in Inodes :
          /\ IF tmp = None THEN disk[i] = None ELSE i = tmp
          /\ tmp' = i /\ disk' = [disk EXCEPT ![i] = "part"]
          /\ proc' = [proc EXCEPT ![p].fd = i, ![p].at = "copy"]
    /\ UNCHANGED <<file, port, binary, stranger, bounds>>

Writers(i) == {q \in Pids : At(q, "copy") /\ proc[q].fd = i}

\* The last writer completes the file.
Copied(p) ==
    LET i == proc[p].fd IN
    /\ At(p, "copy")
    /\ \E got \in {"new", "bad"} :
          disk' = [disk EXCEPT ![i] = IF Writers(i) = {p} THEN got ELSE "part"]
    /\ proc' = [proc EXCEPT ![p].fd = None, ![p].at = "verify"]
    /\ UNCHANGED <<file, port, binary, tmp, stranger, bounds>>

DownloadFails(p) ==
    /\ At(p, "copy")
    /\ tmp' = None /\ Exit(p)
    /\ UNCHANGED <<file, port, disk, binary, stranger, bounds>>

\* Faulty: no checksum is asked for.
VerifiedAny(content) == TRUE
Verified(content) == content = "new"

Verify(p) ==
    /\ At(p, "verify")
    /\ IF tmp # None /\ Verified(disk[tmp])
       THEN To(p, "rename") /\ tmp' = tmp
       ELSE tmp' = None /\ Exit(p)
    /\ UNCHANGED <<file, port, disk, binary, stranger, bounds>>

Rename(p) ==
    /\ At(p, "rename")
    /\ IF tmp = None THEN Exit(p) /\ UNCHANGED <<binary, tmp>>
       ELSE binary' = tmp /\ tmp' = None /\ Advance(p)
    /\ UNCHANGED <<file, port, disk, stranger, bounds>>

----------------------------------------------------------------------------
\* SIGKILL, a lost machine: the files stay as they are.
Crash ==
    /\ crashes < scenario.crashes /\ crashes' = crashes + 1
    /\ \E p \in Pids :
          /\ Alive(p) /\ proc[p].op # "other"
          /\ Exit(p)
          /\ port' = IF port = p THEN None ELSE port
    /\ UNCHANGED <<file, paths, stranger, scenario, requests>>

Run(p) ==
    \/ ReadPid(p) \/ Judge(p) \/ Remove(p)
    \/ WritePid(p) \/ Open(p) \/ Listen(p) \/ Shutdown(p) \/ CleanupServerPIDFile(p)
    \/ Spawn(p) \/ Signal(p) \/ Wait(p) \/ Stopped(p)
    \/ Fetch(p) \/ CreateTmp(p) \/ Copied(p) \/ DownloadFails(p) \/ Verify(p) \/ Rename(p)

Next == Command \/ Crash \/ \E p \in Pids : Run(p)

Spec == Init /\ [][Next]_vars

----------------------------------------------------------------------------
(* Properties. *)

\* "We fail closed" (cmd/update.go): the binary that is installed is one whose checksum
\* was verified.
BinaryIsVerified == disk[binary] \in {"old", "new"}

\* Who gives one command after the other finds the server by its PID file, although
\* servers and commands crash and files of dead servers stay behind.
ListenerIsNamed ==
    scenario.patient => \A p \in Pids : At(p, "listen") => file = p

\* ... and after an update that could restart the server, it runs what is on disk.
RunsWhatIsInstalled ==
    scenario.patient /\ Quiet /\ ~scenario.faults /\ scenario.crashes = 0 =>
        \A p \in Pids : At(p, "listen") => proc[p].bin = disk[binary]

\* A stop signals servers only, unless the id of one that crashed is used again.
OnlyServersStop == stranger => scenario.reuse

\* However many starts overlap, one of them serves.
SomeoneServes ==
    /\ scenario.commands \subseteq {"start", "detach"} /\ ~scenario.faults /\ scenario.crashes = 0
    /\ scenario.file = None /\ requests = 0 /\ scenario.requests > 0 /\ Quiet
    => port # None

ServerInv ==
    /\ scenario.patient => BinaryIsVerified
    /\ ListenerIsNamed /\ RunsWhatIsInstalled /\ OnlyServersStop /\ SomeoneServes
=============================================================================
