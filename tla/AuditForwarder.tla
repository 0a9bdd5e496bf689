---------------------------- MODULE AuditForwarder ----------------------------
(***************************************************************************)
(* What is audited (database/audit_logs.go) and forwarded to the sinks     *)
(* (audit/audit.go) while the server shuts down (server/server.go).  A     *)
(* handler inserts the row and then queues the event; one worker delivers  *)
(* what is queued to each sink in turn.  Shutdown closes the forwarder     *)
(* before it stops listening.                                              *)
(***************************************************************************)
EXTENDS Naturals, Sequences

CONSTANTS
    Events,       \* bound: each is audited once
    Sinks,        \* the sinks in their order
    QueueSize,    \* stands for 1024
    MaxFailures,  \* bound: of the database and the sinks
    Idle          \* no event

\* NewForwarder makes a forwarder only for at least one sink.
AuditAssumption ==
    /\ Idle \notin Events
    /\ Sinks \in Seq(STRING) /\ Sinks # <<>>
    /\ QueueSize \in Nat /\ MaxFailures \in Nat

VARIABLES
    event,     \* of each event: "new", "row", "queued", "dropped", "late" or "refused"
    buffer,     \* f.ch
    worker,    \* what it delivers, to which sink, and whether it has seen done
    arrived,   \* what each sink has, in order
    warned,    \* <<event, sink>>: warned that it did not arrive
    stage,     \* of the server: "up", "closing", "waiting" or "exited"
    failures

vars == <<event, buffer, worker, arrived, warned, stage, failures>>

Init ==
    /\ event = [e \in Events |-> "new"]
    /\ buffer = <<>>
    /\ worker = [on |-> Idle, sink |-> 0, done |-> FALSE, gone |-> FALSE]
    /\ arrived = [s \in 1..Len(Sinks) |-> <<>>]
    /\ warned = {} /\ stage = "up" /\ failures = 0

----------------------------------------------------------------------------
(* A handler.  Until http.Shutdown every request is taken, and one that is  *)
(* under way may go on until the process ends.                              *)

Insert(e) ==
    /\ event[e] = "new" /\ stage # "exited"
    /\ \/ event' = [event EXCEPT ![e] = "row"] /\ UNCHANGED failures
       \/ /\ failures < MaxFailures /\ failures' = failures + 1
          /\ event' = [event EXCEPT ![e] = "refused"]
    /\ UNCHANGED <<buffer, worker, arrived, warned, stage>>

Emit(e) ==
    /\ event[e] = "row" /\ stage # "exited"
    /\ IF Len(buffer) < QueueSize
         THEN /\ buffer' = Append(buffer, e)
              /\ event' = [event EXCEPT ![e] = IF stage = "up" THEN "queued" ELSE "late"]
              /\ UNCHANGED warned
         ELSE /\ event' = [event EXCEPT ![e] = "dropped"]
              /\ warned' = warned \cup ({e} \X DOMAIN arrived)
              /\ UNCHANGED buffer
    /\ UNCHANGED <<worker, arrived, stage, failures>>

----------------------------------------------------------------------------
(* The worker.                                                              *)

Idling == worker.on = Idle /\ ~worker.gone

\* A select takes either of two ready channels.
Take ==
    /\ Idling /\ buffer # <<>> /\ stage # "exited"
    /\ worker' = [worker EXCEPT !.on = Head(buffer), !.sink = 1]
    /\ buffer' = Tail(buffer)
    /\ UNCHANGED <<event, arrived, warned, stage, failures>>

SeeDone ==
    /\ Idling /\ ~worker.done /\ stage = "closing"
    /\ worker' = [worker EXCEPT !.done = TRUE]
    /\ UNCHANGED <<event, buffer, arrived, warned, stage, failures>>

\* Faulty: the worker returns without draining.
Leave ==
    /\ Idling /\ worker.done
    /\ worker' = [worker EXCEPT !.gone = TRUE]
    /\ UNCHANGED <<event, buffer, arrived, warned, stage, failures>>

Drained ==
    /\ Idling /\ worker.done /\ buffer = <<>>
    /\ worker' = [worker EXCEPT !.gone = TRUE]
    /\ UNCHANGED <<event, buffer, arrived, warned, stage, failures>>

NextSink(w) ==
    IF w.sink = Len(Sinks) THEN [w EXCEPT !.on = Idle, !.sink = 0] ELSE [w EXCEPT !.sink = @ + 1]

\* Faulty: a sink that fails ends the delivery to the sinks after it.
DeliverUntilFailure ==
    /\ worker.on # Idle /\ stage # "exited"
    /\ \/ /\ worker' = NextSink(worker)
          /\ arrived' = [arrived EXCEPT ![worker.sink] = Append(@, worker.on)]
          /\ UNCHANGED <<warned, failures>>
       \/ /\ failures < MaxFailures /\ failures' = failures + 1
          /\ worker' = [worker EXCEPT !.on = Idle, !.sink = 0]
          /\ warned' = warned \cup {<<worker.on, worker.sink>>}
          /\ UNCHANGED arrived
    /\ UNCHANGED <<event, buffer, stage>>

\* Faulty: a delivery that failed is queued again, for every sink.
DeliverAgain ==
    /\ worker.on # Idle /\ stage # "exited"
    /\ worker' = NextSink(worker)
    /\ \/ /\ arrived' = [arrived EXCEPT ![worker.sink] = Append(@, worker.on)]
          /\ UNCHANGED <<buffer, failures>>
       \/ /\ failures < MaxFailures /\ failures' = failures + 1
          /\ buffer' = Append(buffer, worker.on)
          /\ UNCHANGED arrived
    /\ UNCHANGED <<event, warned, stage>>

Deliver ==
    /\ worker.on # Idle /\ stage # "exited"
    /\ worker' = NextSink(worker)
    /\ \/ /\ arrived' = [arrived EXCEPT ![worker.sink] = Append(@, worker.on)]
          /\ UNCHANGED <<warned, failures>>
       \/ /\ Sinks[worker.sink] # "stdout"
          /\ failures < MaxFailures /\ failures' = failures + 1
          /\ warned' = warned \cup {<<worker.on, worker.sink>>}
          /\ UNCHANGED arrived
    /\ UNCHANGED <<event, buffer, stage>>

----------------------------------------------------------------------------
(* Shutdown: Close waits for the worker; http.Shutdown waits for the        *)
(* requests, or for its timeout.                                            *)

Close ==
    /\ stage = "up" /\ stage' = "closing"
    /\ UNCHANGED <<event, buffer, worker, arrived, warned, failures>>

CloseReturns ==
    /\ stage = "closing" /\ worker.gone /\ stage' = "waiting"
    /\ UNCHANGED <<event, buffer, worker, arrived, warned, failures>>

Exit ==
    /\ stage = "waiting" /\ stage' = "exited"
    /\ UNCHANGED <<event, buffer, worker, arrived, warned, failures>>

Next ==
    \/ \E e \in Events : Insert(e) \/ Emit(e)
    \/ Take \/ SeeDone \/ Drained \/ Deliver
    \/ Close \/ CloseReturns \/ Exit

Spec == Init /\ [][Next]_vars

----------------------------------------------------------------------------
(* Properties. *)

Has(s, e) == \E i \in DOMAIN arrived[s] : arrived[s][i] = e

\* Once Close has returned, every event that was queued before it was called is with each
\* sink, or the log warns that it is not (audit.go).
DrainedByClose ==
    worker.gone =>
        \A e \in Events, s \in DOMAIN arrived :
            event[e] = "queued" => Has(s, e) \/ <<e, s>> \in warned

\* No sink has an event twice, one without a row, or two that another sink has in the
\* other order, however sinks fail (audit.go, audit_logs.go).
SameOrder ==
    \A s, t \in DOMAIN arrived : \A i, j \in DOMAIN arrived[s] :
        /\ event[arrived[s][i]] \in {"queued", "late"}
        /\ i < j => ~\E k, l \in DOMAIN arrived[t] :
                        k <= l /\ arrived[t][k] = arrived[s][j] /\ arrived[t][l] = arrived[s][i]

AuditInv == DrainedByClose /\ SameOrder
=============================================================================
