--------------------------- MODULE AlertDispatcher ---------------------------
(***************************************************************************)
(* The alert dispatcher (internal/alerts/dispatcher.go) over its tables:   *)
(* alert_events, and alert_dispatch_jobs and alert_route_digests as one    *)
(* queue of items.  One goroutine turns new events into jobs and digests,  *)
(* then sends the items that are due; events are raised, rules are saved   *)
(* and the process may end between any two of its statements.              *)
(*                                                                         *)
(* One enabled rule that matches every event stands for the rules: a rule  *)
(* acts only through its routes, and each route has rows of its own.       *)
(* The unit of time is the 10 s of retryBackoff; the interval between two  *)
(* ticks is whatever the clock does while the dispatcher is idle.          *)
(***************************************************************************)
EXTENDS Naturals, Sequences, FiniteSets, FiniteSetsExt

CONSTANTS
    LastEvent,       \* bound: number of events
    Immediate,       \* routes in immediate mode
    Digest,          \* routes in digest mode
    MaxAttempts,     \* max_attempts of the rule: 5 by default
    Escalates,       \* whether the routes have an escalation channel
    PerTick,         \* maxJobsPerTick: 30 in the code
    Scenarios        \* the settings of the rule, and the bounds

ASSUME AlertAssumption ==
    /\ LastEvent \in Nat
    /\ IsFiniteSet(Immediate) /\ IsFiniteSet(Digest) /\ Immediate \cap Digest = {}
    /\ Escalates \in BOOLEAN /\ {MaxAttempts, PerTick} \subseteq Nat \ {0}
    /\ MaxAttempts <= 31                   \* bound: the backoff overflows after 30
    /\ \A sc \in Scenarios :
          /\ sc.fingerprint \in BOOLEAN    \* whether the events carry a (common) one
          /\ sc.window \in Nat \ {0}       \* digest_window_minutes of the routes
          /\ {sc.cooldown,                 \* cooldown_seconds of the rule
              sc.escalateAfter,            \* escalation_after_failures
              sc.time,                     \* bound: the clock
              sc.crashes,                  \* bound: crashes
              sc.edits} \subseteq Nat       \* bound: saves of the rule

Events == 1..LastEvent
Routes == Immediate \cup Digest

VARIABLES
    now,        \* the clock
    status,     \* alert_events.status; "none" before the event is raised
    created,    \* alert_events.created_at
    queue,      \* the jobs and digests, by row
    routes,     \* how often the rule was saved: each save makes new routes
    phase,      \* the dispatcher: idle, events, jobs or digests
    started,    \* the clock and the routes its tick has read
    todo,       \* of the new events it has listed, those it has still to do
    left,       \* routes the first of them is still to be matched with
    due,        \* of the rows it has listed, those it has still to do
    result,     \* of the first of them: none, sending, sent, retry or failed
    bound       \* crashes so far, of those of the scenario

eventVars == <<status, created>>
tickVars == <<phase, started, todo, left, due, result>>
vars == <<now, eventVars, queue, routes, tickVars, bound>>

Waiting == {"queued", "retrying"}   \* a digest's "collecting" is queued too
Settled == {"sent", "failed"}
ItemStatus == Waiting \cup Settled \cup {"sending", "deleted"}

Items == [route : Routes, of : 0..bound.of.edits, events : SUBSET Events,
          closes : Nat, due : Nat, status : ItemStatus,
          attempts : 0..MaxAttempts, sends : Nat, escalations : Nat]

TypeOK ==
    /\ now \in 0..bound.of.time
    /\ status \in [Events -> {"none", "new", "processed"}]
    /\ created \in [Events -> 0..bound.of.time]
    /\ queue \in Seq(Items)
    /\ routes \in 0..bound.of.edits
    /\ phase \in {"idle", "events", "jobs", "digests"}
    /\ started \in [now : 0..bound.of.time, routes : 0..bound.of.edits]
    /\ todo \subseteq Events
    /\ left \subseteq Routes
    /\ due \subseteq DOMAIN queue
    /\ result \in {"none", "sending", "sent", "retry", "failed"}
    /\ bound.crashes \in 0..bound.of.crashes

NoTick == [now |-> 0, routes |-> 0]

Init ==
    /\ now = 0
    /\ status = [e \in Events |-> "none"]
    /\ created = [e \in Events |-> 0]
    /\ queue = <<>>
    /\ routes = 0
    /\ phase = "idle"
    /\ started = NoTick
    /\ todo = {}
    /\ left = {}
    /\ due = {}
    /\ result = "none"
    /\ \E sc \in Scenarios : bound = [of |-> sc, crashes |-> 0]

----------------------------------------------------------------------------
(* The rest of the server.                                                 *)

Clock ==
    /\ now < bound.of.time
    /\ now' = now + 1
    /\ UNCHANGED <<eventVars, queue, routes, tickVars, bound>>

\* CreateAlertEvent, by the scheduler and the governance syncer.
Raise(e) ==
    /\ status[e] = "none"
    /\ \A f \in Events : f < e => status[f] # "none"
    /\ status' = [status EXCEPT ![e] = "new"]
    /\ created' = [created EXCEPT ![e] = now]
    /\ UNCHANGED <<now, queue, routes, tickVars, bound>>

\* UpdateAlertRule: ReplaceAlertRuleRoutes deletes the routes and inserts new
\* ones, and the deletion cascades to their jobs and digests.
SaveRule ==
    /\ routes < bound.of.edits
    /\ routes' = routes + 1
    /\ queue' = [i \in DOMAIN queue |-> [queue[i] EXCEPT !.status = "deleted"]]
    /\ UNCHANGED <<now, eventVars, tickVars, bound>>

\* The process ends, by a crash or a Stop, which does not wait for the tick.
Crash ==
    /\ bound.crashes < bound.of.crashes
    /\ phase # "idle"
    /\ bound' = [bound EXCEPT !.crashes = @ + 1]
    /\ phase' = "idle"
    /\ started' = NoTick /\ todo' = {} /\ left' = {} /\ due' = {} /\ result' = "none"
    /\ UNCHANGED <<now, eventVars, queue, routes>>

----------------------------------------------------------------------------
(* materializeEventJobs.                                                   *)

NewEvents == {e \in Events : status[e] = "new"}

\* The tick lists the new events, the rule and its routes.
Tick ==
    /\ phase = "idle"
    /\ phase' = "events"
    /\ started' = [now |-> now, routes |-> routes]
    /\ todo' = NewEvents
    /\ left' = Routes
    /\ UNCHANGED <<now, eventVars, queue, routes, due, result, bound>>

\* HasRecentAlertDispatch.
HasRecentDispatch(r) ==
    \E i \in DOMAIN queue :
        /\ queue[i].route = r
        /\ queue[i].of = started.routes
        /\ queue[i].status \in {"queued", "retrying", "sending", "sent"}
        /\ \E e \in queue[i].events : created[e] + bound.of.cooldown >= started.now

Suppressed(r) == bound.of.fingerprint /\ bound.of.cooldown > 0 /\ HasRecentDispatch(r)

NewItem(e, r, closes) ==
    [route |-> r, of |-> started.routes, events |-> {e}, closes |-> closes,
     due |-> closes, status |-> "queued", attempts |-> 0, sends |-> 0,
     escalations |-> 0]

\* CreateAlertDispatchJob.
AddJob(e, r) ==
    queue' = IF Suppressed(r) THEN queue ELSE Append(queue, NewItem(e, r, started.now))

\* End of the digest window of the tick, on multiples of the window.
BucketEnd == ((started.now \div bound.of.window) + 1) * bound.of.window

\* UpsertAlertRouteDigest; the unique key is the route and the bucket.
AddToDigest(e, r) ==
    LET bucket == {i \in DOMAIN queue : /\ queue[i].route = r
                                        /\ queue[i].of = started.routes
                                        /\ queue[i].closes = BucketEnd}
    IN queue' = IF bucket = {}
                THEN Append(queue, NewItem(e, r, BucketEnd))
                ELSE [i \in DOMAIN queue |->
                        IF i \in bucket THEN [queue[i] EXCEPT !.events = @ \cup {e}]
                                        ELSE queue[i]]

\* The events come in the order in which they were raised.
First == Min(todo)

\* One route for the first event.  A route that was replaced since is refused
\* by the foreign key; the error is logged.
Materialize(r) ==
    /\ phase = "events"
    /\ todo # {}
    /\ r \in left
    /\ left' = left \ {r}
    /\ IF started.routes # routes THEN UNCHANGED queue
       ELSE IF r \in Digest THEN AddToDigest(First, r)
       ELSE AddJob(First, r)
    /\ UNCHANGED <<now, eventVars, routes, phase, started, todo, due, result, bound>>

\* Faulty: marks the event before its routes are matched.
MarkProcessedEarly ==
    /\ phase = "events"
    /\ todo # {}
    /\ status' = [status EXCEPT ![First] = "processed"]
    /\ todo' = IF left = {} THEN todo \ {First} ELSE todo
    /\ left' = IF left = {} THEN Routes ELSE left
    /\ UNCHANGED <<now, created, queue, routes, phase, started, due, result, bound>>

\* MarkAlertEventProcessed.
MarkProcessed ==
    /\ phase = "events"
    /\ todo # {}
    /\ left = {}
    /\ status' = [status EXCEPT ![First] = "processed"]
    /\ todo' = todo \ {First}
    /\ left' = Routes
    /\ UNCHANGED <<now, created, queue, routes, phase, started, due, result, bound>>

----------------------------------------------------------------------------
(* processDueJobs and processDueDigests.                                   *)

\* Faulty: a digest is sent while its window is open.
IsDueEarly(i) == queue[i].status \in Waiting /\ queue[i].attempts < MaxAttempts

IsDue(i) ==
    /\ queue[i].status \in Waiting
    /\ queue[i].attempts < MaxAttempts
    /\ queue[i].due <= now

\* Jobs in the order of their next attempts, digests of their windows.
Key(i) == IF queue[i].route \in Digest THEN queue[i].closes ELSE queue[i].due
Older(i, j) == Key(i) < Key(j) \/ (Key(i) = Key(j) /\ i < j)

\* The oldest PerTick of the rows of these routes that are due.
Due(rs) ==
    LET rows == {i \in DOMAIN queue : queue[i].route \in rs /\ IsDue(i)}
    IN  {i \in rows : Cardinality({j \in rows : Older(j, i)}) < PerTick}

ListJobs ==
    /\ phase = "events"
    /\ todo = {}
    /\ phase' = "jobs"
    /\ started' = NoTick
    /\ left' = {}
    /\ due' = Due(Immediate)
    /\ UNCHANGED <<now, eventVars, queue, routes, todo, result, bound>>

ListDigests ==
    /\ phase = "jobs"
    /\ due = {}
    /\ phase' = "digests"
    /\ due' = Due(Digest)
    /\ UNCHANGED <<now, eventVars, queue, routes, started, todo, left, result, bound>>

EndTick ==
    /\ phase = "digests"
    /\ due = {}
    /\ phase' = "idle"
    /\ UNCHANGED <<now, eventVars, queue, routes, started, todo, left, due, result, bound>>

Row == CHOOSE i \in due : \A j \in due : i = j \/ Older(i, j)

\* An UPDATE by id finds no row once the row is deleted.
Updated(to) == IF queue[Row].status = "deleted" THEN "deleted" ELSE to

\* Faulty: does not count the attempt.
MarkSendingUncounted ==
    /\ due # {}
    /\ result = "none"
    /\ queue' = [queue EXCEPT ![Row].status = Updated("sending")]
    /\ result' = "sending"
    /\ UNCHANGED <<now, eventVars, routes, phase, started, todo, left, due, bound>>

\* MarkAlertDispatchJobSending, MarkAlertRouteDigestSending.  The dispatcher counts the
\* attempt by itself as well.
MarkSending ==
    /\ due # {}
    /\ result = "none"
    /\ queue' = [queue EXCEPT ![Row].status = Updated("sending"), ![Row].attempts = @ + 1]
    /\ result' = "sending"
    /\ UNCHANGED <<now, eventVars, routes, phase, started, todo, left, due, bound>>

\* No recipients, or a channel configuration that cannot be read.
Misconfigured ==
    /\ result = "sending"
    /\ result' = "failed"
    /\ UNCHANGED <<now, eventVars, queue, routes, phase, started, todo, left, due, bound>>

SendSucceeds ==
    /\ result = "sending"
    /\ result' = "sent"
    /\ queue' = [queue EXCEPT ![Row].sends = @ + 1]
    /\ UNCHANGED <<now, eventVars, routes, phase, started, todo, left, due, bound>>

\* tryEscalationForDispatchJob and tryEscalationForDigest, which are called
\* only at the last attempt.
Escalation(attempt) ==
    IF Escalates /\ attempt >= MaxAttempts /\ attempt >= bound.of.escalateAfter THEN 1 ELSE 0

\* The provider or the network fails, perhaps after the message was taken.
SendFails ==
    /\ result = "sending"
    /\ LET attempt == queue[Row].attempts
       IN /\ result' = IF attempt >= MaxAttempts THEN "failed" ELSE "retry"
          /\ queue' = [queue EXCEPT ![Row].sends = @ + 1,
                                    ![Row].escalations = @ + Escalation(attempt)]
    /\ UNCHANGED <<now, eventVars, routes, phase, started, todo, left, due, bound>>

\* In units of 10 s; 180 of them are the 30 minutes of the cap.
retryBackoff(attempt) ==
    CASE attempt <= 0 -> 1
      [] attempt \in 1..8 -> <<1, 2, 4, 8, 16, 32, 64, 128>>[attempt]
      [] OTHER -> 180

\* Faulty: the row is left in sending after a failure.
RecordSuccessOnly ==
    /\ result \in {"sent", "retry", "failed"}
    /\ queue' = IF result = "sent" THEN [queue EXCEPT ![Row].status = Updated("sent")] ELSE queue
    /\ due' = due \ {Row}
    /\ result' = "none"
    /\ UNCHANGED <<now, eventVars, routes, phase, started, todo, left, bound>>

\* MarkAlertDispatchJobSent, ...Retry and ...Failed, and those of the digests.
Record ==
    /\ result \in {"sent", "retry", "failed"}
    /\ queue' = IF result = "retry"
                THEN [queue EXCEPT ![Row].status = Updated("retrying"),
                                   ![Row].due = now + retryBackoff(queue[Row].attempts)]
                ELSE [queue EXCEPT ![Row].status = Updated(result)]
    /\ due' = due \ {Row}
    /\ result' = "none"
    /\ UNCHANGED <<now, eventVars, routes, phase, started, todo, left, bound>>

----------------------------------------------------------------------------

EventStep == Tick \/ (\E r \in Routes : Materialize(r)) \/ MarkProcessed
ListStep == ListJobs \/ ListDigests \/ EndTick
SendStep == MarkSending \/ Misconfigured \/ SendSucceeds \/ SendFails \/ Record
ServerStep == Clock \/ (\E e \in Events : Raise(e)) \/ SaveRule \/ Crash

Next == EventStep \/ ListStep \/ SendStep \/ ServerStep

Spec == Init /\ [][Next]_vars

\* The ticker, the dispatcher's goroutine, whose calls of a provider time out
\* after 15 s, and time.
Fairness == WF_vars(EventStep \/ ListStep \/ SendStep) /\ WF_vars(Clock)

FairSpec == Spec /\ Fairness

----------------------------------------------------------------------------
(* Properties.                                                             *)

\* A row is handed to its provider at most MaxAttempts times, and to its
\* escalation channel at most once, after the last attempt: crashes, retries
\* and saves in between included.
SendsBounded ==
    \A i \in DOMAIN queue :
        /\ queue[i].sends <= MaxAttempts
        /\ queue[i].escalations <= 1
        /\ queue[i].escalations = 1 => queue[i].status \notin Waiting

\* An event is marked processed only when each of its routes has taken it, in
\* a job or a digest, or left it to an earlier job of its fingerprint; a crash
\* in the middle does not lose it.  (A saved rule does: its rows are deleted.)
ProcessedIsQueued ==
    routes = 0 =>
        \A e \in Events, r \in Routes : status[e] = "processed" =>
            \E i \in DOMAIN queue :
                /\ queue[i].route = r
                /\ e \in queue[i].events \/ (bound.of.fingerprint /\ bound.of.cooldown > 0 /\ r \in Immediate)

\* Without a crash no event is taken twice by a route.
OncePerEvent ==
    bound.crashes = 0 =>
        \A i, j \in DOMAIN queue :
            queue[i].route = queue[j].route /\ queue[i].of = queue[j].of
                => i = j \/ queue[i].events \cap queue[j].events = {}

\* Without a crash no row stays in sending: the row in sending is the one the
\* dispatcher is at.  (Only queued and retrying rows
\* are listed as due.)
SendingIsCurrent ==
    bound.crashes = 0 =>
        \A i \in DOMAIN queue :
            queue[i].status = "sending" => due # {} /\ Row = i /\ result # "none"

\* The queue has a row for each event and route, once, and no row but the current
\* one is being sent; none is sent more often than its limit.
QueueInv == TypeOK /\ ProcessedIsQueued /\ OncePerEvent /\ SendingIsCurrent /\ SendsBounded

\* A digest takes no event once it was sent or tried: the events that come
\* later have a bucket of their own.
DigestClosed ==
    [][\A i \in DOMAIN queue :
          queue[i].attempts > 0 => queue'[i].events = queue[i].events]_vars

\* Every event is processed.
EventsProcessed == \A e \in Events : status[e] = "new" ~> status[e] = "processed"

\* Without a crash every row is settled, unless its rule is saved or its next
\* attempt lies beyond the clock of the model.
RowsSettle ==
    \A i \in 1..(LastEvent * Cardinality(Routes)) :
        i \in DOMAIN queue ~>
            \/ bound.crashes > 0
            \/ i \in DOMAIN queue /\ (queue[i].status \in Settled \cup {"deleted"}
                                      \/ queue[i].due > bound.of.time)

\* Whatever happens to the providers, every event becomes rows and every row ends.
EventsSettle == EventsProcessed /\ RowsSettle
=============================================================================
