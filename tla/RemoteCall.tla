----------------------------- MODULE RemoteCall -----------------------------
(***************************************************************************)
(* What the tunnel promises to the code that runs a query through it       *)
(* (handlers, scheduler, models, governance): a call is refused or begins, *)
(* the agent may execute it at most once, and the caller gets a result     *)
(* only if the agent executed it, otherwise an error or a timeout.  The    *)
(* agent may execute a call whose caller has already given up.             *)
(***************************************************************************)
CONSTANT Requests

VARIABLES phase,     \* idle, running, or how the call ended
          executed   \* calls whose answer the agent has sent

Endings == {"result", "error", "timeout"}

TypeOK ==
    /\ phase \in [Requests -> {"idle", "running"} \cup Endings]
    /\ executed \subseteq Requests

Init ==
    /\ phase = [r \in Requests |-> "idle"]
    /\ executed = {}

Begin(r) ==
    /\ phase[r] = "idle"
    /\ phase' = [phase EXCEPT ![r] = "running"]
    /\ UNCHANGED executed

Refuse(r) ==
    /\ phase[r] = "idle"
    /\ phase' = [phase EXCEPT ![r] = "error"]
    /\ UNCHANGED executed

Execute(r) ==
    /\ phase[r] # "idle"
    /\ r \notin executed
    /\ executed' = executed \cup {r}
    /\ UNCHANGED phase

End(r, e) ==
    /\ phase[r] = "running"
    /\ e = "result" => r \in executed
    /\ phase' = [phase EXCEPT ![r] = e]
    /\ UNCHANGED executed

\* The request id is retired; the next use of the slot is another call.
Forget(r) ==
    /\ phase[r] \in Endings
    /\ phase' = [phase EXCEPT ![r] = "idle"]
    /\ executed' = executed \ {r}

Next ==
    \E r \in Requests :
        \/ Begin(r) \/ Refuse(r) \/ Execute(r) \/ Forget(r)
        \/ \E e \in Endings : End(r, e)

vars == <<phase, executed>>

Spec == Init /\ [][Next]_vars

=============================================================================
