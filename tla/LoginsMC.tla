------------------------------ MODULE LoginsMC ------------------------------
(* Small instances of Logins. *)
EXTENDS Logins

CONSTANTS a1, u1, c1, c2, ip1, conn1, t1, t2

TwoLimits == [ip |-> 3, user |-> 2]
Levels == <<2, 3>>

NoLimits == [k \in Keys |-> None]
NoRoles == [u \in Users |-> None]
Base == [clients |-> {}, admins |-> {}, users |-> Users, ops |-> {}, requests |-> 0, time |-> 0, faults |-> FALSE,
         roles |-> NoRoles, limits |-> NoLimits]

AnAdmin == CHOOSE u \in Admins : TRUE
AClient == CHOOSE c \in Clients : TRUE
Rooted == [NoRoles EXCEPT ![AnAdmin] = "admin"]
Tried == [k \in Keys |-> Entry(1, 0, 0, None)]
Opened == [k \in Keys |-> Entry(0, 0, 0, None)]
Legacy == [k \in Keys |-> Entry(3, 2, 0, 9)]

TheScenarios ==
    { \* one client guesses, and has guessed before
      [Base EXCEPT !.clients = {AClient}, !.ops = {"login"}, !.users = {u1}, !.requests = 4, !.time = 4, !.roles = Rooted,
                   !.limits = Tried],
      \* the window of the address and the user began before the attempts
      [Base EXCEPT !.clients = {AClient}, !.ops = {"login"}, !.users = {u1}, !.requests = 4, !.time = 4, !.roles = Rooted,
                   !.limits = Opened],
      \* a lock of an older version
      [Base EXCEPT !.clients = {AClient}, !.ops = {"login"}, !.requests = 3, !.time = 4, !.roles = Rooted, !.limits = Legacy],
      \* two clients at once
      [Base EXCEPT !.clients = Clients, !.ops = {"login"}, !.requests = 2],
      \* users who log in while nobody is admin
      [Base EXCEPT !.clients = {AClient}, !.ops = {"login", "logout"}, !.requests = 4],
      \* a session and its roles
      [Base EXCEPT !.clients = {AClient}, !.admins = {AnAdmin}, !.requests = 3, !.roles = Rooted,
                   !.ops = {"login", "request", "session", "switch", "logout"}],
      [Base EXCEPT !.clients = {AClient}, !.admins = {AnAdmin}, !.requests = 2, !.roles = Rooted,
                   !.ops = {"login", "request", "session", "expire", "sso"}],
      \* a store that fails
      [Base EXCEPT !.clients = {AClient}, !.admins = {AnAdmin}, !.requests = 2, !.roles = Rooted, !.faults = TRUE,
                   !.ops = {"login", "request", "session", "switch", "logout", "sso"}] }

\* Two administrators, both with the role.
TwoAdmins ==
    {[Base EXCEPT !.admins = Admins, !.requests = 2, !.roles = [u \in Users |-> "admin"]]}
=============================================================================
