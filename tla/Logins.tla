------------------------------- MODULE Logins -------------------------------
(***************************************************************************)
(* Who may use the server: logins with a password and by single sign-on,   *)
(* sessions, the explicit roles of user_roles and the rate limits          *)
(* (handlers/auth.go, handlers/auth_oidc.go, middleware, and the roles of  *)
(* handlers/admin.go).  Every step is one statement, or one call of        *)
(* ClickHouse.  Nobody calls StartCleanupJobs of database/cleanup.go.      *)
(***************************************************************************)
EXTENDS Integers, Sequences

CONSTANTS
    None,
    Window,              \* RateLimitWindow
    Lockouts,            \* lockoutSchedule
    Clients, Admins,     \* Admins are users
    Users, Ips, Conns, Tokens,
    MaxAttempts,         \* [ip |-> MaxAttemptsPerIP, user |-> MaxAttemptsPerUser]
    Gone,
    Scenarios            \* bound: [clients, admins, users, ops, requests, time, faults, roles, limits]

VARIABLES
    clock,
    limits,       \* rate_limits
    roles,        \* user_roles
    sessions,     \* sessions
    cookie,       \* the token each client holds, the state of its sign-on
    client,       \* where the request of each client is
    admin,        \* where the request of each administrator is
    failed,       \* when the credentials were wrong, of each limit, since the last success
    booted,       \* who became admin by a login
    overlapped,   \* has a role been changed during a login
    scenario, requests

tables == <<limits, roles, sessions>>
history == <<failed, booted, overlapped>>
bounds == <<scenario, requests>>
vars == <<clock, tables, cookie, client, admin, history, bounds>>

Keys == Ips \cup (Users \X Conns)
Max(key) == IF key \in Ips THEN MaxAttempts.ip ELSE MaxAttempts.user
Idle == [at |-> "idle"]

Roles == {"admin", "analyst", "viewer"}

\* What an attempt knows; left is the row of rate_limits that it writes next.
Attempt(at, op, ip, user, conn, role) ==
    [at |-> at, op |-> op, key |-> ip, ip |-> ip, user |-> user, conn |-> conn, role |-> role,
     left |-> None, denied |-> FALSE]

LimitRow == [attempts : Nat, level : 0 .. Len(Lockouts), first : Nat, until : Nat \cup {None}]

\* What the proofs assume of the constants: the first lock is the shortest and no longer than
\* the window, no identifier is taken for a missing value, and what the tables hold from
\* before was written by this server, or by an older one that had longer locks.
LoginAssumption ==
    /\ Window \in Nat /\ MaxAttempts.ip \in Nat \ {0} /\ MaxAttempts.user \in Nat \ {0}
    /\ Lockouts \in Seq(Nat) /\ Lockouts # <<>> /\ Lockouts[1] \in 1 .. Window + 1
    /\ \A i \in DOMAIN Lockouts : Lockouts[1] <= Lockouts[i]
    /\ Admins \subseteq Users /\ Ips \cap (Users \X Conns) = {}
    /\ None \notin Clients \cup Ips \cup LimitRow \cup Nat \cup Roles
    /\ \A sc \in Scenarios :
          /\ sc.time \in Nat /\ sc.faults \in BOOLEAN /\ sc.users \subseteq Users
          /\ sc.roles \in [Users -> Roles \cup {None}] /\ sc.limits \in [Keys -> LimitRow \cup {None}]
          /\ \A k \in Keys : sc.limits[k] # None /\ sc.limits[k].until = None =>
                sc.limits[k].first = 0 /\ sc.limits[k].attempts <= Max(k)

Init ==
    /\ scenario \in Scenarios
    /\ clock = 0
    /\ limits = scenario.limits /\ roles = scenario.roles
    /\ sessions = [t \in Tokens |-> None]
    /\ cookie = [c \in Clients |-> [token |-> None, flow |-> None]]
    /\ client = [c \in Clients |-> Idle] /\ admin = [a \in Admins |-> Idle]
    /\ failed = [k \in Keys |->
          LET e == limits[k] IN
          [i \in 1 .. (IF e = None \/ e.until # None THEN 0 ELSE e.attempts) |-> e.first]]
    /\ booted = {} /\ overlapped = FALSE
    /\ requests = scenario.requests

-----------------------------------------------------------------------------
(* One row of rate_limits (middleware/ratelimit.go): how a check and a failed *)
(* attempt change it.                                                         *)

nextLockoutLevel(level) == IF level < Len(Lockouts) THEN level + 1 ELSE level
lockoutDurationForLevel(level) == Lockouts[IF level = 0 THEN 1 ELSE level]

Entry(attempts, level, first, until) ==
    [attempts |-> attempts, level |-> level, first |-> first, until |-> until]

Locked(e, now) == e # None /\ e.until # None /\ now < e.until

\* A lock that ended leaves its level and no attempts, an old window leaves nothing.
LockEnded(e, now) == e.until # None /\ now >= e.until
WindowEnded(e, now) == e.until = None /\ now - e.first > Window
TooMany(e, max) == e.until = None /\ e.attempts >= max

\* A lock that is longer than its level allows comes from an older version.
Shortened(e, now) ==
    LET level == IF e.level = 0 THEN 1 ELSE e.level
        longest == lockoutDurationForLevel(level)
    IN  IF e.until - now > longest THEN Entry(e.attempts, level, now, now + longest) ELSE e

LockedOut(e, now) ==
    LET level == nextLockoutLevel(e.level) IN
    Entry(e.attempts, level, e.first, now + lockoutDurationForLevel(level))

\* The row that a check leaves; it allows the attempt unless that row is locked.
CheckAuthRateLimit(e, max, now) ==
    CASE e = None -> None
      [] e # None /\ Locked(e, now) -> Shortened(e, now)
      [] e # None /\ LockEnded(e, now) -> Entry(0, e.level, now, None)
      [] e # None /\ WindowEnded(e, now) -> Entry(0, 0, now, None)
      [] e # None /\ ~WindowEnded(e, now) /\ TooMany(e, max) -> LockedOut(e, now)
      [] OTHER -> e

\* Faulty: the attempts before do not count.
RecordAttemptAlone(e, now) ==
    IF e = None THEN Entry(1, 0, now, None) ELSE Entry(1, e.level, e.first, None)

\* A lock that was set meanwhile is gone, its level is not.
RecordAttempt(e, now) ==
    IF e = None THEN Entry(1, 0, now, None) ELSE Entry(e.attempts + 1, e.level, e.first, None)

-----------------------------------------------------------------------------
(* Requests. *)

Works == IF scenario.faults THEN BOOLEAN ELSE {TRUE}

At(c, at) == client[c].at = at
To(c, at) == client' = [client EXCEPT ![c].at = at]
Over(c) == client' = [client EXCEPT ![c] = Idle]
CanAsk(c, op) == c \in scenario.clients /\ At(c, "idle") /\ requests > 0 /\ op \in scenario.ops
Ask(c, request) == client' = [client EXCEPT ![c] = request] /\ requests' = requests - 1

Tick ==
    /\ clock < scenario.time /\ clock' = clock + 1
    /\ UNCHANGED <<tables, cookie, client, admin, history, bounds>>

----------------------------------------------------------------------------
(* Login: the two limits, the credentials, the role, the session. *)

Login(c) ==
    /\ CanAsk(c, "login")
    /\ \E ip \in Ips, u \in scenario.users, conn \in Conns :
          Ask(c, Attempt("check", "login", ip, u, conn, None))
    /\ UNCHANGED <<clock, tables, cookie, admin, history, scenario>>

\* A row that cannot be read is none.
Read(key) == {limits[key]} \cup (IF scenario.faults THEN {None} ELSE {})
UserKey(c) == <<client[c].user, client[c].conn>>

\* After the limit of the address comes that of the user, then the credentials.
Decided(r) ==
    IF r.denied THEN Idle
    ELSE IF r.key = r.ip THEN [r EXCEPT !.at = "check", !.key = <<r.user, r.conn>>]
    ELSE [r EXCEPT !.at = "test"]

\* The row is read; a change of it is written in a step of its own.
Check(c) ==
    /\ At(c, "check")
    /\ \E e \in Read(client[c].key) :
          LET left == CheckAuthRateLimit(e, Max(client[c].key), clock)
              read == [client[c] EXCEPT !.left = left, !.denied = Locked(left, clock)]
          IN  client' = [client EXCEPT ![c] = IF left = e THEN Decided(read)
                                              ELSE [read EXCEPT !.at = "upsert"]]
    /\ UNCHANGED <<clock, tables, cookie, admin, history, bounds>>

Upsert(c) ==
    /\ At(c, "upsert")
    /\ \E works \in Works :
          limits' = IF works THEN [limits EXCEPT ![client[c].key] = client[c].left] ELSE limits
    /\ client' = [client EXCEPT ![c] = Decided(@)]
    /\ UNCHANGED <<clock, roles, sessions, cookie, admin, history, bounds>>

\* The tunnel is offline: nothing is counted.
Offline(c) ==
    /\ At(c, "test")
    /\ Over(c)
    /\ UNCHANGED <<clock, tables, cookie, admin, history, bounds>>

TestConnection(c) ==
    /\ At(c, "test")
    /\ \/ /\ To(c, "role")
          /\ UNCHANGED failed
       \/ client[c].op = "login"
          /\ client' = [client EXCEPT ![c].at = "failed", ![c].key = client[c].ip]
          /\ failed' = [k \in Keys |-> IF k \in {client[c].ip, UserKey(c)}
                                       THEN Append(failed[k], clock) ELSE failed[k]]
       \/ client[c].op = "switch" /\ Over(c) /\ UNCHANGED failed
    /\ UNCHANGED <<clock, tables, cookie, admin, booted, overlapped, bounds>>

\* RecordAttempt reads the row, then writes it: for the address, then for the user.
Failed(c) ==
    /\ At(c, "failed")
    /\ \E e \in Read(client[c].key) :
          client' = [client EXCEPT ![c].left = RecordAttempt(e, clock), ![c].at = "count"]
    /\ UNCHANGED <<clock, tables, cookie, admin, history, bounds>>

Count(c) ==
    /\ At(c, "count")
    /\ \E works \in Works :
          limits' = IF works THEN [limits EXCEPT ![client[c].key] = client[c].left] ELSE limits
    /\ client' = [client EXCEPT ![c] = IF @.key = @.ip
                     THEN [@ EXCEPT !.at = "failed", !.key = UserKey(c)] ELSE Idle]
    /\ UNCHANGED <<clock, roles, sessions, cookie, admin, history, bounds>>

----------------------------------------------------------------------------
(* resolveUserRole. *)

Admin(u) == roles[u] = "admin"
AllAdmins == {u \in Users : Admin(u)}

\* Where the request of c goes once its role is known.
Resolved(c, role) ==
    [client[c] EXCEPT !.role = role, !.at = IF client[c].op = "switch" THEN "leave" ELSE "session"]

\* The explicit role, or what ClickHouse says.
ManualRole(c) ==
    /\ At(c, "role")
    /\ \E detected \in Roles, works \in Works :
          LET manual == IF works THEN roles[client[c].user] ELSE None IN
          client' = [client EXCEPT ![c] =
             IF manual = None /\ detected = "admin" THEN [@ EXCEPT !.at = "admins"]
             ELSE Resolved(c, IF manual = None THEN detected ELSE manual)]
    /\ UNCHANGED <<clock, tables, cookie, admin, history, bounds>>

\* Only the first admin of ClickHouse becomes one here.
CountAdmins(c) ==
    /\ At(c, "admins")
    /\ \E works \in Works :
          client' = [client EXCEPT ![c] =
             IF works /\ AllAdmins = {} THEN [@ EXCEPT !.at = "bootstrap"]
             ELSE Resolved(c, "viewer")]
    /\ UNCHANGED <<clock, tables, cookie, admin, history, bounds>>

Bootstrap(c) ==
    /\ At(c, "bootstrap")
    /\ \E works \in Works :
          /\ roles' = IF works THEN [roles EXCEPT ![client[c].user] = "admin"] ELSE roles
          /\ booted' = IF works THEN booted \cup {client[c].user} ELSE booted
          /\ client' = [client EXCEPT ![c] = Resolved(c, IF works THEN "admin" ELSE "viewer")]
    /\ UNCHANGED <<clock, limits, sessions, cookie, admin, failed, overlapped, bounds>>

----------------------------------------------------------------------------
(* Sessions. *)

HasSession(t) == t \in Tokens /\ sessions[t] \notin {None, Gone}
Fresh == {t \in Tokens : sessions[t] = None}
DeleteSession(t) == IF HasSession(t) THEN [sessions EXCEPT ![t] = Gone] ELSE sessions

\* A token is held once its row is there.
CreateSession(c, row) ==
    \/ /\ \E t \in Fresh :
             /\ t = CHOOSE x \in Fresh : TRUE
             /\ sessions' = [sessions EXCEPT ![t] = row]
             /\ cookie' = [cookie EXCEPT ![c].token = t]
       /\ client' = [client EXCEPT ![c] = IF @.op = "login" THEN [@ EXCEPT !.at = "reset", !.key = client[c].ip]
                                          ELSE Idle]
    \/ scenario.faults /\ Over(c) /\ UNCHANGED <<sessions, cookie>>

NewSession(c) ==
    /\ At(c, "session")
    /\ CreateSession(c, [conn |-> client[c].conn, user |-> client[c].user, role |-> client[c].role,
                         subject |-> None, expired |-> FALSE])
    /\ UNCHANGED <<clock, limits, roles, admin, history, bounds>>

\* ResetLimit of the address, then of the user.
Reset(c) ==
    LET k == client[c].key IN
    /\ At(c, "reset")
    /\ \E works \in Works :
          /\ limits' = IF works THEN [limits EXCEPT ![k] = None] ELSE limits
          /\ failed' = IF works THEN [failed EXCEPT ![k] = <<>>] ELSE failed
    /\ client' = [client EXCEPT ![c] = IF k = @.ip THEN [@ EXCEPT !.key = UserKey(c)] ELSE Idle]
    /\ UNCHANGED <<clock, roles, sessions, cookie, admin, booted, overlapped, bounds>>

\* GetSession deletes what has expired.
GetSession(t) == IF HasSession(t) /\ sessions[t].expired THEN DeleteSession(t) ELSE sessions
Valid(t) == HasSession(t) /\ ~sessions[t].expired

\* The session comes first, the explicit role of its user later.
Request(c) ==
    LET t == cookie[c].token IN
    \/ /\ CanAsk(c, "request") /\ t # None
       /\ sessions' = GetSession(t)
       /\ IF Valid(t) THEN Ask(c, [at |-> "session role", session |-> sessions[t]])
          ELSE client' = client /\ requests' = requests - 1
       /\ UNCHANGED <<clock, limits, roles, cookie, admin, history, scenario>>
    \/ /\ At(c, "session role")
       /\ \E works \in Works :
             LET u == client[c].session.user IN
             client' = [client EXCEPT ![c] = [at |-> "serving", session |-> @.session,
                role |-> IF works /\ roles[u] # None THEN roles[u]
                         ELSE IF works THEN @.session.role ELSE "viewer"]]
       /\ UNCHANGED <<clock, tables, cookie, admin, history, bounds>>
    \/ /\ At(c, "serving") /\ Over(c)
       /\ UNCHANGED <<clock, tables, cookie, admin, history, bounds>>

\* GET /session: a client without a session is told to forget its token.
Session(c) ==
    LET t == cookie[c].token IN
    /\ CanAsk(c, "session") /\ t # None
    /\ sessions' = GetSession(t)
    /\ IF Valid(t)
       THEN Ask(c, [at |-> "session role", session |-> sessions[t]]) /\ UNCHANGED cookie
       ELSE /\ cookie' = [cookie EXCEPT ![c].token = None]
            /\ requests' = requests - 1 /\ UNCHANGED client
    /\ UNCHANGED <<clock, limits, roles, admin, history, scenario>>

Logout(c) ==
    LET t == cookie[c].token IN
    /\ CanAsk(c, "logout") /\ t # None /\ requests' = requests - 1
    /\ \E works \in Works : sessions' = IF works THEN DeleteSession(t) ELSE sessions
    /\ cookie' = [cookie EXCEPT ![c].token = None]
    /\ UNCHANGED <<clock, limits, roles, client, admin, history, scenario>>

\* SwitchConnection: other credentials, then the old session goes before the new one comes.
Switch(c) ==
    LET t == cookie[c].token IN
    \/ /\ CanAsk(c, "switch") /\ t # None
       /\ sessions' = GetSession(t)
       /\ \E u \in Users, conn \in Conns :
             IF Valid(t) THEN Ask(c, Attempt("test", "switch", None, u, conn, None))
             ELSE client' = client /\ requests' = requests - 1
       /\ UNCHANGED <<clock, limits, roles, cookie, admin, history, scenario>>
    \/ /\ At(c, "leave")
       /\ \E works \in Works : sessions' = IF works THEN DeleteSession(t) ELSE sessions
       /\ To(c, "session")
       /\ UNCHANGED <<clock, limits, roles, cookie, admin, history, bounds>>

Expire ==
    /\ "expire" \in scenario.ops
    /\ \E t \in Tokens : Valid(t) /\ sessions' = [sessions EXCEPT ![t].expired = TRUE]
    /\ UNCHANGED <<clock, limits, roles, cookie, client, admin, history, bounds>>

----------------------------------------------------------------------------
(* Single sign-on. *)

\* State and nonce go into cookies and to the identity provider.
OIDCLogin(c) ==
    /\ CanAsk(c, "sso") /\ requests' = requests - 1
    /\ cookie' = [cookie EXCEPT ![c].flow = requests]
    /\ UNCHANGED <<clock, tables, client, admin, history, scenario>>

\* It answers to the flow it was asked in.  The groups give the role; the session runs
\* as the service account of the connection.
OIDCCallback(c) ==
    \/ /\ c \in scenario.clients /\ At(c, "idle") /\ cookie[c].flow # None
       /\ cookie' = [cookie EXCEPT ![c].flow = None]
       /\ \/ client' = client
          \/ \E conn \in Conns, u \in Users, role \in Roles :
                client' = [client EXCEPT ![c] = Attempt("sso", "sso", None, u, conn, role)]
       /\ UNCHANGED <<clock, tables, admin, history, bounds>>
    \/ /\ At(c, "sso")
       /\ CreateSession(c, [conn |-> client[c].conn, user |-> client[c].user,
                            role |-> client[c].role, subject |-> c, expired |-> FALSE])
       /\ UNCHANGED <<clock, limits, roles, admin, history, bounds>>

----------------------------------------------------------------------------
(* SetUserRole and DeleteUserRole: None removes the explicit role. *)

Free(a) == a \in scenario.admins /\ admin[a].at = "idle" /\ requests > 0

\* RequireAdmin has let the request in.
ChangeRole(a) ==
    /\ Free(a) /\ Admin(a) /\ requests' = requests - 1
    /\ \E u \in Users, role \in Roles \cup {None} :
          admin' = [admin EXCEPT ![a] = [at |-> "target", user |-> u, role |-> role]]
    /\ UNCHANGED <<clock, tables, cookie, client, history, scenario>>

Step(a, at) == admin' = [admin EXCEPT ![a].at = at]
Leave(a) == admin' = [admin EXCEPT ![a] = Idle]

IsUserRole(a) ==
    /\ admin[a].at = "target"
    /\ \/ Step(a, IF Admin(admin[a].user) /\ admin[a].role # "admin" THEN "count" ELSE "store")
       \/ scenario.faults /\ Leave(a)
    /\ UNCHANGED <<clock, tables, cookie, client, history, bounds>>

\* Faulty: the last admin may go.
KeepsAdminAny == TRUE
KeepsAdmin == \E u, v \in AllAdmins : u # v

CountUsersWithRole(a) ==
    /\ admin[a].at = "count"
    /\ \/ IF KeepsAdmin THEN Step(a, "store") ELSE Leave(a)
       \/ scenario.faults /\ Leave(a)
    /\ UNCHANGED <<clock, tables, cookie, client, history, bounds>>

LoggingIn == \E c \in Clients : client[c].at \in {"admins", "bootstrap", "leave", "session"}

StoreRole(a) ==
    /\ admin[a].at = "store"
    /\ \/ /\ roles' = [roles EXCEPT ![admin[a].user] = admin[a].role]
          /\ overlapped' = (overlapped \/ LoggingIn)
          /\ Step(a, "refresh")
       \/ scenario.faults /\ Leave(a) /\ UNCHANGED <<roles, overlapped>>
    /\ UNCHANGED <<clock, limits, sessions, cookie, client, failed, booted, bounds>>

\* Faulty: sessions of the user keep the role they had.
SessionRoleKept(t, user, role) == sessions[t]
SessionRole(t, user, role) ==
    IF HasSession(t) /\ sessions[t].user = user
    THEN [sessions[t] EXCEPT !.role = IF role = None THEN "viewer" ELSE role] ELSE sessions[t]

\* A failure is a line of the log.
SetSessionsUserRole(a) ==
    /\ admin[a].at = "refresh"
    /\ \E works \in Works :
          sessions' = IF works THEN [t \in Tokens |-> SessionRole(t, admin[a].user, admin[a].role)]
                      ELSE sessions
    /\ Leave(a)
    /\ UNCHANGED <<clock, limits, roles, cookie, client, history, bounds>>

----------------------------------------------------------------------------

Serve(c) ==
    \/ Login(c) \/ Check(c) \/ Upsert(c)
    \/ Offline(c) \/ TestConnection(c) \/ Failed(c) \/ Count(c)
    \/ ManualRole(c) \/ CountAdmins(c) \/ Bootstrap(c)
    \/ NewSession(c) \/ Reset(c)
    \/ Request(c) \/ Session(c) \/ Logout(c) \/ Switch(c)
    \/ OIDCLogin(c) \/ OIDCCallback(c)

Govern(a) ==
    \/ ChangeRole(a) \/ IsUserRole(a) \/ CountUsersWithRole(a)
    \/ StoreRole(a) \/ SetSessionsUserRole(a)

Next == Tick \/ Expire \/ (\E c \in Clients : Serve(c)) \/ (\E a \in Admins : Govern(a))

Spec == Init /\ [][Next]_vars

----------------------------------------------------------------------------
(* Properties. *)

AtMostOne(x) == \A i, j \in x : i = j
OneClient == AtMostOne(scenario.clients) /\ ~scenario.faults
OneAdmin == AtMostOne(scenario.admins) /\ ~scenario.faults

\* From one client, and with a working store, wrong attempts in a row are slow: one more
\* than 2 * Max take at least the shortest lock.  (Max lock the key, or end with their
\* window; two windows may meet in a moment, as the second one starts at the next check.)
AttemptsBounded ==
    OneClient => \A k \in Keys : LET n == 2 * Max(k) IN
        \A i \in 1 .. Len(failed[k]) - n : failed[k][i + n] - failed[k][i] >= Lockouts[1]

\* Who holds a session was let in as what the role said: "admin" has its explicit row,
\* when no role was changed during a login and no identity provider gave it.  (Two
\* administrators who change one role may bring it to the sessions in the other order.)
RoleIsBacked ==
    OneAdmin /\ ~overlapped /\ (\A a \in Admins : admin[a].at # "refresh")
       => \A t \in Tokens :
             HasSession(t) /\ sessions[t].subject = None /\ sessions[t].role = "admin"
                => Admin(sessions[t].user)

\* Logins make one user admin, the first.  (Two administrators may leave none.)
OneBootstrap == OneClient /\ OneAdmin => AtMostOne(booted)

LoginInv == AttemptsBounded /\ RoleIsBacked /\ OneBootstrap

\* The code's own rule: somebody remains admin (handlers/admin.go).
AdminsRemain == [][AllAdmins # {} => AllAdmins' # {}]_vars

\* With one administrator at a time the rule holds, and with one client a lock stays
\* until its time: no attempt gets its credentials tested before.
LockStays(k) == Locked(limits[k], clock) => limits'[k] # None /\ limits'[k].until # None
LoginSteps ==
    /\ OneAdmin /\ AllAdmins # {} => AllAdmins' # {}
    /\ OneClient => \A k \in Keys : LockStays(k)
=============================================================================
