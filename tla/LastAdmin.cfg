SPECIFICATION Spec
CONSTANTS
    a1 = a1
    u1 = u1
    c1 = c1
    c2 = c2
    ip1 = ip1
    conn1 = conn1
    t1 = t1
    t2 = t2
    Clients = {c1, c2}
    Admins = {a1, u1}
    Users = {a1, u1}
    Ips = {ip1}
    Conns = {conn1}
    Tokens = {t1, t2}
    MaxAttempts <- TwoLimits
    Window = 3
    Lockouts <- Levels
    None = None
    Gone = Gone
    Scenarios <- TwoAdmins
PROPERTIES
    AdminsRemain
CHECK_DEADLOCK FALSE
