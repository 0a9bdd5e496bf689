SPECIFICATION FairSpec
CONSTANTS
    s1 = s1
    f1 = f1
    l1 = l1
    l2 = l2
    a1 = a1
    q1 = q1
    u1 = u1
    r1 = r1
    Absent = Absent
    Users = {u1}
    Roles = {r1}
    StaleAfter = 0
    Singles = {s1}
    Fulls = {f1}
    Loops = {l1, l2}
    Admins = {a1}
    Queries = {q1}
    Scenarios <- TheScenarios
INVARIANTS
    AccessInv
PROPERTIES
    BlockedForCause
    CatchesUp
CHECK_DEADLOCK FALSE
