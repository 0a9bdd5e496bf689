SPECIFICATION FairSpec
CONSTANTS
    q1 = q1
    q2 = q2
    q3 = q3
    f1 = f1
    s1 = s1
    b1 = b1
    m1 = m1
    e1 = e1
    e2 = e2
    Keep = Keep
    Queries = {q1, q2, q3}
    Fulls = {f1}
    Singles = {s1}
    Blocked = {b1}
    Manuals = {m1}
    Edits = {e1, e2}
    Scenarios <- TheScenarios
INVARIANTS
    HarvestInv
    IncidentInv
PROPERTIES
    AllHarvested
CHECK_DEADLOCK FALSE
