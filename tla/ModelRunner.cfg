SPECIFICATION FairSpec
CONSTANTS
    q1 = q1
    q2 = q2
    Absent = Absent
    Tick = Tick
    Models <- ThreeModels
    Requests = {q1, q2}
    Scenarios <- TheScenarios
INVARIANTS
    BuildInv
PROPERTIES
    RefusesCycles
    DueIsAttempted
CHECK_DEADLOCK FALSE
