SPECIFICATION FairSpec
CONSTANTS
    Schedules = {s1, s2}
    Handlers = {h1, h2}
    Crons <- OneAndTwo
    Keep = Keep
    NoRow = NoRow
    MaxConcurrent = 1
    Horizon = 2
    MaxTime = 2
    MaxRequests = 2
    MaxEnds = 1
INVARIANTS
    ScheduleInv
PROPERTIES
    OncePerOccurrence
    DueIsRun
CHECK_DEADLOCK FALSE
