SPECIFICATION FairSpec
CONSTANTS
    Pipelines = {hook}
    Hooks = {hook}
    Runs = {r1, r2}
    NoRun = none
    QueueCap = 1
    MaxStarts = 1
    MayCrash = TRUE
INVARIANTS
    RunInv
PROPERTIES
    RunsSettle
