SPECIFICATION FairSpec
CONSTANTS
    Pipelines = {kafka1, kafka2}
    Hooks = {}
    Runs = {r1, r2}
    NoRun = none
    QueueCap = 1
    MaxStarts = 1
    MayCrash = FALSE
PROPERTY ShutdownEnds
CHECK_DEADLOCK FALSE
