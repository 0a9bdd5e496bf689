SPECIFICATION FairSpec
CONSTANTS
    Kinds = {"kafka", "webhook"}
    LastRecord = 5
    Committed0 = 1
    BatchSize = 2
    QueueCap = 2
    IncomingCap = 2
    CreateTable = TRUE
    SinkFails = TRUE
    MaxRestarts = 2
INVARIANTS
    NoSilentLoss
PROPERTIES
    Delivered
CHECK_DEADLOCK FALSE
