SPECIFICATION FairSpec
CONSTANTS
    mail = mail
    sum = sum
    LastEvent = 2
    Immediate = {mail}
    Digest = {sum}
    MaxAttempts = 2
    Escalates = TRUE
    PerTick = 1
    Scenarios <- TheScenarios
INVARIANTS
    QueueInv
PROPERTIES
    DigestClosed
    EventsSettle
CHECK_DEADLOCK FALSE
