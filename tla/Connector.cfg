SPECIFICATION FairSpec
CONSTANTS
    Sockets = {s1, s2, s3}
    Queries = {q1, q2}
    Embedded = TRUE
    MinDelay = 2
    MaxDelay = 5
    None = None
    MaxTroubles = 3
INVARIANTS
    SocketInv
PROPERTIES
    AnswersReachAsker
    Reconnects
    ShutdownEnds
CHECK_DEADLOCK FALSE
