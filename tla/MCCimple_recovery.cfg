SPECIFICATION FairSpec
CONSTANTS
    Workers = {w1, w2}
    Clients = {c1}
    ExitCodes = {0}
    MaxEpoch = 2
    MaxSessions = 3
    MaxDisruptions = 2
PROPERTIES
    EveryRunFinishes
    QueuedRunLeaves
    StopEnds
    SignalledWorkerEnds
CHECK_DEADLOCK FALSE
