SPECIFICATION Spec
CONSTANTS
    Workers = {w1, w2}
    Clients = {c1, c2}
    ExitCodes = {0, 1}
    MaxEpoch = 2
    MaxSessions = 2
    MaxDisruptions = 1
SYMMETRY Symmetry
INVARIANTS
    TypeOK
    AtMostOnce
    FinishedTruthful
    Custody
    LossNeedsDisruption
PROPERTIES
    FinishedIsFinal
    RunNotDropped
    QueueOrderKept
    ImplementsLedger
CHECK_DEADLOCK FALSE
