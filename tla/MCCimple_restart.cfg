SPECIFICATION Spec
CONSTANTS
    Workers = {w1}
    Clients = {c1, c2}
    ExitCodes = {0}
    MaxEpoch = 2
    MaxSessions = 1
    MaxDisruptions = 1
PROPERTIES
    RestartRecoversQueue
CHECK_DEADLOCK FALSE
