SPECIFICATION Spec
CONSTANTS
    Conns = {c1, c2, c3}
    Silent = {}
    MaxFailures = 1
SYMMETRY Symmetry
INVARIANTS
    TypeOK
    NoLostWakeup
    PassFollowsPoll
    JoinIsShort
    NoThreadOutlivesServer
CHECK_DEADLOCK FALSE
