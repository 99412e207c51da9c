SPECIFICATION FairSpec
CONSTANTS
    Conns = {c1, c2}
    Silent = {}
    MaxFailures = 0
PROPERTIES
    StopExits
    ConnectionsReaped
    PairIsAssigned
