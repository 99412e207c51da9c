SPECIFICATION FairSpec
CONSTANTS
    Conns = {c1}
    Silent = {c1}
    MaxFailures = 0
PROPERTIES
    StopExits
