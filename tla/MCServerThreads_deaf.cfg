SPECIFICATION FairSpec
CONSTANTS
    Conns = {c1}
    Silent = {}
    MaxFailures = 1
PROPERTIES
    StopExits
