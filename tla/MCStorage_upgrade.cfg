SPECIFICATION Spec
CONSTANTS
    Threads = {t1, t2}
    Urls = {u1}
    Revs = {r1}
    ExitCodes = {0}
    None = None
    Statements = 10
    MaxRows = 1
    MaxStarts = 1
    MaxFailures = 0
INVARIANTS
    AllOrNothing
CHECK_DEADLOCK FALSE
