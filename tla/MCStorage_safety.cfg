SPECIFICATION FairSpec
CONSTANTS
    Threads = {t1, t2}
    Urls = {u1, u2}
    Revs = {r1}
    ExitCodes = {0, 1}
    None = None
    Statements = 10
    MaxRows = 1
    MaxStarts = 2
    MaxFailures = 2
INVARIANTS
    TypeOK
    ServesWholeSchema
    RunsHaveRepos
    RowsAreAsAsked
    NothingPends
PROPERTIES
    CallReturns
    ImplementsRunStore
CHECK_DEADLOCK FALSE
