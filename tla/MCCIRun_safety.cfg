SPECIFICATION FairSpec
CONSTANTS
    MaxRuns = 2
    MaxOutput = 5
    PipeSize = 3
    FirstAlloc = 2
    ExitStatuses = {0, 1, 256}
    Signals = {9}
    MaxFailures = 2
INVARIANTS
    TypeOK
    ResultIsScripts
    ScriptHasDirectory
    NothingLeft
PROPERTIES
    RunEnds
CHECK_DEADLOCK FALSE
