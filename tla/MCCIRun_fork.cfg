SPECIFICATION Spec
CONSTANTS
    MaxRuns = 1
    MaxOutput = 1
    PipeSize = 1
    FirstAlloc = 1
    ExitStatuses = {0}
    Signals = {9}
    MaxFailures = 1
INVARIANTS
    ValidResult
CHECK_DEADLOCK FALSE
