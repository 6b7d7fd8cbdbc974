SPECIFICATION Spec
CONSTANTS
    j1 = j1
    j2 = j2
    d1 = d1
    d2 = d2
    NoJob = NoJob
    Job = {j1}
    Name <- OwnNames
    Dispatcher = {}
    MaxPrints = 2
    MaxWire = 1
    MaxDrops = 0
    MaxRestarts = 1
    StopCodes = TRUE
    DbErrors = TRUE
    PromptStatus = FALSE
    Refused = {}
    SerialRuns = TRUE
INVARIANTS
    JobsFollowPrints
PROPERTIES
    EndsAreFinal
    JobsMoveForward
