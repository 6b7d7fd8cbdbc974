SPECIFICATION FairSpec
CONSTANTS
    j1 = j1
    j2 = j2
    d1 = d1
    d2 = d2
    NoJob = NoJob
    Job = {j1}
    Name <- OwnNames
    Dispatcher = {d1}
    MaxPrints = 1
    MaxWire = 1
    MaxDrops = 0
    MaxRestarts = 0
    StopCodes = FALSE
    DbErrors = FALSE
    PromptStatus = TRUE
    Refused = {}
    SerialRuns = TRUE
PROPERTIES
    PrintedJobsConclude
