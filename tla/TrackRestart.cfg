SPECIFICATION Spec
CONSTANTS
    j1 = j1
    j2 = j2
    d1 = d1
    d2 = d2
    NoJob = NoJob
    Job = {j1, j2}
    Name <- SameNames
    Dispatcher = {}
    MaxPrints = 2
    MaxWire = 2
    MaxDrops = 1
    MaxRestarts = 1
    StopCodes = FALSE
    DbErrors = FALSE
    PromptStatus = TRUE
    Refused = {}
    SerialRuns = TRUE
SYMMETRY JobSymmetry
INVARIANT OneRowPerPrint
PROPERTY KeepsRevisedLedger
