CONSTANTS
    Req = {r1, r2}
    NoReq = NoReq
    Hash = {h1}
    Fp = {f1}
    DryRun <- NoHeader
    Worker = {w1}
    Watchdog = 1
    TTL = 2
    HandlerBound = 1
    DbErrors = TRUE
SPECIFICATION Spec
PROPERTY NoReexecutionUncacheable
