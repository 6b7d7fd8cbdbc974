CONSTANTS
    Req = {r1, r2, r3}
    NoReq = NoReq
    Hash = {h1, h2}
    Fp = {f1, f2}
    DryRun <- NoHeader
    Worker = {w1, w2}
    Watchdog = 1
    TTL = 2
    HandlerBound = 1
    DbErrors = TRUE
SPECIFICATION Spec
SYMMETRY MCSymmetry
INVARIANTS
    TypeOK
    OwnerHoldsRow
    ReplayFaithful
    AckedKeepsRow
PROPERTY ServesOnce
