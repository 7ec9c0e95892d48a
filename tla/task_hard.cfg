CONSTANTS
    Tasks = {t1}
    Workers = {w1, w2}
    MaxQuota = 1
    MaxFaults = 2
    Enhanced = {t1}
    PerCall = {}
    TokenPriced = {t1}
    Overreports = {t1}
    Orphans = {t1}
    Cancellable = {t1}
    Realtime = {}
SPECIFICATION TSafe
SYMMETRY WorkerSymmetry
CHECK_DEADLOCK FALSE
INVARIANT Reconciled
PROPERTY ImplementsLedger
