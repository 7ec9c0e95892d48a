CONSTANTS
    Tasks = {t1}
    Workers = {w1, w2}
    MaxQuota = 2
    MaxFaults = 1
    Enhanced = {}
    PerCall = {t1}
    TokenPriced = {}
    Overreports = {}
    Orphans = {}
    Cancellable = {}
    Realtime = {t1}
SPECIFICATION TSafe
SYMMETRY WorkerSymmetry
CHECK_DEADLOCK FALSE
PROPERTY AppliedOnce
