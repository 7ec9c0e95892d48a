CONSTANTS
    Tasks = {t1}
    Workers = {w1, w2}
    MaxQuota = 1
    MaxFaults = 1
    Enhanced = {t1}
    PerCall = {}
    TokenPriced = {}
    Overreports = {}
    Orphans = {}
    Cancellable = {}
    Realtime = {}
SPECIFICATION TSafe
CHECK_DEADLOCK FALSE
INVARIANT NeverOverRefunded
