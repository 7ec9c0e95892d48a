CONSTANTS
    Tasks = {t1}
    Workers = {w1, w2}
    MaxQuota = 1
    MaxFaults = 2
    Enhanced = {}
    PerCall = {}
    TokenPriced = {}
    Overreports = {}
    Orphans = {}
    Cancellable = {t1}
    Realtime = {}
SPECIFICATION TSpec
CHECK_DEADLOCK FALSE
INVARIANTS TTypeOK NeverOverRefunded RefundIsFinal SettledAtMeasured
PROPERTIES ImplementsLedger TerminalIsFinal EveryTaskSettles FactsApplied
