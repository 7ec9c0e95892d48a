CONSTANTS
    Tasks = {t1}
    Enhanced = {}
    Workers = {w1, w2}
    MaxQuota = 1
SPECIFICATION JSpec
SYMMETRY WorkerSymmetry
INVARIANTS JTypeOK Reconciled LogNotLost
PROPERTIES ImplementsLedger
