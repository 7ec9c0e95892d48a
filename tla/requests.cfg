SPECIFICATION RSpec
CONSTANTS
    Tasks = {"r1", "r2", "f1"}
    Requests = {"r1", "r2"}
    Workers = {"r1", "r2", "sweep"}
    Enhanced = {}
    MaxQuota = 1
    Owner <- TwoOwners
    Preference <- TwoPreferences
    Playground = {}
    Image = {"r1"}
    Realtime = {"r2"}
    Unlimited = FALSE
    InitialWallet = 1
    InitialToken = 2
    Total = 1
    WalletLimit = 2
INVARIANTS RTypeOK TokenFollowsFunding OnlyUseOverdraws NothingStranded OneSource
PROPERTIES ImplementsRequestCharge
CHECK_DEADLOCK FALSE
CONSTRAINT RecoveryLast
