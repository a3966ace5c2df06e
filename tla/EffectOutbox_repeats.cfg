\* Violated: an uncertain write is sent again.
SPECIFICATION Spec
CONSTANTS
    a1 = a1
    a2 = a2
    Effects = {1}
    Accounts = {a1}
    NoAccount = NoAccount
    NoKey = NoKey
    AccountOf <- OneAccount
    LaneOf <- OneLane
    KeyOf <- SharedKey
    ReadBack = {1}
    Tied = {}
    Expiring = {}
    MaxAttempts = 2
    ClaimLimit = 2
    LanePermits = 2
    Calibration = FALSE
    DbErrors = FALSE
INVARIANTS
    UncertainWriteNotRepeated
