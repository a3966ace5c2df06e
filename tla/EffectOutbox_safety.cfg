\* Crashes, exits, lost answers, failing database jobs and calibrations.
SPECIFICATION Spec
CONSTANTS
    a1 = a1
    a2 = a2
    Effects = {1, 2}
    Accounts = {a1}
    NoAccount = NoAccount
    NoKey = NoKey
    AccountOf <- OneAccount
    LaneOf <- OneLane
    KeyOf <- SharedKey
    ReadBack = {2}
    Tied = {}
    Expiring = {1}
    MaxAttempts = 2
    ClaimLimit = 2
    LanePermits = 2
    Calibration = TRUE
    DbErrors = TRUE
INVARIANTS
    OwnerHoldsRow
    ExecutedAtMostOnce
    DispatchesWithinLimits
PROPERTIES
    ImplementsDelivery
