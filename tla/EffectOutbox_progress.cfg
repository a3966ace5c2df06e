\* The production build without failing database jobs, under fairness.
SPECIFICATION FairSpec
CONSTANTS
    a1 = a1
    a2 = a2
    Effects = {1, 2}
    Accounts = {a1}
    NoAccount = NoAccount
    NoKey = NoKey
    AccountOf <- OneAccount
    LaneOf <- OneLane
    KeyOf <- NoKeys
    ReadBack = {2}
    Tied = {1, 2}
    Expiring = {}
    MaxAttempts = 2
    ClaimLimit = 2
    LanePermits = 1
    Calibration = FALSE
    DbErrors = FALSE
INVARIANTS
    SettledRowsAreRecorded
PROPERTIES
    QueuedEffectsSettle
    TiedHearsOutcome
