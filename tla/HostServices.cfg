\* The ledger in four cases, three member reads, five database calls, three reports of work.
SPECIFICATION MCSpec
CONSTANTS
    Cases <- LedgerCases
    MaxMessages = 2
    MaxSends = 1
    PendingLimit = 2
    BatchLimit = 1
    MaxLosses = 2
    MaxEpoch = 3
    Heard = {1, 2}
    NoEvent = NoEvent
    Callers = {1, 2, 3}
    None = 0
    ReadFaults <- MemberFaults
    MaxTries = 2
    Jobs = {1, 2, 3}
    Closers = {11, 12}
    Capacity = 2
    Items = {"message", "reply"}
    Rank <- Ranks
    Reporters = {1, 2}
    Emitters = {1, 2}
    MaxTracked = 1
    MaxReports = 3
    Nobody = Nobody
INVARIANTS
    LedgerIsTrue
PROPERTIES
    EveryMessageIsHandedOver
    HeardMessagesSettle
    CallersComeBack
    AcceptedJobsRun
    PageCatchesUp
\* Every message may be handed over and every call done.
CHECK_DEADLOCK FALSE
