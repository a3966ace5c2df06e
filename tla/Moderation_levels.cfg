\* Two machine rules and a judged one, of which the judged one ranks above.
SPECIFICATION Spec

CONSTANTS
    Rules = {1, 2, 3}
    Tables <- OneTable
    Messages = {1}
    Window = 1
    RecentLimit = 2
    MaxEdits = 0
    Horizon = 0
    FaultSets <- NoFaults

INVARIANT OneLevelActs

\* Every message may be dealt with.
CHECK_DEADLOCK FALSE
