\* One plan over a day and a bit; summaries of two groups.
SPECIFICATION MCSpec
CONSTANTS
    Schedules = {1}
    GroupOf <- OneGroup
    Groups = {"g"}
    Windows <- OneWindows
    DayLength = 3
    Horizon = 4
    MaxAttempts = 2
    MaxEdits = 1
    FaultSets <- ScheduleFaults
    SummaryGroups = {1, 2}
    SummaryFaults <- LoopFaults
PROPERTIES
    BoundariesActOnce
    PlannedWorkIsDone
INVARIANT
    OneSummaryPerDay
\* The clock stops and every job may be done.
CHECK_DEADLOCK FALSE
