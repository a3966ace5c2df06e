\* An administrator renames a member while the roster is synchronised.
SPECIFICATION Spec
CONSTANTS
    DhNames = {"dh"}
    OwnNames = {"own"}
    MaxAttempts = 2
    MaxEvents = 1
    MaxChanges = 1
    Cases <- ManualRename
INVARIANTS
    OnlyOutsidersCount
CHECK_DEADLOCK FALSE
