\* A withheld message is heard again by the next listener session.
SPECIFICATION Spec
CONSTANTS
    g1 = g1
    Groups = {g1}
    GroupOf <- OneGroup
    NoEvent = NoEvent
    Events = {1, 2}
    Members = {}
    Ignorable = {}
    Late = {1}
    MaxSessions = 2
    MaxAttempts = 2
    BatchLimit = 2
    QueueLimit = 3
    ChannelLimit = 1
    Faults = {"reload", "redeliver"}
PROPERTIES
    DiscardsOnlyWhatIsKept
