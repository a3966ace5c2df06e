\* The text of a document is edited in the page of the program.
SPECIFICATION Spec
CONSTANTS
    Endpoints = {1, 2}
    FaultSets <- Edited
    Responses = {1}
    Requests = {1, 2}
    ConversationOf <- OwnGroups
    Permits = 2
    Capacity = 1
    MaxStamp = 1
    MaxDocs = 1
INVARIANTS
    AnswersAreCurrent
CHECK_DEADLOCK FALSE
