\* One member, one name DH gives and one of its own; two messages, both
\* mentions, one of them a question to a business app.
SPECIFICATION MCSpec
CONSTANTS
    DhNames = {"dh"}
    OwnNames = {"own"}
    MaxAttempts = 2
    MaxEvents = 3
    MaxChanges = 2
    Cases <- AllCases
    Messages = {1, 2}
    Mentions = {1, 2}
    AppQuestions = {2}
    ReplyLimit = 1
    Permits = 1
    MaxLosses = 2
INVARIANTS
    MemberRowIsTrue
    AnswersAreTrue
PROPERTIES
    SnapshotsSpareNewcomers
    RosterComesRight
    AcceptedMentionsAreAnswered
\* The member may stay as it is and every job and message be done.
CHECK_DEADLOCK FALSE
