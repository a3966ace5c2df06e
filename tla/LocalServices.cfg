\* A planned moment and a publication at once, with every fault; small instances of the other services.
SPECIFICATION MCSpec
CONSTANTS
    g1 = g1
    atOnce = atOnce
    Groups = {g1}
    Moments = {2}
    Plannings = {{2}}
    Tokens = {atOnce}
    Never = Never
    Grace = 0
    ClaimLimit = 1
    Horizon = 3
    Faults = {"crash", "refused", "db"}
    Calls = {1, 2}
    Programs <- WritePairs
    SourceFaults <- PageFaults
    MaxChanges = 1
    MaxReads = 2
    Refreshers = {1, 2, 3}
    KindOf <- Kinds
    MaxGeneration = 2
    Tools = {"desk", "helper"}
    ScriptFaults <- AloneFaults
    Versions = {1, 2}
    MaxRuns = 3
    Endpoints = {1, 2}
    ModelFaults <- ModelCases
    Responses = {1}
    Requests = {1, 2}
    ConversationOf <- OwnGroups
    ModelPermits = 2
    AnswersKept = 1
    MaxStamp = 1
    MaxDocs = 1
    Manual = {1, 2}
    Automatic = {3}
    CapturedOf <- CapturedState
    CapturedAim <- CapturedValue
    Finishers = {1, 2}
    CaptureFaults <- CaptureCases
    Sittings = 2
    Asks = {1, 2}
    Checks = {3}
    Enables = {4}
    StaleAfter = 0
    LiveTtl = 1
    Wordings = 1
    MaxDraws = 2
    DrawTime = 2
    DrawFaults <- DrawCases
    Sayings = {1, 2}
    GroupRules = {1, 2, 3}
    GroupTables <- RuleTables
    RuleFaults <- RuleCases
    ImageWindow = 1
    ImagesRead = 2
    RuleEdits = 1
    RuleClock = 1
    Evaluations = {1, 2, 3}
    Healths = {3}
    MaxWaiters = 2
    MaxLoads = 2
    FileFaults <- FileCases
    MaxStarts = 2
    Heard = {1, 2, 3}
    NoEvent = NoEvent
    Loop = "loop"
    Dispatchers = {"task"}
    Publishers = {"hand"}
    Errands <- TextsOnly
    AbleFaults <- AbleCases
    ClientVersions = {1, 2}
    MaxTurns = 1
    MaxRounds = 2
    WebFaults <- WebCases
    AttemptLimit = 2
    Expiry = 2
    MaxLogins = 2
    MaxEpoch = 3
    MaxMinutes = 2
    WebCalls = {1, 2, 3}
INVARIANTS
    RunAndEffectAgree
    OutcomesAreTrue
    ReceiptsAreTrue
    OriginalIsKept
    AnswersFit
    CapturesAreHonest
    PredictionsAreHonest
    RulesDecideRightly
    RequestsAreServedTruly
    StartsKeepWhatIsStored
    CapabilitiesAreProven
    LoginsAreKeptApart
    WebWritesAreTrue
PROPERTIES
    RefreshKeepsToItsLogin
    IntakeLosesNothing
    ImplementsSession
\* Every call may be done.
CHECK_DEADLOCK FALSE
