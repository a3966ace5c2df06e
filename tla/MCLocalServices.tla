-------------------------- MODULE MCLocalServices ---------------------------
(***************************************************************************)
(* Small instances, for TLC, of services with safety properties alone: the *)
(* runs of an activity, the writes behind the gateway, the credentials,    *)
(* the client's start script, the models and their caches, a calibration   *)
(* session, the prediction app, the rules of a group, the requests to the  *)
(* client's page, the database file over the starts, the intake of chat    *)
(* events, the capabilities, the login of the web edition and its group    *)
(* management. They share no state; a behaviour follows the one in `focus' *)
(* while the others rest in their initial states.                          *)
(***************************************************************************)
EXTENDS ActivityRuns

CONSTANTS
    g1, atOnce, Calls, Programs, SourceFaults, MaxChanges, MaxReads, Refreshers, KindOf,
    MaxGeneration, Tools, ScriptFaults, Versions, MaxRuns, Endpoints, ModelFaults, Responses,
    Requests, ConversationOf, ModelPermits, AnswersKept, MaxStamp, MaxDocs, Manual, Automatic,
    CapturedOf, CapturedAim, Finishers, CaptureFaults, Sittings, Asks, Checks, Enables, StaleAfter,
    LiveTtl, Wordings, MaxDraws, DrawTime, DrawFaults, Sayings,
    GroupRules, GroupTables, RuleFaults, ImageWindow, ImagesRead, RuleEdits, RuleClock,
    Evaluations, Healths, MaxWaiters, MaxLoads, FileFaults, MaxStarts, Heard, NoEvent,
    Loop, Dispatchers, Publishers, Errands, AbleFaults, ClientVersions, MaxTurns, MaxRounds,
    WebFaults, AttemptLimit, Expiry, MaxLogins, MaxEpoch, MaxMinutes, WebCalls

(* The writes made together are of the kinds there are.                    *)
ASSUME ProgramAssumption ==
    \A p \in Programs : p \in [Calls -> {"rename", "mute", "unmute", "remove", "close", "open", "recall",
                                        "send", "announce", "amend", "withdraw"}]

(* A write of a calibration gives a state one of its values.               *)
ASSUME AimAssumption == CapturedAim \in [Manual \cup Automatic -> 0..2]

(* A call asks for a prediction or is about the switch of the app.         *)
ASSUME DrawAssumption ==
    StaleAfter \in Nat /\ LiveTtl \in Nat /\ Asks \cap (Checks \cup Enables) = {}

(* There are finitely many connections, and their ids are numbers.         *)
ASSUME ConnectionAssumption == Endpoints \subseteq Nat /\ IsFiniteSet(Endpoints)

(* Who probes is one of the loop and the dispatchers, who publishes none.  *)
ASSUME ProberAssumption ==
    /\ Loop \notin Dispatchers /\ "nobody" \notin {Loop} \cup Dispatchers
    /\ Publishers \cap ({Loop} \cup Dispatchers) = {}
    /\ Errands \in [Dispatchers -> {"send", "mute", "remove"}]

VARIABLES
    focus,
    wKind, wFaults, wRemote, wChanges, wCache, wListing, wAt, wReads, wReceipt, wExecuted,
    wDisturbed, wStood,
    cGeneration, cRevision, cCurrent, cPlace, cObserved, cBefore,
    sFaults, sScript, sSpare, sBackups, sDrafts, sManifests, sAt, sJob, sRuns,
    mFaults, mRows, mStamp, mRemovals, mDocs, mCooling, mGiven, mKnowledge, mAnswers, mRequest,
    kFaults, kRemote, kRecorder, kAt, kBegins, kFinish, kSessions, kStart, kTouched, kExported,
    pFaults, pNow, pOpened, pCache, pLock, pApp, pAt, pGot, pRuns, pReplies, pWorded, pPending,
    pQueue, pJob,
    uFaults, uNow, uEdits, uTable, uGroup, uAllowed, uAuthor, uKind, uHits, uSent, uStored, uAt,
    uPlan, uDeferred, uRows, uRefused, uMade,
    qClient, qCache, qSnapshot, qSession, qWire, qNextId, qWaiters, qPlace, qGoal, qId, qGot,
    qExecuted,
    dFaults, dDb, dBackups, dAt, dOld, dStarts, dSaved,
    nPage, nMapped, nInbox, nMsg, nUp, nLoop, nJobs, nBusy,
    bFaults, bClient, bTable, bRows, bGate, bAt, bHeld, bChanges, bRounds, bReadBack,
    lFaults, lClient, lEpoch, lKept, lMade, lAccount, lSocket, lChallenge, lAttempts, lSaved,
    lSavedFile, lAt, lMinutes, lAsked, lEnded,
    oClient, oEpoch, oKept, oMade, oFaults, oKind, oGroup, oGroups, oMembers, oWriting, oAt,
    oStage, oHand, oReceipt, oExecuted, oWas

writesVars ==
    <<wKind, wFaults, wRemote, wChanges, wCache, wListing, wAt, wReads, wReceipt, wExecuted,
    wDisturbed, wStood>>
secretsVars == <<cGeneration, cRevision, cCurrent, cPlace, cObserved, cBefore>>
scriptVars == <<sFaults, sScript, sSpare, sBackups, sDrafts, sManifests, sAt, sJob, sRuns>>
modelsVars ==
    <<mFaults, mRows, mStamp, mRemovals, mDocs, mCooling, mGiven, mKnowledge, mAnswers, mRequest>>
captureVars ==
    <<kFaults, kRemote, kRecorder, kAt, kBegins, kFinish, kSessions, kStart, kTouched, kExported>>
drawsVars ==
    <<pFaults, pNow, pOpened, pCache, pLock, pApp, pAt, pGot, pRuns, pReplies, pWorded, pPending,
    pQueue, pJob>>
rulingVars ==
    <<uFaults, uNow, uEdits, uTable, uGroup, uAllowed, uAuthor, uKind, uHits, uSent, uStored, uAt,
    uPlan, uDeferred, uRows, uRefused, uMade>>
pageVars ==
    <<qClient, qCache, qSnapshot, qSession, qWire, qNextId, qWaiters, qPlace, qGoal, qId, qGot,
    qExecuted>>
storageVars == <<dFaults, dDb, dBackups, dAt, dOld, dStarts, dSaved>>
intakeVars == <<nPage, nMapped, nInbox, nMsg, nUp, nLoop, nJobs, nBusy>>
ableVars == <<bFaults, bClient, bTable, bRows, bGate, bAt, bHeld, bChanges, bRounds, bReadBack>>
webVars ==
    <<lFaults, lClient, lEpoch, lKept, lMade, lAccount, lSocket, lChallenge, lAttempts, lSaved,
    lSavedFile, lAt, lMinutes, lAsked, lEnded>>
postsVars ==
    <<oClient, oEpoch, oKept, oMade, oFaults, oKind, oGroup, oGroups, oMembers, oWriting, oAt,
    oStage, oHand, oReceipt, oExecuted, oWas>>

(* Two calls at a time: those about one field, and a pair of other fields. *)
WritePairs == {
    <<"remove", "rename">>, <<"mute", "unmute">>, <<"close", "open">>,
    <<"announce", "withdraw">>, <<"amend", "recall">>, <<"send", "recall">>}

PageFaults == {{}, {"nim"}}

Writes == INSTANCE GatewayWrites WITH
    kind <- wKind, faults <- wFaults, remote <- wRemote, changes <- wChanges, cache <- wCache,
    listing <- wListing, at <- wAt, reads <- wReads, receipt <- wReceipt, executed <- wExecuted,
    disturbed <- wDisturbed, stood <- wStood

Kinds == <<"business", "nim", "nim">>

Secrets == INSTANCE Credentials WITH
    generation <- cGeneration, revision <- cRevision, current <- cCurrent, place <- cPlace,
    observed <- cObserved, before <- cBefore

AloneFaults == {{"crash", "update", "restore"}}

Script == INSTANCE ClientScript WITH
    Programs <- Tools, FaultSets <- ScriptFaults, faults <- sFaults, script <- sScript,
    spare <- sSpare, backups <- sBackups, drafts <- sDrafts, manifests <- sManifests, at <- sAt,
    job <- sJob, runs <- sRuns

ModelCases == {{"save"}, {"delete"}, {"test", "drop"}, {"edit", "age"}}

(* Every request comes from a group of its own.                            *)
OwnGroups == [r \in Requests |-> r]

Models == INSTANCE AiProviders WITH
    FaultSets <- ModelFaults, Permits <- ModelPermits, Capacity <- AnswersKept, faults <- mFaults,
    rows <- mRows, stamp <- mStamp, removals <- mRemovals, docs <- mDocs, cooling <- mCooling,
    given <- mGiven, knowledge <- mKnowledge, answers <- mAnswers, request <- mRequest

CapturedState == [w \in Manual \cup Automatic |-> IF w \in Manual THEN "closed" ELSE "mute"]
CapturedValue == [w \in Manual \cup Automatic |-> IF w = 2 THEN 0 ELSE 1]
CaptureCases == {{"read", "call", "file"}, {"blind"}}

Capture == INSTANCE Calibration WITH
    FieldOf <- CapturedOf, Wanted <- CapturedAim, FaultSets <- CaptureFaults,
    MaxSessions <- Sittings, faults <- kFaults, remote <- kRemote, recorder <- kRecorder,
    at <- kAt, begins <- kBegins, finish <- kFinish, sessions <- kSessions, start <- kStart,
    touched <- kTouched, exported <- kExported

DrawCases == {{"source"}, {"crash"}, {"db"}, {"model"}, {"offline"}, {"switch"}}

Draws == INSTANCE Predictions WITH
    Messages <- Asks, FaultSets <- DrawFaults, Ttl <- LiveTtl, QueueLimit <- Wordings,
    Horizon <- DrawTime, faults <- pFaults, now <- pNow, opened <- pOpened,
    cache <- pCache, lock <- pLock, app <- pApp, at <- pAt, got <- pGot, runs <- pRuns,
    replies <- pReplies, worded <- pWorded, pending <- pPending, queue <- pQueue, job <- pJob

Does(s) == [i \in DOMAIN s |-> [kind |-> s[i][1], seconds |-> s[i][2]]]
Rule(how, auto, level, spares, does) ==
    [ai |-> how = "semantic", on |-> TRUE, auto |-> auto, level |-> level, spares |-> spares,
     matcher |-> how, times |-> 2, does |-> Does(does)]

(* Two rules of one level with one above them that the model judges; a rule *)
(* that observes, one about the list, one that spares; rules that count;    *)
(* a rule that asks for nothing, above one that does.                       *)
JudgedAbove ==
    <<Rule("pattern", TRUE, 1, FALSE, <<<<"mute", 1>>, <<"notify", 0>>>>),
      Rule("pattern", TRUE, 1, FALSE, <<<<"reply", 0>>, <<"mute", 2>>>>),
      Rule("semantic", TRUE, 3, FALSE, <<<<"recall", 0>>, <<"mute", 3>>>>)>>
Silent ==
    <<Rule("pattern", TRUE, 3, FALSE, <<>>),
      Rule("pattern", TRUE, 1, FALSE, <<<<"mute", 1>>>>),
      Rule("pattern", FALSE, 2, FALSE, <<<<"notify", 0>>>>)>>
Sparing ==
    <<Rule("pattern", FALSE, 3, FALSE, <<<<"remove", 0>>>>),
      Rule("blacklist", TRUE, 2, FALSE, <<<<"reply", 0>>, <<"remove", 0>>>>),
      Rule("pattern", TRUE, 1, TRUE, <<<<"mute", 1>>>>)>>
Counting ==
    <<Rule("image", TRUE, 2, FALSE, <<<<"mute", 1>>, <<"recall", 0>>>>),
      Rule("rename", TRUE, 2, FALSE, <<<<"recall", 0>>, <<"blacklist", 0>>>>),
      Rule("pattern", TRUE, 3, FALSE, <<<<"reply", 0>>>>)>>
RuleTables == {JudgedAbove, Sparing, Counting, Silent}
RuleCases == {{"model", "late"}, {"crash", "edit"}, {"calibration"}, {"refused"}, {"switches"}}

Ruling == INSTANCE Moderation WITH
    Rules <- GroupRules, Messages <- Sayings, Tables <- GroupTables, FaultSets <- RuleFaults,
    Window <- ImageWindow, RecentLimit <- ImagesRead, MaxEdits <- RuleEdits, Horizon <- RuleClock,
    faults <- uFaults, now <- uNow,
    edits <- uEdits, table <- uTable, group <- uGroup, allowed <- uAllowed, author <- uAuthor,
    kind <- uKind, hits <- uHits, sent <- uSent, stored <- uStored, at <- uAt, plan <- uPlan,
    deferred <- uDeferred, rows <- uRows, refused <- uRefused, made <- uMade

Page == INSTANCE PageRequests WITH
    Callers <- Evaluations, Checks <- Healths, client <- qClient, cache <- qCache,
    snapshot <- qSnapshot, session <- qSession, wire <- qWire, nextId <- qNextId,
    waiters <- qWaiters, place <- qPlace, goal <- qGoal, id <- qId, got <- qGot,
    executed <- qExecuted

FileCases == {{"crash"}, {"disk"}}

Storage == INSTANCE DatabaseFile WITH
    FaultSets <- FileFaults, faults <- dFaults, db <- dDb, backups <- dBackups, at <- dAt,
    old <- dOld, starts <- dStarts, saved <- dSaved

OneGroup == {"group"}
InGroup == [e \in Heard |-> "group"]

(* By way of its proofs, whose theorems thereby speak of this instance too. *)
Intake == INSTANCE GatewayInboxProofs WITH
    Events <- Heard, Members <- {2}, Ignorable <- {3}, Late <- {1}, Groups <- OneGroup,
    GroupOf <- InGroup, MaxSessions <- 2, MaxAttempts <- 1, BatchLimit <- 2, QueueLimit <- 3,
    ChannelLimit <- 1,
    Faults <- {"crash", "reload", "reset", "read", "ack", "members", "db", "job", "old"},
    page <- nPage, mapped <- nMapped, inbox <- nInbox, msg <- nMsg, up <- nUp, loop <- nLoop,
    jobs <- nJobs, busy <- nBusy

TextsOnly == [d \in Dispatchers |-> "send"]
AbleCases == {{"crash", "db"}, {"change"}, {"command", "refused"}, {"read", "failed"}, {"process"}}

Able == INSTANCE Capabilities WITH
    WantOf <- Errands, FaultSets <- AbleFaults, Versions <- ClientVersions, MaxChanges <- MaxTurns,
    MaxProbes <- MaxRounds, faults <- bFaults, client <- bClient, table <- bTable, rows <- bRows,
    gate <- bGate, at <- bAt, held <- bHeld, changes <- bChanges, rounds <- bRounds,
    readBack <- bReadBack

WebCases == {{"crash"}, {"cancel"}, {"vault"}, {"crash", "cancel", "vault"}}

Web == INSTANCE WebLogin WITH
    FaultSets <- WebFaults, faults <- lFaults, client <- lClient, epoch <- lEpoch, kept <- lKept,
    made <- lMade, account <- lAccount, socket <- lSocket, challenge <- lChallenge,
    attempts <- lAttempts, saved <- lSaved, savedFile <- lSavedFile, at <- lAt,
    minutes <- lMinutes, asked <- lAsked, ended <- lEnded

(* Two writes and a reader of the caches; two writes while the login and the *)
(* roles change.                                                            *)
Post(f, k) == [faults |-> f, kind |-> k]
WebPosts ==
    {Post({"ignored"}, <<"card", "close", "look">>),
     Post({"ignored", "late"}, <<"close", "close", "look">>)}
        \cup {Post(f, k) : f \in {{"login"}, {"roles", "cancel"}},
                k \in {<<"mute", "card", "none">>, <<"notice", "remove", "none">>}}

Posts == INSTANCE WebWrites WITH
    Calls <- WebCalls, Cases <- WebPosts, client <- oClient, epoch <- oEpoch, kept <- oKept,
    made <- oMade, faults <- oFaults, kind <- oKind, group <- oGroup, groups <- oGroups,
    members <- oMembers, writing <- oWriting, at <- oAt, stage <- oStage, hand <- oHand,
    receipt <- oReceipt, executed <- oExecuted, was <- oWas

(* What is not in focus rests, most of it without a state (0).             *)
MCInit ==
    /\ focus \in {"activity", "writes", "secrets", "script", "models", "capture", "draws",
                  "ruling", "page", "storage", "intake", "able", "web", "posts"}
    /\ Init
    /\ \/ focus = "writes" /\ Writes!Init
       \/ /\ focus # "writes" /\ wKind = 0 /\ wFaults = 0 /\ wRemote = 0 /\ wChanges = 0
          /\ wCache = 0 /\ wListing = 0 /\ wAt = 0 /\ wReads = 0 /\ wReceipt = 0
          /\ wExecuted = 0 /\ wDisturbed = 0 /\ wStood = 0
    /\ Secrets!Init
    /\ \/ focus = "script" /\ Script!Init
       \/ /\ focus # "script" /\ sFaults = 0 /\ sScript = 0 /\ sSpare = 0 /\ sBackups = 0
          /\ sDrafts = 0 /\ sManifests = 0 /\ sAt = 0 /\ sJob = 0 /\ sRuns = 0
    /\ \/ focus = "models" /\ Models!Init
       \/ /\ focus # "models" /\ mFaults = 0 /\ mRows = 0 /\ mStamp = 0 /\ mRemovals = 0
          /\ mDocs = 0 /\ mCooling = 0 /\ mGiven = 0 /\ mKnowledge = 0 /\ mAnswers = 0
          /\ mRequest = 0
    /\ \/ focus = "capture" /\ Capture!Init
       \/ /\ focus # "capture" /\ kFaults = 0 /\ kRemote = 0 /\ kRecorder = 0 /\ kAt = 0
          /\ kBegins = 0 /\ kFinish = 0 /\ kSessions = 0 /\ kStart = 0 /\ kTouched = 0
          /\ kExported = 0
    /\ \/ focus = "draws" /\ Draws!Init
       \/ /\ focus # "draws" /\ pFaults = 0 /\ pNow = 0 /\ pOpened = 0 /\ pCache = 0
          /\ pLock = 0 /\ pApp = 0 /\ pAt = 0 /\ pGot = 0 /\ pRuns = 0 /\ pReplies = 0
          /\ pWorded = 0 /\ pPending = 0 /\ pQueue = 0 /\ pJob = 0
    /\ \/ focus = "ruling" /\ Ruling!Init /\ (uFaults # {"model", "late"} => uTable = JudgedAbove /\ ~uAuthor.blacklisted)
       \/ /\ focus # "ruling" /\ uFaults = 0 /\ uNow = 0 /\ uEdits = 0 /\ uTable = 0
          /\ uGroup = 0 /\ uAllowed = 0 /\ uAuthor = 0 /\ uKind = 0 /\ uHits = 0
          /\ uSent = 0 /\ uStored = 0 /\ uAt = 0 /\ uPlan = 0 /\ uDeferred = 0 /\ uRows = 0
          /\ uRefused = 0 /\ uMade = 0
    /\ \/ focus = "page" /\ Page!Init
       \/ /\ focus # "page" /\ qClient = 0 /\ qCache = 0 /\ qSnapshot = 0 /\ qSession = 0
          /\ qWire = 0 /\ qNextId = 0 /\ qWaiters = 0 /\ qPlace = 0 /\ qGoal = 0 /\ qId = 0
          /\ qGot = 0 /\ qExecuted = 0
    /\ \/ focus = "storage" /\ Storage!Init
       \/ /\ focus # "storage" /\ dFaults = 0 /\ dDb = 0 /\ dBackups = 0 /\ dAt = 0
          /\ dOld = 0 /\ dStarts = 0 /\ dSaved = 0
    /\ Intake!Init
    /\ \/ focus = "able" /\ Able!Init /\ bClient = [version |-> 1, parts |-> {"ipc", "nim", "routes"}]
       \/ /\ focus # "able" /\ bFaults = 0 /\ bClient = 0 /\ bTable = 0 /\ bRows = 0
          /\ bGate = 0 /\ bAt = 0 /\ bHeld = 0 /\ bChanges = 0 /\ bRounds = 0 /\ bReadBack = 0
    /\ Web!Init
    /\ focus # "web" => lFaults = {"crash"}
    /\ \/ focus = "posts" /\ Posts!Init
       \/ /\ focus # "posts" /\ oClient = 0 /\ oEpoch = 0 /\ oKept = 0 /\ oMade = 0
          /\ oFaults = 0 /\ oKind = 0 /\ oGroup = 0 /\ oGroups = 0 /\ oMembers = 0
          /\ oWriting = 0 /\ oAt = 0 /\ oStage = 0 /\ oHand = 0 /\ oReceipt = 0
          /\ oExecuted = 0 /\ oWas = 0

MCNext ==
    \/ focus = "activity" /\ Next
        /\ UNCHANGED <<focus, writesVars, secretsVars, scriptVars, modelsVars, captureVars,
                       drawsVars, rulingVars, pageVars, storageVars, intakeVars, ableVars,
                       webVars, postsVars>>
    \/ focus = "writes" /\ Writes!Next
        /\ UNCHANGED <<focus, vars, secretsVars, scriptVars, modelsVars, captureVars, drawsVars,
                       rulingVars, pageVars, storageVars, intakeVars, ableVars, webVars, postsVars>>
    \/ focus = "secrets" /\ Secrets!Next
        /\ UNCHANGED <<focus, vars, writesVars, scriptVars, modelsVars, captureVars, drawsVars,
                       rulingVars, pageVars, storageVars, intakeVars, ableVars, webVars, postsVars>>
    \/ focus = "script" /\ Script!Next
        /\ UNCHANGED <<focus, vars, writesVars, secretsVars, modelsVars, captureVars, drawsVars,
                       rulingVars, pageVars, storageVars, intakeVars, ableVars, webVars, postsVars>>
    \/ focus = "models" /\ Models!Next
        /\ UNCHANGED <<focus, vars, writesVars, secretsVars, scriptVars, captureVars, drawsVars,
                       rulingVars, pageVars, storageVars, intakeVars, ableVars, webVars, postsVars>>
    \/ focus = "capture" /\ Capture!Next
        /\ UNCHANGED <<focus, vars, writesVars, secretsVars, scriptVars, modelsVars, drawsVars,
                       rulingVars, pageVars, storageVars, intakeVars, ableVars, webVars, postsVars>>
    \/ focus = "draws" /\ Draws!Next
        /\ UNCHANGED <<focus, vars, writesVars, secretsVars, scriptVars, modelsVars, captureVars,
                       rulingVars, pageVars, storageVars, intakeVars, ableVars, webVars, postsVars>>
    \/ focus = "ruling" /\ Ruling!Next
        /\ UNCHANGED <<focus, vars, writesVars, secretsVars, scriptVars, modelsVars, captureVars,
                       drawsVars, pageVars, storageVars, intakeVars, ableVars, webVars, postsVars>>
    \/ focus = "page" /\ Page!Next
        /\ UNCHANGED <<focus, vars, writesVars, secretsVars, scriptVars, modelsVars, captureVars,
                       drawsVars, rulingVars, storageVars, intakeVars, ableVars, webVars,
                       postsVars>>
    \/ focus = "storage" /\ Storage!Next
        /\ UNCHANGED <<focus, vars, writesVars, secretsVars, scriptVars, modelsVars, captureVars,
                       drawsVars, rulingVars, pageVars, intakeVars, ableVars, webVars, postsVars>>
    \/ focus = "intake" /\ Intake!Next
        /\ UNCHANGED <<focus, vars, writesVars, secretsVars, scriptVars, modelsVars, captureVars,
                       drawsVars, rulingVars, pageVars, storageVars, ableVars, webVars, postsVars>>
    \/ focus = "able" /\ Able!Next
        /\ UNCHANGED <<focus, vars, writesVars, secretsVars, scriptVars, modelsVars, captureVars,
                       drawsVars, rulingVars, pageVars, storageVars, intakeVars, webVars,
                       postsVars>>
    \/ focus = "web" /\ Web!Next
        /\ UNCHANGED <<focus, vars, writesVars, secretsVars, scriptVars, modelsVars, captureVars,
                       drawsVars, rulingVars, pageVars, storageVars, intakeVars, ableVars,
                       postsVars>>
    \/ focus = "posts" /\ Posts!Next
        /\ UNCHANGED <<focus, vars, writesVars, secretsVars, scriptVars, modelsVars, captureVars,
                       drawsVars, rulingVars, pageVars, storageVars, intakeVars, ableVars, webVars>>

MCSpec ==
    /\ MCInit
    /\ [][MCNext]_<<focus, vars, writesVars, secretsVars, scriptVars, modelsVars, captureVars,
                    drawsVars, rulingVars, pageVars, storageVars, intakeVars, ableVars, webVars,
                    postsVars>>

(* See GatewayWrites (the writes of gateway.rs and what they read back).  *)
ReceiptsAreTrue == focus = "writes" => Writes!ReceiptsAreTrue

(* See Credentials (credentials.rs).                                       *)
RefreshKeepsToItsLogin == Secrets!RefreshKeepsToItsLogin

(* See ClientScript (the start script of the chat client, platform.rs).    *)
OriginalIsKept == focus = "script" => Script!OriginalIsKept

(* See AiProviders (connections, pool, routes and caches of the models).   *)
AnswersFit == focus = "models" => Models!AnswersFit

(* See Calibration (the recorder of a calibration session).               *)
CapturesAreHonest == focus = "capture" => Capture!CapturesAreHonest

(* See Predictions (the prediction app).                                   *)
PredictionsAreHonest == focus = "draws" => Draws!PredictionsAreHonest

(* See Moderation (the rules of a group).                                  *)
RulesDecideRightly == focus = "ruling" => Ruling!RulesDecideRightly

(* See PageRequests (CdpClient: the gate, the page, the socket).           *)
RequestsAreServedTruly == focus = "page" => Page!RequestsAreServedTruly

(* See DatabaseFile (the database file over the starts).                  *)
StartsKeepWhatIsStored == focus = "storage" => Storage!StartsKeepWhatIsStored

(* See GatewayInbox (the way of a chat event into the bot).                *)
IntakeLosesNothing == Intake!IntakeLosesNothing

(* See Capabilities (what the bot may do by itself).                      *)
CapabilitiesAreProven == focus = "able" => Able!CapabilitiesAreProven

(* See WebLogin (the login of the web edition, protocol_login.rs).         *)
LoginsAreKeptApart == Web!LoginsAreKeptApart

ImplementsSession == Web!ImplementsSession

(* See WebWrites (group management in the web edition, rust_gateway.rs).   *)
WebWritesAreTrue == focus = "posts" => Posts!WebWritesAreTrue
=============================================================================
