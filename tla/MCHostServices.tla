--------------------------- MODULE MCHostServices ---------------------------
(***************************************************************************)
(* Small instances, for TLC, of services that must come to an end: the     *)
(* ledger of the web host, the reads of members, the database thread and   *)
(* the record of work. They share no state; a behaviour follows the one in *)
(* `focus' while the others rest in their initial states.                  *)
(***************************************************************************)
EXTENDS ConversationLedger

CONSTANTS
    Heard, NoEvent, Callers, None, ReadFaults, MaxTries, Jobs, Closers, Capacity, Items, Rank,
    Reporters, Emitters, MaxTracked, MaxReports, Nobody

VARIABLES
    focus,
    iPage, iMapped, iInbox, iMsg, iUp, iLoop, iJobs, iBusy,
    rFaults, rEpoch, rClearing, rCache, rCooling, rRequest, rPlace, rLeader, rSeen, rTries,
    jGate, jStopped, jChannel, jWorker, jPlace, jRan,
    tTracked, tEntry, tPinned, tPending, tCalling, tTimers, tAt, tSnap, tShown, tAttached,
    tChanges

inboxVars == <<iPage, iMapped, iInbox, iMsg, iUp, iLoop, iJobs, iBusy>>
readsVars ==
    <<rFaults, rEpoch, rClearing, rCache, rCooling, rRequest, rPlace, rLeader, rSeen, rTries>>
threadVars == <<jGate, jStopped, jChannel, jWorker, jPlace, jRan>>
workVars ==
    <<tTracked, tEntry, tPinned, tPending, tCalling, tTimers, tAt, tSnap, tShown, tAttached,
    tChanges>>

Case(faults, messages, sent) == [faults |-> faults, messages |-> messages, sends |-> sent]

LedgerCases == {
    Case({"crash", "db", "socket"}, 2, 0),
    Case({"login", "garbled", "refresh"}, 2, 0),
    Case({"late", "socket", "beat", "db"}, 2, 1),
    Case({"recall", "withdraw", "late", "opaque", "db"}, 1, 0)}

OneGroup == {"group"}
InGroup == [e \in Heard |-> "group"]

Inbox == INSTANCE GatewayInbox WITH
    Events <- Heard, Members <- {}, Ignorable <- {}, Late <- {2}, Groups <- OneGroup,
    GroupOf <- InGroup, MaxSessions <- 1, MaxAttempts <- 2, BatchLimit <- 1, QueueLimit <- 2,
    ChannelLimit <- 1, Faults <- {"crash", "job", "ack"}, page <- iPage, mapped <- iMapped,
    inbox <- iInbox, msg <- iMsg, up <- iUp, loop <- iLoop, jobs <- iJobs, busy <- iBusy

MemberFaults == {{"error", "limited", "switch"}, {"abort", "limited"}}

Reads == INSTANCE MemberReads WITH
    FaultSets <- ReadFaults, faults <- rFaults, epoch <- rEpoch, clearing <- rClearing,
    cache <- rCache, cooling <- rCooling, request <- rRequest, place <- rPlace, leader <- rLeader,
    seen <- rSeen, tries <- rTries

Thread == INSTANCE DatabaseJobs WITH
    gate <- jGate, stopped <- jStopped, channel <- jChannel, worker <- jWorker, place <- jPlace,
    ran <- jRan

Ranks == [i \in Items |-> IF i = "message" THEN 1 ELSE 2]

Work == INSTANCE WorkTracker WITH
    Callers <- Reporters, MaxChanges <- MaxReports, tracked <- tTracked, entry <- tEntry,
    pinned <- tPinned, pending <- tPending, calling <- tCalling, timers <- tTimers, at <- tAt,
    snap <- tSnap, shown <- tShown, attached <- tAttached, changes <- tChanges

(* What is not in focus rests, most of it without a state (0).             *)
MCInit ==
    /\ focus \in {"ledger", "inbox", "reads", "thread", "work"}
    /\ Init
    /\ focus # "ledger" => case = Case({"crash", "db", "socket"}, 2, 0)
    /\ Inbox!Init /\ Reads!Init
    /\ focus # "reads" => rFaults = {"abort", "limited"}
    /\ Thread!Init /\ Work!Init

MCNext ==
    \/ focus = "ledger" /\ Next
        /\ UNCHANGED <<focus, inboxVars, readsVars, threadVars, workVars>>
    \/ focus = "inbox" /\ Inbox!Next
        /\ UNCHANGED <<focus, vars, readsVars, threadVars, workVars>>
    \/ focus = "reads" /\ Reads!Next
        /\ UNCHANGED <<focus, vars, inboxVars, threadVars, workVars>>
    \/ focus = "thread" /\ Thread!Next
        /\ UNCHANGED <<focus, vars, inboxVars, readsVars, workVars>>
    \/ focus = "work" /\ Work!Next
        /\ UNCHANGED <<focus, vars, inboxVars, readsVars, threadVars>>

LedgerFairness ==
    /\ SF_vars(focus = "ledger" /\ ReceiverStep) /\ SF_vars(focus = "ledger" /\ Connect)
    /\ WF_vars(focus = "ledger" /\ ExchangeStep)
    /\ WF_vars(focus = "ledger" /\ ServerAnswers)
    /\ WF_vars(focus = "ledger" /\ RuntimeStep) /\ WF_vars(focus = "ledger" /\ Restart)

(* An answer to an acknowledgement is heard now and then.                  *)
InboxFairness ==
    /\ WF_inboxVars(focus = "inbox" /\ Inbox!LoopStep)
    /\ WF_inboxVars(focus = "inbox" /\ Inbox!SkipScan) /\ SF_inboxVars(focus = "inbox" /\ Inbox!Scan)
    /\ SF_inboxVars(focus = "inbox" /\ Inbox!AckBatch /\ iLoop'.at = "commit")
    /\ WF_inboxVars(focus = "inbox" /\ Inbox!Restart)
    /\ WF_inboxVars(focus = "inbox" /\ Inbox!StartJob("group"))
    /\ WF_inboxVars(focus = "inbox" /\ Inbox!FinishJob("group"))
    /\ \A e \in Heard : WF_inboxVars(focus = "inbox" /\ Inbox!BecomeDue(e))

ReadFairness ==
    /\ WF_readsVars(focus = "reads" /\ Reads!Resume)
    /\ \A c \in Callers : /\ WF_readsVars(focus = "reads" /\ Reads!Follow(c))
                          /\ WF_readsVars(focus = "reads" /\ Reads!Lead(c))

ThreadFairness ==
    /\ WF_threadVars(focus = "thread" /\ Thread!Work)
    /\ \A c \in Jobs \cup Closers : WF_threadVars(focus = "thread" /\ Thread!Step(c))

WorkFairness ==
    /\ WF_workVars(focus = "work" /\ Work!Attach)
    /\ \A c \in Reporters : WF_workVars(focus = "work" /\ Work!Changed(c))
    /\ \A i \in Items : WF_workVars(focus = "work" /\ (Work!Ages(i) \/ Work!TimerRings(i)))
    /\ \A e \in Emitters : WF_workVars(focus = "work" /\ Work!Emit(e))

MCSpec ==
    /\ MCInit
    /\ [][MCNext]_<<focus, vars, inboxVars, readsVars, threadVars, workVars>>
    /\ LedgerFairness /\ InboxFairness /\ ReadFairness /\ ThreadFairness /\ WorkFairness

(* See GatewayInbox (the way of a chat event into the bot).                *)
HeardMessagesSettle == Inbox!HeardMessagesSettle

(* See MemberReads (GatewayClient's list_members).                         *)
CallersComeBack == Reads!CallersComeBack

(* See DatabaseJobs (DatabaseExecutor).                                    *)
AcceptedJobsRun == Thread!AcceptedJobsRun

(* See WorkTracker (the record of work and its page, runtime_work.rs).     *)
PageCatchesUp == Work!PageCatchesUp
=============================================================================
