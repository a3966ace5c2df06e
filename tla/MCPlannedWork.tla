--------------------------- MODULE MCPlannedWork ---------------------------
(***************************************************************************)
(* Small instances, for TLC, of the loops that do planned work: the group  *)
(* schedules and the daily summaries.  They share no state; a behaviour    *)
(* follows the one in `focus' while the other rests in its initial state.  *)
(***************************************************************************)
EXTENDS GroupSchedules

CONSTANTS SummaryGroups, SummaryFaults

VARIABLES
    focus,
    dFaults, dUp, dDue, dEnabled, dSaved, dWrites, dBatch, dPlace, dAsked,
    runState, runAttempts, runDue

summaryVars == <<dFaults, dUp, dDue, dEnabled, dSaved, dWrites, dBatch, dPlace, dAsked,
                 runState, runAttempts, runDue>>

Summaries == INSTANCE DailySummaries WITH
    FaultSets <- SummaryFaults,
    faults <- dFaults, up <- dUp, due <- dDue, enabled <- dEnabled, saved <- dSaved,
    writes <- dWrites, batch <- dBatch, place <- dPlace, asked <- dAsked

OneWindows == {[open |-> 1, close |-> 2], [open |-> 2, close |-> 1]}
OneGroup == [s \in Schedules |-> "g"]
ScheduleFaults == {{}, {"crash", "db", "refused", "slow"}, {"edit"}}
LoopFaults == {{}, {"crash", "manual"}, {"crash", "db"}}

Rests ==
    /\ focus # "schedules" =>
          faults = {"edit"} /\ plan = [s \in Schedules |-> Plan([open |-> 1, close |-> 2], TRUE)]
    /\ focus # "summaries" => dFaults = {} /\ dEnabled = FALSE

MCInit ==
    /\ focus \in {"schedules", "summaries"}
    /\ Init /\ Summaries!Init /\ Rests

MCNext ==
    \/ focus = "schedules" /\ Next /\ UNCHANGED <<focus, summaryVars>>
    \/ focus = "summaries" /\ Summaries!Next /\ UNCHANGED <<focus, vars>>

ScheduleFairness ==
    /\ WF_vars(focus = "schedules" /\ BeginPass)
    /\ WF_vars(focus = "schedules" /\ Tick)
    /\ WF_vars(focus = "schedules" /\ Restart)
    /\ \A s \in Schedules : WF_vars(focus = "schedules" /\ Decide(s))
    /\ \A k \in Keys :
          /\ WF_vars(focus = "schedules" /\ RunStep(k))
          /\ WF_vars(focus = "schedules" /\ Mute(k))
          /\ WF_vars(focus = "schedules" /\ QueueStart(k))
          /\ SF_vars(focus = "schedules" /\ QueueReport(k))

SummaryFairness ==
    /\ WF_summaryVars(focus = "summaries" /\ Summaries!BeginPass)
    /\ \A g \in SummaryGroups :
          /\ WF_summaryVars(focus = "summaries" /\ Summaries!ClaimRun(g))
          /\ WF_summaryVars(focus = "summaries" /\ Summaries!Generate(g))
          /\ WF_summaryVars(focus = "summaries" /\ Summaries!FinishRun(g))
          /\ WF_summaryVars(focus = "summaries" /\ Summaries!RetryDue(g))

MCSpec ==
    /\ MCInit /\ [][MCNext]_<<focus, vars, summaryVars>>
    /\ ScheduleFairness /\ SummaryFairness

(* See DailySummaries (summary_loop, claim_summary_run).                   *)
OneSummaryPerDay == Summaries!OneSummaryPerDay

(* What is planned is done: a group follows its schedule, and every group  *)
(* has its summary or has used up its attempts (schedule_loop,             *)
(* summary_loop).                                                          *)
PlannedWorkIsDone == GroupFollowsSchedule /\ Summaries!EveryGroupIsSummarised
=============================================================================
