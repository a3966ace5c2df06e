--------------------------- MODULE DailySummaries ---------------------------
(***************************************************************************)
(* The daily summaries of one day: summary_loop, which writes one summary  *)
(* per chosen group when the time has come, beside the command by which an *)
(* administrator asks for a summary at once.                               *)
(***************************************************************************)
EXTENDS Naturals

CONSTANTS
    SummaryGroups,  \* the groups of the setting summary.groups
    MaxAttempts,    \* 5
    FaultSets       \* sets of faults, one of which a behaviour may meet

VARIABLES
    faults,       \* "crash", "db" (a database job fails), "manual"
    up,           \* the process is running
    due,          \* the time of day of the setting has passed
    enabled,      \* summary.enabled
    saved,        \* daily_summaries: who wrote the row, "none" before the INSERT
    writes,       \* summaries the loop has saved
    batch,        \* groups the pass has still to visit
    place,        \* the group the loop works on, and how far it is
    asked,        \* the groups an administrator's request is under way for
    runState, runAttempts, runDue

vars == <<faults, up, due, enabled, saved, writes, batch, place, asked,
          runState, runAttempts, runDue>>
loopVars == <<batch, place>>
runVars == <<runState, runAttempts, runDue>>

Runs == INSTANCE UniqueRuns WITH RunKeys <- SummaryGroups

Idle == [at |-> "idle"]
At(where, g) == [at |-> where, group |-> g]

Init ==
    /\ faults \in FaultSets
    /\ up = TRUE /\ due = FALSE /\ enabled \in BOOLEAN
    /\ saved = [g \in SummaryGroups |-> "none"]
    /\ writes = [g \in SummaryGroups |-> 0]
    /\ batch = {} /\ place = Idle /\ asked = {}
    /\ Runs!NoRuns

(* Slip: the summaries that exist are not looked at.                       *)
BeginPassBlind ==
    /\ up /\ batch = {} /\ place = Idle
    /\ enabled /\ due
    /\ batch' = SummaryGroups
    /\ UNCHANGED <<faults, up, due, enabled, saved, writes, place, asked, runVars>>

(* The groups without a summary of the day; if the list cannot be read,    *)
(* it counts as empty.                                                     *)
BeginPass ==
    /\ up /\ batch = {} /\ place = Idle
    /\ enabled /\ due
    /\ \/ batch' = {g \in SummaryGroups : saved[g] = "none"}
       \/ "db" \in faults /\ batch' = SummaryGroups
    /\ UNCHANGED <<faults, up, due, enabled, saved, writes, place, asked, runVars>>

ClaimRun(g) ==
    /\ up /\ place = Idle /\ g \in batch
    /\ batch' = batch \ {g}
    /\ \/ Runs!Claim(g) /\ place' = At("asking", g)
       \/ /\ ~Runs!Claimable(g) \/ "db" \in faults
          /\ Runs!RunsRest /\ UNCHANGED place
    /\ UNCHANGED <<faults, up, due, enabled, saved, writes, asked>>

(* generate_scheduled_summary: no messages, no provider, an error of the   *)
(* model, an empty answer, or an error of the database.                    *)
GenerationFails(g) ==
    /\ up /\ place = At("asking", g)
    /\ place' = At("failed", g)
    /\ UNCHANGED <<faults, up, due, enabled, saved, writes, batch, asked, runVars>>

(* The row is written over whatever summary of the day is there.           *)
SaveSummary(g) ==
    /\ up /\ place = At("asking", g)
    /\ saved' = [saved EXCEPT ![g] = "scheduled"]
    /\ writes' = [writes EXCEPT ![g] = @ + 1]
    /\ place' = At("saved", g)
    /\ UNCHANGED <<faults, up, due, enabled, batch, asked, runVars>>

FinishRun(g) ==
    /\ up /\ place \in {At("saved", g), At("failed", g)}
    /\ \/ Runs!Finish(g, place.at = "saved")
       \/ "db" \in faults /\ Runs!RunsRest
    /\ place' = Idle
    /\ UNCHANGED <<faults, up, due, enabled, saved, writes, batch, asked>>

RetryDue(g) ==
    /\ Runs!RetryDue(g)
    /\ UNCHANGED <<faults, up, due, enabled, saved, writes, loopVars, asked>>

(* generate_daily_summary, the administrator's command.                    *)
Ask(g) ==
    /\ "manual" \in faults /\ up /\ g \notin asked
    /\ asked' = asked \cup {g}
    /\ UNCHANGED <<faults, up, due, enabled, saved, writes, loopVars, runVars>>

Answer(g) ==
    /\ up /\ g \in asked
    /\ asked' = asked \ {g}
    /\ saved' \in {saved, [saved EXCEPT ![g] = "manual"]}
    /\ UNCHANGED <<faults, up, due, enabled, writes, loopVars, runVars>>

Crash ==
    /\ "crash" \in faults /\ up
    /\ up' = FALSE /\ batch' = {} /\ place' = Idle /\ asked' = {}
    /\ UNCHANGED <<faults, due, enabled, saved, writes, runVars>>

Restart ==
    /\ ~up /\ up' = TRUE
    /\ Runs!RecoverRuns
    /\ UNCHANGED <<faults, due, enabled, saved, writes, loopVars, asked>>

TimeComes ==
    /\ ~due /\ due' = TRUE
    /\ UNCHANGED <<faults, up, enabled, saved, writes, loopVars, asked, runVars>>

Enable ==
    /\ ~enabled /\ enabled' = TRUE
    /\ UNCHANGED <<faults, up, due, saved, writes, loopVars, asked, runVars>>

Generate(g) == GenerationFails(g) \/ SaveSummary(g)

Next ==
    \/ BeginPass \/ Crash \/ Restart \/ TimeComes \/ Enable
    \/ \E g \in SummaryGroups : \/ ClaimRun(g) \/ Generate(g) \/ FinishRun(g) \/ RetryDue(g)
                                \/ Ask(g) \/ Answer(g)

Spec == Init /\ [][Next]_vars

(* The loop wakes every 30 seconds, the model answers or times out.        *)
Fairness ==
    /\ WF_vars(BeginPass)
    /\ \A g \in SummaryGroups : /\ WF_vars(ClaimRun(g)) /\ WF_vars(Generate(g))
                                /\ WF_vars(FinishRun(g)) /\ WF_vars(RetryDue(g))

FairSpec == Spec /\ Fairness

TypeOK ==
    /\ faults \in FaultSets
    /\ up \in BOOLEAN /\ due \in BOOLEAN /\ enabled \in BOOLEAN
    /\ saved \in [SummaryGroups -> {"none", "scheduled", "manual"}]
    /\ writes \in [SummaryGroups -> Nat]
    /\ batch \subseteq SummaryGroups
    /\ place = Idle \/ place \in [at : {"asking", "saved", "failed"}, group : SummaryGroups]
    /\ asked \subseteq SummaryGroups
    /\ Runs!RunsTypeOK

(* The loop writes the summary of a group and day once, though the process *)
(* may end between the summary and the end of its run, and a run that has  *)
(* succeeded has left a summary (summary_loop, claim_summary_run).  A list *)
(* of summaries that could not be read is the exception.                   *)
OneSummaryPerDay ==
    \A g \in SummaryGroups :
        /\ "db" \notin faults => writes[g] <= 1
        /\ runState[g] = "succeeded" => saved[g] # "none"

(* Unless the process ends, a group whose time has come gets its summary   *)
(* or uses up its attempts.                                                *)
EveryGroupIsSummarised ==
    faults = {} => \A g \in SummaryGroups :
        (due /\ enabled) ~> (saved[g] # "none" \/ runState[g] = "failed")
=============================================================================
