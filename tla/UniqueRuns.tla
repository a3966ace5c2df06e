----------------------------- MODULE UniqueRuns -----------------------------
(***************************************************************************)
(* The tables ai_runs and summary_runs: one row per run key, which at most *)
(* one worker holds, with a bounded number of attempts.  The operators     *)
(* constrain the variables of the table only; the workers add the rest.    *)
(***************************************************************************)
EXTENDS Naturals

CONSTANTS
    RunKeys,     \* run keys
    MaxAttempts  \* 5

VARIABLES
    runState,    \* state; "none" before the INSERT
    runAttempts, \* attempts
    runDue       \* next_retry_at is NULL or has passed

RunStates == {"none", "processing", "retry", "succeeded", "failed"}

NoRuns ==
    /\ runState = [k \in RunKeys |-> "none"]
    /\ runAttempts = [k \in RunKeys |-> 0]
    /\ runDue = [k \in RunKeys |-> TRUE]

(* Slip: a run that somebody holds is claimed, too.                        *)
ClaimableOrHeld(k) ==
    runState[k] \in {"none", "retry", "processing"} /\ runAttempts[k] < MaxAttempts /\ runDue[k]

Claimable(k) ==
    \/ runState[k] = "none"
    \/ runState[k] = "retry" /\ runAttempts[k] < MaxAttempts /\ runDue[k]

(* claim_unique_run.                                                       *)
Claim(k) ==
    /\ Claimable(k)
    /\ runState' = [runState EXCEPT ![k] = "processing"]
    /\ runAttempts' = [runAttempts EXCEPT ![k] = @ + 1]
    /\ runDue' = [runDue EXCEPT ![k] = TRUE]

Settle(k, s, due) ==
    /\ runState' = [runState EXCEPT ![k] = IF @ = "processing" THEN s ELSE @]
    /\ runDue' = [runDue EXCEPT ![k] = IF runState[k] = "processing" THEN due ELSE @]
    /\ UNCHANGED runAttempts

(* finish_unique_run.                                                      *)
Finish(k, success) ==
    IF success THEN Settle(k, "succeeded", TRUE)
    ELSE IF runAttempts[k] >= MaxAttempts THEN Settle(k, "failed", TRUE)
    ELSE Settle(k, "retry", FALSE)

(* fail_ai_run_terminal.                                                   *)
FailTerminal(k) == Settle(k, "failed", TRUE)

RetryDue(k) ==
    /\ runState[k] = "retry" /\ ~runDue[k]
    /\ runDue' = [runDue EXCEPT ![k] = TRUE]
    /\ UNCHANGED <<runState, runAttempts>>

(* Database::prepare.                                                      *)
RecoverRuns ==
    /\ runState' = [k \in RunKeys |-> IF runState[k] = "processing" THEN "retry" ELSE runState[k]]
    /\ runDue' = [k \in RunKeys |-> runState[k] = "processing" \/ runDue[k]]
    /\ UNCHANGED runAttempts

RunsRest == UNCHANGED <<runState, runAttempts, runDue>>

RunsTypeOK ==
    /\ runState \in [RunKeys -> RunStates]
    /\ runAttempts \in [RunKeys -> 0..MaxAttempts]
    /\ runDue \in [RunKeys -> BOOLEAN]
=============================================================================
