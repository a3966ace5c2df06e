---------------------------- MODULE EffectOutbox ----------------------------
(***************************************************************************)
(* The durable queue of side effects (table effect_outbox) and everything  *)
(* that moves a row through it: the producers that insert rows, the        *)
(* dispatcher loop of BackendRuntime with its QueueKernel chain, the       *)
(* detached dispatch tasks that call the gateway and archive the outcome,  *)
(* the graceful exit, and the recovery done when the database is opened    *)
(* again.  A row is named by its SQLite id, so `<' is the order in which   *)
(* the rows were inserted.                                                 *)
(***************************************************************************)
EXTENDS Naturals, FiniteSets

CONSTANTS
    Effects,      \* ids of the rows that may be inserted
    Accounts,     \* the accounts a session may belong to
    NoAccount,    \* nobody is logged in, or the gateway is not ready
    AccountOf,    \* the account_id column
    LaneOf,       \* the lane column
    KeyOf,        \* the order_key column
    NoKey,        \* order_key is NULL
    ReadBack,     \* effects whose gateway call reads the group back after the write
    Tied,         \* effects whose payload names a task, a schedule run or an activity run
    Expiring,     \* effects with an expires_at
    MaxAttempts,  \* 5
    ClaimLimit,   \* 4 rows per tick
    LanePermits,  \* 4 dispatches per lane
    Calibration,  \* TRUE in the builds that contain the developer calibration
    DbErrors      \* TRUE if a database job may fail

ASSUME EffectsAssumption == Effects \subseteq Nat
ASSUME AccountsAssumption == AccountOf \in [Effects -> Accounts] /\ NoAccount \notin Accounts
ASSUME BoundsAssumption ==
    /\ MaxAttempts \in Nat \ {0}
    /\ ClaimLimit \in Nat \ {0}
    /\ LanePermits \in Nat \ {0}
ASSUME FlagsAssumption == Calibration \in BOOLEAN /\ DbErrors \in BOOLEAN
ASSUME ShapeAssumption ==
    /\ ReadBack \subseteq Effects
    /\ Tied \subseteq Effects
    /\ Expiring \subseteq Effects

VARIABLES
    state,     \* effect_outbox.state; "absent" before the INSERT
    attempts,  \* effect_outbox.attempts
    due,       \* next_attempt_at is NULL or has passed
    record,    \* outcome told by the newest action and audit record of the effect
    tied,      \* outcome written to the task, schedule run or activity run
    up,        \* the process is running
    exit,      \* "none", "cancelled" (ShutdownSignal), "aborted" (the workers were)
    session,   \* account the gateway is logged in with
    calib,     \* developer calibration: "off", "waiting" for the write lock, "on"
    phase,     \* where the process is with the row it has claimed
    result,    \* outcome a dispatch task is about to archive
    expired,   \* effects whose expires_at has passed
    ran        \* executions by the remote since the row was last queued by
               \* a producer or an operator

rowVars  == <<state, attempts, due, record, tied>>
procVars == <<up, exit, session, calib>>
taskVars == <<phase, result>>
envVars  == <<expired, ran>>
vars     == <<rowVars, procVars, taskVars, envVars>>

Claimable == {"queued", "retry"}
Settled   == {"succeeded", "failed", "unknown"}
States    == {"absent", "processing"} \cup Claimable \cup Settled
Outcomes  == {"succeeded", "failed", "failed-terminal", "unknown"}

(* The dispatcher loop owns a row from "claimed" to "permit"; a detached   *)
(* task owns it from "dispatch" to "follow".                               *)
LoopPhases == {"claimed", "lane", "order", "permit"}
TaskPhases == {"dispatch", "performed", "archive", "follow"}
Phases     == {"idle"} \cup LoopPhases \cup TaskPhases

(* Slip: a row that waits for a place in its lane is counted as a holder.  *)
LaneHoldersAndWaiters(lane) == {e \in Effects : /\ LaneOf[e] = lane
                                                /\ phase[e] \in {"lane", "order", "permit"}
                                                               \cup TaskPhases}

LaneHolders(lane) == {e \in Effects : /\ LaneOf[e] = lane
                                      /\ phase[e] \in {"order", "permit"} \cup TaskPhases}
KeyHolders(key)   == {e \in Effects : /\ KeyOf[e] = key
                                      /\ phase[e] \in {"permit"} \cup TaskPhases}
PermitHolders     == {e \in Effects : phase[e] \in TaskPhases}

Init ==
    /\ state = [e \in Effects |-> "absent"]
    /\ attempts = [e \in Effects |-> 0]
    /\ due = [e \in Effects |-> TRUE]
    /\ record = [e \in Effects |-> "none"]
    /\ tied = [e \in Effects |-> "waiting"]
    /\ up = TRUE
    /\ exit = "none"
    /\ session = NoAccount
    /\ calib = "off"
    /\ phase = [e \in Effects |-> "idle"]
    /\ result = [e \in Effects |-> "none"]
    /\ expired = {}
    /\ ran = [e \in Effects |-> 0]

-----------------------------------------------------------------------------
(* Producers.                                                              *)

(* INSERT OR IGNORE on (account_id, dedupe_key): a second request with the *)
(* key of an existing row changes nothing, whatever the row's state.       *)
InsertEffect(e) ==
    /\ state' = [state EXCEPT ![e] = IF @ = "absent" THEN "queued" ELSE @]
    /\ UNCHANGED <<attempts, due, record, tied, procVars, taskVars, envVars>>

(* BackendRuntime::enqueue_effect refuses while a calibration is active.   *)
Enqueue(e) ==
    /\ up /\ calib # "on"
    /\ InsertEffect(e)

(* The local bridge inserts without asking.                                *)
BridgeEnqueue(e) ==
    /\ up
    /\ InsertEffect(e)

(* Slip: the row is queued again with the attempts it had.                 *)
OperatorRetryKeepsAttempts(e) ==
    /\ up /\ exit = "none"
    /\ state[e] \in {"unknown", "failed"} /\ phase[e] = "idle"
    /\ state' = [state EXCEPT ![e] = "queued"]
    /\ due' = [due EXCEPT ![e] = TRUE]
    /\ ran' = [ran EXCEPT ![e] = 0]
    /\ UNCHANGED <<attempts, record, tied, procVars, taskVars, expired>>

(* Database::retry_effect_outbox, the operator's decision about a row that *)
(* ended unknown or failed.  It is taken on a settled row that no dispatch *)
(* task is still writing follow-ups for.                                   *)
OperatorRetry(e) ==
    /\ up /\ exit = "none"
    /\ state[e] \in {"unknown", "failed"} /\ phase[e] = "idle"
    /\ state' = [state EXCEPT ![e] = "queued"]
    /\ attempts' = [attempts EXCEPT ![e] = 0]
    /\ due' = [due EXCEPT ![e] = TRUE]
    /\ ran' = [ran EXCEPT ![e] = 0]
    /\ UNCHANGED <<record, tied, procVars, taskVars, expired>>

-----------------------------------------------------------------------------
(* The dispatcher loop.  It claims only when the previous batch has been   *)
(* run through the chain to the end.  It looks at the shutdown signal only *)
(* while it sleeps, so it may still claim after an exit has begun.         *)

LoopIdle == \A e \in Effects : phase[e] \notin LoopPhases

DueRows == {e \in Effects : /\ state[e] \in Claimable
                            /\ due[e]
                            /\ AccountOf[e] = session}

Oldest(rows, n) == {e \in rows : Cardinality({d \in rows : d < e}) < n}

ClaimEffects ==
    /\ up /\ exit # "aborted" /\ LoopIdle
    /\ DueRows # {}
    /\ LET taken == Oldest(DueRows, ClaimLimit)
       IN  /\ state' = [e \in Effects |-> IF e \in taken THEN "processing" ELSE state[e]]
           /\ attempts' = [e \in Effects |-> IF e \in taken THEN attempts[e] + 1 ELSE attempts[e]]
           /\ due' = [e \in Effects |-> IF e \in taken THEN TRUE ELSE due[e]]
           /\ phase' = [e \in Effects |-> IF e \in taken THEN "claimed" ELSE phase[e]]
    /\ UNCHANGED <<record, tied, procVars, result, envVars>>

(* The row the loop works on: the oldest claimed one, once its predecessor *)
(* has left the loop.                                                      *)
Head(e) ==
    /\ phase[e] = "claimed"
    /\ \A d \in Effects : phase[d] \in LoopPhases => phase[d] = "claimed" /\ e <= d

Goto(e, p) == phase' = [phase EXCEPT ![e] = p]

(* ExpiryGuard: finish_effect_outbox(success) without a dispatch.  The     *)
(* result of the database job is ignored.                                  *)
SkipExpired(e) ==
    /\ Head(e) /\ e \in expired
    /\ \/ state' = [state EXCEPT ![e] = IF @ = "processing" THEN "succeeded" ELSE @]
       \/ DbErrors /\ UNCHANGED state
    /\ Goto(e, "idle")
    /\ UNCHANGED <<attempts, due, record, tied, procVars, result, envVars>>

PassExpiry(e) ==
    /\ Head(e) /\ e \notin expired
    /\ Goto(e, "lane")
    /\ UNCHANGED <<rowVars, procVars, result, envVars>>

(* Slip: the permit of the lane is not waited for.                         *)
PassLane(e) ==
    /\ phase[e] = "lane"
    /\ Goto(e, "order")
    /\ UNCHANGED <<rowVars, procVars, result, envVars>>

AcquireLane(e) ==
    /\ phase[e] = "lane"
    /\ Cardinality(LaneHolders(LaneOf[e])) < LanePermits
    /\ Goto(e, "order")
    /\ UNCHANGED <<rowVars, procVars, result, envVars>>

(* Slip: the lock of the order key is not taken.                           *)
PassOrderKey(e) ==
    /\ phase[e] = "order"
    /\ Goto(e, "permit")
    /\ UNCHANGED <<rowVars, procVars, result, envVars>>

AcquireOrderKey(e) ==
    /\ phase[e] = "order"
    /\ KeyOf[e] = NoKey \/ KeyHolders(KeyOf[e]) = {}
    /\ Goto(e, "permit")
    /\ UNCHANGED <<rowVars, procVars, result, envVars>>

(* automatic_write_permit: a shared lock, refused behind a waiting writer, *)
(* then the calibration flag read under it.                                *)
GrantPermit(e) ==
    /\ phase[e] = "permit" /\ calib = "off"
    /\ Goto(e, "dispatch")
    /\ UNCHANGED <<rowVars, procVars, result, envVars>>

(* Slip: `>' for `>='.                                                     *)
BackoffOnceMore(e) == IF attempts[e] > MaxAttempts THEN "failed" ELSE "retry"

Backoff(e) == IF attempts[e] >= MaxAttempts THEN "failed" ELSE "retry"

(* reject_effect_item: finish_effect_outbox(failure), its result ignored.  *)
RefusePermit(e) ==
    /\ phase[e] = "permit" /\ calib = "on"
    /\ \/ /\ state' = [state EXCEPT ![e] = IF @ = "processing" THEN Backoff(e) ELSE @]
          /\ due' = [due EXCEPT ![e] = attempts[e] >= MaxAttempts]
       \/ DbErrors /\ UNCHANGED <<state, due>>
    /\ Goto(e, "idle")
    /\ UNCHANGED <<attempts, record, tied, procVars, result, envVars>>

-----------------------------------------------------------------------------
(* The dispatch task.                                                      *)

Conclude(e, r) ==
    /\ Goto(e, "archive")
    /\ result' = [result EXCEPT ![e] = r]

(* The capability is closed for automatic use.                             *)
CapabilityClosed(e) ==
    /\ phase[e] = "dispatch"
    /\ Conclude(e, "failed-terminal")
    /\ UNCHANGED <<rowVars, procVars, envVars>>

(* The structural probe has not concluded: the error is marked retryable   *)
(* and carries no gateway metadata, which classify_effect_error reads as   *)
(* an unknown outcome.                                                     *)
CapabilityProbing(e) ==
    /\ phase[e] = "dispatch"
    /\ Conclude(e, "unknown")
    /\ UNCHANGED <<rowVars, procVars, envVars>>

(* The remote executes the write.                                          *)
Execute(e) ==
    /\ phase[e] = "dispatch" /\ session # NoAccount
    /\ ran' = [ran EXCEPT ![e] = @ + 1]
    /\ Goto(e, "performed")
    /\ UNCHANGED <<rowVars, procVars, result, expired>>

(* Slip: a receipt with the status "unknown" is not told from a success.   *)
CallFailsUnnoticed(e) ==
    /\ phase[e] = "dispatch"
    /\ \E r \in {"failed", "failed-terminal", "succeeded"} : Conclude(e, r)
    /\ UNCHANGED <<rowVars, procVars, envVars>>

(* The call fails before the remote executes anything: a retryable         *)
(* business error of a read that precedes the write, a definite refusal,   *)
(* or an error that leaves the outcome open.                               *)
CallFails(e) ==
    /\ phase[e] = "dispatch"
    /\ \E r \in {"failed", "failed-terminal", "unknown"} : Conclude(e, r)
    /\ UNCHANGED <<rowVars, procVars, envVars>>

(* Slip: a timeout after the request was sent counts as retryable.         *)
CallReturnsRetryably(e) ==
    /\ phase[e] = "performed"
    /\ \E r \in {"succeeded", "failed-terminal", "failed"} : Conclude(e, r)
    /\ UNCHANGED <<rowVars, procVars, envVars>>

(* The call returns after the write.  A call that reads the group back can *)
(* also end in a retryable business error of that read (HTTP 429 and 5xx   *)
(* codes of the member list, the 504 of an unanswered NIM recall).         *)
CallReturns(e) ==
    /\ phase[e] = "performed"
    /\ \E r \in {"succeeded", "unknown", "failed-terminal"}
                \cup (IF e \in ReadBack THEN {"failed"} ELSE {}) : Conclude(e, r)
    /\ UNCHANGED <<rowVars, procVars, envVars>>

RowState(e, r) ==
    CASE r = "failed-terminal" -> "failed"
      [] r = "failed"          -> Backoff(e)
      [] OTHER                 -> r

(* A retryable failure that is not the last attempt writes no follow-up.   *)
NeedsFollowUp(e, r) == r # "failed" \/ attempts[e] >= MaxAttempts

(* archive_effect_dispatch: row, action and audit in one transaction, only *)
(* if the row is still `processing'.                                       *)
Archive(e) ==
    /\ phase[e] = "archive"
    /\ \/ /\ state[e] = "processing"
          /\ state' = [state EXCEPT ![e] = RowState(e, result[e])]
          /\ due' = [due EXCEPT ![e] = NeedsFollowUp(e, result[e])]
          /\ record' = [record EXCEPT ![e] = result[e]]
          /\ IF NeedsFollowUp(e, result[e])
               THEN Goto(e, "follow") /\ UNCHANGED result
               ELSE Goto(e, "idle") /\ result' = [result EXCEPT ![e] = "none"]
       \/ /\ state[e] # "processing" \/ DbErrors
          /\ Goto(e, "idle")
          /\ result' = [result EXCEPT ![e] = "none"]
          /\ UNCHANGED <<state, due, record>>
    /\ UNCHANGED <<attempts, tied, procVars, envVars>>

(* Slip: only definite outcomes are told.                                  *)
FollowUpDefinite(e) ==
    /\ phase[e] = "follow"
    /\ tied' = [tied EXCEPT ![e] = IF e \notin Tied \/ result[e] = "unknown" THEN @
                                   ELSE IF result[e] = "succeeded" THEN "succeeded"
                                   ELSE "failed"]
    /\ Goto(e, "idle")
    /\ result' = [result EXCEPT ![e] = "none"]
    /\ UNCHANGED <<state, attempts, due, record, procVars, envVars>>

(* The jobs after the archive tell the task, schedule run or activity run  *)
(* (their results are ignored), then the guards are released.              *)
FollowUp(e) ==
    /\ phase[e] = "follow"
    /\ \/ tied' = [tied EXCEPT ![e] = IF e \notin Tied THEN @
                                      ELSE IF result[e] \in {"succeeded", "unknown"} THEN result[e]
                                      ELSE "failed"]
       \/ DbErrors /\ UNCHANGED tied
    /\ Goto(e, "idle")
    /\ result' = [result EXCEPT ![e] = "none"]
    /\ UNCHANGED <<state, attempts, due, record, procVars, envVars>>

-----------------------------------------------------------------------------
(* The process and its surroundings.                                       *)

(* Slip: effects are recovered like messages and inbox events are.         *)
RecoverAsRetry ==
    /\ state' = [e \in Effects |-> IF state[e] = "processing" THEN "retry" ELSE state[e]]
    /\ due' = [e \in Effects |-> state[e] = "processing" \/ due[e]]
    /\ UNCHANGED <<attempts, record, tied>>

(* Slip: the rows are settled without action and audit records.            *)
RecoverUnrecorded ==
    /\ state' = [e \in Effects |-> IF state[e] = "processing" THEN "unknown" ELSE state[e]]
    /\ due' = [e \in Effects |-> state[e] = "processing" \/ due[e]]
    /\ UNCHANGED <<attempts, record, tied>>

(* recover_processing_effects, for every row in one transaction.           *)
RecoverProcessing ==
    /\ state' = [e \in Effects |-> IF state[e] = "processing" THEN "unknown" ELSE state[e]]
    /\ due' = [e \in Effects |-> state[e] = "processing" \/ due[e]]
    /\ record' = [e \in Effects |-> IF state[e] = "processing" THEN "unknown" ELSE record[e]]
    /\ UNCHANGED <<attempts, tied>>

BeginExit ==
    /\ up /\ exit = "none"
    /\ exit' = "cancelled"
    /\ UNCHANGED <<rowVars, up, session, calib, taskVars, envVars>>

(* Slip: the rows are written off while the workers still run.             *)
ExitTimeoutKeepsWorkers ==
    /\ up /\ exit = "cancelled"
    /\ exit' = "aborted"
    /\ RecoverProcessing
    /\ UNCHANGED <<up, session, calib, taskVars, envVars>>

(* The workers did not end in time: they are aborted (the dispatch tasks   *)
(* are detached and live on) and rows still `processing' become unknown.   *)
ExitTimeout ==
    /\ up /\ exit = "cancelled"
    /\ exit' = "aborted"
    /\ phase' = [e \in Effects |-> IF phase[e] \in LoopPhases THEN "idle" ELSE phase[e]]
    /\ RecoverProcessing
    /\ UNCHANGED <<up, session, calib, result, envVars>>

(* The process ends, at the end of an exit or by a crash at any moment.    *)
Stop ==
    /\ up /\ up' = FALSE
    /\ exit' = "none"
    /\ session' = NoAccount
    /\ calib' = "off"
    /\ phase' = [e \in Effects |-> "idle"]
    /\ result' = [e \in Effects |-> "none"]
    /\ UNCHANGED <<rowVars, envVars>>

(* Database::open runs the recovery before any worker starts.              *)
Restart ==
    /\ ~up /\ up' = TRUE
    /\ RecoverProcessing
    /\ UNCHANGED <<exit, session, calib, taskVars, envVars>>

Login(a) ==
    /\ up /\ session # a
    /\ session' = a
    /\ UNCHANGED <<rowVars, up, exit, calib, taskVars, envVars>>

(* begin_developer_calibration waits for the write side of the lock.       *)
RequestCalibration ==
    /\ up /\ Calibration /\ calib = "off"
    /\ calib' = "waiting"
    /\ UNCHANGED <<rowVars, up, exit, session, taskVars, envVars>>

BeginCalibration ==
    /\ calib = "waiting" /\ PermitHolders = {}
    /\ calib' = "on"
    /\ UNCHANGED <<rowVars, up, exit, session, taskVars, envVars>>

EndCalibration ==
    /\ calib = "on"
    /\ calib' = "off"
    /\ UNCHANGED <<rowVars, up, exit, session, taskVars, envVars>>

(* next_attempt_at passes.                                                 *)
BecomeDue(e) ==
    /\ state[e] = "retry" /\ ~due[e]
    /\ due' = [due EXCEPT ![e] = TRUE]
    /\ UNCHANGED <<state, attempts, record, tied, procVars, taskVars, envVars>>

(* expires_at passes.                                                      *)
Expire(e) ==
    /\ e \in Expiring \ expired
    /\ expired' = expired \cup {e}
    /\ UNCHANGED <<rowVars, procVars, taskVars, ran>>

-----------------------------------------------------------------------------
LoopStep(e) ==
    \/ SkipExpired(e) \/ PassExpiry(e) \/ AcquireLane(e) \/ AcquireOrderKey(e)
    \/ GrantPermit(e) \/ RefusePermit(e)

TaskStep(e) ==
    \/ CapabilityClosed(e) \/ CapabilityProbing(e) \/ Execute(e)
    \/ CallFails(e) \/ CallReturns(e) \/ Archive(e) \/ FollowUp(e)

Next ==
    \/ \E e \in Effects : \/ Enqueue(e) \/ BridgeEnqueue(e) \/ OperatorRetry(e)
                          \/ LoopStep(e) \/ TaskStep(e)
                          \/ BecomeDue(e) \/ Expire(e)
    \/ ClaimEffects
    \/ BeginExit \/ ExitTimeout \/ Stop \/ Restart
    \/ \E a \in Accounts \cup {NoAccount} : Login(a)
    \/ RequestCalibration \/ BeginCalibration \/ EndCalibration

Spec == Init /\ [][Next]_vars

(* The loop, the dispatch tasks (every gateway call carries a timeout) and *)
(* the clock go on; nobody promises that the process is started again, or  *)
(* that an operator decides anything.                                      *)
Fairness ==
    /\ WF_vars(ClaimEffects)
    /\ \A e \in Effects : /\ WF_vars(LoopStep(e))
                          /\ WF_vars(TaskStep(e))
                          /\ WF_vars(BecomeDue(e))

FairSpec == Spec /\ Fairness

-----------------------------------------------------------------------------
TypeOK ==
    /\ state \in [Effects -> States]
    /\ attempts \in [Effects -> 0..MaxAttempts]
    /\ due \in [Effects -> BOOLEAN]
    /\ record \in [Effects -> Outcomes \cup {"none"}]
    /\ tied \in [Effects -> Settled \cup {"waiting"}]
    /\ up \in BOOLEAN
    /\ exit \in {"none", "cancelled", "aborted"}
    /\ session \in Accounts \cup {NoAccount}
    /\ calib \in {"off", "waiting", "on"}
    /\ phase \in [Effects -> Phases]
    /\ result \in [Effects -> Outcomes \cup {"none"}]
    /\ expired \subseteq Expiring
    /\ ran \in [Effects -> Nat]

(* A row the loop works on is `processing'; a row a task dispatches is     *)
(* `processing' too, unless the exit has already written it off; follow-up *)
(* jobs are written for settled rows only.  No two owners ever share a row *)
(* and none works on a row that somebody may claim again                   *)
(* (claim_effect_outbox, archive_effect_dispatch, request_graceful_exit).  *)
OwnerHoldsRow ==
    \A e \in Effects :
        /\ phase[e] \in LoopPhases => state[e] = "processing"
        /\ phase[e] \in {"dispatch", "performed", "archive"} =>
               state[e] = "processing" \/ (exit = "aborted" /\ state[e] = "unknown")
        /\ phase[e] = "follow" => state[e] \in Settled

(* An effect whose call reads nothing back is executed at most once until  *)
(* an operator queues it again, through crashes, exits, lost answers and   *)
(* retries (classify_effect_error, recover_processing_effects,             *)
(* claim_effect_outbox).                                                   *)
ExecutedAtMostOnce == \A e \in Effects \ ReadBack : ran[e] <= 1

(* The same for every effect: no write whose result is uncertain is sent   *)
(* again automatically (TECHNICAL-DESIGN.md, section 5).                   *)
UncertainWriteNotRepeated == \A e \in Effects : ran[e] <= 1

(* A row is reported as succeeded only if the remote has executed it; an   *)
(* expired row is dropped instead (dispatch_effect_permitted: an unknown   *)
(* receipt is no success).                                                 *)
SuccessWasExecuted ==
    \A e \in Effects \ Expiring : state[e] = "succeeded" => ran[e] >= 1

(* A row that may still be claimed has an attempt left, so the fifth       *)
(* failure is the last one whatever path reports it (archive, rejection).  *)
ClaimableHasAttemptLeft ==
    \A e \in Effects : state[e] \in Claimable => attempts[e] < MaxAttempts

(* No settled row is without the action and audit record that tell its     *)
(* outcome (archive_effect_dispatch, recover_processing_effects).          *)
SettledRowsAreRecorded ==
    \A e \in Effects :
        /\ state[e] \in {"succeeded", "unknown"} => record[e] = state[e]
        /\ state[e] = "failed" => record[e] \in {"failed", "failed-terminal"}

(* While a call is in progress no other call with its order key is, its    *)
(* lane is within its permits, and no calibration runs (QueueKernel, the   *)
(* guards dropped after dispatch_effect_permitted, automatic_write_permit).*)
Calling == {e \in Effects : phase[e] \in {"dispatch", "performed"}}

DispatchesWithinLimits ==
    /\ \A d, e \in Calling : KeyOf[d] = KeyOf[e] /\ KeyOf[e] # NoKey => d = e
    /\ \A e \in Calling : Cardinality({d \in Calling : LaneOf[d] = LaneOf[e]}) <= LanePermits
    /\ calib = "on" => Calling = {}

(* Queued work of an account settles if the process keeps running with     *)
(* that account's session and no calibration (effect_dispatcher_loop).     *)
Serviceable(a) == up /\ exit = "none" /\ session = a /\ calib = "off"

QueuedEffectsSettle ==
    \A e \in Effects :
        <>[]Serviceable(AccountOf[e]) => (state[e] \in Claimable ~> state[e] \in Settled)

(* As long as the process is not stopped, the task, schedule run or        *)
(* activity run behind an effect hears of the outcome of its effect (the   *)
(* jobs that follow the archive).                                          *)
TiedHearsOutcome ==
    [](up /\ exit = "none") =>
        \A e \in Tied : \A s \in Settled :
            state[e] = s ~> (tied[e] = s \/ state[e] # s)

(* Refinement: to its producers the queue is an EffectDelivery of the      *)
(* effects that are not read back.  Every path a row takes (claims in      *)
(* batches, rejections, archives, exits, crashes, recoveries) is a move or *)
(* a rest of each single intent.                                           *)
Intents == Effects \ ReadBack

StatusOf(e) ==
    CASE state[e] \in Claimable -> "waiting"
      [] state[e] = "processing" -> "running"
      [] state[e] = "succeeded" /\ ran[e] = 0 -> "dropped"
      [] OTHER -> state[e]

Delivery == INSTANCE EffectDelivery WITH
    Intents    <- Intents,
    Perishable <- Expiring,
    status     <- [e \in Intents |-> StatusOf(e)],
    sent       <- [e \in Intents |-> ran[e]]

ImplementsDelivery == Delivery!Spec
=============================================================================
