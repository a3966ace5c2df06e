------------------------- MODULE EffectOutboxProofs -------------------------
(***************************************************************************)
(* Safety of EffectOutbox for any number of rows, lanes, order keys and    *)
(* accounts and any bounds.                                                *)
(***************************************************************************)
EXTENDS EffectOutbox, FiniteSetTheorems, TLAPS

(* What makes the safety properties inductive.                             *)

(* A stopped process holds nothing in memory, so the recovery of the next  *)
(* start cannot take a row away from a living owner.                       *)
DownIsIdle == ~up => \A e \in Effects : phase[e] = "idle"

(* A row that may still be claimed, is on its way through the loop, or is  *)
(* about to be retried has not been executed since it was last granted.    *)
UnsentUntilCall ==
    \A e \in Effects \ ReadBack :
        /\ ran[e] <= 1
        /\ state[e] \in {"absent"} \cup Claimable => ran[e] = 0
        /\ phase[e] \in LoopPhases \cup {"dispatch"} => ran[e] = 0
        /\ phase[e] = "archive" /\ result[e] = "failed" => ran[e] = 0

(* A task that is about to archive a success has seen the execution.       *)
SuccessSeen ==
    \A e \in Effects :
        /\ phase[e] = "performed" => ran[e] >= 1
        /\ phase[e] = "archive" /\ result[e] = "succeeded" => ran[e] >= 1

(* A task that archives or follows up has a result to tell.                *)
ResultKnown ==
    \A e \in Effects : phase[e] \in {"archive", "follow"} => result[e] \in Outcomes

(* A row that has not been inserted has no attempts behind it.             *)
FreshRow == \A e \in Effects : state[e] = "absent" => attempts[e] = 0

IInv ==
    /\ TypeOK
    /\ OwnerHoldsRow
    /\ ClaimableHasAttemptLeft
    /\ SuccessWasExecuted
    /\ DownIsIdle
    /\ UnsentUntilCall
    /\ SuccessSeen
    /\ ResultKnown
    /\ FreshRow

-----------------------------------------------------------------------------
USE EffectsAssumption, AccountsAssumption, BoundsAssumption, FlagsAssumption,
    ShapeAssumption
USE DEF rowVars, procVars, taskVars, envVars, States, Claimable, Settled,
    Outcomes, Phases, LoopPhases, TaskPhases

LEMMA InitInv == Init => IInv
  <1> SUFFICES ASSUME Init PROVE IInv
    OBVIOUS
  <1> USE DEF Init
  <1>1. TypeOK
    <2>1. state \in [Effects -> States]
      OBVIOUS
    <2>2. attempts \in [Effects -> 0..MaxAttempts]
      OBVIOUS
    <2>3. due \in [Effects -> BOOLEAN]
      OBVIOUS
    <2>4. record \in [Effects -> Outcomes \cup {"none"}]
      OBVIOUS
    <2>5. tied \in [Effects -> Settled \cup {"waiting"}]
      OBVIOUS
    <2>6. phase \in [Effects -> Phases]
      OBVIOUS
    <2>7. result \in [Effects -> Outcomes \cup {"none"}]
      OBVIOUS
    <2> QED
      BY <2>1, <2>2, <2>3, <2>4, <2>5, <2>6, <2>7 DEF TypeOK
  <1>2. OwnerHoldsRow
    BY DEF OwnerHoldsRow
  <1>3. ClaimableHasAttemptLeft
    BY DEF ClaimableHasAttemptLeft
  <1>4. SuccessWasExecuted
    BY DEF SuccessWasExecuted
  <1>5. DownIsIdle
    BY DEF DownIsIdle
  <1>6. UnsentUntilCall
    BY DEF UnsentUntilCall
  <1>7. SuccessSeen
    BY DEF SuccessSeen
  <1>8. ResultKnown
    BY DEF ResultKnown
  <1>9. FreshRow
    BY DEF FreshRow
  <1> QED
    BY <1>9, <1>1, <1>2, <1>3, <1>4, <1>5, <1>6, <1>7, <1>8 DEF IInv

LEMMA StepInv == IInv /\ [Next]_vars => IInv'
  <1> SUFFICES ASSUME IInv, [Next]_vars PROVE IInv'
    OBVIOUS
  <1> USE DEF IInv, TypeOK, OwnerHoldsRow, ClaimableHasAttemptLeft, SuccessWasExecuted,
              DownIsIdle, UnsentUntilCall, SuccessSeen, ResultKnown, FreshRow
  <1>1. ASSUME NEW e \in Effects, Enqueue(e) PROVE IInv'
    <2>1. TypeOK'
      BY <1>1 DEF Enqueue, InsertEffect
    <2>2. OwnerHoldsRow'
      BY <1>1 DEF Enqueue, InsertEffect
    <2>3. ClaimableHasAttemptLeft'
      BY <1>1 DEF Enqueue, InsertEffect
    <2>4. SuccessWasExecuted'
      BY <1>1 DEF Enqueue, InsertEffect
    <2>5. DownIsIdle'
      BY <1>1 DEF Enqueue, InsertEffect
    <2>6. UnsentUntilCall'
      BY <1>1 DEF Enqueue, InsertEffect
    <2>7. SuccessSeen'
      BY <1>1 DEF Enqueue, InsertEffect
    <2>8. ResultKnown'
      BY <1>1 DEF Enqueue, InsertEffect
    <2>9. FreshRow'
      BY <1>1 DEF Enqueue, InsertEffect
    <2> QED
      BY <2>1, <2>2, <2>3, <2>4, <2>5, <2>6, <2>7, <2>8, <2>9 DEF IInv
  <1>2. ASSUME NEW e \in Effects, BridgeEnqueue(e) PROVE IInv'
    <2>1. TypeOK'
      BY <1>2 DEF BridgeEnqueue, InsertEffect
    <2>2. OwnerHoldsRow'
      BY <1>2 DEF BridgeEnqueue, InsertEffect
    <2>3. ClaimableHasAttemptLeft'
      BY <1>2 DEF BridgeEnqueue, InsertEffect
    <2>4. SuccessWasExecuted'
      BY <1>2 DEF BridgeEnqueue, InsertEffect
    <2>5. DownIsIdle'
      BY <1>2 DEF BridgeEnqueue, InsertEffect
    <2>6. UnsentUntilCall'
      BY <1>2 DEF BridgeEnqueue, InsertEffect
    <2>7. SuccessSeen'
      BY <1>2 DEF BridgeEnqueue, InsertEffect
    <2>8. ResultKnown'
      BY <1>2 DEF BridgeEnqueue, InsertEffect
    <2>9. FreshRow'
      BY <1>2 DEF BridgeEnqueue, InsertEffect
    <2> QED
      BY <2>1, <2>2, <2>3, <2>4, <2>5, <2>6, <2>7, <2>8, <2>9 DEF IInv
  <1>3. ASSUME NEW e \in Effects, OperatorRetry(e) PROVE IInv'
    BY <1>3 DEF OperatorRetry
  <1>4. ASSUME NEW e \in Effects, SkipExpired(e) PROVE IInv'
    BY <1>4 DEF SkipExpired, Head, Goto
  <1>5. ASSUME NEW e \in Effects, PassExpiry(e) PROVE IInv'
    BY <1>5 DEF PassExpiry, Head, Goto
  <1>6. ASSUME NEW e \in Effects, AcquireLane(e) PROVE IInv'
    BY <1>6 DEF AcquireLane, Goto
  <1>7. ASSUME NEW e \in Effects, AcquireOrderKey(e) PROVE IInv'
    BY <1>7 DEF AcquireOrderKey, Goto
  <1>8. ASSUME NEW e \in Effects, GrantPermit(e) PROVE IInv'
    BY <1>8 DEF GrantPermit, Goto
  <1>9. ASSUME NEW e \in Effects, RefusePermit(e) PROVE IInv'
    <2>1. TypeOK'
      <3>1. (state \in [Effects -> States])'
        BY <1>9 DEF RefusePermit, Goto, Backoff
      <3>2. (attempts \in [Effects -> 0..MaxAttempts])'
        BY <1>9 DEF RefusePermit, Goto, Backoff
      <3>3. (due \in [Effects -> BOOLEAN])'
        <4>1. \A b \in BOOLEAN : [due EXCEPT ![e] = b] \in [Effects -> BOOLEAN]
          OBVIOUS
        <4>2. (attempts[e] >= MaxAttempts) \in BOOLEAN
          OBVIOUS
        <4>3. [due EXCEPT ![e] = attempts[e] >= MaxAttempts] \in [Effects -> BOOLEAN]
          BY <4>1, <4>2, Zenon
        <4> QED
          BY <1>9, <4>3, Zenon DEF RefusePermit
      <3>4. (record \in [Effects -> Outcomes \cup {"none"}])'
        BY <1>9 DEF RefusePermit, Goto, Backoff
      <3>5. (tied \in [Effects -> Settled \cup {"waiting"}])'
        BY <1>9 DEF RefusePermit, Goto, Backoff
      <3>6. (phase \in [Effects -> Phases])'
        BY <1>9 DEF RefusePermit, Goto, Backoff
      <3>7. (result \in [Effects -> Outcomes \cup {"none"}])'
        BY <1>9 DEF RefusePermit, Goto, Backoff
      <3> QED
        BY <1>9, <3>1, <3>2, <3>3, <3>4, <3>5, <3>6, <3>7 DEF RefusePermit, Goto, Backoff
    <2>2. OwnerHoldsRow'
      BY <1>9 DEF RefusePermit, Goto, Backoff
    <2>3. ClaimableHasAttemptLeft'
      BY <1>9 DEF RefusePermit, Goto, Backoff
    <2>4. SuccessWasExecuted'
      BY <1>9 DEF RefusePermit, Goto, Backoff
    <2>5. DownIsIdle'
      BY <1>9 DEF RefusePermit, Goto, Backoff
    <2>6. UnsentUntilCall'
      BY <1>9 DEF RefusePermit, Goto, Backoff
    <2>7. SuccessSeen'
      BY <1>9 DEF RefusePermit, Goto, Backoff
    <2>8. ResultKnown'
      BY <1>9 DEF RefusePermit, Goto, Backoff
    <2>9. FreshRow'
      BY <1>9 DEF RefusePermit, Goto, Backoff
    <2> QED
      BY <2>1, <2>2, <2>3, <2>4, <2>5, <2>6, <2>7, <2>8, <2>9 DEF IInv
  <1>10. ASSUME NEW e \in Effects, CapabilityClosed(e) PROVE IInv'
    BY <1>10 DEF CapabilityClosed, Conclude, Goto
  <1>11. ASSUME NEW e \in Effects, CapabilityProbing(e) PROVE IInv'
    BY <1>11 DEF CapabilityProbing, Conclude, Goto
  <1>12. ASSUME NEW e \in Effects, Execute(e) PROVE IInv'
    BY <1>12 DEF Execute, Goto
  <1>13. ASSUME NEW e \in Effects, CallFails(e) PROVE IInv'
    BY <1>13 DEF CallFails, Conclude, Goto
  <1>14. ASSUME NEW e \in Effects, CallReturns(e) PROVE IInv'
    BY <1>14 DEF CallReturns, Conclude, Goto
  <1>15. ASSUME NEW e \in Effects, Archive(e) PROVE IInv'
    <2>1. TypeOK'
      <3>0. RowState(e, result[e]) \in States
        <4>1. phase[e] = "archive" /\ result[e] \in Outcomes
          BY <1>15 DEF Archive
        <4> QED
          BY <4>1 DEF RowState, Backoff
      <3>1. (state \in [Effects -> States])'
        BY <1>15, <3>0 DEF Archive
      <3>2. (attempts \in [Effects -> 0..MaxAttempts])'
        BY <1>15 DEF Archive
      <3>3. (due \in [Effects -> BOOLEAN])'
        <4>1. \A b \in BOOLEAN : [due EXCEPT ![e] = b] \in [Effects -> BOOLEAN]
          OBVIOUS
        <4>2. NeedsFollowUp(e, result[e]) \in BOOLEAN
          BY DEF NeedsFollowUp
        <4>3. [due EXCEPT ![e] = NeedsFollowUp(e, result[e])] \in [Effects -> BOOLEAN]
          BY <4>1, <4>2, Zenon
        <4> QED
          BY <1>15, <4>3, Zenon DEF Archive
      <3>4. (record \in [Effects -> Outcomes \cup {"none"}])'
        BY <1>15 DEF Archive
      <3>5. (tied \in [Effects -> Settled \cup {"waiting"}])'
        BY <1>15 DEF Archive
      <3>6. (phase \in [Effects -> Phases])'
        BY <1>15 DEF Archive, Goto
      <3>7. (result \in [Effects -> Outcomes \cup {"none"}])'
        BY <1>15 DEF Archive, Goto
      <3> QED
        BY <1>15, <3>1, <3>2, <3>3, <3>4, <3>5, <3>6, <3>7 DEF Archive, Goto, RowState, Backoff, NeedsFollowUp
    <2>2. OwnerHoldsRow'
      BY <1>15 DEF Archive, Goto, RowState, Backoff, NeedsFollowUp
    <2>3. ClaimableHasAttemptLeft'
      BY <1>15 DEF Archive, Goto, RowState, Backoff, NeedsFollowUp
    <2>4. SuccessWasExecuted'
      BY <1>15 DEF Archive, Goto, RowState, Backoff, NeedsFollowUp
    <2>5. DownIsIdle'
      BY <1>15 DEF Archive, Goto, RowState, Backoff, NeedsFollowUp
    <2>6. UnsentUntilCall'
      BY <1>15 DEF Archive, Goto, RowState, Backoff, NeedsFollowUp
    <2>7. SuccessSeen'
      BY <1>15 DEF Archive, Goto, RowState, Backoff, NeedsFollowUp
    <2>8. ResultKnown'
      BY <1>15 DEF Archive, Goto, RowState, Backoff, NeedsFollowUp
    <2>9. FreshRow'
      BY <1>15 DEF Archive, Goto, RowState, Backoff, NeedsFollowUp
    <2> QED
      BY <2>1, <2>2, <2>3, <2>4, <2>5, <2>6, <2>7, <2>8, <2>9 DEF IInv
  <1>16. ASSUME NEW e \in Effects, FollowUp(e) PROVE IInv'
    BY <1>16 DEF FollowUp, Goto
  <1>17. ASSUME NEW e \in Effects, BecomeDue(e) PROVE IInv'
    BY <1>17 DEF BecomeDue
  <1>18. ASSUME NEW e \in Effects, Expire(e) PROVE IInv'
    BY <1>18 DEF Expire
  <1>19. CASE ClaimEffects
    <2>1. TypeOK'
      <3>1. (state \in [Effects -> States])'
        BY <1>19 DEF ClaimEffects, LoopIdle, DueRows, Oldest
      <3>2. (attempts \in [Effects -> 0..MaxAttempts])'
        <4>1. PICK taken : /\ taken = Oldest(DueRows, ClaimLimit)
                           /\ attempts' = [e \in Effects |-> IF e \in taken
                                              THEN attempts[e] + 1 ELSE attempts[e]]
          BY <1>19 DEF ClaimEffects
        <4>2. \A e \in taken : e \in Effects => attempts[e] < MaxAttempts
          BY <4>1 DEF Oldest, DueRows
        <4> QED
          BY <4>1, <4>2
      <3>3. (due \in [Effects -> BOOLEAN])'
        <4> DEFINE taken == Oldest(DueRows, ClaimLimit)
        <4>1. due' = [e \in Effects |-> IF e \in taken THEN TRUE ELSE due[e]]
          BY <1>19, Zenon DEF ClaimEffects
        <4> HIDE DEF taken
        <4>2. \A e \in Effects : due[e] \in BOOLEAN
          OBVIOUS
        <4>3. due' \in [Effects -> BOOLEAN]
          BY <4>1, <4>2, Zenon
        <4> QED
          BY <4>3, Zenon
      <3>4. (record \in [Effects -> Outcomes \cup {"none"}])'
        BY <1>19 DEF ClaimEffects
      <3>5. (tied \in [Effects -> Settled \cup {"waiting"}])'
        BY <1>19 DEF ClaimEffects
      <3>6. (phase \in [Effects -> Phases])'
        BY <1>19 DEF ClaimEffects
      <3>7. (result \in [Effects -> Outcomes \cup {"none"}])'
        BY <1>19 DEF ClaimEffects
      <3> QED
        BY <1>19, <3>1, <3>2, <3>3, <3>4, <3>5, <3>6, <3>7 DEF ClaimEffects, LoopIdle, DueRows, Oldest
    <2>2. OwnerHoldsRow'
      BY <1>19 DEF ClaimEffects, LoopIdle, DueRows, Oldest
    <2>3. ClaimableHasAttemptLeft'
      BY <1>19 DEF ClaimEffects, LoopIdle, DueRows, Oldest
    <2>4. SuccessWasExecuted'
      BY <1>19 DEF ClaimEffects, LoopIdle, DueRows, Oldest
    <2>5. DownIsIdle'
      BY <1>19 DEF ClaimEffects, LoopIdle, DueRows, Oldest
    <2>6. UnsentUntilCall'
      BY <1>19 DEF ClaimEffects, LoopIdle, DueRows, Oldest
    <2>7. SuccessSeen'
      BY <1>19 DEF ClaimEffects, LoopIdle, DueRows, Oldest
    <2>8. ResultKnown'
      BY <1>19 DEF ClaimEffects, LoopIdle, DueRows, Oldest
    <2>9. FreshRow'
      BY <1>19 DEF ClaimEffects, LoopIdle, DueRows, Oldest
    <2> QED
      BY <2>1, <2>2, <2>3, <2>4, <2>5, <2>6, <2>7, <2>8, <2>9 DEF IInv
  <1>20. CASE BeginExit
    BY <1>20 DEF BeginExit
  <1>21. CASE ExitTimeout
    BY <1>21 DEF ExitTimeout, RecoverProcessing
  <1>22. CASE Stop
    BY <1>22 DEF Stop
  <1>23. CASE Restart
    BY <1>23 DEF Restart, RecoverProcessing
  <1>24. CASE RequestCalibration
    BY <1>24 DEF RequestCalibration
  <1>25. CASE BeginCalibration
    BY <1>25 DEF BeginCalibration
  <1>26. CASE EndCalibration
    BY <1>26 DEF EndCalibration
  <1>27. ASSUME NEW a \in Accounts \cup {NoAccount}, Login(a) PROVE IInv'
    BY <1>27 DEF Login
  <1>28. CASE UNCHANGED vars
    BY <1>28 DEF vars
  <1> QED
    BY <1>1, <1>2, <1>3, <1>4, <1>5, <1>6, <1>7, <1>8, <1>9, <1>10, <1>11, <1>12, <1>13, <1>14, <1>15, <1>16, <1>17, <1>18, <1>19, <1>20, <1>21, <1>22, <1>23, <1>24, <1>25, <1>26, <1>27, <1>28 DEF Next, LoopStep, TaskStep

(* Every reachable state satisfies the strengthening.                      *)
LEMMA Inductive == Spec => []IInv
  BY InitInv, StepInv, PTL DEF Spec

(* Every row, owner and flag always has a value the code can produce, for  *)
(* any bounds: in particular no row is claimed beyond its attempts         *)
(* (claim_effect_outbox, archive_effect_dispatch).                         *)
THEOREM TypeCorrect == Spec => []TypeOK
  <1>1. IInv => TypeOK
    BY DEF IInv
  <1> QED
    BY <1>1, Inductive, PTL

(* A row the loop or a dispatch task works on is `processing', or written  *)
(* off by the exit: no claim, rejection, exit, crash or recovery ever      *)
(* gives it a second owner.                                                *)
THEOREM OwnersHoldTheirRows == Spec => []OwnerHoldsRow
  <1>1. IInv => OwnerHoldsRow
    BY DEF IInv
  <1> QED
    BY <1>1, Inductive, PTL

(* An effect that reads nothing back is executed at most once between two  *)
(* decisions of an operator, whatever crashes, exits, lost answers, failed *)
(* database jobs and retries come between.                                 *)
THEOREM AtMostOnce == Spec => []ExecutedAtMostOnce
  <1>1. IInv => ExecutedAtMostOnce
    BY DEF IInv, UnsentUntilCall, ExecutedAtMostOnce
  <1> QED
    BY <1>1, Inductive, PTL

(* A row without expiry that is reported as succeeded has been executed.   *)
THEOREM SuccessIsTrue == Spec => []SuccessWasExecuted
  <1>1. IInv => SuccessWasExecuted
    BY DEF IInv
  <1> QED
    BY <1>1, Inductive, PTL

(* A row that may be claimed has an attempt left.                          *)
THEOREM LastAttemptIsLast == Spec => []ClaimableHasAttemptLeft
  <1>1. IInv => ClaimableHasAttemptLeft
    BY DEF IInv
  <1> QED
    BY <1>1, Inductive, PTL

-----------------------------------------------------------------------------
(* A row holds a place of its lane, the lock of its order key and the      *)
(* shared lock of automatic writes from the phase that follows the one     *)
(* that takes it until its task ends (the guards dropped after             *)
(* dispatch_effect_permitted).                                             *)
InLane(e)    == phase[e] \in {"order", "permit"} \cup TaskPhases
HoldsKey(e)  == phase[e] \in {"permit"} \cup TaskPhases
Permitted(e) == phase[e] \in TaskPhases

(* Each guard excludes what it is there for.  DispatchesWithinLimits       *)
(* speaks of calls only, and a call begins with guards taken several steps *)
(* earlier; this is what each of those steps keeps.                        *)
GuardsExclude ==
    /\ \A d, e \in Effects : /\ KeyOf[d] = KeyOf[e] /\ KeyOf[e] # NoKey
                             /\ HoldsKey(d) /\ HoldsKey(e)
                             => d = e
    /\ \A e \in Effects : /\ IsFiniteSet(LaneHolders(LaneOf[e]))
                          /\ Cardinality(LaneHolders(LaneOf[e])) <= LanePermits
    /\ calib = "on" => \A e \in Effects : ~Permitted(e)

(* No step takes a guard for a row but the one that waits for it.          *)
GuardsTaken(e) ==
    /\ InLane(e)' => InLane(e) \/ AcquireLane(e)
    /\ HoldsKey(e)' => HoldsKey(e) \/ AcquireOrderKey(e)
    /\ Permitted(e)' => Permitted(e) \/ GrantPermit(e)

(* Every action of the model, for every row.                               *)
LEMMA GuardsAreTaken ==
    ASSUME phase \in [Effects -> Phases], [Next]_vars, NEW e \in Effects
    PROVE  GuardsTaken(e)
  <1> USE DEF InLane, HoldsKey, Permitted, GuardsTaken, Goto
  <1>1. ASSUME NEW d \in Effects, AcquireLane(d) PROVE GuardsTaken(e)
    BY <1>1 DEF AcquireLane
  <1>2. ASSUME NEW d \in Effects, AcquireOrderKey(d) PROVE GuardsTaken(e)
    BY <1>2 DEF AcquireOrderKey
  <1>3. ASSUME NEW d \in Effects, GrantPermit(d) PROVE GuardsTaken(e)
    BY <1>3 DEF GrantPermit
  <1>4. ASSUME NEW d \in Effects, SkipExpired(d) \/ PassExpiry(d) \/ RefusePermit(d)
        PROVE  GuardsTaken(e)
    BY <1>4 DEF SkipExpired, PassExpiry, RefusePermit, Head
  <1>5. ASSUME NEW d \in Effects, TaskStep(d) PROVE GuardsTaken(e)
    BY <1>5 DEF TaskStep, CapabilityClosed, CapabilityProbing, Execute, CallFails, CallReturns,
                Archive, FollowUp, Conclude
  <1>6. CASE ClaimEffects
    BY <1>6 DEF ClaimEffects
  <1>7. CASE ExitTimeout \/ Stop
    BY <1>7 DEF ExitTimeout, Stop
  <1>8. CASE phase' = phase
    BY <1>8
  <1>9. ASSUME NEW d \in Effects,
               Enqueue(d) \/ BridgeEnqueue(d) \/ OperatorRetry(d) \/ BecomeDue(d) \/ Expire(d)
        PROVE  phase' = phase
    BY <1>9 DEF Enqueue, BridgeEnqueue, InsertEffect, OperatorRetry, BecomeDue, Expire
  <1>10. ASSUME \/ BeginExit \/ Restart \/ RequestCalibration \/ BeginCalibration
                \/ EndCalibration \/ UNCHANGED vars
                \/ \E a \in Accounts \cup {NoAccount} : Login(a)
         PROVE  phase' = phase
    BY <1>10 DEF BeginExit, Restart, RequestCalibration, BeginCalibration, EndCalibration, Login,
                 vars
  <1> QED
    BY <1>1, <1>2, <1>3, <1>4, <1>5, <1>6, <1>7, <1>8, <1>9, <1>10 DEF Next, LoopStep

(* A calibration runs only because it ran before or because it has just    *)
(* obtained the write side of the lock.                                    *)
LEMMA CalibrationBegins ==
    ASSUME [Next]_vars, calib' = "on"
    PROVE  (calib = "on" /\ calib' = calib) \/ BeginCalibration
  BY DEF Next, vars, LoopStep, TaskStep, Enqueue, BridgeEnqueue, InsertEffect, OperatorRetry,
         SkipExpired, PassExpiry, AcquireLane, AcquireOrderKey, GrantPermit, RefusePermit,
         CapabilityClosed, CapabilityProbing, Execute, CallFails, CallReturns, Archive, FollowUp,
         BecomeDue, Expire, ClaimEffects, BeginExit, ExitTimeout, Stop, Restart, Login,
         RequestCalibration, EndCalibration

(* Nothing is held at the start.                                           *)
LEMMA InitGuards == Init => GuardsExclude
  BY FS_EmptySet DEF Init, GuardsExclude, HoldsKey, Permitted, LaneHolders

(* A guard that is taken was free: for the order key and the calibration   *)
(* this is the guard of the step, for the lane it is a count that grows by *)
(* one row at most.                                                        *)
LEMMA StepGuards == IInv /\ GuardsExclude /\ [Next]_vars => GuardsExclude'
  <1> SUFFICES ASSUME IInv, GuardsExclude, [Next]_vars PROVE GuardsExclude'
    OBVIOUS
  <1>1. phase \in [Effects -> Phases] /\ calib \in {"off", "waiting", "on"}
    BY DEF IInv, TypeOK
  <1>2. \A e \in Effects : GuardsTaken(e)
    BY <1>1, GuardsAreTaken
  <1>3. ASSUME NEW d \in Effects, NEW e \in Effects, KeyOf[d] = KeyOf[e], KeyOf[e] # NoKey,
               HoldsKey(d)', HoldsKey(e)'
        PROVE  d = e
    <2>1. ASSUME NEW x \in Effects, NEW y \in Effects, KeyOf[x] = KeyOf[y], KeyOf[y] # NoKey,
                 AcquireOrderKey(x)
          PROVE  ~HoldsKey(y)
      BY <2>1 DEF AcquireOrderKey, KeyHolders, HoldsKey
    <2>2. CASE HoldsKey(d) /\ HoldsKey(e)
      BY <1>3, <2>2 DEF GuardsExclude
    <2>3. CASE AcquireOrderKey(d) /\ AcquireOrderKey(e)
      BY <1>1, <2>3 DEF AcquireOrderKey, Goto
    <2> QED
      BY <1>2, <1>3, <2>1, <2>2, <2>3 DEF GuardsTaken
  <1>4. ASSUME NEW x \in Effects
        PROVE  /\ IsFiniteSet(LaneHolders(LaneOf[x]))'
               /\ (Cardinality(LaneHolders(LaneOf[x])) <= LanePermits)'
    <2> DEFINE Before == LaneHolders(LaneOf[x])
               After  == LaneHolders(LaneOf[x])'
    <2>1. IsFiniteSet(Before) /\ Cardinality(Before) <= LanePermits /\ Cardinality(Before) \in Nat
      BY FS_CardinalityType DEF GuardsExclude
    <2>2. \A e \in After : e \in Before \/ (AcquireLane(e) /\ LaneOf[e] = LaneOf[x])
      BY <1>2 DEF LaneHolders, GuardsTaken, InLane
    <2>3. CASE After \subseteq Before
      BY <2>1, <2>3, FS_Subset, FS_CardinalityType
    <2>4. CASE \E e \in After : e \notin Before
      <3>1. PICK e \in Effects : AcquireLane(e) /\ LaneOf[e] = LaneOf[x] /\ e \notin Before
        BY <2>2, <2>4 DEF LaneHolders
      <3>2. \A d \in Effects : AcquireLane(d) => d = e
        BY <1>1, <3>1 DEF AcquireLane, Goto
      <3>3. After \subseteq Before \cup {e}
        BY <2>2, <3>2 DEF LaneHolders
      <3>4. Cardinality(Before) < LanePermits
        BY <3>1 DEF AcquireLane
      <3>5. IsFiniteSet(Before \cup {e}) /\ Cardinality(Before \cup {e}) = Cardinality(Before) + 1
        BY <2>1, <3>1, FS_AddElement
      <3>6. IsFiniteSet(After) /\ Cardinality(After) <= Cardinality(Before) + 1
        BY <3>3, <3>5, FS_Subset
      <3>7. Cardinality(After) \in Nat
        BY <3>6, FS_CardinalityType
      <3> QED
        BY <2>1, <3>4, <3>6, <3>7
    <2> QED
      BY <2>3, <2>4
  <1>5. ASSUME (calib = "on")', NEW e \in Effects PROVE ~Permitted(e)'
    <2>1. ~Permitted(e)
      BY <1>5, CalibrationBegins DEF BeginCalibration, PermitHolders, Permitted, GuardsExclude
    <2>2. ~GrantPermit(e)
      BY <1>5, CalibrationBegins DEF BeginCalibration, GrantPermit
    <2> QED
      BY <1>2, <2>1, <2>2 DEF GuardsTaken
  <1> QED
    BY <1>3, <1>4, <1>5 DEF GuardsExclude

(* Calls with the same order key never overlap, no lane has more calls in  *)
(* progress than permits, and none is in progress during a calibration,    *)
(* however rows are claimed, rejected, written off or recovered meanwhile  *)
(* (QueueKernel, automatic_write_permit, begin_developer_calibration).     *)
THEOREM CallsKeepWithinLimits == Spec => []DispatchesWithinLimits
  <1>1. IInv /\ GuardsExclude => DispatchesWithinLimits
    <2> SUFFICES ASSUME IInv, GuardsExclude PROVE DispatchesWithinLimits
      OBVIOUS
    <2>1. \A e \in Calling : e \in Effects /\ HoldsKey(e) /\ Permitted(e)
      BY DEF Calling, HoldsKey, Permitted
    <2>2. ASSUME NEW e \in Calling
          PROVE  Cardinality({d \in Calling : LaneOf[d] = LaneOf[e]}) <= LanePermits
      <3> DEFINE Mine == {d \in Calling : LaneOf[d] = LaneOf[e]}
      <3>1. Mine \subseteq LaneHolders(LaneOf[e])
        BY DEF LaneHolders, Calling
      <3>2. /\ IsFiniteSet(LaneHolders(LaneOf[e]))
            /\ Cardinality(LaneHolders(LaneOf[e])) <= LanePermits
        BY <2>1 DEF GuardsExclude
      <3>3. IsFiniteSet(Mine) /\ Cardinality(Mine) <= Cardinality(LaneHolders(LaneOf[e]))
        BY <3>1, <3>2, FS_Subset
      <3>4. Cardinality(Mine) \in Nat /\ Cardinality(LaneHolders(LaneOf[e])) \in Nat
        BY <3>2, <3>3, FS_CardinalityType
      <3> QED
        BY <3>2, <3>3, <3>4
    <2> QED
      BY <2>1, <2>2 DEF DispatchesWithinLimits, GuardsExclude
  <1>2. Init => GuardsExclude
    BY InitGuards
  <1>3. IInv /\ GuardsExclude /\ [Next]_vars => GuardsExclude'
    BY StepGuards
  <1> QED
    BY <1>1, <1>2, <1>3, Inductive, PTL DEF Spec

-----------------------------------------------------------------------------
(* What one step of the system may mean for one row: the moves of the      *)
(* abstract queue, told in terms of the columns of the row.                *)
Turns(e, from, to) == state[e] \in from /\ state'[e] \in to /\ ran'[e] = ran[e]

RowMoves(e) ==
    \/ state'[e] = state[e] /\ ran'[e] = ran[e]
    \/ Turns(e, {"absent"}, {"queued"})
    \/ Turns(e, Claimable, {"processing"}) /\ ran[e] = 0
    \/ Turns(e, {"processing"}, {"retry"}) /\ ran[e] = 0
    \/ Turns(e, {"processing"}, {"failed", "unknown"})
    \/ Turns(e, {"processing"}, {"succeeded"}) /\ ran[e] = 1
    \/ Turns(e, {"processing"}, {"succeeded"}) /\ ran[e] = 0 /\ e \in Expiring
    \/ /\ state[e] \in {"processing", "unknown"} /\ state'[e] = state[e]
       /\ ran[e] = 0 /\ ran'[e] = 1
    \/ state[e] \in {"failed", "unknown"} /\ state'[e] = "queued" /\ ran'[e] = 0

(* Every action of the model, for every row that is not read back; what    *)
(* the loop or a task knows of its row comes from IInv.                    *)
LEMMA EachRowMoves ==
    ASSUME IInv, [Next]_vars, NEW i \in Effects \ ReadBack
    PROVE  RowMoves(i)
  <1> USE DEF RowMoves, Turns
  <1>0. /\ state \in [Effects -> States] /\ ran \in [Effects -> Nat]
        /\ phase \in [Effects -> Phases] /\ result \in [Effects -> Outcomes \cup {"none"}]
        /\ attempts \in [Effects -> 0..MaxAttempts]
        /\ expired \subseteq Expiring
    BY DEF IInv, TypeOK
  <1>1. ASSUME NEW e \in Effects, Enqueue(e) \/ BridgeEnqueue(e) PROVE RowMoves(i)
    BY <1>0, <1>1 DEF Enqueue, BridgeEnqueue, InsertEffect
  <1>2. ASSUME NEW e \in Effects, OperatorRetry(e) PROVE RowMoves(i)
    BY <1>0, <1>2 DEF OperatorRetry
  <1>3. ASSUME NEW e \in Effects, SkipExpired(e) PROVE RowMoves(i)
    <2>1. CASE e = i
      <3>1. ran[i] = 0 /\ i \in Expiring
        BY <1>0, <1>3, <2>1 DEF IInv, UnsentUntilCall, SkipExpired, Head
      <3> QED
        BY <1>0, <1>3, <2>1, <3>1 DEF SkipExpired
    <2>2. CASE e # i
      BY <1>0, <1>3, <2>2 DEF SkipExpired
    <2> QED
      BY <2>1, <2>2
  <1>4. ASSUME NEW e \in Effects, RefusePermit(e) PROVE RowMoves(i)
    <2>1. CASE e = i
      <3>1. ran[i] = 0 /\ state[i] = "processing"
        BY <1>0, <1>4, <2>1 DEF IInv, UnsentUntilCall, OwnerHoldsRow, RefusePermit
      <3>2. Backoff(i) \in {"failed", "retry"}
        BY DEF Backoff
      <3> QED
        BY <1>0, <1>4, <2>1, <3>1, <3>2 DEF RefusePermit
    <2>2. CASE e # i
      BY <1>0, <1>4, <2>2 DEF RefusePermit
    <2> QED
      BY <2>1, <2>2
  <1>5. ASSUME NEW e \in Effects, Execute(e) PROVE RowMoves(i)
    <2>1. CASE e = i
      <3>1. ran[i] = 0 /\ state[i] \in {"processing", "unknown"}
        BY <1>0, <1>5, <2>1 DEF IInv, UnsentUntilCall, OwnerHoldsRow, Execute
      <3> QED
        BY <1>0, <1>5, <2>1, <3>1 DEF Execute
    <2>2. CASE e # i
      BY <1>0, <1>5, <2>2 DEF Execute
    <2> QED
      BY <2>1, <2>2
  <1>6. ASSUME NEW e \in Effects, Archive(e) PROVE RowMoves(i)
    <2>1. CASE e = i /\ state[i] = "processing" /\ state'[i] # state[i]
      <3>1. /\ phase[i] = "archive" /\ result[i] \in Outcomes
            /\ state'[i] = RowState(i, result[i]) /\ ran'[i] = ran[i]
        BY <1>0, <1>6, <2>1 DEF IInv, ResultKnown, Archive
      <3>2. result[i] = "failed" => ran[i] = 0
        BY <3>1 DEF IInv, UnsentUntilCall
      <3>3. result[i] = "succeeded" => ran[i] = 1
        BY <1>0, <3>1 DEF IInv, UnsentUntilCall, SuccessSeen
      <3> QED
        BY <2>1, <3>1, <3>2, <3>3 DEF RowState, Backoff
    <2>2. CASE ~(e = i /\ state[i] = "processing" /\ state'[i] # state[i])
      BY <1>0, <1>6, <2>2 DEF Archive
    <2> QED
      BY <2>1, <2>2
  <1>7. CASE ClaimEffects
    <2>1. state[i] \in Claimable => ran[i] = 0
      BY <1>0 DEF IInv, UnsentUntilCall
    <2>2. /\ state'[i] = state[i] \/ (state[i] \in Claimable /\ state'[i] = "processing")
          /\ ran' = ran
      BY <1>7 DEF ClaimEffects, Oldest, DueRows
    <2> QED
      BY <2>1, <2>2
  <1>8. CASE ExitTimeout \/ Restart
    BY <1>8 DEF ExitTimeout, Restart, RecoverProcessing
  <1>9. ASSUME state' = state, ran' = ran PROVE RowMoves(i)
    BY <1>9
  <1>10. ASSUME NEW e \in Effects,
                \/ PassExpiry(e) \/ AcquireLane(e) \/ AcquireOrderKey(e) \/ GrantPermit(e)
                \/ CapabilityClosed(e) \/ CapabilityProbing(e) \/ CallFails(e) \/ CallReturns(e)
                \/ FollowUp(e) \/ BecomeDue(e) \/ Expire(e)
         PROVE  state' = state /\ ran' = ran
    BY <1>10 DEF PassExpiry, AcquireLane, AcquireOrderKey, GrantPermit, CapabilityClosed,
                 CapabilityProbing, CallFails, CallReturns, FollowUp, BecomeDue, Expire
  <1>11. ASSUME \/ BeginExit \/ Stop \/ RequestCalibration \/ BeginCalibration
                \/ EndCalibration \/ UNCHANGED vars
                \/ \E a \in Accounts \cup {NoAccount} : Login(a)
         PROVE  state' = state /\ ran' = ran
    BY <1>11 DEF BeginExit, Stop, RequestCalibration, BeginCalibration, EndCalibration, Login,
                 vars
  <1> QED
    BY <1>1, <1>2, <1>3, <1>4, <1>5, <1>6, <1>7, <1>8, <1>9, <1>10, <1>11
       DEF Next, LoopStep, TaskStep

(* Each move is the step of EffectDelivery it is named after, seen through *)
(* StatusOf.                                                               *)
LEMMA DeliveryFollows ==
    ASSUME IInv, IInv', NEW i \in Intents, RowMoves(i)
    PROVE  \/ Delivery!Rests(i)
           \/ Delivery!Accept(i) \/ Delivery!Start(i) \/ Delivery!Postpone(i) \/ Delivery!Send(i)
           \/ Delivery!Report(i) \/ Delivery!Drop(i) \/ Delivery!Grant(i)
  <1> DEFINE Now == StatusOf(i)
             Then == StatusOf(i)'
  <1>1. /\ [e \in Intents |-> StatusOf(e)][i] = Now
        /\ [e \in Intents |-> ran[e]][i] = ran[i]
        /\ [e \in Intents |-> StatusOf(e)]'[i] = Then
        /\ [e \in Intents |-> ran[e]]'[i] = ran'[i]
    OBVIOUS
  <1>2. i \in Effects /\ state[i] \in States /\ state'[i] \in States
    BY DEF IInv, TypeOK, Intents
  <1> HIDE DEF Now, Then
  <1>3. CASE state'[i] = state[i] /\ ran'[i] = ran[i]
    <2>1. Then = Now
      BY <1>3 DEF Now, Then, StatusOf
    <2> QED
      BY <1>1, <1>3, <2>1 DEF Delivery!Rests, Delivery!Becomes
  <1>4. CASE Turns(i, {"absent"}, {"queued"})
    <2>1. Now = "absent" /\ Then = "waiting" /\ ran'[i] = ran[i]
      BY <1>4 DEF Now, Then, StatusOf, Turns
    <2> QED
      BY <1>1, <2>1 DEF Delivery!Accept, Delivery!Becomes
  <1>5. CASE Turns(i, Claimable, {"processing"}) /\ ran[i] = 0
    <2>1. Now = "waiting" /\ Then = "running" /\ ran'[i] = 0 /\ ran[i] = 0
      BY <1>5 DEF Now, Then, StatusOf, Turns
    <2> QED
      BY <1>1, <2>1 DEF Delivery!Start, Delivery!Becomes
  <1>6. CASE Turns(i, {"processing"}, {"retry"}) /\ ran[i] = 0
    <2>1. Now = "running" /\ Then = "waiting" /\ ran'[i] = 0 /\ ran[i] = 0
      BY <1>6 DEF Now, Then, StatusOf, Turns
    <2> QED
      BY <1>1, <2>1 DEF Delivery!Postpone, Delivery!Becomes
  <1>7. CASE \/ Turns(i, {"processing"}, {"failed", "unknown"})
             \/ Turns(i, {"processing"}, {"succeeded"}) /\ ran[i] = 1
    <2>1. /\ Now = "running" /\ Then \in {"succeeded", "failed", "unknown"}
          /\ Then = "succeeded" => ran[i] = 1
          /\ ran'[i] = ran[i]
      BY <1>7 DEF Now, Then, StatusOf, Turns
    <2> QED
      BY <1>1, <2>1 DEF Delivery!Report, Delivery!Becomes
  <1>8. CASE Turns(i, {"processing"}, {"succeeded"}) /\ ran[i] = 0 /\ i \in Expiring
    <2>1. Now = "running" /\ Then = "dropped" /\ ran'[i] = ran[i]
      BY <1>8 DEF Now, Then, StatusOf, Turns
    <2> QED
      BY <1>1, <1>8, <2>1 DEF Delivery!Drop, Delivery!Becomes
  <1>9. CASE /\ state[i] \in {"processing", "unknown"} /\ state'[i] = state[i]
             /\ ran[i] = 0 /\ ran'[i] = 1
    <2>1. Now \in {"running", "unknown"} /\ Then = Now
      BY <1>9 DEF Now, Then, StatusOf
    <2> QED
      BY <1>1, <1>9, <2>1 DEF Delivery!Send, Delivery!Becomes
  <1>10. CASE state[i] \in {"failed", "unknown"} /\ state'[i] = "queued" /\ ran'[i] = 0
    <2>1. Now \in {"failed", "unknown"} /\ Then = "waiting"
      BY <1>10 DEF Now, Then, StatusOf
    <2> QED
      BY <1>1, <1>10, <2>1 DEF Delivery!Grant, Delivery!Becomes
  <1> QED
    BY <1>3, <1>4, <1>5, <1>6, <1>7, <1>8, <1>9, <1>10 DEF RowMoves

(* To its producers the queue is an EffectDelivery: the initial states map *)
(* to its initial states, and every step (of one row or of all of them, as *)
(* in a claim or a recovery) maps to a step or a rest of each intent.      *)
THEOREM QueueImplementsDelivery == Spec => ImplementsDelivery
  <1> DEFINE st == [e \in Intents |-> StatusOf(e)]
             sn == [e \in Intents |-> ran[e]]
  <1>1. Init => Delivery!Init
    BY DEF Init, Delivery!Init, StatusOf, Intents
  <1>2. ASSUME IInv, IInv', [Next]_vars PROVE Delivery!Next
    <2>1. st' \in [Intents -> Delivery!Statuses] /\ sn' \in [Intents -> Nat]
      BY <1>2 DEF Delivery!Statuses, StatusOf, IInv, TypeOK, Intents
    <2>2. \A i \in Intents : RowMoves(i)
      BY <1>2, EachRowMoves DEF Intents
    <2> QED
      BY <1>2, <2>1, <2>2, DeliveryFollows DEF Delivery!Next
  <1> QED
    BY <1>1, <1>2, Inductive, PTL DEF Spec, ImplementsDelivery, Delivery!Spec

(* SettledRowsAreRecorded for the rows that cannot be dropped as too late: *)
(* ExpiryGuard settles those without a record.                             *)
RecordsTell ==
    \A e \in Effects \ Expiring :
        /\ state[e] \in {"succeeded", "unknown"} => record[e] = state[e]
        /\ state[e] = "failed" => record[e] \in {"failed", "failed-terminal"}

(* Only the archive and the recovery settle a row, and both write its      *)
(* record in the same transaction.  A rejection, which writes none, needs  *)
(* a calibration.                                                          *)
LEMMA StepRecords ==
    ASSUME ~Calibration, IInv, RecordsTell, calib = "off", [Next]_vars
    PROVE  RecordsTell' /\ calib' = "off"
  <1> DEFINE Told(i) == /\ state[i] \in {"succeeded", "unknown"} => record[i] = state[i]
                        /\ state[i] = "failed" => record[i] \in {"failed", "failed-terminal"}
  <1>0. /\ state \in [Effects -> States] /\ record \in [Effects -> Outcomes \cup {"none"}]
        /\ expired \subseteq Expiring
        /\ \A i \in Effects \ Expiring : Told(i)
    BY DEF IInv, TypeOK, RecordsTell
  <1>1. calib' = "off"
    BY DEF Next, vars, LoopStep, TaskStep, Enqueue, BridgeEnqueue, InsertEffect, OperatorRetry,
           SkipExpired, PassExpiry, AcquireLane, AcquireOrderKey, GrantPermit, RefusePermit,
           CapabilityClosed, CapabilityProbing, Execute, CallFails, CallReturns, Archive,
           FollowUp, BecomeDue, Expire, ClaimEffects, BeginExit, ExitTimeout, Stop, Restart,
           Login, RequestCalibration, BeginCalibration, EndCalibration
  <1>2. ASSUME NEW i \in Effects \ Expiring PROVE Told(i)'
    <2>1. Told(i)
      BY <1>0
    <2>2. ASSUME NEW e \in Effects,
                 Enqueue(e) \/ BridgeEnqueue(e) \/ OperatorRetry(e) \/ SkipExpired(e)
          PROVE  Told(i)'
      BY <1>0, <2>1, <2>2 DEF Enqueue, BridgeEnqueue, InsertEffect, OperatorRetry, SkipExpired
    <2>3. ASSUME NEW e \in Effects, Archive(e) PROVE Told(i)'
      <3>1. CASE state' = state /\ record' = record
        BY <2>1, <3>1
      <3>2. CASE /\ phase[e] = "archive"
                 /\ state' = [state EXCEPT ![e] = RowState(e, result[e])]
                 /\ record' = [record EXCEPT ![e] = result[e]]
        <4>1. CASE i = e
          <5>1. state'[i] = RowState(i, result[i]) /\ record'[i] = result[i]
            BY <1>0, <3>2, <4>1
          <5>2. result[i] \in Outcomes
            BY <3>2, <4>1 DEF IInv, ResultKnown
          <5> QED
            BY <5>1, <5>2 DEF RowState, Backoff
        <4>2. CASE i # e
          BY <1>0, <2>1, <3>2, <4>2
        <4> QED
          BY <4>1, <4>2
      <3> QED
        BY <2>3, <3>1, <3>2 DEF Archive
    <2>4. CASE ClaimEffects
      BY <1>0, <2>1, <2>4 DEF ClaimEffects
    <2>5. CASE ExitTimeout \/ Restart
      BY <1>0, <2>1, <2>5 DEF ExitTimeout, Restart, RecoverProcessing
    <2>6. ASSUME NEW e \in Effects,
                 \/ PassExpiry(e) \/ AcquireLane(e) \/ AcquireOrderKey(e) \/ GrantPermit(e)
                 \/ RefusePermit(e)
                 \/ CapabilityClosed(e) \/ CapabilityProbing(e) \/ Execute(e)
                 \/ CallFails(e) \/ CallReturns(e) \/ FollowUp(e) \/ BecomeDue(e) \/ Expire(e)
          PROVE  state' = state /\ record' = record
      BY <2>6 DEF PassExpiry, AcquireLane, AcquireOrderKey, GrantPermit, RefusePermit,
                  CapabilityClosed, CapabilityProbing, Execute, CallFails, CallReturns, FollowUp,
                  BecomeDue, Expire
    <2>7. ASSUME \/ BeginExit \/ Stop \/ RequestCalibration \/ BeginCalibration
                 \/ EndCalibration \/ UNCHANGED vars
                 \/ \E a \in Accounts \cup {NoAccount} : Login(a)
          PROVE  state' = state /\ record' = record
      BY <2>7 DEF BeginExit, Stop, RequestCalibration, BeginCalibration, EndCalibration, Login,
                  vars
    <2>8. CASE state' = state /\ record' = record
      BY <2>1, <2>8
    <2> QED
      BY <2>2, <2>3, <2>4, <2>5, <2>6, <2>7, <2>8 DEF Next, LoopStep, TaskStep
  <1> QED
    BY <1>1, <1>2 DEF RecordsTell

(* In a build without the developer calibration, and for rows without an   *)
(* expires_at, no settled row lacks the action and audit record of its     *)
(* outcome (archive_effect_dispatch, recover_processing_effects,           *)
(* reject_effect_item).                                                    *)
THEOREM RecordsAreTrue ==
    ASSUME ~Calibration, Expiring = {}
    PROVE  Spec => []SettledRowsAreRecorded
  <1> DEFINE RInv == RecordsTell /\ calib = "off"
  <1>1. Init => RInv
    BY DEF Init, RecordsTell
  <1>2. IInv /\ RInv /\ [Next]_vars => RInv'
    BY StepRecords
  <1>3. RInv => SettledRowsAreRecorded
    BY DEF RecordsTell, SettledRowsAreRecorded
  <1> QED
    BY <1>1, <1>2, <1>3, Inductive, PTL DEF Spec
=============================================================================
