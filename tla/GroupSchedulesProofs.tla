------------------------ MODULE GroupSchedulesProofs ------------------------
(***************************************************************************)
(* Safety of GroupSchedules for any plans, groups, length of the day,      *)
(* clock and faults, and of DailySummaries for any groups and faults.      *)
(***************************************************************************)
EXTENDS MCPlannedWork, TLAPS

(* The arithmetic of the plans.                                            *)

(* The day and the time of day of a moment.                                *)
LEMMA Division ==
  ASSUME NEW t \in Nat, NEW D \in Nat, D > 0
  PROVE  /\ t \div D \in Nat
         /\ t % D \in Nat /\ t % D < D
         /\ t = (t \div D) * D + (t % D)
  OBVIOUS

(* The days before and after, spelled out for the solver.                  *)
LEMMA Neighbours ==
  ASSUME NEW q \in Int, NEW D \in Nat
  PROVE  /\ q * D \in Int
         /\ (q + (-1)) * D = q * D - D
         /\ (q + 0) * D = q * D
         /\ (q + 1) * D = q * D + D
  OBVIOUS

(* A later moment is not on an earlier day.                                *)
LEMMA LaterDay ==
  ASSUME NEW t \in Nat, NEW u \in Nat, NEW D \in Nat, D > 0, t <= u
  PROVE  t \div D <= u \div D
  OBVIOUS

(* The clock of the model, as numbers.                                     *)
LEMMA DayNumbers ==
  /\ DayLength \in Nat /\ DayLength > 0 /\ Horizon \in Nat /\ DayLength <= Horizon
  BY ClockAssumption

(* The two decisions of evaluate_utc never part: the time of day lies in   *)
(* the closed window exactly if the last of the six boundaries is a        *)
(* closing one, whether the window spans midnight or not; and that         *)
(* boundary is one of yesterday or today.                                  *)
THEOREM TwoDecisionsAgree ==
  ASSUME NEW p \in Plans, p.open # p.close, NEW t \in DayLength..Horizon
  PROVE  LET b == LastBoundary(p, t)
         IN  /\ b.action \in Actions /\ b.day \in Days
             /\ b.action = "close" <=> ShouldMute(p, t)
  <1> DEFINE q == t \div DayLength
             c == t % DayLength
             m == q * DayLength
             b == LastBoundary(p, t)
             B == Boundaries(p, t)
             o == p.open
             k == p.close
  <1> SUFFICES /\ b.action \in Actions /\ b.day \in Days
               /\ b.action = "close" <=> ShouldMute(p, t)
    OBVIOUS
  <1>1. /\ t \in Nat /\ q \in Nat /\ c \in Nat /\ c < DayLength /\ t = m + c
        /\ m \in Int /\ (q + (-1)) * DayLength = m - DayLength
        /\ (q + 0) * DayLength = m /\ (q + 1) * DayLength = m + DayLength
    <2>1. t \in Nat
      BY DayNumbers
    <2>2. q \in Nat /\ c \in Nat /\ c < DayLength /\ t = m + c
      BY <2>1, Division, DayNumbers
    <2>3. q \in Int
      BY <2>2
    <2> QED
      BY <2>1, <2>2, <2>3, Neighbours, DayNumbers
  <1>2. /\ o \in Nat /\ k \in Nat /\ o < DayLength /\ k < DayLength /\ o # k
        /\ p["open"] = o /\ p["close"] = k
    BY DayNumbers DEF Plans
  <1> HIDE DEF o, k
  <1>3. \A x : x \in B <=> \E i \in {-1, 0, 1}, a \in Actions :
                              x = [at |-> (q + i) * DayLength + p[a], day |-> q + i, action |-> a]
    BY DEF Boundaries
  <1> HIDE DEF q, c
  <1>4. \A x \in B : /\ x.at \in Int /\ x.action \in Actions
                     /\ \/ x.day = q - 1 /\ x.at = m - DayLength + p[x.action]
                        \/ x.day = q /\ x.at = m + p[x.action]
                        \/ x.day = q + 1 /\ x.at = m + DayLength + p[x.action]
    <2> TAKE x \in B
    <2>1. PICK i \in {-1, 0, 1}, a \in Actions :
             x = [at |-> (q + i) * DayLength + p[a], day |-> q + i, action |-> a]
      BY <1>3
    <2>2. x.action = a /\ x.day = q + i /\ x.at = (q + i) * DayLength + p[a] /\ p[a] \in Nat
      BY <2>1, <1>2 DEF Actions
    <2> QED
      BY <1>1, <2>2, DayNumbers
  <1>5. \A a \in Actions :
           /\ [at |-> m - DayLength + p[a], day |-> q + (-1), action |-> a] \in B
           /\ [at |-> m + p[a], day |-> q + 0, action |-> a] \in B
    BY <1>1, <1>3
  <1> HIDE DEF B, m
  <1>6. /\ \A a \in Actions : p[a] \in Nat /\ p[a] < DayLength
        /\ p["open"] # p["close"]
    BY <1>2 DEF Actions
  <1>7. ASSUME NEW x \in B, x.at <= t, \A y \in B : y.at <= t => y.at <= x.at
        PROVE  b.action = x.action /\ b.day = x.day
    <2>1. b \in B /\ b.at <= t /\ \A y \in B : y.at <= t => y.at <= b.at
      BY <1>7 DEF LastBoundary, B
    <2>2. b.at = x.at
      BY <1>4, <1>7, <2>1
    <2> QED
      BY <1>1, <1>4, <1>6, <1>7, <2>1, <2>2, DayNumbers DEF Actions
  <1>8. ShouldMute(p, t) <=> IF o < k THEN c < o \/ c >= k ELSE c >= k /\ c < o
    BY <1>2 DEF ShouldMute, c
  <1>9. q \in Days /\ (q - 1) \in Days
    <2>1. q <= Horizon \div DayLength
      BY <1>1, DayNumbers, LaterDay DEF q
    <2>2. Horizon \div DayLength \in Nat
      BY DayNumbers
    <2>3. q >= 1
      BY <1>1, DayNumbers DEF m
    <2> QED
      BY <1>1, <2>1, <2>2, <2>3 DEF Days
  <1>10. CASE c < o /\ c < k
    <2> DEFINE a == IF o < k THEN "close" ELSE "open"
               x == [at |-> m - DayLength + p[a], day |-> q + (-1), action |-> a]
    <2>1. x \in B /\ a \in Actions
      BY <1>5 DEF Actions
    <2>2. x.at <= t /\ \A y \in B : y.at <= t => y.at <= x.at
      BY <1>1, <1>2, <1>4, <1>10, DayNumbers DEF Actions
    <2>3. b.action = a /\ b.day = q - 1
      BY <1>1, <1>7, <2>1, <2>2
    <2> QED
      BY <1>1, <1>2, <1>8, <1>9, <1>10, <2>1, <2>3
  <1>11. CASE o <= c /\ (c < k \/ k < o)
    <2> DEFINE x == [at |-> m + p["open"], day |-> q + 0, action |-> "open"]
    <2>1. x \in B
      BY <1>5 DEF Actions
    <2>2. x.at <= t /\ \A y \in B : y.at <= t => y.at <= x.at
      BY <1>1, <1>2, <1>4, <1>11, DayNumbers DEF Actions
    <2>3. b.action = "open" /\ b.day = q
      BY <1>1, <1>7, <2>1, <2>2
    <2> QED
      BY <1>1, <1>2, <1>8, <1>9, <1>11, <2>3 DEF Actions
  <1>12. CASE k <= c /\ (c < o \/ o < k)
    <2> DEFINE x == [at |-> m + p["close"], day |-> q + 0, action |-> "close"]
    <2>1. x \in B
      BY <1>5 DEF Actions
    <2>2. x.at <= t /\ \A y \in B : y.at <= t => y.at <= x.at
      BY <1>1, <1>2, <1>4, <1>12, DayNumbers DEF Actions
    <2>3. b.action = "close" /\ b.day = q
      BY <1>1, <1>7, <2>1, <2>2
    <2> QED
      BY <1>1, <1>2, <1>8, <1>9, <1>12, <2>3 DEF Actions
  <1> QED
    BY <1>1, <1>2, <1>10, <1>11, <1>12

-----------------------------------------------------------------------------
(* What makes the safety properties inductive.                             *)

(* A plan that is not deleted has two different times, and so has every    *)
(* plan the pass has read, be it edited or deleted since.                  *)
PlansAreValid == \A s \in Schedules : plan[s] = Deleted \/ plan[s].open # plan[s].close

BatchIsValid == \A b \in batch : b[2].open # b[2].close

(* What the loop is about to ask for is what the boundary in the key says. *)
DecisionsAgree ==
    place # Idle => place.mute = (place.key[3] = "close")

(* An outcome that is about to be told is the one the queue has settled    *)
(* on.                                                                     *)
ToldIsSettled == \A k \in Keys : told[k] # "none" => told[k] = status[k]

(* The queue reports a success only after an execution.                    *)
SuccessWasSent == \A k \in Keys : status[k] = "succeeded" => sent[k] = 1

(* No effect of the run may still act or has acted.                        *)
Untried(k) == status[k] \in {"absent", "failed"}

(* A run that may be claimed again has no such effect.                     *)
RetriesAreFree == \A k \in Keys : run[k].state \in {"wait", "due"} => Untried(k)

(* A run without a row has no effect unless its plan, and with it the row, *)
(* was deleted; and then it cannot be claimed.                             *)
NewRunsAreFree ==
    \A k \in Keys : run[k].state = "none" =>
        /\ run[k].attempts = 0
        /\ plan[k[1]] # Deleted => status[k] = "absent"

(* The run the loop has claimed has no such effect until the loop itself   *)
(* enqueues it, whatever an edit, a deletion or a late outcome does        *)
(* meanwhile.                                                              *)
ClaimIsFree ==
    \A k \in Keys : place # Idle /\ place.at = "claimed" /\ place.key = k =>
        /\ Untried(k)
        /\ status[k] = "absent" => run[k].state \in {"none", "claimed"}
        /\ plan[k[1]] # Deleted => run[k].state # "none"

PlanInv == PlansAreValid /\ BatchIsValid /\ DecisionsAgree

RunInv ==
    /\ ToldIsSettled
    /\ SuccessWasSent
    /\ RetriesAreFree
    /\ NewRunsAreFree
    /\ ClaimIsFree
    /\ RunsTellTheTruth

IInv == TypeOK /\ PlanInv /\ RunInv

-----------------------------------------------------------------------------
USE PlansAssumption
USE DEF Queue!Outcomes, RunStates

(* A saved plan has the times of its window.                               *)
LEMMA PlansArePlans ==
  ASSUME NEW w \in Windows, NEW on \in BOOLEAN
  PROVE  Plan(w, on) \in Plans /\ Plan(w, on).open # Plan(w, on).close /\ Plan(w, on).enabled = on
  <1>1. w \in [open : 0..(DayLength - 1), close : 0..(DayLength - 1)] /\ w.open # w.close
    BY WindowsAssumption
  <1> QED
    BY <1>1 DEF Plan, Plans

(* The mark of a deleted plan is a disabled plan.                          *)
LEMMA DeletedIsPlan == Deleted \in Plans /\ Deleted.enabled = FALSE
  BY DayNumbers DEF Deleted, Plans

(* The start.                                                              *)
LEMMA InitInv == Init => IInv
  <1> SUFFICES ASSUME Init PROVE IInv
    OBVIOUS
  <1> USE DEF Init, Queue!Empty
  <1>1. now \in DayLength..Horizon
    BY DayNumbers
  <1>2. /\ run \in [Keys -> [state : RunStates, attempts : 0..MaxAttempts]]
        /\ place = Idle
    OBVIOUS
  <1>3. plan \in [Schedules -> Plans] /\ PlansAreValid
    <2>1. ASSUME NEW s \in Schedules PROVE plan[s] \in Plans /\ plan[s].open # plan[s].close
      <3>1. PICK w \in Windows : plan[s] = Plan(w, TRUE)
        OBVIOUS
      <3>2. TRUE \in BOOLEAN
        OBVIOUS
      <3> QED
        BY <3>1, <3>2, PlansArePlans, Zenon
    <2> QED
      BY <2>1 DEF PlansAreValid
  <1>4. TypeOK
    BY <1>1, <1>2, <1>3 DEF TypeOK
  <1>5. PlanInv /\ RunInv
    BY <1>3 DEF PlanInv, BatchIsValid, DecisionsAgree, RunInv, ToldIsSettled, SuccessWasSent,
           RetriesAreFree, NewRunsAreFree, ClaimIsFree, RunsTellTheTruth, Untried
  <1> QED
    BY <1>4, <1>5 DEF IInv


(* A run key begins with its plan.                                         *)
LEMMA KeyParts == \A k \in Keys : k[1] \in Schedules
  BY DEF Keys

(* Every step keeps the types, the validity of plans and the decisions.    *)
LEMMA TypeStep == TypeOK /\ PlanInv /\ NewRunsAreFree /\ [Next]_vars => TypeOK' /\ PlanInv'
  <1> SUFFICES ASSUME TypeOK, PlanInv, NewRunsAreFree, [Next]_vars PROVE TypeOK' /\ PlanInv'
    OBVIOUS
  <1> USE DEF TypeOK, PlanInv, PlansAreValid, BatchIsValid, DecisionsAgree
  <1>1. CASE BeginPass
    BY <1>1, DeletedIsPlan DEF BeginPass
  <1>2. CASE Tick
    BY <1>2, DayNumbers DEF Tick
  <1>3. CASE Crash
    BY <1>3 DEF Crash, Queue!Forget
  <1>4. CASE Restart
    BY <1>4 DEF Restart, Queue!Recover
  <1>5. ASSUME NEW s \in Schedules, Decide(s) PROVE TypeOK' /\ PlanInv'
    <2>1. PICK b \in batch :
             /\ b[1] = s /\ batch' = batch \ {b}
             /\ place' = At("decided", RunKey(s, b[2], now), ShouldMute(b[2], now))
      BY <1>5 DEF Decide
    <2> DEFINE l == LastBoundary(b[2], now)
    <2>2. l.action \in Actions /\ l.day \in Days /\ (l.action = "close" <=> ShouldMute(b[2], now))
      BY TwoDecisionsAgree
    <2>3. ShouldMute(b[2], now) \in BOOLEAN
      BY DEF ShouldMute
    <2>4. RunKey(s, b[2], now) \in Keys /\ RunKey(s, b[2], now)[3] = l.action
      BY <2>2 DEF RunKey, Keys
    <2>5. place' # Idle
      BY <2>1 DEF At, Idle
    <2>6. /\ place' \in [at : {"decided", "claimed"}, key : Keys, mute : BOOLEAN]
          /\ place'.key[3] = l.action /\ place'.mute = ShouldMute(b[2], now)
      BY <2>1, <2>3, <2>4 DEF At
    <2>7. DecisionsAgree'
      BY <2>2, <2>6
    <2> QED
      BY <1>5, <2>1, <2>6, <2>7 DEF Decide
  <1>6. ASSUME NEW s \in Schedules, Edit(s) PROVE TypeOK' /\ PlanInv'
    <2>1. PICK w \in Windows, on \in BOOLEAN : plan' = [plan EXCEPT ![s] = Plan(w, on)]
      BY <1>6 DEF Edit
    <2>2. (plan \in [Schedules -> Plans])' /\ PlansAreValid'
      BY <2>1, PlansArePlans
    <2> QED
      BY <1>6, <2>2 DEF Edit
  <1>7. ASSUME NEW s \in Schedules, Delete(s) PROVE TypeOK' /\ PlanInv'
    BY <1>7, DeletedIsPlan DEF Delete
  <1>8. ASSUME NEW k \in Keys, Claim(k) PROVE TypeOK' /\ PlanInv'
    <2>1. CASE UNCHANGED run
      BY <1>8, <2>1 DEF Claim, Idle
    <2>2. CASE /\ run[k].state = "none" \/ MayClaim(k)
               /\ run' = [run EXCEPT ![k] = [state |-> "claimed", attempts |-> @.attempts + 1]]
               /\ place' = [place EXCEPT !.at = "claimed"]
      <3>1. run[k].attempts \in 0..MaxAttempts /\ run[k].attempts < MaxAttempts
        BY <2>2 DEF MayClaim, NewRunsAreFree
      <3>2. (run \in [Keys -> [state : RunStates, attempts : 0..MaxAttempts]])'
        BY <2>2, <3>1
      <3>3. place # Idle /\ place' # Idle
        BY <1>8, <2>2 DEF Claim, Idle
      <3>4. place' \in [at : {"decided", "claimed"}, key : Keys, mute : BOOLEAN] /\ DecisionsAgree'
        BY <2>2, <3>3
      <3> QED
        BY <1>8, <3>2, <3>4 DEF Claim
    <2> QED
      BY <1>8, <2>1, <2>2 DEF Claim
  <1>9. ASSUME NEW k \in Keys, Enqueue(k) PROVE TypeOK' /\ PlanInv'
    BY <1>9 DEF Enqueue, Queue!Insert, Idle
  <1>10. ASSUME NEW k \in Keys, Refuse(k) PROVE TypeOK' /\ PlanInv'
    BY <1>10 DEF Refuse, Finish, Idle
  <1>11. ASSUME NEW k \in Keys, RetryDue(k) PROVE TypeOK' /\ PlanInv'
    BY <1>11 DEF RetryDue
  <1>12. ASSUME NEW k \in Keys, QueueStart(k) PROVE TypeOK' /\ PlanInv'
    BY <1>12 DEF QueueStart, ScheduleVars, Queue!Start, Queue!Postpone
  <1>13. ASSUME NEW k \in Keys, QueueReport(k) PROVE TypeOK' /\ PlanInv'
    <2>1. PICK r \in Queue!Outcomes :
             /\ status' = [status EXCEPT ![k] = r]
             /\ told' = [told EXCEPT ![k] = r] \/ told' = told
      BY <1>13 DEF QueueReport, Queue!Report
    <2>2. /\ (status \in [Keys -> {"absent", "waiting", "running"} \cup Queue!Outcomes])'
          /\ (told \in [Keys -> Queue!Outcomes \cup {"none"}])'
      BY <2>1
    <2> QED
      BY <1>13, <2>2 DEF QueueReport, ScheduleVars, Queue!Report
  <1>14. ASSUME NEW k \in Keys, Mute(k) PROVE TypeOK' /\ PlanInv'
    <2>1. GroupOf[k[1]] \in Groups
      BY KeyParts
    <2> QED
      BY <1>14, <2>1 DEF Mute, ScheduleVars, Queue!Perform
  <1>15. ASSUME NEW k \in Keys, TellRun(k) PROVE TypeOK' /\ PlanInv'
    <2>1. (run \in [Keys -> [state : RunStates, attempts : 0..MaxAttempts]])'
      <3>1. CASE MarkUnknown(k)
        BY <3>1 DEF MarkUnknown
      <3>2. CASE \E success \in BOOLEAN : Finish(k, success)
        BY <3>2 DEF Finish
      <3>3. CASE UNCHANGED run
        BY <3>3
      <3>4. (told[k] = "succeeded") \in BOOLEAN
        OBVIOUS
      <3> QED
        BY <1>15, <3>1, <3>2, <3>3, <3>4, Zenon DEF TellRun
    <2> QED
      BY <1>15, <2>1 DEF TellRun, ScheduleVars, Queue!Tell
  <1>16. CASE UNCHANGED vars
    BY <1>16 DEF vars
  <1> QED
    BY <1>1, <1>2, <1>3, <1>4, <1>5, <1>6, <1>7, <1>8, <1>9, <1>10, <1>11, <1>12, <1>13, <1>14,
       <1>15, <1>16 DEF Next, RunStep

(* Every step keeps runs and effects in agreement.                         *)
LEMMA RunsStep == IInv /\ [Next]_vars => RunInv'
  <1> SUFFICES ASSUME IInv, [Next]_vars PROVE RunInv'
    OBVIOUS
  <1> USE DEF RunInv, ToldIsSettled, SuccessWasSent, RetriesAreFree, NewRunsAreFree, ClaimIsFree,
              RunsTellTheTruth, Untried
  <1>0. TypeOK /\ DecisionsAgree /\ RunInv
    BY DEF IInv, PlanInv
  <1> USE <1>0 DEF TypeOK
  <1>1. CASE BeginPass \/ Tick
    BY <1>1 DEF BeginPass, Tick
  <1>3. CASE Crash
    BY <1>3 DEF Crash, Queue!Forget
  <1>4. CASE Restart
    BY <1>4 DEF Restart, Queue!Recover
  <1>5. ASSUME NEW s \in Schedules, Decide(s) PROVE RunInv'
    BY <1>5 DEF Decide, At
  <1>6. ASSUME NEW s \in Schedules, Edit(s) PROVE RunInv'
    BY <1>6 DEF Edit
  <1>7. ASSUME NEW s \in Schedules, Delete(s) PROVE RunInv'
    BY <1>7 DEF Delete
  <1>8. ASSUME NEW k \in Keys, Claim(k) PROVE RunInv'
    <2>1. CASE UNCHANGED run
      BY <1>8, <2>1 DEF Claim, Idle
    <2>2. CASE /\ plan[k[1]] # Deleted
               /\ run[k].state = "none" \/ MayClaim(k)
               /\ run' = [run EXCEPT ![k] = [state |-> "claimed", attempts |-> @.attempts + 1]]
               /\ place' = [place EXCEPT !.at = "claimed"]
      <3>1. Untried(k)
        BY <2>2 DEF MayClaim
      <3>2. /\ run'[k].state = "claimed"
            /\ \A j \in Keys : j # k => run'[j] = run[j]
        BY <2>2
      <3>3. \A j \in Keys : place'.key = j => j = k
        BY <1>8, <2>2 DEF Claim, Idle
      <3>4. UNCHANGED <<plan, status, sent, told, payload>>
        BY <1>8 DEF Claim
      <3> HIDE DEF TypeOK
      <3>5. ClaimIsFree'
        BY <3>1, <3>2, <3>3, <3>4
      <3>6. RetriesAreFree' /\ NewRunsAreFree'
        BY <3>2, <3>4
      <3>7. ToldIsSettled' /\ SuccessWasSent' /\ RunsTellTheTruth'
        BY <3>2, <3>4
      <3> QED
        BY <3>5, <3>6, <3>7
    <2> QED
      BY <1>8, <2>1, <2>2 DEF Claim
  <1>9. ASSUME NEW k \in Keys, Enqueue(k) PROVE RunInv'
    BY <1>9 DEF Enqueue, Queue!Insert, Idle, DecisionsAgree
  <1>10. ASSUME NEW k \in Keys, Refuse(k) PROVE RunInv'
    <2>1. CASE UNCHANGED run
      BY <1>10, <2>1 DEF Refuse, Idle
    <2>2. CASE Finish(k, FALSE)
      <3>1. run' = [run EXCEPT ![k].state = IF @ = "none" THEN @ ELSE "wait"] /\ Untried(k)
        BY <1>10, <2>2 DEF Finish, Refuse, Idle
      <3> QED
        BY <1>10, <3>1 DEF Refuse, Idle
    <2> QED
      BY <1>10, <2>1, <2>2 DEF Refuse
  <1>11. ASSUME NEW k \in Keys, RetryDue(k) PROVE RunInv'
    BY <1>11 DEF RetryDue
  <1>12. ASSUME NEW k \in Keys, QueueStart(k) PROVE RunInv'
    BY <1>12 DEF QueueStart, ScheduleVars, Queue!Start, Queue!Postpone
  <1>13. ASSUME NEW k \in Keys, QueueReport(k) PROVE RunInv'
    BY <1>13 DEF QueueReport, ScheduleVars, Queue!Report
  <1>14. ASSUME NEW k \in Keys, Mute(k) PROVE RunInv'
    BY <1>14 DEF Mute, ScheduleVars, Queue!Perform
  <1>15. ASSUME NEW k \in Keys, TellRun(k) PROVE RunInv'
    <2>1. /\ UNCHANGED <<plan, place, payload, status, sent>>
          /\ told' = [told EXCEPT ![k] = "none"] /\ told[k] = status[k] /\ told[k] # "none"
      BY <1>15 DEF TellRun, ScheduleVars, Queue!Tell
    <2>2. CASE UNCHANGED run
      BY <2>1, <2>2
    <2>3. CASE /\ told[k] = "unknown"
               /\ run' = [run EXCEPT ![k] = IF @.state = "none" THEN @
                                 ELSE [state |-> "claimed", attempts |-> MaxAttempts]]
      BY <2>1, <2>3
    <2>4. CASE /\ told[k] = "succeeded"
               /\ run' = [run EXCEPT ![k].state = IF @ = "none" THEN @ ELSE "done"]
      BY <2>1, <2>4
    <2>5. CASE /\ told[k] = "failed"
               /\ run' = [run EXCEPT ![k].state = IF @ = "none" THEN @ ELSE "wait"]
      BY <2>1, <2>5
    <2> QED
      BY <1>15, <2>1, <2>2, <2>3, <2>4, <2>5 DEF TellRun, MarkUnknown, Finish
  <1>16. CASE UNCHANGED vars
    BY <1>16 DEF vars
  <1> QED
    BY <1>1, <1>3, <1>4, <1>5, <1>6, <1>7, <1>8, <1>9, <1>10, <1>11, <1>12, <1>13, <1>14,
       <1>15, <1>16 DEF Next, RunStep

(* The inductive invariant of the schedules.                               *)
THEOREM Inductive == Spec => []IInv
  <1>1. IInv /\ [Next]_vars => IInv'
    BY TypeStep, RunsStep DEF IInv, RunInv
  <1> QED
    BY InitInv, <1>1, PTL DEF Spec


(* Only a claim takes the loop from a decision to a claimed run, and what  *)
(* it claims is free.                                                      *)
LEMMA ClaimsAreFree ==
    ASSUME IInv, [Next]_vars, place.at = "decided", place'.at = "claimed"
    PROVE  Untried(place.key)
  <1>1. PICK k \in Keys : Claim(k)
    <2>1. place' # place /\ place' # Idle
      BY DEF Idle
    <2>2. ~BeginPass /\ ~Tick /\ ~Crash /\ ~Restart /\ ~UNCHANGED vars
      BY <2>1 DEF BeginPass, Tick, Crash, Restart, vars
    <2>3. \A s \in Schedules : ~Decide(s) /\ ~Edit(s) /\ ~Delete(s)
      BY <2>1 DEF Decide, Edit, Delete, At
    <2>4. \A k \in Keys : /\ ~Enqueue(k) /\ ~Refuse(k) /\ ~RetryDue(k) /\ ~QueueStart(k)
                          /\ ~QueueReport(k) /\ ~Mute(k) /\ ~TellRun(k)
      BY <2>1 DEF Enqueue, Refuse, RetryDue, QueueStart, QueueReport, Mute, TellRun, ScheduleVars
    <2> QED
      BY <2>2, <2>3, <2>4 DEF Next, RunStep
  <1>2. /\ place.key = k /\ plan[k[1]] # Deleted
        /\ run[k].state = "none" \/ MayClaim(k)
    BY <1>1 DEF Claim, Idle
  <1> QED
    BY <1>1, <1>2 DEF MayClaim, IInv, RunInv, NewRunsAreFree, RetriesAreFree, Untried

(* A boundary is acted on once and as its key says, and a run that is done *)
(* has muted or unmuted its group, through crashes, refusals, failing      *)
(* jobs, edits and deletions (schedule_loop, claim_schedule_run,           *)
(* finish_schedule_run).                                                   *)
THEOREM OneActPerBoundary == Spec => BoundariesActOnce
  <1>1. IInv => RunsTellTheTruth
    BY DEF IInv, RunInv
  <1>2. IInv /\ [Next]_vars =>
           [place.at = "decided" /\ place'.at = "claimed" =>
               status[place.key] \in {"absent", "failed"}]_vars
    BY ClaimsAreFree DEF Untried
  <1>3. Spec => []RunsTellTheTruth
    BY <1>1, Inductive, PTL
  <1>4. Spec => [][RunsTellTheTruth']_vars
    BY <1>3, PTL
  <1>5. Spec => NoBoundaryActsTwice
    BY <1>2, Inductive, PTL DEF Spec, NoBoundaryActsTwice
  <1> QED
    BY <1>4, <1>5, PTL DEF BoundariesActOnce

-----------------------------------------------------------------------------
(* The summaries of a day.                                                 *)

DayPlaces == [at : {"asking", "saved", "failed"}, group : SummaryGroups]

DayTypes ==
    /\ dSaved \in [SummaryGroups -> {"none", "scheduled", "manual"}]
    /\ dWrites \in [SummaryGroups -> Nat]
    /\ dBatch \subseteq SummaryGroups
    /\ dPlace = Summaries!Idle \/ dPlace \in DayPlaces
    /\ runState \in [SummaryGroups -> Summaries!Runs!RunStates]

(* What was written is there, and what the loop holds is not in its batch. *)
Traces ==
    /\ \A g \in SummaryGroups : /\ dWrites[g] > 0 => dSaved[g] # "none"
                                /\ runState[g] = "succeeded" => dSaved[g] # "none"
    /\ dPlace.at = "saved" => dSaved[dPlace.group] # "none"
    /\ dPlace # Summaries!Idle => dPlace.group \notin dBatch

(* If every list was read, a group the pass has still to visit, or whose   *)
(* summary is being written, has none of the loop; nobody has two.         *)
Unwritten ==
    "db" \notin dFaults =>
        /\ \A g \in SummaryGroups : dWrites[g] <= 1
        /\ \A g \in dBatch : dWrites[g] = 0
        /\ dPlace.at = "asking" => dWrites[dPlace.group] = 0

DayInv == DayTypes /\ Traces /\ Unwritten

LEMMA DayInit ==
  ASSUME Summaries!Init PROVE DayInv
  BY DEF Summaries!Init, Summaries!Idle, Summaries!Runs!NoRuns, Summaries!Runs!RunStates,
         DayInv, DayTypes, Traces, Unwritten

(* A pass visits the groups without a summary, unless the list failed.     *)
LEMMA DayPass ==
  ASSUME DayInv, Summaries!BeginPass PROVE DayInv'
  <1>1. /\ dPlace = Summaries!Idle /\ dPlace' = dPlace /\ dSaved' = dSaved /\ dWrites' = dWrites
        /\ dFaults' = dFaults /\ runState' = runState /\ dBatch' \subseteq SummaryGroups
        /\ "db" \notin dFaults => \A g \in dBatch' : dSaved[g] = "none"
    BY DEF Summaries!BeginPass, Summaries!runVars
  <1> QED
    BY <1>1 DEF DayInv, DayTypes, Traces, Unwritten, Summaries!Idle

LEMMA DayClaim ==
  ASSUME DayInv, NEW g \in SummaryGroups, Summaries!ClaimRun(g) PROVE DayInv'
  <1>1. /\ dPlace = Summaries!Idle /\ g \in dBatch /\ dBatch' = dBatch \ {g}
        /\ dSaved' = dSaved /\ dWrites' = dWrites /\ dFaults' = dFaults
        /\ dPlace' \in {Summaries!Idle, [at |-> "asking", group |-> g]}
        /\ runState' \in {runState, [runState EXCEPT ![g] = "processing"]}
    BY DEF Summaries!ClaimRun, Summaries!Runs!Claim, Summaries!Runs!RunsRest, Summaries!At
  <1> QED
    BY <1>1 DEF DayInv, DayTypes, Traces, Unwritten, Summaries!Idle, DayPlaces, Summaries!Runs!RunStates

LEMMA DayGenerate ==
  ASSUME DayInv, NEW g \in SummaryGroups, Summaries!Generate(g) PROVE DayInv'
  <1>1. CASE Summaries!GenerationFails(g)
    BY <1>1 DEF Summaries!GenerationFails, Summaries!At, Summaries!runVars, Summaries!Idle,
                DayInv, DayTypes, Traces, Unwritten, DayPlaces
  <1>2. CASE Summaries!SaveSummary(g)
    BY <1>2 DEF Summaries!SaveSummary, Summaries!At, Summaries!runVars, Summaries!Idle,
                DayInv, DayTypes, Traces, Unwritten, DayPlaces
  <1> QED
    BY <1>1, <1>2 DEF Summaries!Generate

(* A run is closed as succeeded after its summary only.                    *)
LEMMA DayFinish ==
  ASSUME DayInv, NEW g \in SummaryGroups, Summaries!FinishRun(g) PROVE DayInv'
  <1>1. /\ dPlace \in {[at |-> "saved", group |-> g], [at |-> "failed", group |-> g]}
        /\ dPlace' = Summaries!Idle
        /\ dBatch' = dBatch /\ dSaved' = dSaved /\ dWrites' = dWrites /\ dFaults' = dFaults
    BY DEF Summaries!FinishRun, Summaries!At
  <1>2. \/ runState' = runState
        \/ \E s \in {"succeeded", "failed", "retry"} :
              /\ runState' = [runState EXCEPT ![g] = IF @ = "processing" THEN s ELSE @]
              /\ s = "succeeded" => dPlace.at = "saved"
    BY DEF Summaries!FinishRun, Summaries!Runs!Finish, Summaries!Runs!Settle, Summaries!Runs!RunsRest
  <1>3. /\ runState' \in [SummaryGroups -> Summaries!Runs!RunStates]
        /\ \A h \in SummaryGroups : runState'[h] = "succeeded" =>
               runState[h] = "succeeded" \/ (h = g /\ dPlace.at = "saved")
    BY <1>2 DEF DayInv, DayTypes, Summaries!Runs!RunStates
  <1> QED
    BY <1>1, <1>3 DEF DayInv, DayTypes, Traces, Unwritten, Summaries!Idle

LEMMA DayAnswer ==
  ASSUME DayInv, NEW g \in SummaryGroups, Summaries!Answer(g) PROVE DayInv'
  <1>1. /\ dSaved' \in {dSaved, [dSaved EXCEPT ![g] = "manual"]}
        /\ dWrites' = dWrites /\ dFaults' = dFaults /\ runState' = runState
        /\ dBatch' = dBatch /\ dPlace' = dPlace
    BY DEF Summaries!Answer, Summaries!loopVars, Summaries!runVars
  <1>2. /\ dSaved' \in [SummaryGroups -> {"none", "scheduled", "manual"}]
        /\ \A h \in SummaryGroups : dSaved[h] # "none" => dSaved'[h] # "none"
    BY <1>1 DEF DayInv, DayTypes
  <1>3. dPlace.at = "saved" => dPlace.group \in SummaryGroups
    BY DEF DayInv, DayTypes, DayPlaces, Summaries!Idle
  <1> QED
    BY <1>1, <1>2, <1>3 DEF DayInv, DayTypes, Traces, Unwritten

(* The process ends and starts, time passes, the setting is changed.       *)
LEMMA DayOther ==
  ASSUME DayInv,
         \/ Summaries!Crash \/ Summaries!Restart \/ Summaries!TimeComes \/ Summaries!Enable
         \/ \E g \in SummaryGroups : Summaries!RetryDue(g) \/ Summaries!Ask(g)
         \/ UNCHANGED summaryVars
  PROVE  DayInv'
  <1>1. /\ dSaved' = dSaved /\ dWrites' = dWrites /\ dFaults' = dFaults
        /\ dBatch' \in {{}, dBatch} /\ dPlace' \in {Summaries!Idle, dPlace}
        /\ \/ runState' = runState
           \/ runState' = [k \in SummaryGroups |->
                              IF runState[k] = "processing" THEN "retry" ELSE runState[k]]
    BY DEF Summaries!Crash, Summaries!Restart, Summaries!TimeComes, Summaries!Enable,
           Summaries!RetryDue, Summaries!Ask, Summaries!Runs!RetryDue, Summaries!Runs!RecoverRuns,
           Summaries!loopVars, Summaries!runVars, summaryVars
  <1>2. /\ runState' \in [SummaryGroups -> Summaries!Runs!RunStates]
        /\ \A h \in SummaryGroups : runState'[h] = "succeeded" => runState[h] = "succeeded"
    BY <1>1 DEF DayInv, DayTypes, Summaries!Runs!RunStates
  <1> QED
    BY <1>1, <1>2 DEF DayInv, DayTypes, Traces, Unwritten, Summaries!Idle

(* The loop writes the summary of a group and day once, whatever crashes   *)
(* and commands come between, unless a list could not be read; and a run   *)
(* that succeeded has left a summary (summary_loop, claim_summary_run).    *)
THEOREM SummariesStaySingle == MCSpec => []OneSummaryPerDay
  <1>1. MCInit => DayInv
    BY DayInit DEF MCInit
  <1>2. DayInv /\ [MCNext]_<<focus, vars, summaryVars>> => DayInv'
    <2> SUFFICES ASSUME DayInv, [MCNext]_<<focus, vars, summaryVars>> PROVE DayInv'
      OBVIOUS
    <2>1. CASE UNCHANGED summaryVars
      BY <2>1, DayOther
    <2>2. CASE Summaries!Next
      BY <2>2, DayPass, DayClaim, DayGenerate, DayFinish, DayAnswer, DayOther DEF Summaries!Next
    <2> QED
      BY <2>1, <2>2 DEF MCNext
  <1>3. DayInv => OneSummaryPerDay
    BY DEF DayInv, Traces, Unwritten, OneSummaryPerDay, Summaries!OneSummaryPerDay
  <1> QED
    BY <1>1, <1>2, <1>3, PTL DEF MCSpec
=============================================================================
