--------------------------- MODULE GroupSchedules ---------------------------
(***************************************************************************)
(* The daily plans that mute and unmute a group: schedule_loop with the    *)
(* decision of scheduler::evaluate_utc, the run table that keeps a plan    *)
(* from acting twice on one boundary, and the group_mute effects it hands  *)
(* to the effect queue.  Time passes in steps of which DayLength make a    *)
(* day; a run is named by plan, day and action, as the run key of the code.*)
(***************************************************************************)
EXTENDS Integers, FiniteSets

CONSTANTS
    Schedules,   \* ids of the plans
    GroupOf,     \* the group a plan is bound to
    Groups,
    Windows,     \* records [open, close] a plan may have
    DayLength,   \* length of a day
    Horizon,     \* the clock stops here
    MaxAttempts, \* 5
    MaxEdits,    \* bound on the edits of a behaviour
    FaultSets    \* sets of faults, one of which a behaviour may meet

ASSUME ClockAssumption ==
    DayLength \in Nat \ {0} /\ Horizon \in Nat /\ DayLength <= Horizon
(* evaluate_utc refuses a plan that opens and closes at the same time.     *)
ASSUME WindowsAssumption ==
    /\ Windows \subseteq [open : 0..(DayLength - 1), close : 0..(DayLength - 1)]
    /\ \A w \in Windows : w.open # w.close
ASSUME PlansAssumption == GroupOf \in [Schedules -> Groups] /\ MaxAttempts \in Nat \ {0}

VARIABLES
    faults,      \* the faults that may happen: "crash", "db", "refused", "edit",
                 \* and "slow" if the clock does not wait for loop and queue
    now,
    plan,        \* group_schedules: [open, close, enabled], or Deleted
    edits,       \* edits so far
    run,         \* schedule_runs: [state, attempts]
    up,          \* the process is running
    batch,       \* plans the pass of the loop has still to visit, as it has read them
    place,       \* where the loop is with a run
    muted,       \* groups whose members may not speak
    payload,     \* the `muted' of the effect of a run
    status, sent, told

vars == <<faults, now, plan, edits, run, up, batch, place, muted, payload, status, sent, told>>

Actions == {"open", "close"}
Days    == 0..(Horizon \div DayLength)
Keys    == Schedules \X Days \X Actions

Queue == INSTANCE EffectClient

Deleted == [open |-> 0, close |-> 0, enabled |-> FALSE]
Plan(w, enabled) == [open |-> w.open, close |-> w.close, enabled |-> enabled]

(* "claimed" is success 0 with next_retry_at NULL; "wait" and "due" are    *)
(* next_retry_at before and after it has passed.                           *)
RunStates == {"none", "claimed", "wait", "due", "done"}

Idle == [at |-> "idle"]
At(where, k, mute) == [at |-> where, key |-> k, mute |-> mute]

-----------------------------------------------------------------------------
(* scheduler::evaluate_utc.                                                *)

Boundaries(p, t) ==
    {[at |-> d * DayLength + p[a], day |-> d, action |-> a] :
        d \in {(t \div DayLength) + i : i \in {-1, 0, 1}}, a \in Actions}

(* Slip: a boundary counts from the step after it.                         *)
LastBoundaryStrict(p, t) ==
    CHOOSE b \in Boundaries(p, t) : /\ b.at < t
                                    /\ \A c \in Boundaries(p, t) : c.at < t => c.at <= b.at

LastBoundary(p, t) ==
    CHOOSE b \in Boundaries(p, t) : /\ b.at <= t
                                    /\ \A c \in Boundaries(p, t) : c.at <= t => c.at <= b.at

ShouldMute(p, t) ==
    LET current == t % DayLength
    IN  IF p.open < p.close THEN current < p.open \/ current >= p.close
                            ELSE current >= p.close /\ current < p.open

RunKey(s, p, t) == <<s, LastBoundary(p, t).day, LastBoundary(p, t).action>>

-----------------------------------------------------------------------------
Init ==
    /\ faults \in FaultSets
    /\ now = DayLength
    /\ plan \in [Schedules -> {Plan(w, TRUE) : w \in Windows}]
    /\ edits = 0
    /\ run = [k \in Keys |-> [state |-> "none", attempts |-> 0]]
    /\ up = TRUE
    /\ batch = {} /\ place = Idle
    /\ muted = {}
    /\ payload = [k \in Keys |-> FALSE]
    /\ Queue!Empty

(* One pass over the plans of the account.                                 *)
BeginPass ==
    /\ up /\ batch = {} /\ place = Idle
    /\ batch' = {<<s, plan[s]>> : s \in {s \in Schedules : plan[s].enabled}}
    /\ UNCHANGED <<faults, now, plan, edits, run, up, place, muted, payload, status, sent, told>>

Decide(s) ==
    /\ up /\ place = Idle
    /\ \E b \in batch :
          /\ b[1] = s
          /\ batch' = batch \ {b}
          /\ place' = At("decided", RunKey(s, b[2], now), ShouldMute(b[2], now))
    /\ UNCHANGED <<faults, now, plan, edits, run, up, muted, payload, status, sent, told>>

(* Slip: the retry time of an earlier claim is not asked for.              *)
MayClaimAgain(k) == run[k].state # "done" /\ run[k].attempts < MaxAttempts

(* Slip: the attempts are not counted.                                     *)
MayClaimUncounted(k) == run[k].state = "due"

MayClaim(k) == run[k].state = "due" /\ run[k].attempts < MaxAttempts

(* claim_schedule_run.  The row of a deleted plan cannot be inserted.      *)
Claim(k) ==
    /\ up /\ place.at = "decided" /\ place.key = k
    /\ \/ /\ plan[k[1]] # Deleted
          /\ run[k].state = "none" \/ MayClaim(k)
          /\ run' = [run EXCEPT ![k] = [state |-> "claimed", attempts |-> @.attempts + 1]]
          /\ place' = [place EXCEPT !.at = "claimed"]
       \/ /\ ~(plan[k[1]] # Deleted /\ (run[k].state = "none" \/ MayClaim(k)))
             \/ "db" \in faults
          /\ place' = Idle /\ UNCHANGED run
    /\ UNCHANGED <<faults, now, plan, edits, up, batch, muted, payload, status, sent, told>>

(* The account manages the group: the effect is enqueued under the run key.*)
Enqueue(k) ==
    /\ up /\ place.at = "claimed" /\ place.key = k
    /\ Queue!Insert(k)
    /\ payload' = [payload EXCEPT ![k] = IF status[k] = "absent" THEN place.mute ELSE @]
    /\ place' = Idle
    /\ UNCHANGED <<faults, now, plan, edits, run, up, batch, muted>>

(* Slip: a run that is told about an uncertain effect is retried.          *)
MarkUnknownForRetry(k) == run' = [run EXCEPT ![k].state = IF @ = "none" THEN @ ELSE "wait"]

(* mark_schedule_run_unknown.                                              *)
MarkUnknown(k) ==
    run' = [run EXCEPT ![k] = IF @.state = "none" THEN @
                              ELSE [state |-> "claimed", attempts |-> MaxAttempts]]

(* finish_schedule_run; the row may have gone with its plan.               *)
Finish(k, success) ==
    run' = [run EXCEPT ![k].state = IF @ = "none" THEN @ ELSE IF success THEN "done" ELSE "wait"]

(* The account does not manage the group, the capability is closed, or the *)
(* effect could not be inserted.                                           *)
Refuse(k) ==
    /\ up /\ place.at = "claimed" /\ place.key = k
    /\ {"refused", "db"} \cap faults # {}
    /\ Finish(k, FALSE) \/ ("db" \in faults /\ UNCHANGED run)
    /\ place' = Idle
    /\ UNCHANGED <<faults, now, plan, edits, up, batch, muted, payload, status, sent, told>>

RetryDue(k) ==
    /\ run[k].state = "wait"
    /\ run' = [run EXCEPT ![k].state = "due"]
    /\ UNCHANGED <<faults, now, plan, edits, up, batch, place, muted, payload, status, sent, told>>

-----------------------------------------------------------------------------
(* The effect queue.                                                       *)

ScheduleVars == <<faults, now, plan, edits, up, batch, place>>

QueueStart(k) ==
    /\ up
    /\ Queue!Start(k) \/ Queue!Postpone(k)
    /\ UNCHANGED <<ScheduleVars, run, muted, payload>>

QueueReport(k) ==
    /\ up
    /\ Queue!Report(k)
    /\ UNCHANGED <<ScheduleVars, run, muted, payload>>

(* set_group_mute.                                                         *)
Mute(k) ==
    /\ Queue!Perform(k)
    /\ muted' = IF payload[k] THEN muted \cup {GroupOf[k[1]]} ELSE muted \ {GroupOf[k[1]]}
    /\ UNCHANGED <<ScheduleVars, run, payload>>

(* complete_effect_dispatch tells the run; the job may fail.               *)
TellRun(k) ==
    /\ up
    /\ Queue!Tell(k)
    /\ \/ told[k] = "unknown" /\ MarkUnknown(k)
       \/ told[k] # "unknown" /\ Finish(k, told[k] = "succeeded")
       \/ "db" \in faults /\ UNCHANGED run
    /\ UNCHANGED <<ScheduleVars, muted, payload>>

-----------------------------------------------------------------------------
(* Surroundings.                                                           *)

Tick ==
    /\ now < Horizon
    /\ \/ "slow" \in faults
       \/ place = Idle /\ \A k \in Keys : status[k] \notin {"waiting", "running"}
    /\ now' = now + 1
    /\ UNCHANGED <<faults, plan, edits, run, up, batch, place, muted, payload, status, sent, told>>

(* save_schedule.                                                          *)
Edit(s) ==
    /\ "edit" \in faults /\ up /\ plan[s] # Deleted
    /\ edits < MaxEdits /\ edits' = edits + 1
    /\ \E w \in Windows, enabled \in BOOLEAN : plan' = [plan EXCEPT ![s] = Plan(w, enabled)]
    /\ plan' # plan
    /\ UNCHANGED <<faults, now, run, up, batch, place, muted, payload, status, sent, told>>

(* delete_schedule: the runs go with the plan, the effects stay.           *)
Delete(s) ==
    /\ "edit" \in faults /\ up /\ plan[s] # Deleted
    /\ edits < MaxEdits /\ edits' = edits + 1
    /\ plan' = [plan EXCEPT ![s] = Deleted]
    /\ run' = [k \in Keys |-> IF k[1] = s THEN [state |-> "none", attempts |-> 0] ELSE run[k]]
    /\ UNCHANGED <<faults, now, up, batch, place, muted, payload, status, sent, told>>

Crash ==
    /\ "crash" \in faults /\ up
    /\ up' = FALSE
    /\ batch' = {} /\ place' = Idle
    /\ Queue!Forget
    /\ UNCHANGED <<faults, now, plan, edits, run, muted, payload>>

Restart ==
    /\ ~up /\ up' = TRUE
    /\ Queue!Recover
    /\ UNCHANGED <<faults, now, plan, edits, run, batch, place, muted, payload>>

RunStep(k) == Claim(k) \/ Enqueue(k) \/ Refuse(k)

Next ==
    \/ BeginPass \/ Tick \/ Crash \/ Restart
    \/ \E s \in Schedules : Decide(s) \/ Edit(s) \/ Delete(s)
    \/ \E k \in Keys : RunStep(k) \/ RetryDue(k) \/ QueueStart(k) \/ QueueReport(k)
                      \/ Mute(k) \/ TellRun(k)

Spec == Init /\ [][Next]_vars

(* The loop wakes at least every 30 seconds, the queue goes on while the   *)
(* process runs, time passes, and somebody starts the program again.       *)
Fairness ==
    /\ WF_vars(BeginPass) /\ WF_vars(Tick) /\ WF_vars(Restart)
    /\ \A s \in Schedules : WF_vars(Decide(s))
    /\ \A k \in Keys : WF_vars(RunStep(k)) /\ WF_vars(Mute(k))
                       /\ WF_vars(QueueStart(k)) /\ SF_vars(QueueReport(k))

FairSpec == Spec /\ Fairness

-----------------------------------------------------------------------------
Plans == [open : 0..(DayLength - 1), close : 0..(DayLength - 1), enabled : BOOLEAN]

TypeOK ==
    /\ faults \in FaultSets
    /\ now \in DayLength..Horizon
    /\ plan \in [Schedules -> Plans]
    /\ run \in [Keys -> [state : RunStates, attempts : 0..MaxAttempts]]
    /\ up \in BOOLEAN
    /\ batch \subseteq Schedules \X Plans
    /\ place = Idle \/ place \in [at : {"decided", "claimed"}, key : Keys, mute : BOOLEAN]
    /\ muted \subseteq Groups
    /\ payload \in [Keys -> BOOLEAN]
    /\ status \in [Keys -> {"absent", "waiting", "running"} \cup Queue!Outcomes]
    /\ sent \in [Keys -> 0..1]
    /\ told \in [Keys -> Queue!Outcomes \cup {"none"}]

(* A run that is marked as done has muted or unmuted its group, and an     *)
(* effect does to the group what the boundary it is keyed by says: the two *)
(* decisions of evaluate_utc, the window and the last boundary, never part *)
(* (schedule_loop, complete_effect_dispatch).                              *)
RunsTellTheTruth ==
    \A k \in Keys : /\ run[k].state = "done" => sent[k] = 1
                    /\ status[k] # "absent" => payload[k] = (k[3] = "close")

(* A boundary is not acted on again while the effect it has caused may     *)
(* still run or may already have run (claim_schedule_run).                 *)
NoBoundaryActsTwice ==
    [][place.at = "decided" /\ place'.at = "claimed" =>
           status[place.key] \in {"absent", "failed"}]_vars

(* A boundary is acted on once, as its key says, and its run tells what     *)
(* became of it.                                                            *)
BoundariesActOnce == [][RunsTellTheTruth']_vars /\ NoBoundaryActsTwice

(* If nothing fails and nobody edits, the group ends up as its plan says.  *)
Smooth == up /\ \A k \in Keys : status[k] \notin {"failed", "unknown"}
InStep == \A s \in Schedules :
    plan[s].enabled => (GroupOf[s] \in muted <=> ShouldMute(plan[s], now))

GroupFollowsSchedule == faults = {} => ([]Smooth => <>[]InStep)

(* The manual (docs/DH...md, "group schedules"): after a restart the       *)
(* current period is made up for.                                          *)
RestartCatchesUp == <>[](up /\ now = Horizon) => <>[](Smooth => InStep)
=============================================================================
