---------------------------- MODULE ActivityRuns ----------------------------
(***************************************************************************)
(* Planned publications of an activity in its groups: the command that     *)
(* saves the activity, BackendRuntime::activity_loop with its generation,  *)
(* claim and preparation of runs, publications at once, and the follow-up  *)
(* of the effects the runs were turned into.  One activity.                *)
(***************************************************************************)
EXTENDS Naturals, FiniteSets

CONSTANTS
    Moments,    \* the moments an activity may be planned for
    Plannings,  \* the sets of moments a saved activity may name
    Groups,     \* the groups of the activity
    Tokens,     \* publications at once
    Never,      \* next_run_at is NULL
    Grace,      \* 10 minutes, after which a moment counts as missed
    ClaimLimit, \* 8 runs per round
    Horizon,    \* bound on the clock
    Faults      \* what may go wrong: "crash", "refused", "db"

ASSUME MomentAssumption ==
    /\ Moments \subseteq Nat \ {0} /\ Never \notin Nat
    /\ Plannings \subseteq SUBSET Moments
    /\ Tokens \cap Nat = {}
ASSUME LimitAssumption ==
    /\ Grace \in Nat /\ ClaimLimit \in Nat \ {0} /\ Horizon \in Nat \ {0}
ASSUME FaultAssumption == Faults \subseteq {"crash", "refused", "db"}

VARIABLES
    now,
    activity,   \* deleted, enabled, times, next (next_run_at); from: see TypeOK
    draft,      \* the activity a save command has normalised but not written
    run,        \* activity_runs: state, at (scheduled_for)
    asked,      \* publications at once that were asked for, not yet written
    up,
    online,     \* the chat client is ready and its session known
    place,      \* where activity_loop is
    batch,      \* the runs it has claimed
    status, sent, told  \* the effect queue, see EffectClient

queue == <<status, sent, told>>

vars == <<now, activity, draft, run, asked, up, online, place, batch, queue>>

Keys == (Moments \cup Tokens) \X Groups

Queue == INSTANCE EffectClient

NoActivity == [deleted |-> TRUE, enabled |-> FALSE, times |-> {},
               next |-> Never, from |-> Never]

Init ==
    /\ now = 1
    /\ activity = NoActivity /\ draft = NoActivity
    /\ run = [k \in Keys |-> [state |-> "none", at |-> 0]]
    /\ asked = {}
    /\ up = TRUE /\ online = FALSE
    /\ place = "top" /\ batch = {}
    /\ Queue!Empty

-----------------------------------------------------------------------------
(* The commands.                                                           *)

(* next_occurrence: the first planned moment after a moment.               *)
NextOccurrence(times, after) ==
    LET later == {t \in times : t > after}
    IN  IF later = {} THEN Never ELSE CHOOSE t \in later : \A u \in later : t <= u

(* normalize_activity looks for the next moment from a second ago on; the  *)
(* command then asks for the account and its permissions before it writes. *)
PrepareSave ==
    /\ up
    /\ \E enabled \in BOOLEAN, times \in Plannings :
          LET next == IF enabled THEN NextOccurrence(times, now - 1) ELSE Never
          IN  draft' = [deleted |-> FALSE, enabled |-> enabled, times |-> times,
                       next |-> next, from |-> next]
    /\ UNCHANGED <<now, activity, run, asked, up, online, place, batch, queue>>

SaveActivity ==
    /\ up /\ draft # NoActivity
    /\ activity' = draft /\ draft' = NoActivity
    /\ UNCHANGED <<now, run, asked, up, online, place, batch, queue>>

DeleteActivity ==
    /\ up /\ ~activity.deleted
    /\ activity' = [activity EXCEPT !.deleted = TRUE, !.enabled = FALSE,
                                    !.next = Never, !.from = Never]
    /\ UNCHANGED <<now, draft, run, asked, up, online, place, batch, queue>>

(* INSERT OR IGNORE of a run for every group.                              *)
InsertRuns(moment, state, at) ==
    run' = [k \in Keys |-> IF k[1] = moment /\ run[k].state = "none"
                           THEN [state |-> state, at |-> at] ELSE run[k]]

(* publish_activity_now reads the activity, asks for the permissions in    *)
(* its groups, and writes the runs under a fresh token.                    *)
AskPublish(token) ==
    /\ up /\ ~activity.deleted
    /\ token \notin asked /\ \A g \in Groups : run[<<token, g>>].state = "none"
    /\ asked' = asked \cup {token}
    /\ UNCHANGED <<now, activity, draft, run, up, online, place, batch, queue>>

PublishNow(token) ==
    /\ up /\ token \in asked
    /\ asked' = asked \ {token}
    /\ InsertRuns(token, "pending", now)
    /\ UNCHANGED <<now, activity, draft, up, online, place, batch, queue>>

-----------------------------------------------------------------------------
(* activity_loop.                                                          *)

At(where) == up /\ place = where

Due ==
    /\ activity.enabled /\ ~activity.deleted
    /\ activity.next # Never /\ activity.next <= now

(* Slip: the next moment is counted from the clock.                        *)
AdvanceFromNow == [activity EXCEPT !.next = NextOccurrence(activity.times, now)]

Advance == [activity EXCEPT !.next = NextOccurrence(activity.times, activity.next)]

(* A round begins when the session is known, and is not given up when it   *)
(* is lost; generate_due_activity_runs: one moment per round.              *)
Generate ==
    /\ At("top") /\ online /\ place' = "claim"
    /\ \/ /\ Due
          /\ InsertRuns(activity.next,
                        IF activity.next + Grace < now THEN "missed" ELSE "pending",
                        activity.next)
          /\ activity' = Advance
       \/ /\ ~Due \/ "db" \in Faults
          /\ UNCHANGED <<run, activity>>
    /\ UNCHANGED <<now, draft, asked, up, online, batch, queue>>

Open == {k \in Keys : run[k].state \in {"pending", "retry"}}

(* claim_activity_preparations: the oldest open runs.                      *)
ClaimRuns ==
    /\ At("claim")
    /\ \/ \E taken \in SUBSET Open :
             /\ Cardinality(taken) <= ClaimLimit
             /\ taken # Open => Cardinality(taken) = ClaimLimit
             /\ \A k \in taken, j \in Open \ taken : run[k].at <= run[j].at
             /\ run' = [k \in Keys |-> IF k \in taken THEN [run[k] EXCEPT !.state = "preparing"]
                                                      ELSE run[k]]
             /\ batch' = taken
             /\ place' = IF taken = {} THEN "top" ELSE "prepare"
       \/ "db" \in Faults /\ place' = "top" /\ UNCHANGED <<run, batch>>
    /\ UNCHANGED <<now, activity, draft, asked, up, online, queue>>

(* Slip: the loop does not notice that the batch is done.                  *)
LeaveBatchOnly(k) == batch' = batch \ {k} /\ place' = place

Leave(k) == batch' = batch \ {k} /\ place' = IF batch = {k} THEN "top" ELSE place

(* Slip: the run is marked in a transaction of its own.                    *)
QueueRunFirst(k) ==
    /\ At("prepare") /\ k \in batch
    /\ \/ run' = [run EXCEPT ![k].state = "queued"] /\ Leave(k) /\ Queue!Rest
       \/ run' = [run EXCEPT ![k].state = "queued"] /\ Leave(k) /\ Queue!Insert(k)
    /\ UNCHANGED <<now, activity, draft, asked, up, online>>

(* enqueue_activity_effect: effect and run in one transaction.             *)
QueueRun(k) ==
    /\ At("prepare") /\ k \in batch
    /\ run[k].state = "preparing"
    /\ Queue!Insert(k)
    /\ run' = [run EXCEPT ![k].state = "queued"]
    /\ Leave(k)
    /\ UNCHANGED <<now, activity, draft, asked, up, online>>

(* The effect is refused: a calibration is active, the run is no longer    *)
(* being prepared, or the database job fails.                              *)
GiveUpRun(k) ==
    /\ At("prepare") /\ k \in batch
    /\ run[k].state # "preparing" \/ {"refused", "db"} \cap Faults # {}
    /\ \/ run' = [run EXCEPT ![k].state = "failed"]
       \/ "db" \in Faults /\ UNCHANGED run
    /\ Leave(k)
    /\ UNCHANGED <<now, activity, draft, asked, up, online, queue>>

-----------------------------------------------------------------------------
(* The dispatch of the effects and its follow-up.                          *)

Dispatch(k) ==
    /\ \/ up /\ (Queue!Start(k) \/ Queue!Postpone(k) \/ Queue!Report(k))
       \/ Queue!Perform(k)
    /\ UNCHANGED <<now, activity, draft, run, asked, up, online, place, batch>>

(* Slip: every outcome that is not a success is told as a failure.         *)
FollowUpSuccess(k) ==
    /\ up /\ Queue!Tell(k)
    /\ run' = [run EXCEPT ![k].state = IF told[k] = "succeeded" THEN told[k] ELSE "failed"]
    /\ UNCHANGED <<now, activity, draft, asked, up, online, place, batch>>

(* finish_activity_run writes over whatever the state is.                  *)
FollowUp(k) ==
    /\ up /\ Queue!Tell(k)
    /\ \/ run' = [run EXCEPT ![k].state = told[k]]
       \/ "db" \in Faults /\ UNCHANGED run
    /\ UNCHANGED <<now, activity, draft, asked, up, online, place, batch>>

-----------------------------------------------------------------------------
Crash ==
    /\ "crash" \in Faults /\ up
    /\ up' = FALSE /\ online' = FALSE
    /\ draft' = NoActivity /\ asked' = {} /\ place' = "top" /\ batch' = {}
    /\ Queue!Forget
    /\ UNCHANGED <<now, activity, run>>

(* Slip: runs that are being prepared are left to themselves.              *)
RestartEffectsOnly ==
    /\ ~up /\ up' = TRUE
    /\ Queue!Recover
    /\ UNCHANGED <<now, activity, draft, run, asked, online, place, batch>>

(* prepare.                                                                *)
Restart ==
    /\ ~up /\ up' = TRUE
    /\ Queue!Recover
    /\ run' = [k \in Keys |-> IF run[k].state = "preparing"
                              THEN [run[k] EXCEPT !.state = "retry"] ELSE run[k]]
    /\ UNCHANGED <<now, activity, draft, asked, online, place, batch>>

(* The chat client becomes ready, or stops being so.                       *)
Session ==
    /\ up /\ online' = ~online
    /\ UNCHANGED <<now, activity, draft, run, asked, up, place, batch, queue>>

Tick ==
    /\ now < Horizon /\ now' = now + 1
    /\ UNCHANGED <<activity, draft, run, asked, up, online, place, batch, queue>>

Next ==
    \/ PrepareSave \/ SaveActivity \/ DeleteActivity
    \/ \E token \in Tokens : AskPublish(token) \/ PublishNow(token)
    \/ Generate \/ ClaimRuns
    \/ \E k \in Keys : QueueRun(k) \/ GiveUpRun(k) \/ Dispatch(k) \/ FollowUp(k)
    \/ Crash \/ Restart \/ Session \/ Tick

Spec == Init /\ [][Next]_vars

(* The loop comes round every 15 seconds and its jobs return; the process  *)
(* is started again.                                                       *)
Fairness ==
    /\ WF_vars(Generate) /\ WF_vars(ClaimRuns) /\ WF_vars(Restart)
    /\ \A k \in Keys : WF_vars(QueueRun(k) \/ GiveUpRun(k))

FairSpec == Spec /\ Fairness

-----------------------------------------------------------------------------
RunStates == {"none", "pending", "retry", "preparing", "queued", "missed"} \cup Queue!Outcomes

Plans == [deleted : BOOLEAN, enabled : BOOLEAN, times : SUBSET Moments,
          next : Moments \cup {Never}, from : Moments \cup {Never}]

(* activity.from is the first moment the last save looked forward to; it   *)
(* is kept for EveryMomentIsDecided and read by no step.                   *)
TypeOK ==
    /\ now \in 1..Horizon
    /\ activity \in Plans /\ draft \in Plans
    /\ run \in [Keys -> [state : RunStates, at : Nat]]
    /\ asked \subseteq Tokens
    /\ up \in BOOLEAN /\ online \in BOOLEAN
    /\ place \in {"top", "claim", "prepare"} /\ batch \subseteq Keys
    /\ place = "prepare" <=> batch # {}
    /\ status \in [Keys -> {"absent", "waiting", "running"} \cup Queue!Outcomes]
    /\ sent \in [Keys -> 0..1]
    /\ told \in [Keys -> Queue!Outcomes \cup {"none"}]

(* A run is turned into an effect once: whoever may still prepare it finds *)
(* no effect of its key, and a queued run has one, through crashes,        *)
(* refusals and failing jobs (enqueue_activity_effect, prepare).           *)
RunAndEffectAgree ==
    \A k \in Keys :
        /\ run[k].state \in {"none", "pending", "retry", "preparing", "missed"} =>
               status[k] = "absent"
        /\ run[k].state = "queued" => status[k] # "absent"

(* What a run says of its outcome is what the queue says: a publication of *)
(* unknown outcome is never called failed, one that is called succeeded    *)
(* did reach the group (finish_activity_run, which checks no state).       *)
OutcomesAreTrue ==
    \A k \in Keys :
        /\ run[k].state \in {"succeeded", "unknown"} => status[k] = run[k].state
        /\ run[k].state = "succeeded" => sent[k] = 1
        /\ run[k].state = "failed" => status[k] \in {"absent", "failed"}

(* No moment of a plan is passed over: each one the generation has gone    *)
(* past since the plan was saved has a run in every group, published or    *)
(* missed, however long the process was away (generate_due_activity_runs,  *)
(* next_occurrence).                                                       *)
EveryMomentIsDecided ==
    activity.from # Never =>
        \A t \in activity.times, g \in Groups :
            t >= activity.from /\ (activity.next = Never \/ t < activity.next)
                => run[<<t, g>>].state # "none"

(* A process that stays online brings every open run to a decision:        *)
(* its effect is queued or the run has failed (claim_activity_preparations,*)
(* process_activity_run, prepare).                                         *)
OpenRunsAreDecided ==
    <>[](up /\ online) => \A k \in Keys :
        run[k].state \in {"pending", "retry", "preparing"}
            ~> run[k].state \in {"queued"} \cup Queue!Outcomes

(* The loop uses the queue within what EffectDelivery promises.            *)
QueueKeepsToDelivery == Queue!Delivery!Spec
=============================================================================
