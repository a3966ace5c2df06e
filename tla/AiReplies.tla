----------------------------- MODULE AiReplies -----------------------------
(***************************************************************************)
(* What happens to a message of a group once it is stored: the message     *)
(* worker applies the machine rules and hands the rest to two workers in   *)
(* the background, one that answers when DH is mentioned and one that      *)
(* applies the rules a model has to judge.  Their jobs live in memory;     *)
(* runs, actions and effects in tables.  One group; the workers are those  *)
(* of worker_for.                                                          *)
(***************************************************************************)
EXTENDS Naturals, Sequences, FiniteSets

CONSTANTS
    Messages,
    Mentions,       \* messages that mention DH
    AppQuestions,   \* mentions a business app answers
    ReplyLimit,     \* jobs the channel of a background worker holds (128)
    Permits,        \* of ai_rule_gate (2)
    MaxAttempts,    \* of a run (5)
    MaxLosses,      \* bound on crashes, aborts and failing database jobs
    Cases           \* records [faults, messages]: what may happen to which messages

VARIABLES
    case,       \* faults: "crash", "abort" (the account changes), "db", "model" (does not answer),
                \* "identity" (session not readable), "roster" (DH is no manager), "denied"
                \* (paused, not permitted, nothing to say); "effects": the queue works
                \* meanwhile
    losses,
    up,
    message,    \* messages.processing_state
    place,      \* of each worker: [at, of, may]
    replies, judgements,    \* the channels of the background workers
    runState, runAttempts, runDue,  \* ai_runs
    appRun,     \* business_app_runs.status
    action,     \* actions.success of the one action a message may call for
    accepted,   \* mentions put into the channel since the last start
    decision,   \* the last answer of the model to a message
    status, sent, told

runVars   == <<runState, runAttempts, runDue>>
queueVars == <<status, sent, told>>
vars == <<case, losses, up, message, place, replies, judgements, runVars, appRun, action,
          accepted, decision, queueVars>>

faults == case.faults

Workers == {"worker", "replier", "judge"}
Reply(m)   == <<"reply", m>>
Apology(m) == <<"apology", m>>
AppReply(m) == <<"app", m>>

(* Slip: every worker has keys of its own.                                 *)
ActionKeyOfWorker(w, m) == <<w, m>>

ActionKey(w, m) == <<"action", m>>

ActionKeys == ({"action"} \cup Workers) \X Messages
Keys == ({"reply", "apology", "app"} \X Messages) \cup ActionKeys

Queue == INSTANCE EffectClient
Runs  == INSTANCE UniqueRuns WITH RunKeys <- Messages

Idle == [at |-> "idle"]
At(where, m) == [at |-> where, of |-> m]
Acts(where, m, may) == [at |-> where, of |-> m, may |-> may]
Goes(w, p) == place' = [place EXCEPT ![w] = p]
Fails(f) == f \in faults /\ losses < MaxLosses /\ losses' = losses + 1

Init ==
    /\ case \in Cases
    /\ losses = 0 /\ up = TRUE
    /\ message = [m \in Messages |-> IF m \in case.messages THEN "queued" ELSE "processed"]
    /\ place = [w \in Workers |-> Idle]
    /\ replies = <<>> /\ judgements = <<>>
    /\ Runs!NoRuns
    /\ appRun = [m \in Messages |-> "none"]
    /\ action = [m \in Messages |-> "none"]
    /\ accepted = {} /\ decision = [m \in Messages |-> "none"]
    /\ Queue!Empty

(* What the steps of one worker leave alone.                               *)
Tables == UNCHANGED <<message, runVars, appRun, action, decision, queueVars>>
Channels == UNCHANGED <<replies, judgements, accepted>>
Process == UNCHANGED <<case, up>>

-----------------------------------------------------------------------------
(* execute_rule_actions, the same for the three workers: the roster says   *)
(* whether DH may act at all, an action that has succeeded is left alone,  *)
(* and the key of its effect makes it happen once.                         *)

After(w, m) == CASE w = "worker"  -> At("offer", m)
                 [] w = "replier" -> At("settle", m)
                 [] w = "judge"   -> Idle

LookAtRoster(w) ==
    /\ up /\ place[w].at = "look"
    /\ \E may \in {TRUE} \cup (IF "roster" \in faults THEN {FALSE} ELSE {}) :
          Goes(w, Acts("check", place[w].of, may))
    /\ Process /\ Channels /\ Tables /\ UNCHANGED losses

CheckAction(w) ==
    /\ up /\ place[w].at = "check"
    /\ LET m == place[w].of IN
          \/ Goes(w, IF action[m] = "succeeded" THEN After(w, m) ELSE [place[w] EXCEPT !.at = "act"])
             /\ losses' = losses
          \/ Fails("db") /\ Goes(w, [place[w] EXCEPT !.at = "act"])
    /\ Process /\ Channels /\ Tables

EnqueueAction(w) ==
    /\ up /\ place[w].at = "act"
    /\ LET m == place[w].of IN
          \/ /\ place[w].may
             /\ Queue!Insert(ActionKey(w, m)) /\ Goes(w, After(w, m)) /\ losses' = losses
          \/ /\ IF place[w].may THEN Fails("db") ELSE losses' = losses
             /\ Queue!Rest /\ Goes(w, At("record", m))
    /\ Process /\ Channels /\ UNCHANGED <<message, runVars, appRun, action, decision>>

(* record_action overwrites whatever the row says.                         *)
RecordAction(w) ==
    /\ up /\ place[w].at = "record"
    /\ LET m == place[w].of IN
          /\ Goes(w, After(w, m))
          /\ \/ action' = [action EXCEPT ![m] = "failed"] /\ losses' = losses
             \/ Fails("db") /\ action' = action
    /\ Process /\ Channels /\ UNCHANGED <<message, runVars, appRun, decision, queueVars>>

ActionStep(w) == LookAtRoster(w) \/ CheckAction(w) \/ EnqueueAction(w) \/ RecordAction(w)

-----------------------------------------------------------------------------
(* The message worker: process_job.                                        *)

ClaimMessage(m) ==
    /\ up /\ place["worker"] = Idle /\ message[m] = "queued"
    /\ message' = [message EXCEPT ![m] = "processing"]
    /\ Goes("worker", At("context", m))
    /\ Process /\ Channels /\ UNCHANGED <<losses, runVars, appRun, action, decision, queueVars>>

(* A message whose context cannot be read is tried again.                  *)
(* Bound: failures end before its five attempts are spent.                 *)
ReadContext ==
    /\ up /\ place["worker"].at = "context"
    /\ LET m == place["worker"].of IN
          \/ /\ \/ Goes("worker", At("look", m))            \* a machine rule acts
                \/ Goes("worker", At("offer", m))
                \/ "denied" \in faults /\ Goes("worker", At("finish", m))   \* paused
             /\ losses' = losses /\ message' = message
          \/ /\ Fails("db") /\ Goes("worker", Idle)
             /\ message' = [message EXCEPT ![m] = "queued"]
    /\ Process /\ Channels /\ UNCHANGED <<runVars, appRun, action, decision, queueVars>>

(* A full channel costs the answer; the message goes on.                   *)
OfferReply ==
    /\ up /\ place["worker"].at = "offer"
    /\ LET m == place["worker"].of IN
          /\ Goes("worker", At("offerRule", m))
          /\ \/ /\ m \in Mentions /\ Len(replies) < ReplyLimit
                /\ replies' = Append(replies, m) /\ accepted' = accepted \cup {m}
             \/ /\ m \in Mentions => Len(replies) >= ReplyLimit \/ "denied" \in faults
                /\ UNCHANGED <<replies, accepted>>
    /\ Process /\ Tables /\ UNCHANGED <<losses, judgements>>

OfferRule ==
    /\ up /\ place["worker"].at = "offerRule"
    /\ LET m == place["worker"].of IN
          /\ Goes("worker", At("finish", m))
          /\ \/ Len(judgements) < ReplyLimit /\ judgements' = Append(judgements, m)
             \/ judgements' = judgements        \* no such rules, or the channel is full
    /\ Process /\ Tables /\ UNCHANGED <<losses, replies, accepted>>

FinishMessage ==
    /\ up /\ place["worker"].at = "finish"
    /\ Goes("worker", Idle)
    /\ \/ message' = [message EXCEPT ![place["worker"].of] = "processed"] /\ losses' = losses
       \/ Fails("db") /\ message' = message
    /\ Process /\ Channels /\ UNCHANGED <<runVars, appRun, action, decision, queueVars>>

-----------------------------------------------------------------------------
(* A background worker takes a job and waits for a permit, which it holds  *)
(* to the end of the job.                                                  *)

(* Slip: a job that fails keeps its permit.                                *)
HoldersAndFailed ==
    {w \in {"replier", "judge"} : place[w].at \notin {"idle", "gate"}}
    \cup {m \in Messages : runState[m] = "failed"}

Holders == {w \in {"replier", "judge"} : place[w].at \notin {"idle", "gate"}}

TakeReply ==
    /\ up /\ place["replier"] = Idle /\ replies # <<>>
    /\ Goes("replier", At("gate", Head(replies))) /\ replies' = Tail(replies)
    /\ Process /\ Tables /\ UNCHANGED <<losses, judgements, accepted>>

TakeRule ==
    /\ up /\ place["judge"] = Idle /\ judgements # <<>>
    /\ Goes("judge", At("gate", Head(judgements))) /\ judgements' = Tail(judgements)
    /\ Process /\ Tables /\ UNCHANGED <<losses, replies, accepted>>

AcquirePermit(w) ==
    /\ up /\ place[w].at = "gate"
    /\ Cardinality(Holders) < Permits
    /\ Goes(w, At("begin", place[w].of))
    /\ Process /\ Channels /\ Tables /\ UNCHANGED losses

(* process_ai_rules_background: the model judges, actions may follow.      *)
Judge ==
    /\ up /\ place["judge"].at = "begin"
    /\ Goes("judge", Idle) \/ Goes("judge", At("look", place["judge"].of))
    /\ Process /\ Channels /\ Tables /\ UNCHANGED losses

-----------------------------------------------------------------------------
(* The replier: process_deferred_ai.  All that permitted the answer when   *)
(* the message came is looked at again.                                    *)

Recheck ==
    /\ up /\ place["replier"].at = "begin"
    /\ LET m == place["replier"].of IN
          \/ /\ Goes("replier", At(IF m \in AppQuestions THEN "app" ELSE "claim", m))
             /\ losses' = losses
          \/ "denied" \in faults /\ Goes("replier", Idle) /\ losses' = losses
          \/ Fails("db") /\ Goes("replier", Idle)
    /\ Process /\ Channels /\ Tables

ClaimRun ==
    /\ up /\ place["replier"].at = "claim"
    /\ LET m == place["replier"].of IN
          \/ Runs!Claim(m) /\ Goes("replier", At("model", m)) /\ losses' = losses
          \/ ~Runs!Claimable(m) /\ Runs!RunsRest /\ Goes("replier", Idle) /\ losses' = losses
          \/ Fails("db") /\ Runs!RunsRest /\ Goes("replier", Idle)
    /\ Process /\ Channels /\ UNCHANGED <<message, appRun, action, decision, queueVars>>

(* ModelExecutor::decide bounds the wait; so a model always answers or     *)
(* fails.                                                                  *)
AskModel ==
    /\ up /\ place["replier"].at = "model"
    /\ LET m == place["replier"].of IN
          \/ /\ Goes("replier", At("reply", m)) /\ losses' = losses
             /\ \E d \in {"text"} \cup (IF "denied" \in faults THEN {"nothing"} ELSE {}) :
                   decision' = [decision EXCEPT ![m] = d]
          \/ /\ "model" \in faults /\ Goes("replier", At("excuse", m))
             /\ UNCHANGED <<losses, decision>>
          \/ Fails("db") /\ Goes("replier", At("excuse", m)) /\ UNCHANGED decision
    /\ Process /\ Channels /\ UNCHANGED <<message, runVars, appRun, action, queueVars>>

(* Slip: an answer that cannot be queued is as good as sent.               *)
NotQueuedGoesOn(m) == Goes("replier", At("consider", m))

NotQueued(m) == Goes("replier", At("excuse", m))

QueueReply ==
    /\ up /\ place["replier"].at = "reply"
    /\ LET m == place["replier"].of IN
          \/ /\ decision[m] = "text" /\ Queue!Insert(Reply(m))
             /\ Goes("replier", At("consider", m)) /\ losses' = losses
          \/ /\ decision[m] = "text" /\ Fails("db") /\ NotQueued(m) /\ Queue!Rest
          \/ /\ decision[m] = "nothing" /\ Queue!Rest
             /\ Goes("replier", At("consider", m)) /\ losses' = losses
    /\ Process /\ Channels /\ UNCHANGED <<message, runVars, appRun, action, decision>>

(* The answer may call for actions; if the session cannot be asked who DH  *)
(* is, the whole answer counts as failed, though its text is on its way.   *)
Consider ==
    /\ up /\ place["replier"].at = "consider"
    /\ LET m == place["replier"].of IN
          \/ Goes("replier", At("settle", m))
          \/ Goes("replier", At("look", m))
          \/ "identity" \in faults /\ Goes("replier", At("excuse", m))
    /\ Process /\ Channels /\ Tables /\ UNCHANGED losses

SettleRun ==
    /\ up /\ place["replier"].at = "settle"
    /\ Goes("replier", Idle)
    /\ \/ Runs!Finish(place["replier"].of, TRUE) /\ losses' = losses
       \/ Fails("db") /\ Runs!RunsRest
    /\ Process /\ Channels /\ UNCHANGED <<message, appRun, action, decision, queueVars>>

Excuse ==
    /\ up /\ place["replier"].at = "excuse"
    /\ Goes("replier", At("failed", place["replier"].of))
    /\ \/ Queue!Insert(Apology(place["replier"].of)) /\ losses' = losses
       \/ Fails("db") /\ Queue!Rest
    /\ Process /\ Channels /\ UNCHANGED <<message, runVars, appRun, action, decision>>

FailRun ==
    /\ up /\ place["replier"].at = "failed"
    /\ Goes("replier", Idle)
    /\ \/ Runs!FailTerminal(place["replier"].of) /\ losses' = losses
       \/ Fails("db") /\ Runs!RunsRest
    /\ Process /\ Channels /\ UNCHANGED <<message, appRun, action, decision, queueVars>>

(* process_business_app: a run of its own, which nothing ever gives back.  *)
RunApp ==
    /\ up /\ place["replier"].at = "app"
    /\ LET m == place["replier"].of IN
          \/ /\ appRun[m] = "none" /\ losses' = losses
             /\ appRun' = [appRun EXCEPT ![m] = "processing"]
             /\ \/ Goes("replier", At("appReply", m))
                \/ "model" \in faults /\ Goes("replier", At("appFailed", m))
          \/ /\ appRun[m] # "none" \/ "denied" \in faults \/ "roster" \in faults
             /\ Goes("replier", Idle) /\ UNCHANGED <<losses, appRun>>
          \/ Fails("db") /\ Goes("replier", Idle) /\ UNCHANGED appRun
    /\ Process /\ Channels /\ UNCHANGED <<message, runVars, action, decision, queueVars>>

QueueAppReply ==
    /\ up /\ place["replier"].at = "appReply"
    /\ LET m == place["replier"].of IN
          \/ Queue!Insert(AppReply(m)) /\ Goes("replier", At("appDone", m)) /\ losses' = losses
          \/ Fails("db") /\ Queue!Rest /\ Goes("replier", At("appFailed", m))
    /\ Process /\ Channels /\ UNCHANGED <<message, runVars, appRun, action, decision>>

FinishApp ==
    /\ up /\ place["replier"].at \in {"appDone", "appFailed"}
    /\ LET p == place["replier"] IN
          \/ /\ appRun' = [appRun EXCEPT ![p.of] = IF p.at = "appDone" THEN "succeeded" ELSE "failed"]
             /\ Goes("replier", Idle) /\ losses' = losses
          \/ /\ Fails("db") /\ appRun' = appRun
             /\ Goes("replier", IF p.at = "appDone" THEN At("appFailed", p.of) ELSE Idle)
    /\ Process /\ Channels /\ UNCHANGED <<message, runVars, action, decision, queueVars>>

-----------------------------------------------------------------------------
(* The effect queue: an action's row is written with the outcome of its    *)
(* effect (archive_effect_dispatch).  What becomes of texts, and what else *)
(* is told of an outcome, is not looked into.                             *)

Told(k, r) == action' = [action EXCEPT ![k[2]] = r]

QueueStep(k) ==
    /\ up /\ "effects" \in faults
    /\ \/ Queue!Start(k) /\ UNCHANGED action
       \/ Queue!Perform(k) /\ UNCHANGED action
       \/ Queue!Postpone(k) /\ Told(k, "failed")
       \/ /\ Queue!Report(k)
          /\ IF told'[k] = "none" THEN action' = action
             ELSE Told(k, IF status'[k] = "succeeded" THEN "succeeded" ELSE "failed")
    /\ Process /\ Channels /\ UNCHANGED <<losses, message, place, runVars, appRun, decision>>

-----------------------------------------------------------------------------
(* The account changes: the three workers are aborted where they are.  A   *)
(* message they have claimed stays claimed.                                *)
Abort ==
    /\ up /\ Fails("abort")
    /\ place' = [w \in Workers |-> Idle] /\ replies' = <<>> /\ judgements' = <<>>
    /\ Process /\ Tables /\ UNCHANGED accepted

Crash ==
    /\ up /\ Fails("crash")
    /\ up' = FALSE
    /\ place' = [w \in Workers |-> Idle] /\ replies' = <<>> /\ judgements' = <<>>
    /\ accepted' = {}
    /\ Queue!Forget
    /\ UNCHANGED <<case, message, runVars, appRun, action, decision>>

Restart ==
    /\ ~up /\ up' = TRUE
    /\ message' = [m \in Messages |-> IF message[m] = "processing" THEN "queued" ELSE message[m]]
    /\ Runs!RecoverRuns /\ Queue!Recover
    /\ Channels /\ UNCHANGED <<case, losses, place, appRun, action, decision>>

WorkerStep == ReadContext \/ OfferReply \/ OfferRule \/ FinishMessage \/ ActionStep("worker")
JudgeStep == TakeRule \/ AcquirePermit("judge") \/ Judge \/ ActionStep("judge")
ReplierStep ==
    \/ TakeReply \/ AcquirePermit("replier") \/ Recheck
    \/ ClaimRun \/ AskModel \/ QueueReply \/ Consider \/ SettleRun \/ Excuse \/ FailRun
    \/ RunApp \/ QueueAppReply \/ FinishApp
    \/ ActionStep("replier")

Next ==
    \/ \E m \in Messages : ClaimMessage(m)
    \/ WorkerStep \/ JudgeStep \/ ReplierStep
    \/ \E k \in ActionKeys : QueueStep(k)
    \/ Abort \/ Crash \/ Restart

(* Every wait of a worker is bounded.                                      *)
Fairness == WF_vars(ReplierStep) /\ WF_vars(JudgeStep)

Spec == Init /\ [][Next]_vars /\ Fairness

-----------------------------------------------------------------------------
TypeOK ==
    /\ losses \in 0..MaxLosses /\ up \in BOOLEAN
    /\ message \in [Messages -> {"queued", "processing", "processed"}]
    /\ Len(replies) <= ReplyLimit /\ Len(judgements) <= ReplyLimit
    /\ Cardinality(Holders) <= Permits
    /\ Runs!RunsTypeOK
    /\ appRun \in [Messages -> {"none", "processing", "succeeded", "failed"}]
    /\ action \in [Messages -> {"none", "failed", "succeeded"}]
    /\ accepted \subseteq Mentions
    /\ decision \in [Messages -> {"none", "text", "nothing"}]

(* "Machine and AI rules may independently request the same action for one *)
(* message.  The external side effect is still performed only once": also  *)
(* when a message is processed again after a crash (execute_rule_actions). *)
ActionsActOnce ==
    \A m \in Messages : Cardinality({k \in ActionKeys : k[2] = m /\ sent[k] > 0}) <= 1

(* What the table of runs says of an answer is true: a run that succeeded  *)
(* has queued the text the model gave, one that failed has queued the      *)
(* apology, unless a database job failed (process_ai).                     *)
RunsKeepTheirWord ==
    \A m \in Messages :
        /\ runState[m] = "succeeded" => decision[m] = "nothing" \/ status[Reply(m)] # "absent"
        /\ runState[m] = "failed" => "db" \in faults \/ status[Apology(m)] # "absent"

(* What was answered and done is what the tables say, and was done once.   *)
AnswersAreTrue == ActionsActOnce /\ RunsKeepTheirWord

(* As long as the account stays and the answer stays permitted, every      *)
(* mention that was put into the channel since the last start gets an      *)
(* answer or an apology, or the business app's reply or failure, however   *)
(* the two background workers compete for the permits: also one that is    *)
(* offered again after a crash, with the run the crash has left behind,    *)
(* unless crashes have spent the attempts of its run or left it with a     *)
(* business app's, which nothing gives back (process_deferred_ai).         *)
Answered(m) ==
    IF m \in AppQuestions THEN appRun[m] \in {"succeeded", "failed"}
    ELSE status[Reply(m)] # "absent" \/ status[Apology(m)] # "absent"

LeftBehind(m) ==
    /\ losses > 0
    /\ IF m \in AppQuestions THEN appRun[m] = "processing"
       ELSE runState[m] = "retry" /\ runAttempts[m] >= MaxAttempts

AcceptedMentionsAreAnswered ==
    <>[](faults \subseteq {"model", "identity", "crash"} =>
            \A m \in accepted : Answered(m) \/ LeftBehind(m))
=============================================================================
