---------------------------- MODULE MCGroupWork ----------------------------
(***************************************************************************)
(* Small instances, for TLC, of what the runtime does for the members and  *)
(* the messages of a group: the names of a member and the answers to       *)
(* messages.  They share no state here; a behaviour follows the one in     *)
(* `focus' while the other rests in an initial state.                      *)
(***************************************************************************)
EXTENDS MCMemberNames

CONSTANTS Messages, Mentions, AppQuestions, ReplyLimit, Permits, MaxLosses

VARIABLES
    focus,
    aCase, aLosses, aUp, aMessage, aPlace, aReplies, aJudgements, aState, aAttempts, aDue,
    aApp, aAction, aAccepted, aDecision, aStatus, aSent, aTold

replyVars == <<aCase, aLosses, aUp, aMessage, aPlace, aReplies, aJudgements, aState, aAttempts,
               aDue, aApp, aAction, aAccepted, aDecision, aStatus, aSent, aTold>>

Replies(f, m) == [faults |-> f, messages |-> m]

FailingModel == Replies({"model", "identity"}, {1, 2})

ReplyCases ==
    {FailingModel,
     Replies({"crash", "model"}, {1}), Replies({"crash", "model"}, {2}),
     Replies({"crash", "db", "effects"}, {1}),
     Replies({"crash", "db", "model", "effects"}, {2}),
     Replies({"abort", "denied", "roster", "effects"}, {1})}

Answers == INSTANCE AiReplies WITH
    Cases <- ReplyCases,
    case <- aCase, losses <- aLosses, up <- aUp, message <- aMessage, place <- aPlace,
    replies <- aReplies, judgements <- aJudgements, runState <- aState,
    runAttempts <- aAttempts, runDue <- aDue, appRun <- aApp, action <- aAction,
    accepted <- aAccepted, decision <- aDecision, status <- aStatus, sent <- aSent,
    told <- aTold

Rests ==
    /\ focus # "names" =>
          /\ case = Case({"manual"}, 2, 2)
          /\ remote = [in |-> TRUE, card |-> CHOOSE n \in DhNames : TRUE]
    /\ focus # "replies" => aCase = FailingModel

MCInit == focus \in {"names", "replies"} /\ Init /\ Answers!Init /\ Rests

MCNext ==
    \/ focus = "names" /\ Next /\ UNCHANGED <<focus, replyVars>>
    \/ focus = "replies" /\ Answers!Next /\ UNCHANGED <<focus, vars>>

NamesFairness ==
    /\ WF_vars(focus = "names" /\ HandlerStep)
    /\ WF_vars(focus = "names" /\ BeginSync) /\ WF_vars(focus = "names" /\ SyncStep)
    /\ WF_vars(focus = "names" /\ WorkerStep) /\ WF_vars(focus = "names" /\ Restart)
    /\ \A n \in DhNames : WF_vars(focus = "names" /\ JobDue(n))
    /\ \A k \in Keys : /\ WF_vars(focus = "names" /\ PerformRestore(k))
                       /\ WF_vars(focus = "names" /\ PerformWelcome(k))

RepliesFairness ==
    /\ WF_replyVars(focus = "replies" /\ Answers!ReplierStep)
    /\ WF_replyVars(focus = "replies" /\ Answers!JudgeStep)

MCSpec == MCInit /\ [][MCNext]_<<focus, vars, replyVars>> /\ NamesFairness /\ RepliesFairness

(* See AiReplies (execute_rule_actions, process_ai).                       *)
AnswersAreTrue == Answers!AnswersAreTrue

(* See AiReplies (the background workers of worker_for).                   *)
AcceptedMentionsAreAnswered == Answers!AcceptedMentionsAreAnswered
=============================================================================
