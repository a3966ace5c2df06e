--------------------------- MODULE EffectDelivery ---------------------------
(***************************************************************************)
(* What the effect queue promises its producers, without rows, loops or    *)
(* tasks: an accepted intent is executed at most once per grant (the       *)
(* producer's, or a later one of the operator), it is tried again only     *)
(* while it has not been executed, success is reported only after an       *)
(* execution, and "unknown" is a final answer until the operator grants    *)
(* another try.  Intents are independent of each other.                    *)
(***************************************************************************)
EXTENDS Naturals

CONSTANTS
    Intents,    \* the intents producers may hand over
    Perishable  \* those that may be dropped when they come too late

VARIABLES
    status,     \* what the queue says of an intent
    sent        \* executions since the last grant

Statuses == {"absent", "waiting", "running", "succeeded", "failed", "unknown", "dropped"}

Init ==
    /\ status = [e \in Intents |-> "absent"]
    /\ sent = [e \in Intents |-> 0]

Becomes(e, s, n) == status'[e] = s /\ sent'[e] = n

Accept(e)   == status[e] = "absent" /\ Becomes(e, "waiting", sent[e])
Start(e)    == status[e] = "waiting" /\ sent[e] = 0 /\ Becomes(e, "running", 0)
Postpone(e) == status[e] = "running" /\ sent[e] = 0 /\ Becomes(e, "waiting", 0)

(* A call that has been given up as unknown may still reach the remote.    *)
Send(e) ==
    /\ status[e] \in {"running", "unknown"} /\ sent[e] = 0
    /\ Becomes(e, status[e], 1)

Report(e) ==
    /\ status[e] = "running"
    /\ \E s \in {"succeeded", "failed", "unknown"} :
          /\ s = "succeeded" => sent[e] = 1
          /\ Becomes(e, s, sent[e])

Drop(e)  == e \in Perishable /\ status[e] = "running" /\ Becomes(e, "dropped", sent[e])
Grant(e) == status[e] \in {"failed", "unknown"} /\ Becomes(e, "waiting", 0)

Rests(e) == Becomes(e, status[e], sent[e])

Next ==
    /\ status' \in [Intents -> Statuses]
    /\ sent' \in [Intents -> Nat]
    /\ \A e \in Intents : \/ Rests(e)
                          \/ Accept(e) \/ Start(e) \/ Postpone(e) \/ Send(e)
                          \/ Report(e) \/ Drop(e) \/ Grant(e)

Spec == Init /\ [][Next]_<<status, sent>>
=============================================================================
