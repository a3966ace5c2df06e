---------------------------- MODULE EffectClient ----------------------------
(***************************************************************************)
(* The effect queue as a producer of planned work sees it: the steps of    *)
(* the queue that change the row of one dedupe key, and the outcome that   *)
(* the dispatch task is about to tell the producer's table.  Each operator *)
(* constrains the variables of the queue only; the producers add what else *)
(* happens.  The queue keeps to EffectDelivery, which EffectOutbox         *)
(* implements.                                                             *)
(***************************************************************************)
EXTENDS Naturals

CONSTANT Keys   \* dedupe keys

VARIABLES
    status,     \* state of the row, in the terms of EffectDelivery
    sent,       \* executions by the remote
    told        \* outcome archived by a dispatch task, not yet told

Outcomes == {"succeeded", "failed", "unknown"}

Empty ==
    /\ status = [k \in Keys |-> "absent"]
    /\ sent = [k \in Keys |-> 0]
    /\ told = [k \in Keys |-> "none"]

(* INSERT OR IGNORE: the key of an existing row changes nothing.           *)
Insert(k) ==
    /\ status' = [status EXCEPT ![k] = IF @ = "absent" THEN "waiting" ELSE @]
    /\ UNCHANGED <<sent, told>>

Start(k) ==
    /\ status[k] = "waiting"
    /\ status' = [status EXCEPT ![k] = "running"]
    /\ UNCHANGED <<sent, told>>

(* The remote executes, possibly after the queue has stopped waiting.      *)
Perform(k) ==
    /\ status[k] \in {"running", "unknown"} /\ sent[k] = 0
    /\ sent' = [sent EXCEPT ![k] = 1]
    /\ UNCHANGED <<status, told>>

(* A retryable failure that is not the last attempt.                       *)
Postpone(k) ==
    /\ status[k] = "running" /\ sent[k] = 0
    /\ status' = [status EXCEPT ![k] = "waiting"]
    /\ UNCHANGED <<sent, told>>

(* The dispatch task archives an outcome and goes on to tell it; a last    *)
(* attempt that is rejected by the chain, or a row written off by an exit, *)
(* is settled without anybody being told.                                  *)
Report(k) ==
    /\ status[k] = "running"
    /\ \E r \in Outcomes :
          /\ r = "succeeded" => sent[k] = 1
          /\ status' = [status EXCEPT ![k] = r]
          /\ \/ told' = [told EXCEPT ![k] = r]
             \/ r # "succeeded" /\ UNCHANGED told
    /\ UNCHANGED sent

(* The producer's table has been told, or the job failed.                  *)
Tell(k) ==
    /\ told[k] # "none"
    /\ told' = [told EXCEPT ![k] = "none"]
    /\ UNCHANGED <<status, sent>>

(* The process ends: what was to be told is forgotten.                     *)
Forget ==
    /\ told' = [k \in Keys |-> "none"]
    /\ UNCHANGED <<status, sent>>

(* Slip: effects are recovered like the messages.                          *)
RecoverAsWaiting ==
    /\ status' = [k \in Keys |-> IF status[k] = "running" THEN "waiting" ELSE status[k]]
    /\ UNCHANGED <<sent, told>>

(* recover_processing_effects.                                             *)
Recover ==
    /\ status' = [k \in Keys |-> IF status[k] = "running" THEN "unknown" ELSE status[k]]
    /\ UNCHANGED <<sent, told>>

Rest == UNCHANGED <<status, sent, told>>

Delivery == INSTANCE EffectDelivery WITH
    Intents    <- Keys,
    Perishable <- {}
=============================================================================
