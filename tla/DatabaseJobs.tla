--------------------------- MODULE DatabaseJobs ---------------------------
(***************************************************************************)
(* The single thread that owns the SQLite connection: callers put jobs     *)
(* into a bounded channel one at a time, and shutdown closes it behind the *)
(* jobs it has accepted.                                                   *)
(***************************************************************************)
EXTENDS Integers, Sequences, SequencesExt

CONSTANTS
    Jobs,           \* calls of execute
    Closers,        \* calls of shutdown
    Capacity,       \* of the channel (256 in the code)
    None

VARIABLES
    gate,           \* the caller that holds enqueue_gate
    stopped,        \* DatabaseExecutorInner.stopped
    channel,        \* commands in the channel
    worker,         \* "runs", "ended"
    place,          \* of each caller
    ran             \* jobs executed

vars == <<gate, stopped, channel, worker, place, ran>>

Calls == Jobs \cup Closers

Init ==
    /\ gate = None /\ stopped = FALSE /\ channel = <<>> /\ worker = "runs"
    /\ place = [c \in Calls |-> "idle"] /\ ran = {}

Goes(c, p) == place' = [place EXCEPT ![c] = p]

Enter(c) ==
    /\ place[c] = "idle" /\ gate = None
    /\ gate' = c /\ Goes(c, "gate")
    /\ UNCHANGED <<stopped, channel, worker, ran>>

(* Slip: execute looks at the flag before it waits for the gate.           *)
LookAtNothing(c) ==
    /\ place[c] = "gate"
    /\ IF stopped /\ c \in Closers THEN Goes(c, "refused") /\ gate' = None
                                   ELSE Goes(c, "send") /\ gate' = gate
    /\ stopped' = (stopped \/ c \in Closers)
    /\ UNCHANGED <<channel, worker, ran>>

(* execute refuses, a second shutdown returns at once.                     *)
LookAtStopped(c) ==
    /\ place[c] = "gate"
    /\ IF stopped THEN Goes(c, "refused") /\ gate' = None
                  ELSE Goes(c, "send") /\ gate' = gate
    /\ stopped' = (stopped \/ c \in Closers)
    /\ UNCHANGED <<channel, worker, ran>>

(* The gate is held while the channel is full.                             *)
Send(c) ==
    /\ place[c] = "send"
    /\ IF worker = "ended" THEN Goes(c, "refused") /\ channel' = channel
       ELSE Len(channel) < Capacity /\ Goes(c, "wait") /\ channel' = Append(channel, c)
    /\ gate' = None
    /\ UNCHANGED <<stopped, worker, ran>>

Answer(c) == IF place[c] = "gone" THEN place' = place ELSE Goes(c, "done")

(* The thread ends at the shutdown command; what lies behind is dropped.   *)
Work ==
    /\ worker = "runs" /\ channel # <<>>
    /\ LET c == Head(channel) IN
          /\ Answer(c)
          /\ IF c \in Jobs
             THEN ran' = ran \cup {c} /\ channel' = Tail(channel) /\ worker' = worker
             ELSE ran' = ran /\ channel' = <<>> /\ worker' = "ended"
    /\ UNCHANGED <<gate, stopped>>

(* A caller is dropped, shutdown too (it has a deadline); its command, once *)
(* sent, remains.                                                          *)
Cancel(c) ==
    /\ place[c] \in {"gate", "send", "wait"}
    /\ Goes(c, "gone")
    /\ gate' = IF gate = c THEN None ELSE gate
    /\ UNCHANGED <<stopped, channel, worker, ran>>

Step(c) == Enter(c) \/ LookAtStopped(c) \/ Send(c)
Next == (\E c \in Calls : Step(c) \/ Cancel(c)) \/ Work

Fairness == WF_vars(Work) /\ \A c \in Calls : WF_vars(Step(c))

Spec == Init /\ [][Next]_vars /\ Fairness

-----------------------------------------------------------------------------
(* Whatever the channel has accepted is run, shut down or not, and every   *)
(* call ends: in the end nothing waits in the channel and nobody for it    *)
(* (shutdown: the command goes behind all that is queued).                 *)
AtRest(c) == place[c] \in {"idle", "done", "refused", "gone"}

AcceptedJobsRun == <>[](channel = <<>> /\ \A c \in Calls : AtRest(c))
=============================================================================
