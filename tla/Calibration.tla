---------------------------- MODULE Calibration ----------------------------
(***************************************************************************)
(* The developer's calibration: a session records the writes made in a     *)
(* test group and exports them once a last reading finds every state back  *)
(* at its baseline.  Two read-write locks stand around it: the automatic   *)
(* side effects keep out of a session, and no write runs while the last    *)
(* reading and the export are made.                                        *)
(***************************************************************************)
EXTENDS Integers, FiniteSets

CONSTANTS
    Manual,       \* writes ordered by the tester
    Automatic,    \* writes of the dispatcher and the roster
    FieldOf,      \* the state a write changes, one of Fields
    Wanted,       \* the value it gives it
    Finishers,    \* calls of finish_developer_calibration
    FaultSets,    \* what may go wrong, one of these sets
    MaxSessions   \* bound on sessions begun

Writes == Manual \cup Automatic

(* "mute": member-mute; "name": member-rename; "closed": group-mute;       *)
(* "notice": group-notice.                                                 *)
Fields == {FieldOf[w] : w \in Writes}
Values == 0..2

AllFaults == {"read",   \* a reading fails
              "call",   \* a request fails, executed or not
              "blind",  \* the mute state of a member cannot be told
              "file",   \* the export cannot be written
              "early"}  \* a session begins while a manual write runs

VARIABLES
    faults,
    remote,       \* the state of the group, field by field
    recorder,     \* DeveloperCalibrationRecorder
    at,           \* of each write
    begins,       \* begin_developer_calibration: "idle" or waits for the automatic writes
    finish,       \* of each finisher
    sessions,     \* begun so far
    start,        \* the group when the session began
    touched,      \* the fields written in the session
    exported      \* the group when a capture that says restored was written

vars == <<faults, remote, recorder, at, begins, finish, sessions, start, touched, exported>>

Unknown == 9

Idle == [active |-> FALSE, finishing |-> FALSE, operations |-> {}, callbacks |-> FALSE,
         required |-> {}, baselines |-> [f \in Fields |-> Unknown],
         observed |-> [f \in Fields |-> Unknown]]

TypeOK ==
    /\ faults \in FaultSets /\ faults \subseteq AllFaults /\ remote \in [Fields -> Values]
    /\ at \in [Writes -> {"idle", "permitted", "reads", "calls", "answered", "verifies", "done"}]
    /\ begins \in {"idle", "waits"}
    /\ finish \in [Finishers -> {"idle", "waits", "reads", "done"}]
    /\ sessions \in 0..MaxSessions /\ touched \subseteq Fields
    /\ recorder.required \subseteq Fields /\ recorder.operations \subseteq Writes

Init ==
    /\ faults \in FaultSets
    /\ remote = [f \in Fields |-> 0] /\ start = remote
    /\ recorder = Idle
    /\ at = [w \in Writes |-> "idle"]
    /\ begins = "idle" /\ finish = [f \in Finishers |-> "idle"]
    /\ sessions = 0 /\ touched = {} /\ exported = [f \in {} |-> 0]

Goes(w, p) == at' = [at EXCEPT ![w] = p]

-----------------------------------------------------------------------------
(* The two locks.                                                          *)

Running(w) == at[w] \notin {"idle", "permitted", "done"}
HoldsAutomatic(w) == w \in Automatic /\ (Running(w) \/ at[w] = "permitted")

(* A finisher keeps the lock for writing until its call ends.              *)
Frozen == \E f \in Finishers : finish[f] = "reads"

(* A lock asked for in writing lets no new reader in.                      *)
WritesAllowed == \A f \in Finishers : finish[f] \notin {"waits", "reads"}

PermitAutomatic(w) ==
    /\ w \in Automatic /\ at[w] = "idle" /\ begins = "idle"
    /\ Goes(w, IF recorder.active THEN "idle" ELSE "permitted")
    /\ UNCHANGED <<faults, remote, recorder, begins, finish, sessions, start, touched, exported>>

(* calibration_write_permit, then require_capability.                      *)
EnterWrite(w) ==
    /\ at[w] = IF w \in Automatic THEN "permitted" ELSE "idle"
    /\ Goes(w, IF WritesAllowed /\ ~recorder.finishing THEN "reads" ELSE "done")
    /\ UNCHANGED <<faults, remote, recorder, begins, finish, sessions, start, touched, exported>>

-----------------------------------------------------------------------------
(* A write: the state before it is read and recorded, the request goes     *)
(* out, its answer is recorded, the result read back.                      *)

(* Slip: the state before the latest write counts.                         *)
RecordLatest(f, v) ==
    IF ~recorder.active THEN recorder
    ELSE [recorder EXCEPT !.required = @ \cup {f}, !.baselines[f] = v]

RecordBaseline(f, v) ==
    IF ~recorder.active THEN recorder
    ELSE [recorder EXCEPT !.required = @ \cup {f},
                          !.baselines[f] = IF @ = Unknown THEN v ELSE @]

RequireBaseline(f) ==
    IF recorder.active THEN [recorder EXCEPT !.required = @ \cup {f}] ELSE recorder

(* A notice is written without a word about what was there.                *)
ReadBefore(w) ==
    /\ at[w] = "reads"
    /\ \/ "read" \in faults /\ Goes(w, "done") /\ recorder' = recorder
       \/ /\ Goes(w, "calls")
          /\ recorder' = IF FieldOf[w] = "notice" THEN recorder
                         ELSE RecordBaseline(FieldOf[w], remote[FieldOf[w]])
       \/ /\ "blind" \in faults /\ FieldOf[w] = "mute"
          /\ Goes(w, "calls")
          /\ recorder' = RequireBaseline(FieldOf[w])
    /\ UNCHANGED <<faults, remote, begins, finish, sessions, start, touched, exported>>

(* The service executes the request, or refuses it.                        *)
Execute(w) ==
    /\ at[w] = "calls" /\ Goes(w, "answered")
    /\ \/ "call" \in faults /\ UNCHANGED <<remote, touched>>
       \/ /\ remote' = [remote EXCEPT ![FieldOf[w]] = Wanted[w]]
          /\ touched' = IF recorder.active THEN touched \cup {FieldOf[w]} ELSE touched
    /\ UNCHANGED <<faults, recorder, begins, finish, sessions, start, exported>>

(* record_ipc and record_nim, for an answer of either kind.                *)
WithOperation(w) ==
    IF recorder.active THEN [recorder EXCEPT !.operations = @ \cup {w}] ELSE recorder

(* An evaluation that fails records nothing.                               *)
Answer(w) ==
    /\ at[w] = "answered"
    /\ \/ "call" \in faults /\ recorder' = recorder /\ Goes(w, "done")
       \/ recorder' = WithOperation(w) /\ Goes(w, "verifies")
    /\ UNCHANGED <<faults, remote, begins, finish, sessions, start, touched, exported>>

(* What is read back is taken down for the mute of a group and a notice.   *)
Observed(f, v) ==
    IF recorder.active THEN [recorder EXCEPT !.observed[f] = v] ELSE recorder

ReadBack(w) ==
    /\ at[w] = "verifies" /\ Goes(w, "done")
    /\ \/ /\ FieldOf[w] \in {"closed", "notice"} /\ remote[FieldOf[w]] = Wanted[w]
          /\ recorder' = Observed(FieldOf[w], Wanted[w])
       \/ /\ \/ FieldOf[w] \in {"mute", "name"} \/ "read" \in faults
             \/ remote[FieldOf[w]] # Wanted[w]
          /\ recorder' = recorder
    /\ UNCHANGED <<faults, remote, begins, finish, sessions, start, touched, exported>>

(* A callback of the client arrives while the session runs.                *)
Callback ==
    /\ recorder.active /\ ~recorder.callbacks
    /\ recorder' = [recorder EXCEPT !.callbacks = TRUE]
    /\ UNCHANGED <<faults, remote, at, begins, finish, sessions, start, touched, exported>>

-----------------------------------------------------------------------------
(* A session.                                                              *)

AskBegin ==
    /\ begins = "idle" /\ sessions < MaxSessions
    /\ begins' = "waits" /\ sessions' = sessions + 1
    /\ UNCHANGED <<faults, remote, recorder, at, finish, start, touched, exported>>

Begin ==
    /\ begins = "waits" /\ begins' = "idle"
    /\ ~\E w \in Writes : HoldsAutomatic(w)
    /\ "early" \in faults \/ ~\E w \in Writes : Running(w)
    /\ IF recorder.active
       THEN UNCHANGED <<recorder, start, touched>>
       ELSE recorder' = [Idle EXCEPT !.active = TRUE] /\ start' = remote /\ touched' = {}
    /\ UNCHANGED <<faults, remote, at, finish, sessions, exported>>

Cancel ==
    /\ recorder.active /\ ~recorder.finishing
    /\ recorder' = Idle
    /\ UNCHANGED <<faults, remote, at, begins, finish, sessions, start, touched, exported>>

AskFinish(f) ==
    /\ finish[f] = "idle" /\ finish' = [finish EXCEPT ![f] = "waits"]
    /\ UNCHANGED <<faults, remote, recorder, at, begins, sessions, start, touched, exported>>

(* begin_developer_calibration_finalization.                               *)
BeginFinalization(f) ==
    /\ finish[f] = "waits" /\ ~Frozen /\ ~\E w \in Writes : Running(w)
    /\ IF recorder.active /\ ~recorder.finishing
       THEN /\ finish' = [finish EXCEPT ![f] = "reads"]
            /\ recorder' = [recorder EXCEPT !.finishing = TRUE,
                                            !.observed = [g \in Fields |-> Unknown]]
       ELSE finish' = [finish EXCEPT ![f] = "done"] /\ recorder' = recorder
    /\ UNCHANGED <<faults, remote, at, begins, sessions, start, touched, exported>>

(* The permit is dropped: abort_finalization.                              *)
Abort(f) ==
    /\ finish' = [finish EXCEPT ![f] = "done"]
    /\ recorder' = [recorder EXCEPT !.finishing = FALSE]
    /\ UNCHANGED <<faults, remote, at, begins, sessions, start, touched, exported>>

Unread == {g \in recorder.required : recorder.observed[g] = Unknown}

(* verify_developer_calibration_restoration, one target after the other.   *)
ReadTarget(f) ==
    /\ finish[f] = "reads"
    /\ \E g \in Unread :
        \/ /\ recorder' = [recorder EXCEPT !.observed[g] = remote[g]]
           /\ UNCHANGED <<faults, remote, at, begins, finish, sessions, start, touched, exported>>
        \/ /\ "read" \in faults \/ ("blind" \in faults /\ g = "mute")
           /\ Abort(f)

(* restoration_report.                                                     *)
Restored ==
    \A g \in recorder.required :
        /\ recorder.baselines[g] # Unknown
        /\ recorder.observed[g] = recorder.baselines[g]

(* What a capture must hold.                                               *)
Complete == recorder.operations # {} /\ recorder.callbacks /\ Restored

(* The file is written beside its place and moved there, then the session  *)
(* is over; whatever fails before gives the session back.                  *)
Export(f) ==
    /\ finish[f] = "reads" /\ Unread = {}
    /\ \/ /\ Complete
          /\ exported' = [g \in touched |-> <<start[g], remote[g]>>]
          /\ recorder' = Idle      \* commit
          /\ finish' = [finish EXCEPT ![f] = "done"]
          /\ UNCHANGED <<faults, remote, at, begins, sessions, start, touched>>
       \/ (~Complete \/ "file" \in faults) /\ Abort(f)

-----------------------------------------------------------------------------
Next ==
    \/ \E w \in Writes : \/ PermitAutomatic(w) \/ EnterWrite(w) \/ ReadBefore(w)
                         \/ Execute(w) \/ Answer(w) \/ ReadBack(w)
    \/ Callback \/ AskBegin \/ Begin \/ Cancel
    \/ \E f \in Finishers : AskFinish(f) \/ BeginFinalization(f) \/ ReadTarget(f) \/ Export(f)

Spec == Init /\ [][Next]_vars

-----------------------------------------------------------------------------
(* A capture that calls the group restored was taken when every state a    *)
(* write of the session had changed was back where the session found it    *)
(* (README-Developer.md: each item's original state is confirmed to be     *)
(* restored), and no automatic side effect runs within a session.          *)
CapturesAreHonest ==
    /\ \A g \in DOMAIN exported : exported[g][1] = exported[g][2]
    /\ recorder.active => ~\E w \in Automatic : Running(w)
=============================================================================
