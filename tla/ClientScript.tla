---------------------------- MODULE ClientScript ----------------------------
(***************************************************************************)
(* The start script of the desktop chat client, which DH patches so that   *)
(* the client keeps its login partition, and puts back on request: backup, *)
(* manifest, replacement and verification (platform.rs).  Starting the     *)
(* client, the maintenance commands and the elevated helper may all be at  *)
(* it; the client's own updates bring new scripts.                         *)
(***************************************************************************)
EXTENDS Naturals, SequencesExt

CONSTANTS
    Programs,
    FaultSets,  \* sets of what may happen: "crash", "torn" (a backup cut off
                \* by a crash), "together" (two programs at once), "update",
                \* "restore" (commands to restore)
    Versions,   \* of the client: 1..n
    MaxRuns     \* bound on the operations begun

VARIABLES
    faults,
    script,     \* index.js
    spare,      \* index.js.dh-restore-tmp, or Nothing
    backups,    \* index.js.<hash>.bak of each version, or Nothing
    drafts,     \* versions whose manifest waits as *.json.tmp
    manifests,  \* versions with a manifest, the latest last
    at,         \* of each program
    job,        \* [restores, of]: what it is doing and with which version
    runs

files == <<script, spare, backups, drafts, manifests>>
vars == <<faults, files, at, job, runs>>

Original(v) == [kind |-> "original", of |-> v]
Patched(v) == [kind |-> "patched", of |-> v]
Garbled == [kind |-> "garbled", of |-> 0]

(* A file is whole when nobody is writing it and nobody was cut off.       *)
File(text, by) == [text |-> text, by |-> by]
Nothing == File([kind |-> "nothing", of |-> 0], {})
Whole(f) == f.by = {} /\ f.text.kind \in {"original", "patched"}
Holds(f, text) == Whole(f) /\ f.text = text

(* fs::write: open and truncate, and, later, close.  Two writers at once   *)
(* leave a whole file only if they write the same.                         *)
Opened(f, p, text) ==
    LET others == f.by \ {"gone"}
    IN File(IF others = {} \/ f.text = text THEN text ELSE Garbled, others \cup {p})
Closed(f, p) == [f EXCEPT !.by = @ \ {p}]
Lost(f, p) == [f EXCEPT !.by = IF p \in @ THEN (@ \ {p}) \cup {"gone"} ELSE @]

Idle == [restores |-> FALSE, of |-> 0]
Ends(p) == at' = [at EXCEPT ![p] = "idle"] /\ job' = [job EXCEPT ![p] = Idle]
Goes(p, where) == at' = [at EXCEPT ![p] = where] /\ job' = job

Init ==
    /\ faults \in FaultSets
    /\ script = File(Original(1), {}) /\ spare = Nothing
    /\ backups = [v \in Versions |-> Nothing]
    /\ drafts = {} /\ manifests = <<>>
    /\ at = [p \in Programs |-> "idle"] /\ job = [p \in Programs |-> Idle]
    /\ runs = 0

Free(p) ==
    /\ at[p] = "idle" /\ runs < MaxRuns /\ runs' = runs + 1
    /\ "together" \in faults \/ \A q \in Programs : at[q] = "idle"

-----------------------------------------------------------------------------
(* Slip: one name for the backups of all versions.                         *)
BackedOnce(v) == \E w \in Versions : backups[w] # Nothing

(* A backup is named by the hash of what it holds.                         *)
Backed(v) == backups[v] # Nothing

(* prepare_persistent_profile: a script that is patched already, or of an  *)
(* unknown shape, is left alone.                                           *)
BeginApply(p) ==
    /\ Free(p)
    /\ \E v \in Versions :
          /\ Holds(script, Original(v))
          /\ job' = [job EXCEPT ![p] = [restores |-> FALSE, of |-> v]]
          /\ at' = [at EXCEPT ![p] = IF Backed(v) THEN "draft" ELSE "open"]
    /\ UNCHANGED <<faults, files>>

OpenBackup(p) ==
    /\ at[p] = "open"
    /\ backups' = [backups EXCEPT ![job[p].of] = Opened(@, p, Original(job[p].of))]
    /\ Goes(p, "backup")
    /\ UNCHANGED <<faults, script, spare, drafts, manifests, runs>>

CloseBackup(p) ==
    /\ at[p] = "backup"
    /\ backups' = [backups EXCEPT ![job[p].of] = Closed(@, p)]
    /\ Goes(p, "draft")
    /\ UNCHANGED <<faults, script, spare, drafts, manifests, runs>>

(* write_profile_manifest: a draft takes the place of the manifest, which  *)
(* is removed first.                                                       *)
DraftManifest(p) ==
    /\ at[p] = "draft"
    /\ drafts' = drafts \cup {job[p].of}
    /\ Goes(p, "forget")
    /\ UNCHANGED <<faults, script, spare, backups, manifests, runs>>

(* There is one manifest of a version at most.                             *)
Without(v) == RemoveFirst(manifests, v)

ForgetManifest(p) ==
    /\ at[p] = "forget"
    /\ manifests' = Without(job[p].of)
    /\ Goes(p, "manifest")
    /\ UNCHANGED <<faults, script, spare, backups, drafts, runs>>

PlaceManifest(p) ==
    /\ at[p] = "manifest"
    /\ IF job[p].of \in drafts
       THEN /\ manifests' = Append(Without(job[p].of), job[p].of)
            /\ drafts' = drafts \ {job[p].of}
            /\ Goes(p, "replace")
       ELSE UNCHANGED <<manifests, drafts>> /\ Ends(p)
    /\ UNCHANGED <<faults, script, spare, backups, runs>>

-----------------------------------------------------------------------------
(* restore_profile_patch takes the backup of the latest manifest.          *)
BeginRestore(p) ==
    /\ Free(p) /\ "restore" \in faults /\ manifests # <<>>
    /\ LET v == manifests[Len(manifests)]
       IN /\ Holds(backups[v], Original(v))
          /\ job' = [job EXCEPT ![p] = [restores |-> TRUE, of |-> v]]
    /\ at' = [at EXCEPT ![p] = "replace"]
    /\ UNCHANGED <<faults, files>>

-----------------------------------------------------------------------------
(* atomic_replace: write the spare file and move it over the script.       *)
Text(p) == IF job[p].restores THEN Original(job[p].of) ELSE Patched(job[p].of)

OpenSpare(p) ==
    /\ at[p] = "replace"
    /\ \/ spare' = Opened(spare, p, Text(p)) /\ Goes(p, "spare")
       \/ spare' = spare /\ Ends(p)    \* the directory asks for an administrator
    /\ UNCHANGED <<faults, script, backups, drafts, manifests, runs>>

(* The file may have been moved meanwhile.                                 *)
CloseSpare(p) ==
    /\ at[p] \in {"spare", "undo"}
    /\ script' = Closed(script, p) /\ spare' = Closed(spare, p)
    /\ Goes(p, IF at[p] = "spare" THEN "move" ELSE "move back")
    /\ UNCHANGED <<faults, backups, drafts, manifests, runs>>

Moved == script' = spare /\ spare' = Nothing

Move(p) ==
    /\ at[p] = "move"
    /\ \/ spare # Nothing /\ Moved /\ (IF job[p].restores THEN Ends(p) ELSE Goes(p, "verify"))
       \/ script' = script /\ spare' = Nothing /\ Ends(p)    \* refused
    /\ UNCHANGED <<faults, backups, drafts, manifests, runs>>

Verify(p) ==
    /\ at[p] = "verify"
    /\ IF Holds(script, Text(p)) THEN spare' = spare /\ Ends(p)
       ELSE spare' = Opened(spare, p, Original(job[p].of)) /\ Goes(p, "undo")
    /\ UNCHANGED <<faults, script, backups, drafts, manifests, runs>>

MoveBack(p) ==
    /\ at[p] = "move back" /\ Ends(p)
    /\ \/ spare # Nothing /\ Moved
       \/ script' = script /\ spare' = Nothing
    /\ UNCHANGED <<faults, backups, drafts, manifests, runs>>

-----------------------------------------------------------------------------
(* A program ends anywhere; where it was writing, a part is left.          *)
Crash(p) ==
    /\ "crash" \in faults /\ at[p] # "idle" /\ Ends(p)
    /\ "torn" \in faults \/ at[p] # "backup"
    /\ script' = Lost(script, p) /\ spare' = Lost(spare, p)
    /\ backups' = [v \in Versions |-> Lost(backups[v], p)]
    /\ UNCHANGED <<faults, drafts, manifests, runs>>

(* The client's own update brings the script of the next version.          *)
Update ==
    /\ "update" \in faults
    /\ \E v \in Versions : v = script.text.of + 1 /\ script' = File(Original(v), {})
    /\ UNCHANGED <<faults, spare, backups, drafts, manifests, at, job, runs>>

Step(p) ==
    \/ BeginApply(p) \/ OpenBackup(p) \/ CloseBackup(p)
    \/ DraftManifest(p) \/ ForgetManifest(p) \/ PlaceManifest(p)
    \/ BeginRestore(p)
    \/ OpenSpare(p) \/ CloseSpare(p) \/ Move(p) \/ Verify(p) \/ MoveBack(p)

Next == Update \/ \E p \in Programs : Step(p) \/ Crash(p)

Spec == Init /\ [][Next]_vars
-----------------------------------------------------------------------------
Running == \E p \in Programs : at[p] # "idle"

(* Whatever ends half-way, the original of the patched script is kept and  *)
(* named by the manifest a restore would take, and, when nobody is at work, *)
(* the client has a whole script to start (manual: the script is backed up *)
(* before it is patched, and a failure is rolled back).                    *)
OriginalIsKept ==
    /\ \A v \in Versions : script.text = Patched(v) =>
          /\ Holds(backups[v], Original(v))
          /\ manifests # <<>> /\ manifests[Len(manifests)] = v
    /\ Running \/ Whole(script)
=============================================================================
