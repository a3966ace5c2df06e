---------------------------- MODULE DatabaseFile ----------------------------
(***************************************************************************)
(* The database file over the starts of the program: the check, the        *)
(* snapshot, the schema, the migration, which runs at every start, and the *)
(* recovery of what the last process left (Database::open), and between    *)
(* the starts what the administrator saves.  The file holds one group, one *)
(* rule, one task of the old kind and the activity made of it.             *)
(***************************************************************************)
EXTENDS Integers, FiniteSets

CONSTANTS
    FaultSets,  \* sets of what may happen: "crash", "disk" (damage, failing
                \* copies), "older" (an older file is put back), "retime"
                \* (the administrator moves a migrated activity)
    MaxStarts   \* bound on the starts

VARIABLES
    faults,
    db,         \* what the file holds, 0 as version when there is none
    backups,    \* the snapshots: [version, nr, db]
    at,         \* how far the program is
    old,        \* the version this start has found
    starts,
    saved       \* what the administrator has last saved of each row

vars == <<faults, db, backups, at, old, starts, saved>>

Times == {1, 2}
GroupCodes == {1, 2}
Members == {1}
Levels == {"low", "medium", "high"}

NoRow == [there |-> FALSE]
Untouched == [rule |-> NoRow, switch |-> NoRow, activity |-> NoRow]

(* A row of rules keeps columns of its first form: group_id, priority and  *)
(* the list of the members it spares, who have a table of their own now.   *)
Rule(matcher, type, level, priority, scope, first, groups, members) ==
    [there |-> TRUE, matcher |-> matcher, type |-> type, level |-> level,
     priority |-> priority, scope |-> scope, first |-> first, groups |-> groups,
     exempt |-> members, spared |-> members]
Activity(on, times, groups, deleted) ==
    [there |-> TRUE, on |-> on, times |-> times, groups |-> groups, deleted |-> deleted]

Empty == [version |-> 0, damaged |-> FALSE, rule |-> NoRow, ready |-> FALSE,
          switch |-> [there |-> TRUE, old |-> FALSE, new |-> FALSE],
          reminder |-> "none", activity |-> NoRow, claimed |-> "no"]

(* A file of the first versions has rules, switches and reminders in the   *)
(* old columns alone.                                                      *)
OldFile(version, reminder) ==
    [Empty EXCEPT !.version = version, !.reminder = reminder, !.claimed = "processing",
                  !.switch.old = TRUE,
                  !.rule = [Rule("word", "machine", "medium", 200, "global", 1, {}, Members)
                               EXCEPT !.spared = {}]]

Init ==
    /\ faults \in FaultSets
    /\ db \in {Empty} \cup {OldFile(v, r) : v \in {6, 11, 15}, r \in {"open", "sent"}}
    /\ backups \in IF "older" \in faults /\ db.version = 6
                   THEN {{[version |-> 7, nr |-> n, db |-> Empty] : n \in 1..3}} ELSE {{}}
    /\ at = "down" /\ old = 0 /\ starts = 0 /\ saved = Untouched

Goes(place) == at' = place /\ UNCHANGED <<faults, old, starts, saved>>

-----------------------------------------------------------------------------
(* open, step by step; a failure or a crash leaves the program down. *)

(* quick_check comes before anything is written; of a file whose damage    *)
(* looks like an error of the disk a copy is taken, if it can be.          *)
Check ==
    /\ at = "down" /\ starts < MaxStarts /\ starts' = starts + 1
    /\ IF db.damaged
       THEN at' = "down" /\ old' = old
       ELSE at' = "checked" /\ old' = db.version
    /\ UNCHANGED <<faults, db, backups, saved>>

(* The names of the snapshots begin with the version; of more than three   *)
(* the first by name goes.                                                 *)
Earlier(a, b) == a.version < b.version \/ (a.version = b.version /\ a.nr < b.nr)
LastThree(snapshots) ==
    {s \in snapshots : Cardinality({t \in snapshots : Earlier(s, t)}) < 3}

Snapshot ==
    /\ at = "checked"
    /\ \/ /\ old \in 1..7
          /\ backups' = LastThree(backups \cup {[version |-> old, nr |-> starts + 3, db |-> db]})
          /\ Goes("safe")
       \/ old \notin 1..7 /\ Goes("safe") /\ UNCHANGED backups
       \/ "disk" \in faults /\ Goes("down") /\ UNCHANGED backups
    /\ UNCHANGED db

(* add_column_if_missing, the new switches and the new columns of rules,   *)
(* derived from the old ones.                                              *)
Reshaped(d) ==
    LET r == d.rule
        rule == IF ~r.there THEN r
                ELSE [r EXCEPT
                        !.type = IF r.matcher = "semantic" THEN "ai" ELSE "machine",
                        !.scope = IF r.first = 0 THEN "global" ELSE "selected",
                        !.level = IF r.priority < 100 THEN "low"
                                  ELSE IF r.priority < 200 THEN "medium" ELSE "high",
                        !.groups = @ \cup ({r.first} \ {0}),
                        !.spared = @ \cup r.exempt]
    IN  [d EXCEPT !.rule = rule, !.switch.new = @ \/ d.switch.old]

(* A task of the old kind becomes a draft of an activity, and its group    *)
(* and its time the draft's; what is there already stays.                  *)
Carried(d) ==
    IF d.reminder = "none" THEN d
    ELSE LET a == IF d.activity.there THEN d.activity ELSE Activity(FALSE, {}, {}, FALSE)
         IN  [d EXCEPT !.activity = [a EXCEPT !.times = @ \cup {1}, !.groups = @ \cup {1}]]

(* Slip: without the gate of the version.                                  *)
RemindingAlways(d, from) ==
    IF d.reminder = "open" /\ ~d.activity.deleted THEN [d EXCEPT !.activity.on = TRUE] ELSE d

(* Drafts of reminders that have not been sent are enabled, once.          *)
Reminding(d, from) ==
    IF from < 13 /\ d.reminder = "open" /\ ~d.activity.deleted
    THEN [d EXCEPT !.activity.on = TRUE] ELSE d

Migrated(d, from) == [Reminding(Carried(Reshaped(d)), from) EXCEPT !.version = 14]

(* The tables are there before the version is looked at; the rest is one   *)
(* transaction.                                                            *)
Migrate ==
    /\ at = "safe"
    /\ \/ old <= 14 /\ db' = Migrated(db, old) /\ Goes("migrated")
       \/ (old > 14 \/ "disk" \in faults) /\ Goes("down") /\ UNCHANGED db
    /\ UNCHANGED backups

(* prepare: what was being worked on counts as open or as unknown.         *)
Prepare ==
    /\ at = "migrated"
    /\ db' = [db EXCEPT !.claimed = IF @ = "processing" THEN "recovered" ELSE @]
    /\ Goes("up") /\ UNCHANGED backups

-----------------------------------------------------------------------------
(* While the program is up. *)

Up == at = "up" /\ UNCHANGED <<faults, backups, at, old, starts>>

Work ==
    /\ Up /\ db.claimed # "processing"
    /\ db' = [db EXCEPT !.claimed = "processing"] /\ UNCHANGED saved

(* ensure_account_defaults: once for an account, and nothing that is there *)
(* is touched.  The new columns of a default rule keep their defaults.     *)
EnsureAccountDefaults ==
    /\ Up /\ ~db.ready
    /\ \E matcher \in {"word", "semantic"}, priority \in {50, 100, 200} :
          db' = [db EXCEPT !.ready = TRUE,
                           !.rule = IF @.there THEN @
                                    ELSE Rule(matcher, "machine", "medium", priority, "global", 0, {}, {})]
    /\ UNCHANGED saved

PriorityOf(level) == CASE level = "high" -> 300 [] level = "low" -> 1 [] OTHER -> 100

(* A rule is checked, and saved with the old columns that fit the new.     *)
SaveRule ==
    /\ Up
    /\ \E matcher \in {"word", "semantic"}, level \in Levels, groups \in {{}, {1}, {1, 2}},
          members \in SUBSET Members :
          LET rule == Rule(matcher, IF matcher = "semantic" THEN "ai" ELSE "machine", level,
                           PriorityOf(level), IF groups = {} THEN "global" ELSE "selected",
                           IF groups = {} THEN 0 ELSE 1, groups, members)
          IN  db' = [db EXCEPT !.rule = rule] /\ saved' = [saved EXCEPT !.rule = rule]

(* set_group_features and set_group_rule_features set both switches.       *)
SetFeatures ==
    /\ Up
    /\ \E on \in BOOLEAN :
          LET switch == [there |-> TRUE, old |-> on, new |-> on]
          IN  db' = [db EXCEPT !.switch = switch] /\ saved' = [saved EXCEPT !.switch = switch]

(* The form, the switch and the deletion of an activity.                   *)
SaveActivity ==
    /\ Up /\ db.activity.there
    /\ \E on, deleted \in BOOLEAN, times \in SUBSET Times, groups \in SUBSET GroupCodes :
          LET activity == Activity(on, times, groups, deleted)
          IN  /\ deleted => ~on /\ times = db.activity.times /\ groups = db.activity.groups
              /\ db.activity.deleted => deleted
              /\ "retime" \notin faults => times = db.activity.times /\ groups = db.activity.groups
              /\ db' = [db EXCEPT !.activity = activity]
              /\ saved' = [saved EXCEPT !.activity = activity]

Stop == at = "up" /\ Goes("down") /\ UNCHANGED <<db, backups>>
Crash == "crash" \in faults /\ at # "down" /\ Goes("down") /\ UNCHANGED <<db, backups>>

Damage ==
    /\ "disk" \in faults /\ at = "down" /\ db.version # 0 /\ ~db.damaged
    /\ db' = [db EXCEPT !.damaged = TRUE] /\ UNCHANGED <<faults, backups, at, old, starts, saved>>

(* The administrator puts a snapshot back.                                 *)
Restore ==
    /\ at = "down" /\ db.damaged
    /\ \E s \in backups : db' = s.db
    /\ saved' = Untouched /\ UNCHANGED <<faults, backups, at, old, starts>>

Next ==
    \/ Check \/ Snapshot \/ Migrate \/ Prepare \/ Work
    \/ EnsureAccountDefaults \/ SaveRule \/ SetFeatures \/ SaveActivity
    \/ Stop \/ Crash \/ Damage \/ Restore

Spec == Init /\ [][Next]_vars

-----------------------------------------------------------------------------
Same(stored, was) == was.there => stored = was

(* Whatever the migration does again at every start, a start leaves what   *)
(* the administrator has saved as it was saved (migrate_schema: what was   *)
(* switched off by hand is not switched on again; ensure_account_defaults: *)
(* edits survive upgrades).                                                *)
EditsSurviveStarts ==
    at = "up" => /\ Same(db.rule, saved.rule)
                 /\ Same(db.switch, saved.switch)
                 /\ Same(db.activity, saved.activity)

(* An upgrade carries a reminder that is still to be sent over, enabled,   *)
(* and forgets no claim of the last process.                               *)
UpgradesCarryOver ==
    (at = "up" /\ ~saved.activity.there /\ db.reminder = "open") =>
        (db.activity.there /\ db.activity.on)

(* A file of the first versions is changed only when a snapshot of it is   *)
(* there (open: the snapshot before the migration).                        *)
SnapshotsComeFirst ==
    at = "safe" /\ old \in 1..7 => \E s \in backups : s.version = old /\ s.db = db

StartsKeepWhatIsStored ==
    /\ "retime" \notin faults => EditsSurviveStarts
    /\ UpgradesCarryOver
    /\ "older" \notin faults => SnapshotsComeFirst
    /\ db.damaged => at = "down"
=============================================================================
