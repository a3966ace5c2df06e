---------------------------- MODULE Capabilities ----------------------------
(***************************************************************************)
(* What the bot may do by itself at the chat client: the table of          *)
(* capabilities of gateway.rs, which probes fill and a publication by hand *)
(* opens, the rows that keep what was verified, the loop that probes       *)
(* (lib.rs) and the dispatcher that asks before it acts (runtime/mod.rs).  *)
(* A fingerprint is what the probe was told of the client's version and    *)
(* what the page answered.                                                 *)
(***************************************************************************)
EXTENDS Naturals, FiniteSets

CONSTANTS
    Loop, Dispatchers, Publishers,  \* who works: the loop, tasks of the dispatcher,
                                    \* publications of an announcement by hand
    WantOf,     \* the capability a dispatched effect needs
    Versions,   \* of the chat client
    FaultSets,  \* sets of what may happen: "read", "failed" and "refused" calls,
                \* "process" (it is not found), "db", "crash",
                \* "change" (another client, ready or not), "command" (of the
                \* administrator, that starts the client), "hasty" (publications
                \* and changes while the table does not show the client of now)
    MaxChanges, \* bound on the changes of the client
    MaxProbes   \* bound on the rounds of the loop

VARIABLES
    faults,
    client,     \* the chat client: its version and what its page has ready
    table,      \* the capabilities, in memory
    rows,       \* gateway_capability_verifications, of the announcement
    gate,       \* who probes
    at,         \* how far each one is
    held,       \* the table, the answer or the fingerprint each one holds
    changes, rounds,
    readBack    \* what the client was when a publication was read back

vars == <<faults, client, table, rows, gate, at, held, changes, rounds, readBack>>

Probers == {Loop} \cup Dispatchers
Everyone == Probers \cup Publishers
Nobody == "nobody"
Unnamed == 0    \* the version of a probe that is told none
Kinds == {"announcement", "send", "mute", "remove"}
Parts == {"ipc", "nim", "routes"}

(* A fingerprint, none before the first probe.                             *)
MarkOf(version, parts) == [version |-> version, parts |-> parts]
NoMark == MarkOf(Unnamed, {})

Capability(status, auto, print) == [status |-> status, auto |-> auto, print |-> print]
Supported(print) == Capability("supported", TRUE, print)
Unavailable(print) == Capability("unavailable", FALSE, print)
ByHand(print) == Capability("manual", FALSE, print)

Unverified == [k \in Kinds |-> ByHand(NoMark)]

Nothing == [table |-> Unverified, parts |-> {}, version |-> Unnamed]

Init ==
    /\ faults \in FaultSets
    /\ client \in [version : Versions, parts : SUBSET Parts]
    /\ table = Unverified /\ rows = {} /\ gate = Nobody
    /\ at = [c \in Everyone |-> "idle"] /\ held = [c \in Everyone |-> Nothing]
    /\ changes = 0 /\ rounds = 0 /\ readBack = {}

Goes(c, place) == at' = [at EXCEPT ![c] = place]
Holds(c, what) == held' = [held EXCEPT ![c] = what]

-----------------------------------------------------------------------------
(* runtime_protocol_probe, one at a time. *)

EnterProbe(c) ==
    /\ at[c] = "probe" /\ gate = Nobody
    /\ gate' = c /\ Goes(c, "looking")
    /\ Holds(c, [held[c] EXCEPT !.table = table])
    /\ UNCHANGED <<faults, client, table, rows, changes, rounds, readBack>>

Returned(c) ==
    /\ gate' = Nobody /\ Goes(c, "probed")
    /\ UNCHANGED <<faults, client, rows, changes, rounds, readBack>>

(* Without an answer of the page, its IPC, the groups or the members the   *)
(* probe gives back the table it has begun with and writes nothing.        *)
KeepPrevious(c) ==
    /\ at[c] \in {"looking", "reading"}
    /\ "read" \in faults \/ (at[c] = "looking" /\ "ipc" \notin client.parts)
    /\ Returned(c) /\ UNCHANGED <<table, held>>

Look(c) ==
    /\ at[c] = "looking" /\ "ipc" \in client.parts
    /\ Goes(c, "reading") /\ Holds(c, [held[c] EXCEPT !.parts = client.parts])
    /\ UNCHANGED <<faults, client, table, rows, gate, changes, rounds, readBack>>

(* A question of the structure is answered, refused, or fails for now, and *)
(* then what was known before stays.                                       *)
Outcomes == {"answered"} \cup ({"refused", "failed"} \cap faults)
Judged(outcome, good, print, previous) ==
    CASE outcome = "answered" -> good
      [] outcome = "refused" -> Unavailable(print)
      [] OTHER -> previous

(* The members' mute follows from the routes, a text needs NIM and the     *)
(* encoding; members are never removed automatically.                      *)
Probed(previous, print, encoding, notices) ==
    [k \in Kinds |->
        CASE k = "mute" -> IF "routes" \in print.parts THEN Supported(print) ELSE Unavailable(print)
          [] k = "remove" -> IF "routes" \in print.parts THEN Capability("supported", FALSE, print)
                             ELSE Unavailable(print)
          [] k = "send" -> IF "nim" \in print.parts
                           THEN Judged(encoding, Supported(print), print, previous[k])
                           ELSE Unavailable(print)
          [] k = "announcement" -> Judged(notices, ByHand(print), print, previous[k])]

Conclude(c) ==
    /\ at[c] = "reading"
    /\ \E encoding, notices \in Outcomes :
          LET found == Probed(held[c].table, MarkOf(held[c].version, held[c].parts), encoding, notices)
          IN  table' = found /\ Holds(c, [held[c] EXCEPT !.table = found])
    /\ Returned(c)

-----------------------------------------------------------------------------
(* A publication that has been read back opens the announcement, under the *)
(* fingerprint the table shows by then.                                    *)

Marked == [table EXCEPT !["announcement"] = Supported(@.print)]

(* set_group_announcement *)
ShownNow(k) == table[k].print.parts = client.parts /\ table[k].print.version \in {Unnamed, client.version}

Publish(p) ==
    /\ at[p] = "idle" /\ "ipc" \in client.parts
    /\ "hasty" \in faults \/ (ShownNow("announcement") /\ gate = Nobody)
    /\ readBack' = readBack \cup {client}
    /\ Goes(p, "receipt")
    /\ UNCHANGED <<faults, client, table, rows, gate, held, changes, rounds>>

Unverifiable(p) ==
    /\ at[p] = "idle" /\ Goes(p, "over")
    /\ UNCHANGED <<faults, client, table, rows, gate, held, changes, rounds, readBack>>

Mark(p) ==
    /\ at[p] = "receipt" /\ Goes(p, "marked")
    /\ table' = Marked
    /\ Holds(p, [Nothing EXCEPT !.table = Marked])
    /\ UNCHANGED <<faults, client, rows, gate, changes, rounds, readBack>>

(* A row is written over whatever stands there under the fingerprint.      *)
Saved(capability) ==
    {r \in rows : r.print # capability.print}
        \cup {[print |-> capability.print, open |-> capability.status = "supported" /\ capability.auto]}
(* Slip: any row of the fingerprint counts.                                *)
Recorded(print) == \E r \in rows : r.print = print

Verified(print) == \E r \in rows : r.print = print /\ r.open

SaveMark(p) ==
    /\ at[p] = "marked" /\ Goes(p, "over")
    /\ \/ rows' = Saved(held[p].table["announcement"])
       \/ "db" \in faults /\ UNCHANGED rows
    /\ UNCHANGED <<faults, client, table, gate, held, changes, rounds, readBack>>

-----------------------------------------------------------------------------
(* capability_calibration_loop: at another client, else every five minutes. *)

Tick ==
    /\ at[Loop] = "idle" /\ rounds < MaxProbes
    /\ rounds' = rounds + 1 /\ Goes(Loop, "probe")
    /\ \E v \in {client.version} \cup IF "process" \in faults THEN {Unnamed} ELSE {} :
          Holds(Loop, [Nothing EXCEPT !.version = v])
    /\ UNCHANGED <<faults, client, table, rows, gate, changes, readBack>>

(* What was verified under the fingerprint before is opened again.         *)
Recall ==
    /\ at[Loop] = "probed" /\ Goes(Loop, "saving")
    /\ LET mine == held[Loop].table["announcement"]
           known == mine.status = "manual" /\ mine.print # NoMark /\ Verified(mine.print)
       IN  \/ known /\ table' = Marked /\ Holds(Loop, [held[Loop] EXCEPT !.table = Marked])
           \/ (~known \/ "db" \in faults) /\ UNCHANGED <<table, held>>
    /\ UNCHANGED <<faults, client, rows, gate, changes, rounds, readBack>>

SaveRound ==
    /\ at[Loop] = "saving" /\ Goes(Loop, "idle")
    /\ \/ rows' = Saved(held[Loop].table["announcement"])
       \/ "db" \in faults /\ UNCHANGED rows
    /\ UNCHANGED <<faults, client, table, gate, held, changes, rounds, readBack>>

-----------------------------------------------------------------------------
(* dispatch_effect_permitted: an effect whose capability is not yet known  *)
(* probes once, without a version, and acts as the table then says.        *)

Ask(d) ==
    /\ at[d] = "idle"
    /\ LET mine == table[WantOf[d]]
       IN  IF mine.status = "manual" /\ ~mine.auto
           THEN Goes(d, "probe") /\ Holds(d, Nothing)
           ELSE Goes(d, "probed") /\ Holds(d, [Nothing EXCEPT !.table = table])
    /\ UNCHANGED <<faults, client, table, rows, gate, changes, rounds, readBack>>

Decide(d) ==
    /\ at[d] = "probed"
    /\ LET mine == held[d].table[WantOf[d]]
       IN  Goes(d, IF mine.auto THEN "executed" ELSE IF mine.status = "manual" THEN "idle" ELSE "refused")
    /\ UNCHANGED <<faults, client, table, rows, gate, held, changes, rounds, readBack>>

-----------------------------------------------------------------------------

(* The client is updated, put back, logged in or out; where nobody is      *)
(* hasty, between the rounds of the loop and the publications.             *)
ClientChanges ==
    /\ "change" \in faults /\ changes < MaxChanges /\ changes' = changes + 1
    /\ "hasty" \in faults \/ (at[Loop] = "idle" /\ \A p \in Publishers : at[p] # "receipt")
    /\ \E next \in [version : Versions, parts : SUBSET Parts] : next # client /\ client' = next
    /\ UNCHANGED <<faults, table, rows, gate, at, held, rounds, readBack>>

(* calibrate_capabilities, when the administrator starts or patches the    *)
(* client, puts back the table of an unverified one.                       *)
Calibrate ==
    /\ "command" \in faults /\ changes < MaxChanges /\ changes' = changes + 1
    /\ table' = Unverified
    /\ UNCHANGED <<faults, client, rows, gate, at, held, rounds, readBack>>

(* The table is of the process, the rows are kept.                         *)
CrashAndRestart ==
    /\ "crash" \in faults /\ changes < MaxChanges /\ changes' = changes + 1
    /\ table' = Unverified /\ gate' = Nobody
    /\ at' = [c \in Everyone |-> IF c \in Publishers /\ at[c] # "idle" THEN "over"
                                 ELSE IF at[c] \in {"executed", "refused"} THEN at[c] ELSE "idle"]
    /\ held' = [c \in Everyone |-> IF at[c] \in {"executed", "refused"} THEN held[c] ELSE Nothing]
    /\ UNCHANGED <<faults, client, rows, rounds, readBack>>

Next ==
    \/ \E c \in Probers : EnterProbe(c) \/ KeepPrevious(c) \/ Look(c) \/ Conclude(c)
    \/ \E p \in Publishers : Publish(p) \/ Unverifiable(p) \/ Mark(p) \/ SaveMark(p)
    \/ Tick \/ Recall \/ SaveRound
    \/ \E d \in Dispatchers : Ask(d) \/ Decide(d)
    \/ ClientChanges \/ Calibrate \/ CrashAndRestart

Spec == Init /\ [][Next]_vars

-----------------------------------------------------------------------------

Statuses == {"supported", "manual", "unavailable"}
Marks == [version : Versions \cup {Unnamed}, parts : SUBSET Parts]
Tables == [Kinds -> [status : Statuses, auto : BOOLEAN, print : Marks]]

TypeOK ==
    /\ faults \in FaultSets /\ WantOf \in [Dispatchers -> Kinds \ {"announcement"}]
    /\ client \in [version : Versions, parts : SUBSET Parts]
    /\ table \in Tables /\ ~table["remove"].auto
    /\ rows \subseteq [print : Marks, open : BOOLEAN]
    /\ gate \in Probers \cup {Nobody}
    /\ gate # Nobody <=> \E c \in Probers : at[c] \in {"looking", "reading"}
    /\ \A c \in Everyone : held[c].table \in Tables
    /\ changes \in 0..MaxChanges /\ rounds \in 0..MaxProbes

(* Announcements are open to the bot under a fingerprint only if one was   *)
(* published by hand and read back at the client it stands for, in this    *)
(* process or before, whatever is probed meanwhile (docs/PROTOCOL-         *)
(* CONTRACT.md: only the first read-back by hand opens them).              *)
Earned(print) ==
    print = NoMark \/ \E c \in readBack : c.parts = print.parts /\ print.version \in {Unnamed, c.version}

AnnouncementsAreEarned ==
    /\ table["announcement"].auto => readBack # {} /\ Earned(table["announcement"].print)
    /\ \A r \in rows : r.open => Earned(r.print)

(* An effect is executed only if the client was found able to, and given   *)
(* up only if it was found not to be, never for want of a probe (the       *)
(* comment in dispatch_effect_permitted).                                  *)
Needs(k) == IF k = "send" THEN "nim" ELSE "routes"
EffectsFollowFindings ==
    \A d \in Dispatchers :
        LET mine == held[d].table[WantOf[d]]
        IN  /\ at[d] = "executed" => mine.print # NoMark /\ Needs(WantOf[d]) \in mine.print.parts
            /\ at[d] = "refused" =>
                  \/ WantOf[d] = "remove"
                  \/ Needs(WantOf[d]) \notin mine.print.parts
                  \/ "refused" \in faults

CapabilitiesAreProven == AnnouncementsAreEarned /\ EffectsFollowFindings

(* What has been verified under a fingerprint stays so: the code does not  *)
(* keep to it, the loop saves what it knew before.                         *)
VerificationsStay == [][\A r \in rows : r.open => r \in rows']_vars

(* A text is not given up because NIM was not ready yet: the code does not *)
(* keep to it either.                                                      *)
TextsAwaitNim ==
    \A d \in Dispatchers :
        at[d] = "refused" /\ WantOf[d] = "send" => "nim" \in held[d].table["send"].print.parts
=============================================================================
