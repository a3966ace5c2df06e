------------------------------ MODULE WebWrites -----------------------------
(****************************************************************************)
(* Group management in the web edition (dh-server's rust_gateway.rs): what  *)
(* is read of groups and members through the login's client, the two caches *)
(* of it, and the writes, which look at the roster first and read back what *)
(* they have changed.  Whoever waits compares the login's epoch afterwards. *)
(* The session is LoginSession: its lock is held during one request, so a   *)
(* request is one step.                                                     *)
(****************************************************************************)
EXTENDS LoginSession

CONSTANTS
    Calls,      \* of the pages and the loops
    Cases       \* what the calls do ("look" only reads, "none" does nothing), and
                \* sets of what may happen: "login" (the session moves on),
                \* "roles" (of members change), "ignored" (a request is accepted
                \* and not carried out), "cancel" (a call is dropped),
                \* "late" (a read roster is kept late)

VARIABLES
    faults, kind,
    group,      \* at the service: what the writers change, who manages, whether
                \* the member concerned is a plain one
    groups, members,    \* the caches
    writing,    \* who holds the lock of the writes, or Nobody
    at, stage,  \* where each call stands, and what it reads the roster for
    hand,       \* what each call has noted
    receipt,    \* what it was answered
    executed,   \* the login that carried out its write
    was         \* since then the group has been as it asks

vars == <<sessionVars, faults, kind, group, groups, members, writing, at, stage,
          hand, receipt, executed, was>>

Nobody == 0
Kinds == {"card", "mute", "close", "notice", "remove", "look", "none"}
Writers == {c \in Calls : kind[c] \notin {"look", "none"}}
Uncached == [epoch |-> 0, by |-> 0, group |-> [value |-> FALSE, managers |-> {}, plain |-> FALSE]]
Cached(cache) == cache.epoch = epoch
Read(e) == [epoch |-> e, by |-> client, group |-> group]
Empty == [first |-> 0, noted |-> 0, listed |-> 0, write |-> 0, seen |-> Uncached]

Goes(c, place) == at' = [at EXCEPT ![c] = place]
Notes(c, field, x) == hand' = [hand EXCEPT ![c][field] = x]
Wanted(c) == c = 1      \* the others undo what the first one does

Ends(c, answer) ==
    /\ Goes(c, "done")
    /\ receipt' = [receipt EXCEPT ![c] = answer]
    /\ writing' = IF writing = c THEN Nobody ELSE writing
    /\ hand' = [hand EXCEPT ![c] = Empty]

(* What cannot be read back is not known; any other error is the answer.    *)
Fails(c) == Ends(c, IF stage[c] = "back" THEN "unknown" ELSE "error")

Init ==
    /\ client = 1 /\ epoch = 1 /\ kept = 1 /\ made = 1
    /\ \E case \in Cases : faults = case.faults /\ kind = case.kind
    /\ group \in [value : BOOLEAN, managers : {{1, 2}}, plain : {TRUE}]
    /\ groups = Uncached /\ members = Uncached
    /\ writing = Nobody
    /\ at = [c \in Calls |-> "idle"] /\ stage = [c \in Calls |-> "ask"]
    /\ hand = [c \in Calls |-> Empty]
    /\ receipt = [c \in Calls |-> "none"]
    /\ executed = [c \in Calls |-> 0] /\ was = [c \in Calls |-> FALSE]

Others == <<sessionVars, faults, kind>>
Told == <<receipt, executed, was>>

(* What a call keeps in hand when a read is behind it.                      *)
Rest(c) == [Empty EXCEPT !.first = hand[c].first, !.write = hand[c].write]

(* A call has what it wanted to read.                                       *)
Has(c, x) == hand' = [hand EXCEPT ![c] = [Rest(c) EXCEPT !.seen = x]] /\ Goes(c, "have")

(* A card or a mute looks the member up before it queues; a reader just     *)
(* looks.                                                                   *)
Ask(c) ==
    /\ at[c] = "idle" /\ kind[c] # "none"
    /\ Goes(c, IF kind[c] \in {"card", "mute", "look"} THEN "members" ELSE "queue")
    /\ Notes(c, "first", epoch)
    /\ UNCHANGED <<Others, group, groups, members, writing, stage, Told>>

(* list_members: the epoch, the cache (of five seconds), then the groups.   *)
ListMembers(c) ==
    /\ at[c] = "members"
    /\ \/ /\ Cached(members)
          /\ Has(c, members)
       \/ Notes(c, "noted", epoch) /\ Goes(c, "groups")
    /\ UNCHANGED <<Others, group, groups, members, writing, stage, Told>>

(* The groups tell whether one of them is closed; else they are looked at   *)
(* before the notices or the members are read.                              *)
AfterGroups(c, x) ==
    IF stage[c] = "back" /\ kind[c] = "close" THEN Has(c, x)
    ELSE /\ hand' = [hand EXCEPT ![c].listed = 0]
         /\ Goes(c, IF stage[c] = "back" /\ kind[c] = "notice" THEN "notices" ELSE "pages")

(* group_data: the epoch and the cache (of ten seconds), ...                *)
LookUpGroups(c) ==
    /\ at[c] = "groups"
    /\ \/ /\ Cached(groups)
          /\ AfterGroups(c, groups)
       \/ Notes(c, "listed", epoch) /\ Goes(c, "list")
    /\ UNCHANGED <<Others, group, groups, members, writing, stage, Told>>

(* ... then the client, which answers for its own login only; what it says  *)
(* is kept before another request can be made.                              *)
ReadGroups(c) ==
    /\ at[c] = "list"
    /\ UNCHANGED <<Others, group, members, stage, executed, was>>
    /\ IF client = 0 \/ epoch # hand[c].listed
       THEN UNCHANGED groups /\ Fails(c)
       ELSE /\ groups' = Read(hand[c].listed)
            /\ AfterGroups(c, groups')
            /\ UNCHANGED <<writing, receipt>>

(* The pages of the roster; it is put into the cache when the client may    *)
(* have been given to others already ("late").                              *)
ReadPages(c) ==
    /\ at[c] = "pages"
    /\ UNCHANGED <<Others, group, groups, stage, executed, was>>
    /\ IF client = 0 \/ epoch # hand[c].noted
       THEN UNCHANGED members /\ Fails(c)
       ELSE /\ \/ "late" \in faults /\ Notes(c, "seen", Read(epoch)) /\ Goes(c, "keep")
                  /\ UNCHANGED members
               \/ members' = Read(epoch) /\ Has(c, members')
            /\ UNCHANGED <<writing, receipt>>

KeepRoster(c) ==
    /\ at[c] = "keep"
    /\ members' = hand[c].seen
    /\ Has(c, members')
    /\ UNCHANGED <<Others, group, groups, writing, stage, Told>>

(* The notices are read afresh.                                             *)
ReadNotices(c) ==
    /\ at[c] = "notices"
    /\ IF client = 0 \/ epoch # hand[c].noted
       THEN Fails(c)
       ELSE /\ Has(c, Read(epoch))
            /\ UNCHANGED <<writing, receipt>>
    /\ UNCHANGED <<Others, group, groups, members, stage, executed, was>>

LookedUp(c) ==
    /\ at[c] = "have" /\ stage[c] = "ask"
    /\ Goes(c, IF kind[c] = "look" THEN "done" ELSE "queue")
    /\ hand' = [hand EXCEPT ![c] = Rest(c)]
    /\ UNCHANGED <<Others, group, groups, members, writing, stage, Told>>

(* write_with_data: one at a time; the epoch is noted first, then manager   *)
(* has the roster read again.                                               *)
Queue(c) ==
    /\ at[c] = "queue" /\ writing = Nobody
    /\ writing' = c
    /\ Notes(c, "write", epoch)
    /\ members' = Uncached
    /\ stage' = [stage EXCEPT ![c] = "permit"] /\ Goes(c, "members")
    /\ UNCHANGED <<Others, group, groups, Told>>

(* The roster must show the login as a manager and the member as a plain    *)
(* one (a group's own settings have no member).                             *)
Permit(c) ==
    /\ at[c] = "have" /\ stage[c] = "permit"
    /\ LET roster == hand[c].seen.group
       IN  IF /\ client # 0 /\ client \in roster.managers
              /\ kind[c] \in {"card", "mute", "remove"} => roster.plain
           THEN Goes(c, "send") /\ UNCHANGED <<hand, writing, receipt>>
           ELSE Fails(c)
    /\ UNCHANGED <<Others, group, groups, members, stage, executed, was>>

Becomes(value) ==
    /\ group' = [group EXCEPT !.value = value]
    /\ was' = [d \in Calls |-> was[d] \/ (executed'[d] # 0 /\ Wanted(d) = value)]

SendsAnyway(c) ==
    /\ at[c] = "send"
    /\ IF client = 0
       THEN Fails(c) /\ UNCHANGED <<group, executed, was>>
       ELSE /\ executed' = [executed EXCEPT ![c] = client]
            /\ Becomes(Wanted(c))
            /\ Goes(c, "clear") /\ UNCHANGED <<hand, writing, receipt>>
    /\ UNCHANGED <<Others, groups, members, stage>>

(* The request, under the epoch of the write; its answer may be lost.       *)
Send(c) ==
    /\ at[c] = "send"
    /\ IF client = 0 \/ epoch # hand[c].write
       THEN Fails(c) /\ UNCHANGED <<group, executed, was>>
       ELSE /\ executed' = [executed EXCEPT ![c] = client]
            /\ \/ Becomes(Wanted(c))
               \/ "ignored" \in faults /\ Becomes(group.value)
            /\ \/ Goes(c, "clear") /\ UNCHANGED <<hand, writing, receipt>>
               \/ Fails(c)
    /\ UNCHANGED <<Others, groups, members, stage>>

ClearGroups(c) ==
    /\ at[c] = "clear"
    /\ groups' = Uncached
    /\ Goes(c, "cleared")
    /\ UNCHANGED <<Others, group, members, writing, stage, hand, Told>>

(* The roster is dropped too, and the next write may begin: what follows is *)
(* read while others write.                                                 *)
ReadBack(c) ==
    /\ at[c] = "cleared"
    /\ members' = Uncached
    /\ stage' = [stage EXCEPT ![c] = "back"]
    /\ UNCHANGED <<Others, group, groups, executed, was>>
    /\ IF kind[c] = "remove"
       THEN Ends(c, "unknown")
       ELSE /\ hand' = [hand EXCEPT ![c] = [Rest(c) EXCEPT !.noted = epoch]]
            /\ writing' = Nobody
            /\ Goes(c, CASE kind[c] = "card" -> "members"
                         [] kind[c] = "mute" -> "nim"
                         [] OTHER -> "groups")
            /\ UNCHANGED receipt

(* A mute is done once more at the connection for messages and read there,  *)
(* if the login is still the one that asked.                                *)
MuteAtNim(c) ==
    /\ at[c] = "nim"
    /\ UNCHANGED executed
    /\ IF client # 0 /\ epoch = hand[c].first
       THEN \/ Becomes(Wanted(c)) /\ Ends(c, "verified")
            \/ UNCHANGED <<group, was>> /\ Ends(c, "unknown")
       ELSE UNCHANGED <<group, was>> /\ Ends(c, "unknown")
    /\ UNCHANGED <<Others, groups, members, stage>>

Compare(c) ==
    /\ at[c] = "have" /\ stage[c] = "back"
    /\ Ends(c, IF hand[c].seen.group.value = Wanted(c) THEN "verified" ELSE "unknown")
    /\ UNCHANGED <<Others, group, groups, members, stage, executed, was>>

Cancel(c) ==
    /\ "cancel" \in faults /\ at[c] \notin {"idle", "done"}
    /\ Ends(c, "none")
    /\ UNCHANGED <<Others, group, groups, members, stage, executed, was>>

(* The session and the members of the group change by themselves.           *)
SessionMoves ==
    /\ "login" \in faults
    /\ Begin \/ End \/ Expire
    /\ UNCHANGED <<faults, kind, group, groups, members, writing, at, stage, hand, Told>>

RolesChange ==
    /\ "roles" \in faults
    /\ group.managers = {1, 2}
    /\ group' = [group EXCEPT !.managers = {2}, !.plain = FALSE]
    /\ UNCHANGED <<Others, groups, members, writing, at, stage, hand, Told>>

Next ==
    \/ \E c \in Calls :
        \/ Ask(c) \/ ListMembers(c) \/ LookUpGroups(c) \/ ReadGroups(c)
        \/ ReadPages(c) \/ KeepRoster(c) \/ LookedUp(c)
    \/ \E c \in Writers :
        \/ ReadNotices(c) \/ Queue(c) \/ Permit(c) \/ Send(c) \/ ClearGroups(c)
        \/ ReadBack(c) \/ MuteAtNim(c) \/ Compare(c) \/ Cancel(c)
    \/ SessionMoves \/ RolesChange

Spec == Init /\ [][Next]_vars

TypeOK ==
    /\ writing \in Writers \cup {Nobody}
    /\ \A c \in Calls :
        /\ kind[c] \in Kinds /\ stage[c] \in {"ask", "permit", "back"}
        /\ receipt[c] \in {"none", "error", "unknown", "verified"}

(* A write is carried out by the login whose roster permitted it, whatever  *)
(* logins came and went while it waited (write_with_data notes the epoch    *)
(* before manager reads).                                                   *)
PermittedByItsOwnRoster ==
    \A c \in Writers :
        executed[c] # 0 /\ at[c] \in {"clear", "cleared"} =>
            /\ executed[c] = hand[c].seen.by
            /\ executed[c] \in hand[c].seen.group.managers
            /\ kind[c] \in {"card", "mute", "remove"} => hand[c].seen.group.plain

(* A write is called verified only if the group has been as it asks since   *)
(* the request was carried out, though it is read through caches, after the *)
(* lock of the writes is given back; but a roster that is kept late can     *)
(* deceive a rename.                                                        *)
VerifiedTruly ==
    \A c \in Writers : receipt[c] = "verified" =>
        was[c] \/ ("late" \in faults /\ kind[c] = "card")

WebWritesAreTrue == PermittedByItsOwnRoster /\ VerifiedTruly
=============================================================================
