--------------------------- MODULE GatewayWrites ---------------------------
(***************************************************************************)
(* What the gateway does to a group: renaming, muting and removing a       *)
(* member, closing the group, recalling, sending and the announcements.    *)
(* Each call checks the roster, writes, reads the group back and says in   *)
(* its receipt what it has seen.  One group, one member besides DH, one    *)
(* message and one announcement, which others may change at any time.      *)
(***************************************************************************)
EXTENDS Naturals

CONSTANTS
    Calls,
    Programs,   \* which calls are made together: functions from Calls to kinds
    SourceFaults, \* sets of faults: "nim" (its pages of members fail), "http"
    MaxChanges, \* bound on what others change
    MaxReads    \* reads of verify_group_mute_state (8)

VARIABLES
    kind, faults,
    remote,     \* the group at the chat client, field by field
    changes,
    cache,      \* member_cache: the roster last listed, or Nothing
    listing,    \* a roster on its way from the chat client to the cache, or Nothing
    at,         \* of each call: "start", "check", "act", "read", "fallback", "spread", "done"
    reads,
    receipt,    \* "none", "verified", "succeeded", "unknown", "error"
    executed,   \* how often the chat client has carried out the call
    disturbed,  \* the field has been changed by somebody else since it first did
    stood       \* what is asked for has stood at some time since the call was sent

observed == <<executed, disturbed, stood>>
vars == <<kind, faults, remote, changes, cache, listing, at, reads, receipt, observed>>

Nothing == [nothing |-> TRUE]

(* Which field a kind of call is about, and what it asks for.              *)
Wanted ==
    [rename   |-> [of |-> "card", to |-> "dh"],
     mute     |-> [of |-> "muted", to |-> "yes"],
     unmute   |-> [of |-> "muted", to |-> "no"],
     remove   |-> [of |-> "present", to |-> "no"],
     close    |-> [of |-> "closed", to |-> "yes"],
     open     |-> [of |-> "closed", to |-> "no"],
     recall   |-> [of |-> "recalled", to |-> "yes"],
     send     |-> [of |-> "said", to |-> "yes"],
     announce |-> [of |-> "notice", to |-> "new"],
     amend    |-> [of |-> "notice", to |-> "new"],
     withdraw |-> [of |-> "notice", to |-> "none"]]

Field(c) == Wanted[kind[c]].of
Stands(c, r) == r[Field(c)] = Wanted[kind[c]].to

Concerns(c) == {Field(c)} \cup (IF kind[c] = "rename" THEN {"present"} ELSE {})

MemberWrites == {"rename", "mute", "unmute", "remove"}
TeamWrites == {"close", "open"}
NoticeEdits == {"amend", "withdraw"}

Domain ==
    [card |-> {"dh", "own"}, muted |-> {"yes", "no"}, present |-> {"yes", "no"},
     closed |-> {"yes", "no"}, recalled |-> {"yes", "no"}, said |-> {"yes", "no"},
     notice |-> {"none", "old", "new"}]
Quiet ==
    [card |-> "own", muted |-> "no", present |-> "yes", closed |-> "no",
     recalled |-> "no", said |-> "no", notice |-> "old"]

Init ==
    /\ kind \in Programs /\ faults \in SourceFaults
    /\ \E c \in Calls, v \in {"dh", "own", "yes", "no", "none", "old", "new"} :
          /\ v \in Domain[Field(c)]
          /\ remote = [Quiet EXCEPT ![Field(c)] = v]
    /\ changes = 0 /\ cache = Nothing /\ listing = Nothing
    /\ at = [c \in Calls |-> "start"]
    /\ reads = [c \in Calls |-> 0]
    /\ receipt = [c \in Calls |-> "none"]
    /\ executed = [c \in Calls |-> 0]
    /\ disturbed = [c \in Calls |-> FALSE] /\ stood = [c \in Calls |-> FALSE]

Goes(c, where) == at' = [at EXCEPT ![c] = where] /\ receipt' = receipt
Ends(c, what) == at' = [at EXCEPT ![c] = "done"] /\ receipt' = [receipt EXCEPT ![c] = what]

-----------------------------------------------------------------------------
(* Reading the members: the pages of HTTP know the cards, those of NIM add *)
(* who is muted; without them the roster is partial and a member's state   *)
(* is that of its account (list_members_impl, member_mute_observation).    *)

Unmuted == {"no", "unseen"}

Rosters ==
    {[present |-> remote.present, card |-> remote.card, muted |-> s[1], whole |-> s[2]] :
        s \in ((IF remote.muted = "yes" THEN {"yes"} ELSE Unmuted) \X {TRUE})
                     \cup (IF "nim" \in faults THEN Unmuted \X {FALSE} ELSE {})}

(* Slip: the read-back takes a roster that is still cached.                *)
RostersOrCached == IF cache = Nothing THEN Rosters ELSE {cache}

RostersReadBack == Rosters

(* Bound: somebody else lists the members only while a member is written.  *)
ListMembers ==
    /\ listing = Nothing /\ cache = Nothing
    /\ \E c \in Calls : kind[c] \in MemberWrites
    /\ \E r \in Rosters : listing' = r
    /\ UNCHANGED <<kind, faults, remote, changes, cache, at, reads, receipt, observed>>

CacheMembers ==
    /\ listing # Nothing
    /\ cache' = listing /\ listing' = Nothing
    /\ UNCHANGED <<kind, faults, remote, changes, at, reads, receipt, observed>>

(* Five seconds.                                                           *)
CacheAges ==
    /\ cache # Nothing /\ cache' = Nothing
    /\ UNCHANGED <<kind, faults, remote, changes, listing, at, reads, receipt, observed>>

-----------------------------------------------------------------------------
(* The permits, the capability and the arguments come first.               *)
Begin(c) ==
    /\ at[c] = "start"
    /\ Goes(c, IF kind[c] \in {"recall", "send"} THEN "act" ELSE "check") \/ Ends(c, "error")
    /\ UNCHANGED <<kind, faults, remote, changes, cache, listing, reads, observed>>

(* writable_member and manager_roster, from the cache while it is fresh.   *)
Check(c) ==
    /\ at[c] = "check"
    /\ \/ /\ cache # Nothing /\ cache' = cache
          /\ IF kind[c] \in MemberWrites /\ cache.present = "no" THEN Ends(c, "error")
             ELSE Goes(c, "act")
       \/ /\ cache = Nothing
          /\ \E r \in Rosters :
                /\ cache' = r
                /\ IF kind[c] \in MemberWrites /\ r.present = "no" THEN Ends(c, "error")
                   ELSE Goes(c, "act")
       \/ cache' = cache /\ Ends(c, "error")    \* not readable, DH not a manager, protected
    /\ UNCHANGED <<kind, faults, remote, changes, listing, reads, observed>>

(* The chat client carries out a call, or somebody else changes a field.   *)
Later == {"read", "fallback", "spread", "done"}

Changes(f, v, by) ==
    /\ remote' = [remote EXCEPT ![f] = v]
    /\ executed' = [d \in Calls |-> IF d \in by THEN executed[d] + 1 ELSE executed[d]]
    /\ disturbed' = [d \in Calls |->
          disturbed[d] \/ (d \notin by /\ f \in Concerns(d) /\ executed[d] > 0 /\ remote[f] # v)]

Executes(c) ==
    /\ kind[c] \in MemberWrites => remote.present = "yes"
    /\ Changes(Field(c), Wanted[kind[c]].to, {c})
NotExecuted == UNCHANGED <<remote, executed, disturbed>>
Witness == stood' = [c \in Calls |-> stood[c] \/ (at'[c] \in Later /\ Stands(c, remote'))]

(* An answer may be lost on its way, and may be well though nothing has    *)
(* been done; but a message that is not sent has no number to answer with. *)
CanAnswer(c, done, answer) ==
    CASE answer = "lost"    -> TRUE
      [] answer = "refused" -> ~done
      [] answer = "well"    -> done \/ kind[c] # "send"

SentAnswered(c) == Ends(c, "succeeded")
RecallAnswered(c) == (remote'.recalled = "yes" /\ Ends(c, "verified")) \/ Ends(c, "unknown")

(* After the answer: read back, or trust what the chat client itself saw.  *)
Answered(c) ==
    CASE kind[c] = "send"   -> SentAnswered(c)
      [] kind[c] = "recall" -> RecallAnswered(c)
      [] OTHER -> Goes(c, "read")

(* Slip: any error of the first way lets the second be tried.              *)
FallbackAfterAll(c, answer) == kind[c] = "rename"

(* Only an answer that does not know the member does.                      *)
FallbackAllowed(c, answer) == kind[c] = "rename" /\ answer = "refused"

Act(c) ==
    /\ at[c] = "act"
    /\ \E done \in BOOLEAN, answer \in {"well", "refused", "lost"} :
          /\ CanAnswer(c, done, answer)
          /\ IF done THEN Executes(c) ELSE NotExecuted
          /\ \/ answer = "well" /\ Answered(c)
             \/ answer # "well" /\ Ends(c, "error")
             \/ answer # "well" /\ FallbackAllowed(c, answer) /\ Goes(c, "fallback")
    /\ Witness
    /\ UNCHANGED <<kind, faults, changes, cache, listing, reads>>

(* The second way to rename, through NIM.                                  *)
Fallback(c) ==
    /\ at[c] = "fallback"
    /\ reads' = [reads EXCEPT ![c] = 1]
    /\ \/ Executes(c) /\ (Goes(c, "read") \/ Ends(c, "error"))
       \/ NotExecuted /\ (Goes(c, "read") \/ Ends(c, "error"))
    /\ Witness
    /\ UNCHANGED <<kind, faults, changes, cache, listing>>

-----------------------------------------------------------------------------
(* Reading back.                                                           *)

ReadFails(c) ==
    /\ at[c] = "read" /\ kind[c] \notin TeamWrites
    /\ cache' = IF kind[c] \in MemberWrites THEN Nothing ELSE cache
    /\ Ends(c, "error")
    /\ UNCHANGED <<kind, faults, remote, changes, listing, reads, observed>>

(* A card that is not as asked for sends the first way to the second.      *)
VerifyRename(c, r) ==
    IF r.present = "yes" /\ r.card = "dh" THEN Ends(c, "verified")
    ELSE IF reads[c] = 0 THEN Goes(c, "fallback") ELSE Ends(c, "error")

VerifyMute(c, r) ==
    CASE r.present = "no" \/ r.muted = "unseen" -> Ends(c, "unknown")
      [] r.muted = Wanted[kind[c]].to -> Ends(c, "verified")
      [] OTHER -> Ends(c, "error")

VerifyRemoval(c, r) ==
    CASE ~r.whole -> Ends(c, "unknown")
      [] r.whole /\ r.present = "no" -> Ends(c, "succeeded")
      [] OTHER -> Ends(c, "error")

VerifyMember(c) ==
    /\ at[c] = "read" /\ kind[c] \in MemberWrites
    /\ cache' = Nothing
    /\ \E r \in RostersReadBack :
          CASE kind[c] = "rename" -> VerifyRename(c, r)
            [] kind[c] \in {"mute", "unmute"} -> VerifyMute(c, r)
            [] kind[c] = "remove" -> VerifyRemoval(c, r)
    /\ UNCHANGED <<kind, faults, remote, changes, listing, reads, observed>>

(* verify_group_mute_state asks again until the group is as it should be.  *)
VerifyTeam(c) ==
    /\ at[c] = "read" /\ kind[c] \in TeamWrites
    /\ \/ Stands(c, remote) /\ Ends(c, "verified") /\ reads' = reads
       \/ /\ reads' = [reads EXCEPT ![c] = @ + 1]    \* not so, or not readable
          /\ IF reads'[c] < MaxReads THEN Goes(c, "read") ELSE Ends(c, "unknown")
    /\ UNCHANGED <<kind, faults, remote, changes, cache, listing, observed>>

VerifyNotice(c) ==
    /\ at[c] = "read" /\ kind[c] \in NoticeEdits
    /\ Ends(c, IF Stands(c, remote) THEN "verified" ELSE "unknown")
    /\ UNCHANGED <<kind, faults, remote, changes, cache, listing, reads, observed>>

(* A new announcement is looked up and then broadcast.                     *)
ConfirmNotice(c) ==
    /\ at[c] = "read" /\ kind[c] = "announce"
    /\ IF Stands(c, remote) THEN Goes(c, "spread") ELSE Ends(c, "error")
    /\ UNCHANGED <<kind, faults, remote, changes, cache, listing, reads, observed>>

SpreadNotice(c) ==
    /\ at[c] = "spread"
    /\ Ends(c, "verified") \/ Ends(c, "unknown")
    /\ UNCHANGED <<kind, faults, remote, changes, cache, listing, reads, observed>>

-----------------------------------------------------------------------------
(* Members, administrators and other programs.                             *)
Others ==
    /\ changes < MaxChanges /\ changes' = changes + 1
    /\ \E c \in Calls : \E v \in Domain[Field(c)] \ {remote[Field(c)]} :
          Changes(Field(c), v, {})
    /\ UNCHANGED <<kind, faults, cache, listing, at, reads, receipt>>
    /\ Witness

Step(c) ==
    \/ Begin(c) \/ Check(c) \/ Act(c) \/ Fallback(c)
    \/ ReadFails(c) \/ VerifyMember(c) \/ VerifyTeam(c)
    \/ VerifyNotice(c) \/ ConfirmNotice(c) \/ SpreadNotice(c)

Next ==
    \/ \E c \in Calls : Step(c)
    \/ ListMembers \/ CacheMembers \/ CacheAges \/ Others

Spec == Init /\ [][Next]_vars

-----------------------------------------------------------------------------
(* A receipt tells what has been so: what is called verified, and a        *)
(* removal that has succeeded, has stood at some time since the call was   *)
(* sent.  (An unmute read back without the pages of NIM may be wrong.)     *)
SaysWhatStood(c) ==
    receipt[c] = "verified" \/ (kind[c] = "remove" /\ receipt[c] = "succeeded")
        => stood[c] \/ (kind[c] = "unmute" /\ "nim" \in faults)

(* The second way to rename is not gone while the first still stands.      *)
NotRepeated(c) == executed[c] > 1 => disturbed[c]

ReceiptsAreTrue == \A c \in Calls : SaysWhatStood(c) /\ NotRepeated(c)
=============================================================================
