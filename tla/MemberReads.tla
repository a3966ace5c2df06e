---------------------------- MODULE MemberReads ----------------------------
(***************************************************************************)
(* Reads of one group's members through the chat client's page: the cache, *)
(* the request that concurrent callers share, the pause after the client   *)
(* refuses for reading too often, and the change of account, which clears  *)
(* what the old session has read.  Every caller calls once.                *)
(***************************************************************************)
EXTENDS Integers

CONSTANTS
    Callers,
    FaultSets,      \* what may happen in a behaviour
    MaxTries,       \* reads of one request refused as too frequent (4 in the code)
    None

VARIABLES
    faults,
    epoch,      \* session_epoch
    clearing,   \* the caches have been cleared, the new epoch has not begun
    cache,      \* member_cache: "none", "fresh" for five seconds, then "old"
    cooling,    \* member_throttle.cooldown_until lies ahead
    request,    \* member_requests: the leader of the request in progress
    place,      \* where each caller is
    leader,     \* the request each follower waits for
    seen,       \* request_epoch of each leader
    tries       \* refused reads of each leader

vars == <<faults, epoch, clearing, cache, cooling, request, place, leader, seen, tries>>

Init ==
    /\ faults \in FaultSets
    /\ epoch = 1 /\ clearing = FALSE
    /\ cache = "none" /\ cooling = FALSE /\ request = None
    /\ place = [c \in Callers |-> "idle"]
    /\ leader = [c \in Callers |-> None]
    /\ seen = [c \in Callers |-> 0] /\ tries = [c \in Callers |-> 0]

Goes(c, p) == place' = [place EXCEPT ![c] = p]

(* What a call knows ends with it.                                         *)
Forget(c) ==
    /\ leader' = [leader EXCEPT ![c] = None]
    /\ seen' = [seen EXCEPT ![c] = 0] /\ tries' = [tries EXCEPT ![c] = 0]

(* A fresh roster, then any roster while reads are paused, then the        *)
(* request in progress, or a request of one's own.                         *)
Call(c) ==
    /\ place[c] = "idle"
    /\ \/ /\ cache = "fresh" \/ cooling
          /\ Goes(c, "done")
          /\ UNCHANGED <<request, leader>>
       \/ /\ cache # "fresh" /\ ~cooling /\ request # None
          /\ Goes(c, "follow") /\ leader' = [leader EXCEPT ![c] = request]
          /\ request' = request
       \/ /\ cache # "fresh" /\ ~cooling /\ request = None
          /\ Goes(c, "begin") /\ request' = c
          /\ leader' = leader
    /\ UNCHANGED <<faults, epoch, clearing, cache, cooling, seen, tries>>

(* Slip: waits for the notification without looking for a result first.    *)
FollowNotified(c) ==
    /\ place[c] = "follow" /\ place[leader[c]] = "published"
    /\ Goes(c, "done") /\ Forget(c)
    /\ UNCHANGED <<faults, epoch, clearing, cache, cooling, request>>

Follow(c) ==
    /\ place[c] = "follow" /\ place[leader[c]] \in {"published", "done"}
    /\ Goes(c, "done") /\ Forget(c)
    /\ UNCHANGED <<faults, epoch, clearing, cache, cooling, request>>

(* The epoch is looked at once the request stands: the session may have    *)
(* been cleared, and the request with it, in between.                      *)
TakeEpoch(c) ==
    /\ place[c] = "begin"
    /\ seen' = [seen EXCEPT ![c] = epoch]
    /\ Goes(c, "wait")
    /\ UNCHANGED <<faults, epoch, clearing, cache, cooling, request, leader, tries>>

(* list_members_with_backoff: a refused read pauses all reads and is tried *)
(* again after the pause, a few times; one read at a time, though its pause*)
(* was waited for before its turn came.                                    *)
WaitForCooldown(c) ==
    /\ place[c] = "wait" /\ ~cooling
    /\ Goes(c, "read")
    /\ UNCHANGED <<faults, epoch, clearing, cache, cooling, request, leader, seen, tries>>

Read(c) ==
    /\ place[c] = "read"
    /\ \/ Goes(c, "check") /\ cooling' = FALSE /\ tries' = tries
       \/ "error" \in faults /\ Goes(c, "publish") /\ UNCHANGED <<cooling, tries>>
       \/ /\ "limited" \in faults
          /\ cooling' = TRUE /\ tries' = [tries EXCEPT ![c] = @ + 1]
          /\ Goes(c, IF tries'[c] < MaxTries THEN "wait" ELSE "publish")
    /\ UNCHANGED <<faults, epoch, clearing, cache, request, leader, seen>>

(* The cache belongs to the epoch; the check and the insertion are apart.  *)
Check(c) ==
    /\ place[c] = "check"
    /\ Goes(c, IF seen[c] = epoch THEN "insert" ELSE "publish")
    /\ UNCHANGED <<faults, epoch, clearing, cache, cooling, request, leader, seen, tries>>

Insert(c) ==
    /\ place[c] = "insert"
    /\ cache' = "fresh"
    /\ Goes(c, "publish")
    /\ UNCHANGED <<faults, epoch, clearing, cooling, request, leader, seen, tries>>

Publish(c) ==
    /\ place[c] = "publish"
    /\ Goes(c, "published")
    /\ UNCHANGED <<faults, epoch, clearing, cache, cooling, request, leader, seen, tries>>

Leave(c) ==
    /\ place[c] = "published"
    /\ request' = IF request = c THEN None ELSE request
    /\ Goes(c, "done") /\ Forget(c)
    /\ UNCHANGED <<faults, epoch, clearing, cache, cooling>>

Lead(c) ==
    \/ TakeEpoch(c) \/ WaitForCooldown(c) \/ Read(c) \/ Check(c) \/ Insert(c)
    \/ Publish(c) \/ Leave(c)

(* The caller's task is aborted (a worker of the old session) or dropped   *)
(* (a command whose browser has gone).                                     *)
Abort(c) ==
    /\ "abort" \in faults
    /\ place[c] \in {"follow", "begin", "wait", "read", "check", "insert", "publish", "published"}
    /\ Goes(c, IF place[c] = "published" THEN "done" ELSE "gone") /\ Forget(c)
    /\ UNCHANGED <<faults, epoch, clearing, cache, cooling, request>>

Age ==
    /\ cache = "fresh" /\ cache' = "old"
    /\ UNCHANGED <<faults, epoch, clearing, cooling, request, place, leader, seen, tries>>

(* After a write to the group (invalidate_member_cache).                   *)
Invalidate ==
    /\ cache # "none" /\ cache' = "none"
    /\ UNCHANGED <<faults, epoch, clearing, cooling, request, place, leader, seen, tries>>

Resume ==
    /\ cooling /\ cooling' = FALSE
    /\ UNCHANGED <<faults, epoch, clearing, cache, request, place, leader, seen, tries>>

(* session_identity sees another account, or reset_session_state a client  *)
(* that has logged out, which also ends the pause.  Bound: once.           *)
ClearSession ==
    /\ "switch" \in faults /\ ~clearing /\ epoch = 1
    /\ clearing' = TRUE
    /\ request' = None /\ cache' = "none"
    /\ cooling' \in {cooling, FALSE}
    /\ UNCHANGED <<faults, epoch, place, leader, seen, tries>>

BeginEpoch ==
    /\ clearing /\ clearing' = FALSE
    /\ epoch' = epoch + 1
    /\ UNCHANGED <<faults, cache, cooling, request, place, leader, seen, tries>>

Next ==
    \/ \E c \in Callers : Call(c) \/ Follow(c) \/ Lead(c) \/ Abort(c)
    \/ Age \/ Invalidate \/ Resume \/ ClearSession \/ BeginEpoch

(* Every await of a read has a timeout, and a request is tried a few times,*)
(* so that the pauses of others end.                                       *)
Fairness ==
    /\ WF_vars(Resume)
    /\ \A c \in Callers : WF_vars(Follow(c)) /\ WF_vars(Lead(c))

Spec == Init /\ [][Next]_vars /\ Fairness

-----------------------------------------------------------------------------
(* Whoever asks for the members comes back, through pauses, errors and     *)
(* changes of the account, unless the task that leads the shared request   *)
(* is aborted: nobody then answers the followers (list_members).           *)
Stranded(c) == place[c] = "follow" /\ place[leader[c]] = "gone"

CallersComeBack == <>[](\A c \in Callers : place[c] \in {"idle", "done", "gone"} \/ Stranded(c))
=============================================================================
