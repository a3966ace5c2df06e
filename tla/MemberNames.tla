---------------------------- MODULE MemberNames ----------------------------
(***************************************************************************)
(* One member of one group: whether it is present and what its card says,  *)
(* as the chat client has it and as the members table has it.  Three       *)
(* processes write the row: the handler of member events, the roster       *)
(* synchronisation that makes up for the events that get lost, and the     *)
(* card worker that renames members and locks their names.  Automatic card *)
(* names are switched on for the group.                                    *)
(***************************************************************************)
EXTENDS Naturals, Sequences

CONSTANTS
    DhNames,     \* card names DH gives
    OwnNames,    \* card names the member or an administrator gives
    MaxAttempts, \* 5
    MaxEvents, MaxChanges, \* upper bounds of the cases
    Cases        \* records [faults, events, changes]: the faults a behaviour may
                 \* meet, the bounds on events delivered and changes from outside

ASSUME BoundsAssumption == MaxAttempts \in Nat /\ MaxEvents \in Nat /\ MaxChanges \in Nat

ASSUME CasesAssumption ==
    Cases \subseteq [faults : SUBSET {"crash", "db", "lost", "refused", "move", "manual", "apply", "sync"},
                     events : 0..MaxEvents, changes : 0..MaxChanges]

ASSUME NamesAssumption == DhNames # {} /\ "unlocked" \notin DhNames

VARIABLES
    case,        \* faults: "crash", "db" (a database job fails), "lost" (events), "refused"
                 \* (renames), "move" (the member comes and goes), "manual" and "apply"
                 \* (the administrator renames, or applies a plan), "sync"
    up,
    remote,      \* the member at the chat client: [in, card]
    changes,     \* changes from outside so far
    worn,        \* DH names the member has worn
    outsiders,   \* those by which the member renamed itself
    events,      \* member events to be handled: [id, kind, card]
    nextId,
    row,         \* members: [present, card, locked, count, fresh]; fresh is
                 \* "updated_at is later than the beginning of the snapshot"
    expected,    \* expected_member_card_updates
    handler, sync, worker, \* where the three processes are
    job,         \* card_rename_jobs by desired name: [state, attempts, welcome]
    payload,     \* the name a restoring effect restores
    status, sent, told

tableVars  == <<row, expected, job>>
outerVars  == <<case, changes, outsiders>>
remoteVars == <<remote, worn, events, nextId>>
queueVars  == <<payload, status, sent, told>>
vars == <<up, outerVars, remoteVars, tableVars, handler, sync, worker, queueVars>>

faults == case.faults

Names == DhNames \cup OwnNames
Unlocked == "unlocked"

Restore(id) == <<"restore", id>>
Welcome(n)  == <<"welcome", n>>
Keys == {Restore(id) : id \in 1..MaxEvents} \cup {Welcome(n) : n \in DhNames}

Queue == INSTANCE EffectClient

Idle == [at |-> "idle"]
JobStates == {"none", "queued", "processing", "wait", "succeeded", "failed"}
NoJob == [state |-> "none", attempts |-> 0, welcome |-> FALSE]

Init ==
    /\ case \in Cases
    /\ up = TRUE
    /\ \E in, managed \in BOOLEAN, n \in DhNames, o \in OwnNames :
          /\ remote = [in |-> in, card |-> IF managed THEN n ELSE o]
          /\ row = [present |-> in, card |-> remote.card, count |-> 0, fresh |-> TRUE,
                    locked |-> IF managed THEN n ELSE Unlocked]
          /\ job = [d \in DhNames |-> IF managed /\ d = n THEN [NoJob EXCEPT !.state = "succeeded"]
                                                        ELSE NoJob]
    /\ changes = 0 /\ outsiders = 0
    /\ events = <<>> /\ nextId = 1
    /\ worn = {remote.card} \cap DhNames
    /\ expected = {}
    /\ handler = Idle /\ sync = Idle /\ worker = Idle
    /\ payload = [k \in Keys |-> CHOOSE n \in DhNames : TRUE]
    /\ Queue!Empty

-----------------------------------------------------------------------------
(* The chat client.                                                        *)

(* A change is reported by an event, unless the event is lost.             *)
Tells(kind, card) ==
    \/ /\ nextId <= case.events
       /\ events' = Append(events, [id |-> nextId, kind |-> kind, card |-> card])
       /\ nextId' = nextId + 1
    \/ /\ "lost" \in faults \/ nextId > case.events
       /\ UNCHANGED <<events, nextId>>

Rename(n) ==
    /\ remote.in
    /\ remote' = [remote EXCEPT !.card = n]
    /\ worn' = worn \cup ({n} \cap DhNames)
    /\ IF remote.card = n THEN UNCHANGED <<events, nextId>> ELSE Tells("card", n)

MemberRenames(n) ==
    /\ changes < case.changes /\ remote.card # n
    /\ Rename(n)
    /\ changes' = changes + 1 /\ outsiders' = outsiders + 1
    /\ UNCHANGED <<case, up, tableVars, handler, sync, worker, queueVars>>

MemberMoves ==
    /\ "move" \in faults /\ changes < case.changes
    /\ changes' = changes + 1
    /\ \E n \in OwnNames : remote' = [in |-> ~remote.in, card |-> IF remote.in THEN remote.card ELSE n]
    /\ worn' = worn \cup ({remote'.card} \cap DhNames)
    /\ Tells(IF remote.in THEN "left" ELSE "joined", remote'.card)
    /\ UNCHANGED <<case, up, outsiders, tableVars, handler, sync, worker, queueVars>>

(* rename_member: the expectation is written before the request.           *)
RenameManually(n) ==
    /\ "manual" \in faults /\ up /\ changes < case.changes /\ remote.card # n
    /\ changes' = changes + 1
    /\ expected' = expected \cup {n}
    /\ Rename(n)
    /\ UNCHANGED <<case, up, outsiders, row, job, handler, sync, worker, queueVars>>

-----------------------------------------------------------------------------
(* card_rename_jobs.                                                       *)

(* cardnames::preview of one member, and enqueue_card_job.                 *)
Planned(r, n) == IF r.locked = Unlocked THEN TRUE ELSE r.locked = n /\ r.card # n

EnqueueJob(n, welcome) ==
    job' = [job EXCEPT ![n] =
        IF @.state = "none" \/ (@.state = "succeeded" /\ row.card # n)
        THEN [state |-> "queued", attempts |-> 0, welcome |-> @.welcome \/ welcome]
        ELSE @]

(* enqueue_member_card_job, enqueue_discovered_member_card_jobs.           *)
PlanJob ==
    \/ \E n \in DhNames : Planned(row, n) /\ EnqueueJob(n, TRUE)
    \/ (\A n \in DhNames : ~Planned(row, n)) /\ UNCHANGED job

(* apply_card_names; the administrator may have edited the suggestion.     *)
ApplyPlan(n) ==
    /\ "apply" \in faults /\ up /\ changes < case.changes
    /\ changes' = changes + 1
    /\ EnqueueJob(n, FALSE)
    /\ UNCHANGED <<case, up, outsiders, remoteVars, row, expected, handler, sync, worker, queueVars>>

-----------------------------------------------------------------------------
(* handle_gateway_event.  An error or the end of the process lets it start *)
(* again with the same event.                                              *)

HandlerRest == UNCHANGED <<up, outerVars, remote, worn, nextId, sync, worker>>

(* What a process keeps of the row it has read.                            *)
Saved == [card |-> row.card, locked |-> row.locked, present |-> row.present]

Settled == events' = Tail(events) /\ handler' = Idle

MarkLeft ==
    /\ up /\ handler = Idle /\ events # <<>> /\ Head(events).kind = "left"
    /\ row' = [row EXCEPT !.present = FALSE, !.fresh = TRUE]
    /\ Settled
    /\ HandlerRest /\ UNCHANGED <<expected, job, queueVars>>

ReadSaved ==
    /\ up /\ handler = Idle /\ events # <<>> /\ Head(events).kind # "left"
    /\ handler' = [at |-> "read", saved |-> Saved, mine |-> FALSE]
    /\ HandlerRest /\ UNCHANGED <<events, tableVars, queueVars>>

ConsumeExpected ==
    /\ up /\ handler.at = "read" /\ Head(events).kind = "card"
    /\ LET card == Head(events).card
           asked == handler.saved.card # card
       IN  /\ handler' = [handler EXCEPT !.at = "asked", !.mine = asked /\ card \in expected]
           /\ expected' = IF asked THEN expected \ {card} ELSE expected
    /\ HandlerRest /\ UNCHANGED <<events, row, job, queueVars>>

(* Slip: the row of a member that is back keeps its mark.                  *)
StoreCard(r, card) == [r EXCEPT !.card = card, !.fresh = TRUE]

Store(r, card) == [r EXCEPT !.present = TRUE, !.card = card, !.fresh = TRUE]

StoreUpdated ==
    /\ up /\ handler.at = "asked"
    /\ row' = Store(row, Head(events).card)
    /\ handler' = [handler EXCEPT !.at = "stored"]
    /\ HandlerRest /\ UNCHANGED <<events, expected, job, queueVars>>

RestoreName(card) == handler.saved.locked # Unlocked /\ handler.saved.locked # card

(* is_external_member_card_update. Slip: the saved card is not looked at.  *)
IsExternalAlways(card) == RestoreName(card) /\ ~handler.mine

IsExternal(card) == RestoreName(card) /\ ~handler.mine /\ handler.saved.card # card

(* increment_member_violation.  The count stops at a bound that no number  *)
(* of changes from outside justifies.                                      *)
Counted(r) == [r EXCEPT !.count = IF @ > MaxChanges THEN @ ELSE @ + 1, !.fresh = TRUE]

CountViolation ==
    /\ up /\ handler.at = "stored"
    /\ row' = IF IsExternal(Head(events).card) THEN Counted(row) ELSE row
    /\ handler' = [handler EXCEPT !.at = "counted"]
    /\ HandlerRest /\ UNCHANGED <<events, expected, job, queueVars>>

QueueRestore ==
    /\ up /\ handler.at = "counted"
    /\ LET k == Restore(Head(events).id)
       IN  IF RestoreName(Head(events).card)
           THEN /\ Queue!Insert(k)
                /\ payload' = [payload EXCEPT ![k] = IF status[k] = "absent"
                                                     THEN handler.saved.locked ELSE @]
           ELSE UNCHANGED queueVars
    /\ Settled
    /\ HandlerRest /\ UNCHANGED tableVars

StoreJoined ==
    /\ up /\ handler.at = "read" /\ Head(events).kind = "joined"
    /\ row' = Store(row, Head(events).card)
    /\ handler' = [handler EXCEPT !.at = "joined"]
    /\ HandlerRest /\ UNCHANGED <<events, expected, job, queueVars>>

PlanJoined ==
    /\ up /\ handler.at = "joined"
    /\ PlanJob
    /\ Settled
    /\ HandlerRest /\ UNCHANGED <<row, expected, queueVars>>

HandlerFails ==
    /\ "db" \in faults /\ up /\ handler # Idle
    /\ handler' = Idle
    /\ HandlerRest /\ UNCHANGED <<events, tableVars, queueVars>>

HandlerStep ==
    \/ MarkLeft \/ ReadSaved \/ ConsumeExpected \/ StoreUpdated \/ CountViolation
    \/ QueueRestore \/ StoreJoined \/ PlanJoined

-----------------------------------------------------------------------------
(* sync_members.  What fails at the database is passed over.               *)

SyncRest == UNCHANGED <<up, outerVars, remoteVars, expected, handler, worker, queueVars>>

BeginSync ==
    /\ "sync" \in faults /\ up /\ sync = Idle
    /\ sync' = [at |-> "reading"]
    /\ row' = [row EXCEPT !.fresh = FALSE]
    /\ SyncRest /\ UNCHANGED job

(* Only an authoritative roster is used.                                   *)
ReadRoster ==
    /\ up /\ sync.at = "reading"
    /\ sync' = [at |-> "read", snap |-> remote]
    /\ SyncRest /\ UNCHANGED <<row, job>>

(* A list that cannot be read counts as the first one, a baseline in which *)
(* nobody is new and no name has drifted.                                  *)
Baseline == [card |-> sync.snap.card, locked |-> Unlocked, present |-> TRUE]

ReadExisting ==
    /\ up /\ sync.at = "read"
    /\ \E saved \in {Saved, Baseline} :
          /\ saved = Saved \/ "db" \in faults
          /\ sync' = [at |-> "known", snap |-> sync.snap, saved |-> saved]
    /\ SyncRest /\ UNCHANGED <<row, job>>

(* A member that cannot be stored is left out of those present.            *)
StoreRoster ==
    /\ up /\ sync.at = "known"
    /\ \/ /\ sync.snap.in
          /\ row' = Store(row, sync.snap.card)
          /\ sync' = [sync EXCEPT !.at = "stored"]
       \/ /\ ~sync.snap.in \/ "db" \in faults
          /\ row' = row
          /\ sync' = [sync EXCEPT !.at = "planned", !.snap = [@ EXCEPT !.in = FALSE]]
    /\ SyncRest /\ UNCHANGED job

Drifted == sync.saved.locked # Unlocked /\ sync.snap.card # sync.saved.locked

CountDrift ==
    /\ up /\ sync.at = "stored"
    /\ \/ row' = IF Drifted /\ sync.saved.card # sync.snap.card THEN Counted(row) ELSE row
       \/ "db" \in faults /\ row' = row
    /\ sync' = [sync EXCEPT !.at = "counted"]
    /\ SyncRest /\ UNCHANGED job

(* Slip: only a member that is new has its name planned.                   *)
PlanNewcomer ==
    /\ up /\ sync.at = "counted"
    /\ IF ~sync.saved.present THEN PlanJob ELSE UNCHANGED job
    /\ sync' = [sync EXCEPT !.at = "planned"]
    /\ SyncRest /\ UNCHANGED row

PlanDrifted ==
    /\ up /\ sync.at = "counted"
    /\ \/ IF Drifted \/ ~sync.saved.present THEN PlanJob ELSE UNCHANGED job
       \/ "db" \in faults /\ UNCHANGED job
    /\ sync' = [sync EXCEPT !.at = "planned"]
    /\ SyncRest /\ UNCHANGED row

(* mark_members_not_present_before. Slip: rows written since are not spared. *)
MarkAllAbsent ==
    /\ up /\ sync.at = "planned"
    /\ row' = IF ~sync.snap.in THEN [row EXCEPT !.present = FALSE, !.fresh = TRUE] ELSE row
    /\ sync' = Idle
    /\ SyncRest /\ UNCHANGED job

MarkAbsent ==
    /\ up /\ sync.at = "planned"
    /\ \/ row' = IF ~sync.snap.in /\ row.present /\ ~row.fresh
                 THEN [row EXCEPT !.present = FALSE, !.fresh = TRUE] ELSE row
       \/ "db" \in faults /\ row' = row
    /\ sync' = Idle
    /\ SyncRest /\ UNCHANGED job

SyncStep == ReadRoster \/ ReadExisting \/ StoreRoster \/ CountDrift \/ PlanDrifted \/ MarkAbsent

-----------------------------------------------------------------------------
(* card_queue_loop.                                                        *)

WorkerRest == UNCHANGED <<up, outerVars, handler, sync>>

(* claim_next_card_job does not look at the attempts: a job that crashes   *)
(* interrupt is claimed beyond the limit, at which the model stops counting. *)
ClaimJob(n) ==
    /\ up /\ worker = Idle
    /\ job[n].state = "queued" /\ \A d \in DhNames : job[d].state # "processing"
    /\ job' = [job EXCEPT ![n].state = "processing", ![n].attempts = IF @ < MaxAttempts THEN @ + 1 ELSE @]
    /\ worker' = [at |-> "renaming", name |-> n, welcome |-> job[n].welcome]
    /\ WorkerRest /\ UNCHANGED <<remoteVars, row, expected, queueVars>>

Outcome(ok, retryable) == worker' = [worker EXCEPT !.at = IF ok THEN "renamed" ELSE
                                                         IF retryable THEN "retry" ELSE "failed"]

(* The rename is executed, and its answer may be lost; or it is refused.   *)
RenameMember ==
    /\ up /\ worker.at = "renaming"
    /\ \/ Rename(worker.name) /\ (Outcome(TRUE, FALSE) \/ ("refused" \in faults /\ Outcome(FALSE, FALSE)))
       \/ ~remote.in /\ Outcome(FALSE, FALSE) /\ UNCHANGED remoteVars
       \/ "refused" \in faults /\ Outcome(FALSE, TRUE) /\ UNCHANGED remoteVars
    /\ WorkerRest /\ UNCHANGED <<tableVars, queueVars>>

ReadBack ==
    /\ up /\ worker.at = "renamed"
    /\ worker' = [worker EXCEPT !.at = IF remote.in /\ remote.card = worker.name
                                       THEN "verified" ELSE "retry"]
    /\ WorkerRest /\ UNCHANGED <<remoteVars, tableVars, queueVars>>

(* Slip: a job that will not be retried locks its name, too.               *)
VerifiedOrGivenUp == worker.at \in {"verified", "failed"}

Verified == worker.at = "verified"

(* finish_card_job; its error is not looked at.                            *)
FinishJob ==
    /\ up /\ worker.at \in {"verified", "retry", "failed"}
    /\ LET n == worker.name
       IN  \/ /\ job' = [job EXCEPT ![n].state =
                            IF Verified THEN "succeeded"
                            ELSE IF worker.at = "failed" \/ job[n].attempts >= MaxAttempts THEN "failed"
                            ELSE "wait"]
              /\ row' = IF Verified THEN [row EXCEPT !.locked = n, !.fresh = TRUE] ELSE row
           \/ "db" \in faults /\ UNCHANGED <<job, row>>
    /\ worker' = IF Verified /\ worker.welcome THEN [worker EXCEPT !.at = "welcome"] ELSE Idle
    /\ WorkerRest /\ UNCHANGED <<remoteVars, expected, queueVars>>

QueueWelcome ==
    /\ up /\ worker.at = "welcome"
    /\ Queue!Insert(Welcome(worker.name)) \/ ("db" \in faults /\ Queue!Rest)
    /\ worker' = Idle
    /\ WorkerRest /\ UNCHANGED <<remoteVars, tableVars, payload>>

JobDue(n) ==
    /\ job[n].state = "wait"
    /\ job' = [job EXCEPT ![n].state = "queued"]
    /\ UNCHANGED <<up, outerVars, remoteVars, row, expected, handler, sync, worker, queueVars>>

(* retry_card_rename_jobs, the administrator's.                            *)
RetryFailed ==
    /\ "apply" \in faults /\ up /\ changes < case.changes
    /\ \E n \in DhNames : job[n].state = "failed"
    /\ changes' = changes + 1
    /\ job' = [n \in DhNames |-> IF job[n].state = "failed"
                                 THEN [job[n] EXCEPT !.state = "queued", !.attempts = 0] ELSE job[n]]
    /\ UNCHANGED <<case, up, outsiders, remoteVars, row, expected, handler, sync, worker, queueVars>>

WorkerStep == (\E n \in DhNames : ClaimJob(n)) \/ RenameMember \/ ReadBack \/ FinishJob \/ QueueWelcome

-----------------------------------------------------------------------------
(* The effect queue.                                                       *)

QueueRest == UNCHANGED <<up, outerVars, row, handler, sync, worker, payload>>

QueueMoves(k) ==
    /\ up
    /\ Queue!Start(k) \/ Queue!Postpone(k) \/ Queue!Report(k)
    /\ QueueRest /\ UNCHANGED <<remoteVars, expected, job>>

(* A restoring rename writes its expectation first.                        *)
PerformRestore(k) ==
    /\ k[1] = "restore" /\ Queue!Perform(k)
    /\ expected' = expected \cup {payload[k]}
    /\ Rename(payload[k])
    /\ QueueRest /\ UNCHANGED job

PerformWelcome(k) ==
    /\ k[1] = "welcome" /\ Queue!Perform(k)
    /\ QueueRest /\ UNCHANGED <<remoteVars, expected, job>>

(* Slip: a welcome that could not be said counts as said, too.             *)
EndsWhenTold(r) == r # "none"

EndsOwing(r) == r = "succeeded"

TellWelcome(n) ==
    /\ up
    /\ Queue!Tell(Welcome(n))
    /\ \/ job' = [job EXCEPT ![n].welcome = @ /\ ~EndsOwing(told[Welcome(n)])]
       \/ "db" \in faults /\ UNCHANGED job
    /\ QueueRest /\ UNCHANGED <<remoteVars, expected>>

-----------------------------------------------------------------------------
ExpectationsExpire ==
    /\ expected # {} /\ expected' = {}
    /\ UNCHANGED <<up, outerVars, remoteVars, row, job, handler, sync, worker, queueVars>>

Crash ==
    /\ "crash" \in faults /\ up
    /\ up' = FALSE
    /\ handler' = Idle /\ sync' = Idle /\ worker' = Idle
    /\ Queue!Forget
    /\ UNCHANGED <<outerVars, remoteVars, tableVars, payload>>

Restart ==
    /\ ~up /\ up' = TRUE
    /\ job' = [n \in DhNames |-> IF job[n].state = "processing" THEN [job[n] EXCEPT !.state = "queued"]
                                                               ELSE job[n]]
    /\ Queue!Recover
    /\ UNCHANGED <<outerVars, remoteVars, row, expected, handler, sync, worker, payload>>

Next ==
    \/ MemberMoves \/ HandlerStep \/ HandlerFails \/ BeginSync \/ SyncStep \/ WorkerStep
    \/ RetryFailed \/ ExpectationsExpire \/ Crash \/ Restart
    \/ \E n \in OwnNames : MemberRenames(n) \/ RenameManually(n)
    \/ \E n \in DhNames : ApplyPlan(n) \/ JobDue(n) \/ TellWelcome(n)
    \/ \E k \in Keys : QueueMoves(k) \/ PerformRestore(k) \/ PerformWelcome(k)

Spec == Init /\ [][Next]_vars

(* The loops go round, calls return, and somebody restarts the program.    *)
Fairness ==
    /\ WF_vars(HandlerStep) /\ WF_vars(BeginSync) /\ WF_vars(SyncStep)
    /\ WF_vars(WorkerStep) /\ WF_vars(Restart)
    /\ \A n \in DhNames : WF_vars(JobDue(n))
    /\ \A k \in Keys : WF_vars(PerformRestore(k)) /\ WF_vars(PerformWelcome(k))

FairSpec == Spec /\ Fairness

-----------------------------------------------------------------------------
Rows == [present : BOOLEAN, card : Names, locked : DhNames \cup {Unlocked}, count : 0..MaxChanges + 1, fresh : BOOLEAN]

TypeOK ==
    /\ case \in Cases /\ up \in BOOLEAN
    /\ remote \in [in : BOOLEAN, card : Names]
    /\ changes \in 0..MaxChanges /\ outsiders \in 0..MaxChanges
    /\ \A i \in 1..Len(events) : events[i] \in [id : 1..MaxEvents, kind : {"card", "joined", "left"}, card : Names]
    /\ row \in Rows
    /\ expected \subseteq Names
    /\ job \in [DhNames -> [state : JobStates, attempts : 0..MaxAttempts, welcome : BOOLEAN]]
    /\ payload \in [Keys -> DhNames]

(* A member event that is handled again, because a job failed or the       *)
(* process ended, does not count as another violation: without the         *)
(* synchronisation there are no more violations than events, and as long   *)
(* as one name is given, no more than changes of the card by the member    *)
(* itself (handle_gateway_event).                                          *)
OneName == \A m, n \in DhNames : m = n
OnlyOutsidersCount == row.count <= outsiders
ReplaysDoNotCount ==
    /\ "sync" \notin faults => row.count < nextId
    /\ (faults \cap {"sync", "manual", "apply"} = {} /\ OneName) => OnlyOutsidersCount

(* A snapshot that began before a member joined does not make it absent    *)
(* (sync_members, mark_members_not_present_before).                        *)
SnapshotsSpareNewcomers ==
    [][sync # Idle /\ sync' = Idle /\ row.present /\ ~row'.present => ~row.fresh]_vars

(* A name is locked, its job called done and its bearer welcomed by it     *)
(* only if the member has worn it at the chat client, whatever the rename  *)
(* was answered (the manual: the locked name follows a rename that has     *)
(* been read back).                                                        *)
LockedNamesWereWorn ==
    /\ row.locked = Unlocked \/ row.locked \in worn
    /\ \A n \in DhNames : job[n].state = "succeeded" => n \in worn
    /\ \A n \in DhNames : status[Welcome(n)] # "absent" => n \in worn

(* A welcome that has been queued stays marked on its job as long as it    *)
(* has not been said (finish_card_job, mark_card_welcome_sent).            *)
WelcomesAreOwed ==
    \A n \in DhNames :
        status[Welcome(n)] # "absent" => job[n].welcome \/ sent[Welcome(n)] = 1

(* What the tables say of a member has happened: its violations, the names *)
(* it is locked to, was given and is welcomed by, and the welcomes that    *)
(* count as said.                                                          *)
MemberRowIsTrue == ReplaysDoNotCount /\ LockedNamesWereWorn /\ WelcomesAreOwed

(* With the synchronisation the table agrees in the end with the chat      *)
(* client on who is present, whatever events are lost, and a locked name   *)
(* is restored in the end, unless its rename has failed; where the         *)
(* database does not go on failing.                                        *)
RosterComesRight ==
    /\ ("sync" \in faults /\ "db" \notin faults) => <>[](row.present = remote.in)
    /\ (faults \subseteq {"sync", "lost", "move"} /\ "sync" \in faults) =>
          <>[](\/ ~remote.in \/ row.locked = Unlocked
               \/ remote.card = row.locked
               \/ \E n \in DhNames : job[n].state = "failed")
=============================================================================
