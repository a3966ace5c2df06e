-------------------------- MODULE GroupWorkProofs ---------------------------
(***************************************************************************)
(* Proofs about what the runtime does for the members and the messages of  *)
(* a group, for any names, messages, channels, faults and bounds: the      *)
(* safety of MemberNames, and that the answers are what the tables say.    *)
(***************************************************************************)
EXTENDS MCGroupWork, FiniteSetTheorems, SequenceTheorems, TLAPS

-----------------------------------------------------------------------------
(* The names of a member.                                                  *)

(* The records of events, jobs, processes and what they keep of a row.     *)
Events == [id : 1..MaxEvents, kind : {"card", "joined", "left"}, card : Names]
Jobs == [state : JobStates, attempts : 0..MaxAttempts, welcome : BOOLEAN]
SavedRows == [card : Names, locked : DhNames \cup {Unlocked}, present : BOOLEAN]
Snapshots == [in : BOOLEAN, card : Names]

Handlers ==
    {Idle} \cup [at : {"read", "asked", "stored", "counted", "joined"}, saved : SavedRows, mine : BOOLEAN]

Syncs ==
    {Idle, [at |-> "reading"]} \cup [at : {"read"}, snap : Snapshots]
        \cup [at : {"known", "stored", "counted", "planned"}, snap : Snapshots, saved : SavedRows]

Workers ==
    {Idle} \cup [at : {"renaming", "renamed", "retry", "failed", "verified", "welcome"}, name : DhNames,
                 welcome : BOOLEAN]

RowTypes == row \in Rows /\ expected \subseteq Names /\ job \in [DhNames -> Jobs]

EventTypes ==
    /\ case \in Cases /\ up \in BOOLEAN /\ remote \in Snapshots /\ worn \subseteq DhNames
    /\ changes \in 0..MaxChanges /\ outsiders \in 0..changes
    /\ events \in Seq(Events) /\ nextId \in 1..(MaxEvents + 1)

ProcessTypes == handler \in Handlers /\ sync \in Syncs /\ worker \in Workers

QueueTypes ==
    /\ payload \in [Keys -> DhNames]
    /\ status \in [Keys -> {"absent", "waiting", "running"} \cup Queue!Outcomes]
    /\ sent \in [Keys -> {0, 1}]
    /\ told \in [Keys -> Queue!Outcomes \cup {"none"}]

Types == RowTypes /\ EventTypes /\ ProcessTypes /\ QueueTypes

(* Events are told apart by their number, and the handler works on the     *)
(* first one.                                                              *)
EventsStand ==
    /\ \A i \in DOMAIN events : events[i].id < nextId
    /\ \A i, j \in DOMAIN events : events[i].id = events[j].id => i = j
    /\ handler # Idle => events # <<>>
    /\ handler.at \in {"asked", "stored", "counted"} => Head(events).kind = "card"

(* A name is worn before its rename counts as done.                        *)
WornStands ==
    /\ remote.card \in DhNames => remote.card \in worn
    /\ worker.at \in {"renamed", "verified", "welcome"} => worker.name \in worn
    /\ LockedNamesWereWorn

(* What the worker owes its job owes too, until it has been said, and only *)
(* what was said is told of as done.                                       *)
Owes(n) == job[n].welcome \/ sent[Welcome(n)] = 1

OwedStands ==
    /\ WelcomesAreOwed
    /\ worker # Idle /\ (worker.at = "welcome" \/ worker.welcome) => Owes(worker.name)
    /\ \A n \in DhNames : told[Welcome(n)] = "succeeded" => sent[Welcome(n)] = 1

(* The event in hand cannot count as a violation any more, whatever        *)
(* becomes of the handler: the row has its card, or has had.               *)
CannotCount ==
    CASE handler.at = "idle" -> row.card = Head(events).card
      [] handler.at \in {"read", "asked"} -> handler.saved.card = Head(events).card
      [] handler.at = "stored" -> ~IsExternal(Head(events).card)
      [] OTHER -> TRUE

Spent == IF events # <<>> /\ CannotCount THEN {Head(events).id} ELSE {}

(* The events that tell of a card that is not among those given, and those *)
(* of them that may still count.                                           *)
Told(given) == {events[i].id : i \in {j \in DOMAIN events : events[j].kind = "card" /\ events[j].card \notin given}}
Open(given) == Told(given) \ Spent

(* Without the synchronisation the row's card is the handler's.            *)
RowFollows ==
    /\ sync = Idle
    /\ handler.at \in {"read", "asked"} => handler.saved.card = row.card
    /\ handler.at \in {"stored", "counted", "joined"} => row.card = Head(events).card

OnlyMember == faults \cap {"sync", "manual", "apply"} = {} /\ OneName

(* Every violation that has been or may still be counted has an event of   *)
(* its own, and a change by the member if only that may count.             *)
CountsStand ==
    /\ "sync" \notin faults => RowFollows /\ row.count + Cardinality(Open({})) < nextId
    /\ OnlyMember => row.count + Cardinality(Open(DhNames)) <= outsiders

(* The inductive invariant.                                                *)
IInv == Types /\ EventsStand /\ WornStands /\ OwedStands /\ CountsStand

USE DEF tableVars, outerVars, remoteVars, queueVars, HandlerRest, SyncRest, WorkerRest, QueueRest

-----------------------------------------------------------------------------
(* Types.                                                                  *)

(* The constants as the steps use them.                                    *)
LEMMA Bounds ==
  /\ MaxAttempts \in Nat /\ MaxEvents \in Nat /\ MaxChanges \in Nat
  /\ \A c \in Cases : c.events \in 0..MaxEvents /\ c.changes \in 0..MaxChanges
  /\ DhNames # {} /\ Unlocked \notin DhNames
  BY BoundsAssumption, CasesAssumption, NamesAssumption DEF Unlocked

(* A welcome that was told of is off the job's mark or not.                *)
LEMMA MarkIs ==
  ASSUME job \in [DhNames -> Jobs], NEW n \in DhNames, TellWelcome(n)
  PROVE  job' = job \/ (told[Welcome(n)] = "succeeded" /\ job' = [job EXCEPT ![n].welcome = FALSE])
  <1> DEFINE mark == job[n].welcome /\ ~EndsOwing(told[Welcome(n)])
  <1>1. job' = [job EXCEPT ![n].welcome = mark] \/ job' = job
    BY DEF TellWelcome
  <1>2. job[n].welcome \in BOOLEAN /\ job[n] = [job[n] EXCEPT !.welcome = job[n].welcome]
    BY DEF Jobs
  <1>3. job = [job EXCEPT ![n].welcome = job[n].welcome]
    BY <1>2
  <1>4. CASE told[Welcome(n)] = "succeeded"
    <2>1. mark = FALSE
      BY <1>4 DEF EndsOwing
    <2> HIDE DEF mark
    <2> QED
      BY <1>1, <1>4, <2>1
  <1>5. CASE told[Welcome(n)] # "succeeded"
    <2>1. mark = job[n].welcome
      BY <1>2, <1>5, Zenon DEF EndsOwing
    <2> HIDE DEF mark
    <2> QED
      BY <1>1, <1>3, <2>1
  <1> QED
    BY <1>4, <1>5

(* The types at the start.                                                 *)
LEMMA InitTypes == Init => Types
  <1> SUFFICES ASSUME Init PROVE Types
    OBVIOUS
  <1>1. EventTypes
    BY Bounds DEF Init, EventTypes, Snapshots, Names
  <1>2. RowTypes
    <2>1. PICK in \in BOOLEAN, managed \in BOOLEAN, n \in DhNames, o \in OwnNames :
             /\ remote = [in |-> in, card |-> IF managed THEN n ELSE o]
             /\ row = [present |-> in, card |-> remote.card, count |-> 0, fresh |-> TRUE,
                       locked |-> IF managed THEN n ELSE Unlocked]
             /\ job = [d \in DhNames |-> IF managed /\ d = n THEN [NoJob EXCEPT !.state = "succeeded"]
                                                           ELSE NoJob]
      BY DEF Init
    <2>2. row \in Rows
      BY <2>1, Bounds DEF Rows, Names
    <2>3. NoJob \in Jobs /\ [NoJob EXCEPT !.state = "succeeded"] \in Jobs
      <3>1. NoJob \in Jobs
        BY Bounds DEF NoJob, Jobs, JobStates
      <3>2. \A j \in Jobs : [j EXCEPT !.state = "succeeded"] \in Jobs
        BY DEF Jobs, JobStates
      <3> QED
        BY <3>1, <3>2
    <2>4. job \in [DhNames -> Jobs]
      BY <2>1, <2>3
    <2> QED
      BY <2>2, <2>4 DEF Init, RowTypes
  <1>3. QueueTypes
    BY Bounds DEF Init, QueueTypes, Queue!Empty, Queue!Outcomes
  <1> QED
    BY <1>1, <1>2, <1>3 DEF Init, Types, ProcessTypes, Handlers, Syncs, Workers

(* A sequence of events without its first.                                 *)
LEMMA Popping ==
  ASSUME NEW s \in Seq(Events), s # <<>>
  PROVE  /\ Tail(s) \in Seq(Events) /\ Head(s) \in Events /\ Head(s) = s[1]
         /\ DOMAIN Tail(s) = 1..(Len(s) - 1)
         /\ \A i \in 1..(Len(s) - 1) : Tail(s)[i] = s[i + 1]
         /\ Len(s) \in Nat /\ Len(s) >= 1 /\ DOMAIN s = 1..Len(s)
  OBVIOUS

(* The event in hand and those that follow.                                *)
LEMMA HeadIs ==
  ASSUME events \in Seq(Events), events # <<>>
  PROVE  /\ Head(events) \in Events /\ Head(events) = events[1] /\ Head(events).card \in Names
         /\ Tail(events) \in Seq(Events) /\ 1 \in DOMAIN events
         /\ \A i \in DOMAIN Tail(events) : i + 1 \in DOMAIN events /\ Tail(events)[i] = events[i + 1]
  <1>1. PICK s \in Seq(Events) : s = events
    OBVIOUS
  <1>2. \A e \in Events : e.card \in Names
    BY DEF Events
  <1> HIDE DEF Events
  <1> QED
    BY <1>1, <1>2, Popping

(* What storing a card changes.                                            *)
LEMMA StoredIs ==
  ASSUME row \in Rows, NEW card \in Names
  PROVE  /\ Store(row, card) \in Rows
         /\ Store(row, card).card = card /\ Store(row, card).locked = row.locked
         /\ Store(row, card).count = row.count
  BY Bounds DEF Rows, Store

(* What counting a violation changes.                                      *)
LEMMA CountedIs ==
  ASSUME row \in Rows
  PROVE  /\ Counted(row) \in Rows
         /\ Counted(row).card = row.card /\ Counted(row).locked = row.locked /\ Counted(row).present = row.present
         /\ Counted(row).count <= row.count + 1 /\ row.count \in Nat
  <1>1. row.count \in 0..(MaxChanges + 1) /\ row.count \in Nat
    BY Bounds DEF Rows
  <1>2. CASE row.count > MaxChanges
    <2>1. Counted(row) = [row EXCEPT !.count = row.count, !.fresh = TRUE]
      BY <1>2 DEF Counted
    <2> QED
      <3>1. Counted(row) \in Rows
        BY <1>1, <2>1 DEF Rows
      <3>2. /\ Counted(row).card = row.card /\ Counted(row).locked = row.locked
            /\ Counted(row).present = row.present /\ Counted(row).count = row.count
        BY <2>1 DEF Rows
      <3> QED
        BY <1>1, <3>1, <3>2
  <1>3. CASE ~(row.count > MaxChanges)
    <2>1. Counted(row) = [row EXCEPT !.count = row.count + 1, !.fresh = TRUE]
      BY <1>3 DEF Counted
    <2>2. row.count + 1 \in 0..(MaxChanges + 1)
      BY <1>1, <1>3, Bounds
    <2> QED
      <3>1. Counted(row) \in Rows
        BY <1>1, <2>1, <2>2 DEF Rows
      <3>2. /\ Counted(row).card = row.card /\ Counted(row).locked = row.locked
            /\ Counted(row).present = row.present /\ Counted(row).count = row.count + 1
        BY <2>1 DEF Rows
      <3> QED
        BY <1>1, <3>1, <3>2
  <1> QED
    BY <1>2, <1>3

(* Planning a job keeps the table of jobs.                                 *)
LEMMA EnqueueTypes ==
  ASSUME job \in [DhNames -> Jobs], NEW n \in DhNames, NEW welcome \in BOOLEAN, EnqueueJob(n, welcome)
  PROVE  job' \in [DhNames -> Jobs]
  BY Bounds DEF EnqueueJob, Jobs, JobStates

(* Every step keeps the types of the tables,                               *)
LEMMA RowTypesStep ==
  ASSUME Types, EventsStand, [Next]_vars
  PROVE  RowTypes'
  <1> USE DEF Types, EventsStand, EventTypes
  <1>1. ASSUME MarkLeft PROVE RowTypes'
    BY <1>1 DEF MarkLeft, RowTypes, Rows, Names, Store, SyncRest
  <1>2. ASSUME StoreUpdated PROVE RowTypes'
    BY <1>2, HeadIs, StoredIs DEF StoreUpdated, RowTypes, Idle
  <1>3. ASSUME CountViolation PROVE RowTypes'
    BY <1>3, CountedIs DEF CountViolation, RowTypes
  <1>4. ASSUME StoreJoined PROVE RowTypes'
    BY <1>4, HeadIs, StoredIs DEF StoreJoined, RowTypes, Idle
  <1>5. ASSUME PlanJoined PROVE RowTypes'
    BY <1>5, EnqueueTypes DEF PlanJoined, RowTypes, PlanJob
  <1>6. ASSUME BeginSync PROVE RowTypes'
    BY <1>6 DEF BeginSync, RowTypes, Rows, Names, Store, SyncRest
  <1>7. ASSUME StoreRoster PROVE RowTypes'
    <2>1. sync.snap.card \in Names
      BY <1>7 DEF StoreRoster, ProcessTypes, Syncs, Snapshots, Idle
    <2>2. row' = Store(row, sync.snap.card) \/ row' = row
      BY <1>7 DEF StoreRoster
    <2> QED
      BY <1>7, <2>1, <2>2, StoredIs DEF StoreRoster, RowTypes
  <1>8. ASSUME CountDrift PROVE RowTypes'
    BY <1>8, CountedIs DEF CountDrift, RowTypes
  <1>9. ASSUME PlanDrifted PROVE RowTypes'
    BY <1>9, EnqueueTypes DEF PlanDrifted, RowTypes, PlanJob
  <1>10. ASSUME MarkAbsent PROVE RowTypes'
    BY <1>10 DEF MarkAbsent, RowTypes, Rows, Names, Store, SyncRest
  <1>11. ASSUME FinishJob PROVE RowTypes'
    <2>1. worker \in Workers /\ worker.name \in DhNames
      BY <1>11 DEF FinishJob, ProcessTypes, Workers, Idle
    <2> QED
      <3>0. row' = row \/ row' = [row EXCEPT !.locked = worker.name, !.fresh = TRUE]
        BY <1>11 DEF FinishJob
      <3>1. row' \in Rows
        BY <2>1, <3>0 DEF RowTypes, Rows
      <3>2. \A j \in Jobs : \A s \in JobStates : [j EXCEPT !.state = s] \in Jobs
        BY DEF Jobs
      <3>3. (\E s \in JobStates : job' = [job EXCEPT ![worker.name].state = s]) \/ job' = job
        BY <1>11 DEF FinishJob, JobStates
      <3>4. CASE job' = job
        BY <1>11, <3>1, <3>4 DEF FinishJob, RowTypes
      <3>5. ASSUME NEW s \in JobStates, job' = [job EXCEPT ![worker.name].state = s] PROVE RowTypes'
        <4>1. job'[worker.name] = [job[worker.name] EXCEPT !.state = s]
          BY <2>1, <3>5 DEF RowTypes
        <4>2. job' \in [DhNames -> Jobs]
          BY <2>1, <3>2, <3>5, <4>1 DEF RowTypes
        <4> QED
          BY <1>11, <3>1, <4>2 DEF FinishJob, RowTypes
      <3> QED
        BY <3>3, <3>4, <3>5
  <1>12. ASSUME RetryFailed PROVE RowTypes'
    <2>1. ASSUME NEW j \in Jobs PROVE [j EXCEPT !.state = "queued", !.attempts = 0] \in Jobs
      <3>1. 0 \in 0..MaxAttempts
        BY Bounds
      <3> QED
        BY <3>1 DEF Jobs, JobStates
    <2> QED
      BY <1>12, <2>1 DEF RetryFailed, RowTypes
  <1>13. ASSUME Restart PROVE RowTypes'
    <2>1. \A j \in Jobs : [j EXCEPT !.state = "queued"] \in Jobs
      BY Bounds DEF Jobs, JobStates
    <2> QED
      BY <1>13, <2>1 DEF Restart, RowTypes
  <1>14. ASSUME NEW n \in DhNames, ClaimJob(n) PROVE RowTypes'
    <2>1. ASSUME NEW j \in Jobs, NEW a \in 0..MaxAttempts
          PROVE  [j EXCEPT !.state = "processing", !.attempts = a] \in Jobs
      BY Bounds DEF Jobs, JobStates
    <2>2. \E a \in 0..MaxAttempts : job'[n] = [job[n] EXCEPT !.state = "processing", !.attempts = a]
      <3>1. job[n].attempts \in 0..MaxAttempts
        BY DEF RowTypes, Jobs
      <3>2. (IF job[n].attempts < MaxAttempts THEN job[n].attempts + 1 ELSE job[n].attempts) \in 0..MaxAttempts
        BY <3>1, Bounds
      <3>3. job'[n] = [job[n] EXCEPT !.state = "processing",
                                     !.attempts = IF job[n].attempts < MaxAttempts THEN job[n].attempts + 1
                                                                                   ELSE job[n].attempts]
        BY <1>14 DEF ClaimJob, RowTypes
      <3> QED
        BY <3>2, <3>3
    <2> QED
      BY <1>14, <2>1, <2>2 DEF ClaimJob, RowTypes
  <1>15. ASSUME NEW n \in OwnNames, MemberRenames(n) PROVE RowTypes'
    BY <1>15 DEF MemberRenames, RowTypes
  <1>16. ASSUME NEW n \in OwnNames, RenameManually(n) PROVE RowTypes'
    BY <1>16 DEF RenameManually, RowTypes, Names
  <1>17. ASSUME NEW n \in DhNames, ApplyPlan(n) PROVE RowTypes'
    BY <1>17, EnqueueTypes DEF ApplyPlan, RowTypes
  <1>18. ASSUME NEW n \in DhNames, JobDue(n) PROVE RowTypes'
    BY <1>18, Bounds DEF JobDue, RowTypes, Jobs, JobStates
  <1>19. ASSUME NEW n \in DhNames, TellWelcome(n) PROVE RowTypes'
    <2>1. \A j \in Jobs : [j EXCEPT !.welcome = FALSE] \in Jobs
      BY DEF Jobs
    <2>2. job' = job \/ job' = [job EXCEPT ![n].welcome = FALSE]
      BY <1>19, MarkIs DEF RowTypes, TellWelcome
    <2>3. job' \in [DhNames -> Jobs]
      BY <2>1, <2>2 DEF RowTypes
    <2> QED
      BY <1>19, <2>3 DEF TellWelcome, RowTypes
  <1>20. ASSUME NEW k \in Keys, QueueMoves(k) PROVE RowTypes'
    BY <1>20 DEF QueueMoves, RowTypes
  <1>21. ASSUME NEW k \in Keys, PerformRestore(k) PROVE RowTypes'
    BY <1>21 DEF PerformRestore, RowTypes, Names, QueueTypes
  <1>22. ASSUME NEW k \in Keys, PerformWelcome(k) PROVE RowTypes'
    BY <1>22 DEF PerformWelcome, RowTypes
  <1>23. CASE \/ UNCHANGED vars \/ MemberMoves \/ ReadSaved \/ ConsumeExpected \/ QueueRestore \/ HandlerFails
          \/ ReadRoster \/ ReadExisting \/ RenameMember \/ ReadBack \/ QueueWelcome \/ ExpectationsExpire
          \/ Crash
    BY <1>23 DEF vars, MemberMoves, ReadSaved, ConsumeExpected, QueueRestore, HandlerFails, ReadRoster,
       ReadExisting, RenameMember, ReadBack, QueueWelcome, ExpectationsExpire, Crash, RowTypes
  <1> QED
    BY <1>1, <1>2, <1>3, <1>4, <1>5, <1>6, <1>7, <1>8, <1>9, <1>10, <1>11, <1>12, <1>13, <1>14, <1>15,
       <1>16, <1>17, <1>18, <1>19, <1>20, <1>21, <1>22, <1>23 DEF Next, HandlerStep, SyncStep, WorkerStep

(* An event that is told is one.                                           *)
LEMMA TellsTypes ==
  ASSUME EventTypes, NEW kind \in {"card", "joined", "left"}, NEW card \in Names, Tells(kind, card)
  PROVE  events' \in Seq(Events) /\ nextId' \in 1..(MaxEvents + 1)
  <1>1. CASE UNCHANGED <<events, nextId>>
    BY <1>1 DEF EventTypes
  <1>2. CASE /\ nextId <= case.events /\ nextId' = nextId + 1
             /\ events' = Append(events, [id |-> nextId, kind |-> kind, card |-> card])
    <2>1. [id |-> nextId, kind |-> kind, card |-> card] \in Events
      BY <1>2, Bounds DEF EventTypes, Events
    <2> QED
      BY <1>2, <2>1, Bounds DEF EventTypes
  <1> QED
    BY <1>1, <1>2 DEF Tells

(* A rename keeps the types of the member and its events.                  *)
LEMMA RenameTypes ==
  ASSUME EventTypes, NEW n \in Names, Rename(n)
  PROVE  /\ remote' \in Snapshots /\ worn' \subseteq DhNames
         /\ events' \in Seq(Events) /\ nextId' \in 1..(MaxEvents + 1)
  BY TellsTypes DEF Rename, EventTypes, Snapshots

(* of the member and its events,                                           *)
LEMMA EventTypesStep ==
  ASSUME Types, EventsStand, [Next]_vars
  PROVE  EventTypes'
  <1> USE DEF Types, EventsStand
  <1>1. ASSUME MemberMoves PROVE EventTypes'
    <2>1. PICK n \in OwnNames : remote' = [in |-> ~remote.in, card |-> IF remote.in THEN remote.card ELSE n]
      BY <1>1 DEF MemberMoves
    <2>2. remote' \in Snapshots
      BY <2>1 DEF EventTypes, Snapshots, Names
    <2>3. events' \in Seq(Events) /\ nextId' \in 1..(MaxEvents + 1)
      BY <1>1, <2>2, TellsTypes DEF MemberMoves, Snapshots
    <2> QED
      BY <1>1, <2>2, <2>3, Bounds DEF MemberMoves, EventTypes
  <1>2. ASSUME MarkLeft PROVE EventTypes'
    BY <1>2, HeadIs DEF MarkLeft, EventTypes, Settled, Idle
  <1>3. ASSUME QueueRestore PROVE EventTypes'
    BY <1>3, HeadIs DEF QueueRestore, EventTypes, Settled, Idle
  <1>4. ASSUME PlanJoined PROVE EventTypes'
    BY <1>4, HeadIs DEF PlanJoined, EventTypes, Settled, Idle
  <1>5. ASSUME RenameMember PROVE EventTypes'
    <2>1. worker.name \in Names
      BY <1>5 DEF RenameMember, ProcessTypes, Workers, Idle, Names
    <2>2. remote' \in Snapshots /\ worn' \subseteq DhNames /\ events' \in Seq(Events) /\ nextId' \in 1..(MaxEvents + 1)
      BY <1>5, <2>1, RenameTypes DEF RenameMember, EventTypes
    <2> QED
      BY <1>5, <2>2 DEF RenameMember, EventTypes
  <1>6. ASSUME RetryFailed PROVE EventTypes'
    <2>1. changes < case.changes /\ changes' = changes + 1 /\ UNCHANGED <<case, up, outsiders, remoteVars>>
      BY <1>6 DEF RetryFailed
    <2> QED
      BY <2>1, Bounds DEF EventTypes
  <1>7. ASSUME NEW n \in DhNames, ClaimJob(n) PROVE EventTypes'
    BY <1>7 DEF ClaimJob, EventTypes, Snapshots
  <1>8. ASSUME NEW n \in OwnNames, MemberRenames(n) PROVE EventTypes'
    <2>1. remote' \in Snapshots /\ worn' \subseteq DhNames /\ events' \in Seq(Events) /\ nextId' \in 1..(MaxEvents + 1)
      BY <1>8, RenameTypes DEF MemberRenames, Names
    <2> QED
      BY <1>8, <2>1, Bounds DEF MemberRenames, EventTypes
  <1>9. ASSUME NEW n \in OwnNames, RenameManually(n) PROVE EventTypes'
    <2>1. remote' \in Snapshots /\ worn' \subseteq DhNames /\ events' \in Seq(Events) /\ nextId' \in 1..(MaxEvents + 1)
      BY <1>9, RenameTypes DEF RenameManually, Names
    <2> QED
      BY <1>9, <2>1, Bounds DEF RenameManually, EventTypes
  <1>10. ASSUME NEW n \in DhNames, ApplyPlan(n) PROVE EventTypes'
    BY <1>10, Bounds DEF ApplyPlan, EventTypes, Snapshots
  <1>11. ASSUME NEW n \in DhNames, JobDue(n) PROVE EventTypes'
    BY <1>11 DEF JobDue, EventTypes, Snapshots
  <1>12. ASSUME NEW n \in DhNames, TellWelcome(n) PROVE EventTypes'
    BY <1>12 DEF TellWelcome, EventTypes, Snapshots
  <1>13. ASSUME NEW k \in Keys, QueueMoves(k) PROVE EventTypes'
    BY <1>13 DEF QueueMoves, EventTypes, Snapshots
  <1>14. ASSUME NEW k \in Keys, PerformRestore(k) PROVE EventTypes'
    <2>1. payload[k] \in Names
      BY DEF QueueTypes, Names
    <2>2. remote' \in Snapshots /\ worn' \subseteq DhNames /\ events' \in Seq(Events) /\ nextId' \in 1..(MaxEvents + 1)
      BY <1>14, <2>1, RenameTypes DEF PerformRestore
    <2> QED
      BY <1>14, <2>2 DEF PerformRestore, EventTypes
  <1>15. ASSUME NEW k \in Keys, PerformWelcome(k) PROVE EventTypes'
    BY <1>15 DEF PerformWelcome, EventTypes, Snapshots
  <1>16. CASE \/ UNCHANGED vars \/ ReadSaved \/ ConsumeExpected \/ StoreUpdated \/ CountViolation \/ StoreJoined
          \/ HandlerFails \/ BeginSync \/ ReadRoster \/ ReadExisting \/ StoreRoster \/ CountDrift \/ PlanDrifted
          \/ MarkAbsent \/ ReadBack \/ FinishJob \/ QueueWelcome \/ ExpectationsExpire \/ Crash \/ Restart
    BY <1>16 DEF vars, ReadSaved, ConsumeExpected, StoreUpdated, CountViolation, StoreJoined, HandlerFails,
       BeginSync, ReadRoster, ReadExisting, StoreRoster, CountDrift, PlanDrifted, MarkAbsent, ReadBack,
       FinishJob, QueueWelcome, ExpectationsExpire, Crash, Restart, EventTypes, Snapshots
  <1> QED
    BY <1>1, <1>2, <1>3, <1>4, <1>5, <1>6, <1>7, <1>8, <1>9, <1>10, <1>11, <1>12, <1>13, <1>14, <1>15, <1>16
       DEF Next, HandlerStep, SyncStep, WorkerStep

(* of the processes,                                                       *)
LEMMA ProcessTypesStep ==
  ASSUME Types, [Next]_vars
  PROVE  ProcessTypes'
  <1> USE DEF Types
  <1>1. ASSUME MarkLeft PROVE ProcessTypes'
    BY <1>1 DEF MarkLeft, ProcessTypes, Handlers, Settled
  <1>2. ASSUME ReadSaved PROVE ProcessTypes'
    BY <1>2 DEF ReadSaved, ProcessTypes, Handlers, SavedRows, Saved, RowTypes, Rows, Idle
  <1>3. ASSUME ConsumeExpected PROVE ProcessTypes'
    <2>1. PICK mine \in BOOLEAN : handler' = [handler EXCEPT !.at = "asked", !.mine = mine]
      BY <1>3 DEF ConsumeExpected
    <2> QED
      <3>1. handler \in [at : {"read", "asked", "stored", "counted", "joined"}, saved : SavedRows, mine : BOOLEAN]
        BY <1>3 DEF ConsumeExpected, ProcessTypes, Handlers, Idle
      <3>2. handler' \in [at : {"read", "asked", "stored", "counted", "joined"}, saved : SavedRows, mine : BOOLEAN]
        BY <2>1, <3>1
      <3> QED
        BY <1>3, <3>2 DEF ConsumeExpected, ProcessTypes, Handlers
  <1>4. ASSUME StoreUpdated PROVE ProcessTypes'
    BY <1>4 DEF StoreUpdated, ProcessTypes, Handlers, SavedRows, Saved, RowTypes, Rows, Idle
  <1>5. ASSUME CountViolation PROVE ProcessTypes'
    BY <1>5 DEF CountViolation, ProcessTypes, Handlers, SavedRows, Saved, RowTypes, Rows, Idle
  <1>6. ASSUME QueueRestore PROVE ProcessTypes'
    BY <1>6 DEF QueueRestore, ProcessTypes, Handlers, Settled
  <1>7. ASSUME StoreJoined PROVE ProcessTypes'
    BY <1>7 DEF StoreJoined, ProcessTypes, Handlers, SavedRows, Saved, RowTypes, Rows, Idle
  <1>8. ASSUME PlanJoined PROVE ProcessTypes'
    BY <1>8 DEF PlanJoined, ProcessTypes, Handlers, Settled
  <1>9. ASSUME HandlerFails PROVE ProcessTypes'
    BY <1>9 DEF HandlerFails, ProcessTypes, Handlers, Settled
  <1>10. ASSUME BeginSync PROVE ProcessTypes'
    BY <1>10 DEF BeginSync, ProcessTypes, Syncs, SavedRows, Saved, RowTypes, Rows, Idle, Snapshots, EventTypes
  <1>11. ASSUME ReadRoster PROVE ProcessTypes'
    BY <1>11 DEF ReadRoster, ProcessTypes, Syncs, SavedRows, Saved, RowTypes, Rows, Idle, Snapshots, EventTypes
  <1>12. ASSUME ReadExisting PROVE ProcessTypes'
    <2>1. sync.snap \in Snapshots
      BY <1>12 DEF ReadExisting, ProcessTypes, Syncs, Idle
    <2>2. Saved \in SavedRows /\ Baseline \in SavedRows
      BY <2>1 DEF Saved, Baseline, SavedRows, Snapshots, RowTypes, Rows
    <2>3. PICK saved \in SavedRows : sync' = [at |-> "known", snap |-> sync.snap, saved |-> saved]
      BY <1>12, <2>2 DEF ReadExisting
    <2> QED
      BY <1>12, <2>1, <2>3 DEF ReadExisting, ProcessTypes, Syncs
  <1>13. ASSUME StoreRoster PROVE ProcessTypes'
    <2>1. sync \in [at : {"known", "stored", "counted", "planned"}, snap : Snapshots, saved : SavedRows]
      BY <1>13 DEF StoreRoster, ProcessTypes, Syncs, Idle
    <2>2. [sync.snap EXCEPT !.in = FALSE] \in Snapshots
      BY <2>1 DEF Snapshots
    <2>3. sync' = [sync EXCEPT !.at = "stored"]
          \/ sync' = [sync EXCEPT !.at = "planned", !.snap = [sync.snap EXCEPT !.in = FALSE]]
      BY <1>13, <2>1 DEF StoreRoster
    <2> QED
      BY <1>13, <2>1, <2>2, <2>3 DEF StoreRoster, ProcessTypes, Syncs
  <1>14. ASSUME CountDrift PROVE ProcessTypes'
    BY <1>14 DEF CountDrift, ProcessTypes, Syncs, SavedRows, Saved, RowTypes, Rows, Idle, Snapshots, EventTypes
  <1>15. ASSUME PlanDrifted PROVE ProcessTypes'
    BY <1>15 DEF PlanDrifted, ProcessTypes, Syncs, SavedRows, Saved, RowTypes, Rows, Idle, Snapshots, EventTypes
  <1>16. ASSUME MarkAbsent PROVE ProcessTypes'
    BY <1>16 DEF MarkAbsent, ProcessTypes, Syncs, SavedRows, Saved, RowTypes, Rows, Idle, Snapshots, EventTypes
  <1>17. ASSUME RenameMember PROVE ProcessTypes'
    BY <1>17 DEF RenameMember, ProcessTypes, Workers, Idle, Outcome, RowTypes, Jobs
  <1>18. ASSUME ReadBack PROVE ProcessTypes'
    BY <1>18 DEF ReadBack, ProcessTypes, Workers, Idle, Outcome, RowTypes, Jobs
  <1>19. ASSUME FinishJob PROVE ProcessTypes'
    BY <1>19 DEF FinishJob, ProcessTypes, Workers, Idle, Outcome, RowTypes, Jobs
  <1>20. ASSUME QueueWelcome PROVE ProcessTypes'
    BY <1>20 DEF QueueWelcome, ProcessTypes, Workers, Idle, Outcome, RowTypes, Jobs
  <1>21. ASSUME Crash PROVE ProcessTypes'
    BY <1>21 DEF Crash, ProcessTypes, Handlers, Syncs, Workers
  <1>22. ASSUME NEW n \in DhNames, ClaimJob(n) PROVE ProcessTypes'
    BY <1>22 DEF ClaimJob, ProcessTypes, Workers, Idle, Outcome, RowTypes, Jobs
  <1>23. ASSUME NEW n \in OwnNames, MemberRenames(n) PROVE ProcessTypes'
    BY <1>23 DEF MemberRenames, ProcessTypes
  <1>24. ASSUME NEW n \in OwnNames, RenameManually(n) PROVE ProcessTypes'
    BY <1>24 DEF RenameManually, ProcessTypes
  <1>25. ASSUME NEW n \in DhNames, ApplyPlan(n) PROVE ProcessTypes'
    BY <1>25 DEF ApplyPlan, ProcessTypes
  <1>26. ASSUME NEW n \in DhNames, JobDue(n) PROVE ProcessTypes'
    BY <1>26 DEF JobDue, ProcessTypes
  <1>27. ASSUME NEW n \in DhNames, TellWelcome(n) PROVE ProcessTypes'
    BY <1>27 DEF TellWelcome, ProcessTypes
  <1>28. ASSUME NEW k \in Keys, QueueMoves(k) PROVE ProcessTypes'
    BY <1>28 DEF QueueMoves, ProcessTypes
  <1>29. ASSUME NEW k \in Keys, PerformRestore(k) PROVE ProcessTypes'
    BY <1>29 DEF PerformRestore, ProcessTypes
  <1>30. ASSUME NEW k \in Keys, PerformWelcome(k) PROVE ProcessTypes'
    BY <1>30 DEF PerformWelcome, ProcessTypes
  <1>31. CASE \/ UNCHANGED vars \/ MemberMoves \/ RetryFailed \/ ExpectationsExpire \/ Restart
    BY <1>31 DEF vars, MemberMoves, RetryFailed, ExpectationsExpire, Restart, ProcessTypes
  <1> QED
    BY <1>1, <1>2, <1>3, <1>4, <1>5, <1>6, <1>7, <1>8, <1>9, <1>10, <1>11, <1>12, <1>13, <1>14, <1>15,
       <1>16, <1>17, <1>18, <1>19, <1>20, <1>21, <1>22, <1>23, <1>24, <1>25, <1>26, <1>27, <1>28, <1>29,
       <1>30, <1>31 DEF Next, HandlerStep, SyncStep, WorkerStep

(* and of the queue.                                                       *)
LEMMA QueueTypesStep ==
  ASSUME Types, [Next]_vars
  PROVE  QueueTypes'
  <1> USE DEF Types
  <1>1. ASSUME QueueRestore PROVE QueueTypes'
    <2>1. CASE RestoreName(Head(events).card)
      <3>1. PICK q : q = Restore(Head(events).id)
        OBVIOUS
      <3>2. handler.saved.locked \in DhNames
        BY <1>1, <2>1 DEF QueueRestore, RestoreName, ProcessTypes, Handlers, SavedRows, Idle
      <3>3. Queue!Insert(q) /\ payload' = [payload EXCEPT ![q] = IF status[q] = "absent" THEN handler.saved.locked ELSE @]
        BY <1>1, <2>1, <3>1 DEF QueueRestore
      <3> QED
        BY <3>2, <3>3 DEF QueueTypes, Queue!Insert
    <2>2. CASE ~RestoreName(Head(events).card)
      BY <1>1, <2>2 DEF QueueRestore, QueueTypes
    <2> QED
      BY <2>1, <2>2
  <1>2. ASSUME QueueWelcome PROVE QueueTypes'
    <2>1. PICK q : q = Welcome(worker.name)
      OBVIOUS
    <2>2. payload' = payload /\ (Queue!Insert(q) \/ Queue!Rest)
      BY <1>2, <2>1 DEF QueueWelcome
    <2> QED
      BY <2>2 DEF QueueTypes, Queue!Insert, Queue!Rest
  <1>3. ASSUME Crash PROVE QueueTypes'
    BY <1>3 DEF Crash, QueueTypes, Queue!Forget
  <1>4. ASSUME Restart PROVE QueueTypes'
    <2>1. /\ status' = [q \in Keys |-> IF status[q] = "running" THEN "unknown" ELSE status[q]]
          /\ UNCHANGED <<payload, sent, told>>
      BY <1>4 DEF Restart, Queue!Recover
    <2>2. status' \in [Keys -> {"absent", "waiting", "running"} \cup Queue!Outcomes]
      BY <2>1 DEF QueueTypes, Queue!Outcomes
    <2> QED
      BY <2>1, <2>2 DEF QueueTypes
  <1>5. ASSUME NEW n \in DhNames, ClaimJob(n) PROVE QueueTypes'
    BY <1>5 DEF ClaimJob, QueueTypes
  <1>6. ASSUME NEW n \in OwnNames, MemberRenames(n) PROVE QueueTypes'
    BY <1>6 DEF MemberRenames, QueueTypes
  <1>7. ASSUME NEW n \in OwnNames, RenameManually(n) PROVE QueueTypes'
    BY <1>7 DEF RenameManually, QueueTypes
  <1>8. ASSUME NEW n \in DhNames, ApplyPlan(n) PROVE QueueTypes'
    BY <1>8 DEF ApplyPlan, QueueTypes
  <1>9. ASSUME NEW n \in DhNames, JobDue(n) PROVE QueueTypes'
    BY <1>9 DEF JobDue, QueueTypes
  <1>10. ASSUME NEW n \in DhNames, TellWelcome(n) PROVE QueueTypes'
    BY <1>10 DEF TellWelcome, QueueTypes, Queue!Tell
  <1>11. ASSUME NEW k \in Keys, QueueMoves(k) PROVE QueueTypes'
    BY <1>11 DEF QueueMoves, QueueTypes, Queue!Start, Queue!Postpone, Queue!Report, Queue!Outcomes
  <1>12. ASSUME NEW k \in Keys, PerformRestore(k) PROVE QueueTypes'
    BY <1>12 DEF PerformRestore, QueueTypes, Queue!Perform
  <1>13. ASSUME NEW k \in Keys, PerformWelcome(k) PROVE QueueTypes'
    BY <1>13 DEF PerformWelcome, QueueTypes, Queue!Perform
  <1>14. CASE \/ UNCHANGED vars \/ MemberMoves \/ MarkLeft \/ ReadSaved \/ ConsumeExpected \/ StoreUpdated
          \/ CountViolation \/ StoreJoined \/ PlanJoined \/ HandlerFails \/ BeginSync \/ ReadRoster
          \/ ReadExisting \/ StoreRoster \/ CountDrift \/ PlanDrifted \/ MarkAbsent \/ RenameMember \/ ReadBack
          \/ FinishJob \/ RetryFailed \/ ExpectationsExpire
    BY <1>14 DEF vars, MemberMoves, MarkLeft, ReadSaved, ConsumeExpected, StoreUpdated, CountViolation,
       StoreJoined, PlanJoined, HandlerFails, BeginSync, ReadRoster, ReadExisting, StoreRoster, CountDrift,
       PlanDrifted, MarkAbsent, RenameMember, ReadBack, FinishJob, RetryFailed, ExpectationsExpire,
       QueueTypes
  <1> QED
    BY <1>1, <1>2, <1>3, <1>4, <1>5, <1>6, <1>7, <1>8, <1>9, <1>10, <1>11, <1>12, <1>13, <1>14 DEF Next,
       HandlerStep, SyncStep, WorkerStep

(* Every step keeps the types.                                             *)
LEMMA TypeStep ==
  ASSUME Types, EventsStand, [Next]_vars
  PROVE  Types'
  BY RowTypesStep, EventTypesStep, ProcessTypesStep, QueueTypesStep DEF Types

-----------------------------------------------------------------------------
(* The events and the names worn.                                          *)

(* A sequence of events with one more.                                     *)
LEMMA Pushing ==
  ASSUME NEW s \in Seq(Events), NEW e \in Events
  PROVE  /\ Append(s, e) \in Seq(Events)
         /\ DOMAIN Append(s, e) = DOMAIN s \cup {Len(s) + 1}
         /\ \A i \in DOMAIN s : Append(s, e)[i] = s[i]
         /\ Append(s, e)[Len(s) + 1] = e /\ Append(s, e) # <<>>
         /\ Len(s) \in Nat /\ DOMAIN s = 1..Len(s)
         /\ s # <<>> => 1 \in DOMAIN s /\ Head(s) = s[1] /\ Head(Append(s, e)) = s[1]
  <1>1. /\ Append(s, e) \in Seq(Events)
        /\ DOMAIN Append(s, e) = DOMAIN s \cup {Len(s) + 1}
        /\ \A i \in DOMAIN s : Append(s, e)[i] = s[i]
        /\ Append(s, e)[Len(s) + 1] = e /\ Append(s, e) # <<>>
        /\ Len(s) \in Nat /\ DOMAIN s = 1..Len(s)
    OBVIOUS
  <1>2. ASSUME s # <<>> PROVE 1 \in DOMAIN s /\ Head(s) = s[1]
    BY <1>2
  <1>3. PICK t \in Seq(Events) : t = Append(s, e)
    BY <1>1
  <1>4. t # <<>> /\ Head(t) = t[1]
    BY <1>1, <1>3
  <1> QED
    BY <1>1, <1>2, <1>3, <1>4

(* What a change of the card tells.                                        *)
LEMMA RenameTells ==
  ASSUME NEW n, Rename(n)
  PROVE  UNCHANGED <<events, nextId>> \/ Tells("card", n)
  BY DEF Rename

(* The events stay in order if nothing is told,                            *)
LEMMA StandUnchanged ==
  ASSUME EventsStand, UNCHANGED <<events, nextId>>, handler' = handler \/ handler' = Idle
  PROVE  EventsStand'
  BY DEF EventsStand, Idle

(* if an event is told,                                                    *)
LEMMA StandTold ==
  ASSUME EventTypes, EventsStand, handler' = handler,
         NEW kind \in {"card", "joined", "left"}, NEW card \in Names,
         UNCHANGED <<events, nextId>> \/ Tells(kind, card)
  PROVE  EventsStand'
  <1>1. CASE UNCHANGED <<events, nextId>>
    BY <1>1, StandUnchanged
  <1>2. CASE /\ nextId <= case.events /\ nextId' = nextId + 1
             /\ events' = Append(events, [id |-> nextId, kind |-> kind, card |-> card])
    <2>1. PICK e \in Events : e = [id |-> nextId, kind |-> kind, card |-> card]
      BY <1>2, Bounds DEF EventTypes, Events
    <2>2. /\ DOMAIN events' = DOMAIN events \cup {Len(events) + 1}
          /\ \A i \in DOMAIN events : events'[i] = events[i]
          /\ events'[Len(events) + 1] = e /\ events' # <<>>
          /\ events # <<>> => Head(events') = Head(events)
      BY <1>2, <2>1, Pushing DEF EventTypes
    <2>3. \A i \in DOMAIN events : events[i].id < nextId /\ events[i].id \in Nat
      <3>1. \A i \in DOMAIN events : events[i] \in Events
        BY DEF EventTypes
      <3> QED
        BY <3>1, Bounds DEF EventsStand, Events
    <2>4. nextId \in Nat /\ e.id = nextId
      BY <2>1, Bounds DEF EventTypes
    <2>5. (\A i \in DOMAIN events : events[i].id < nextId)'
      BY <1>2, <2>2, <2>3, <2>4
    <2>6. (\A i, j \in DOMAIN events : events[i].id = events[j].id => i = j)'
      BY <2>2, <2>3, <2>4 DEF EventsStand
    <2> QED
      BY <2>2, <2>5, <2>6 DEF EventsStand, Idle
  <1> QED
    BY <1>1, <1>2 DEF Tells

(* and if the first is done.                                               *)
LEMMA StandSettled ==
  ASSUME EventTypes, EventsStand, events # <<>>, Settled, nextId' = nextId
  PROVE  EventsStand'
  <1>1. /\ events' = Tail(events) /\ handler' = Idle
        /\ \A i \in DOMAIN events' : i \in Nat /\ i + 1 \in DOMAIN events /\ events'[i] = events[i + 1]
    BY HeadIs DEF Settled, EventTypes
  <1> QED
    BY <1>1 DEF EventsStand, Idle

(* Every step keeps the events in order.                                   *)
LEMMA EventsStep ==
  ASSUME Types, EventsStand, [Next]_vars
  PROVE  EventsStand'
  <1> USE StandUnchanged DEF Types
  <1>1. ASSUME MemberMoves PROVE EventsStand'
    <2>1. remote'.card \in Names
      BY <1>1, EventTypesStep DEF EventTypes, Snapshots, Next
    <2>2. PICK n \in Names : n = remote'.card
      BY <2>1
    <2>3. PICK kind \in {"joined", "left"} : Tells(kind, n) /\ handler' = handler
      BY <1>1, <2>2 DEF MemberMoves
    <2> QED
      BY <2>3, StandTold
  <1>2. ASSUME MarkLeft PROVE EventsStand'
    BY <1>2, StandSettled DEF MarkLeft, EventsStand, Idle
  <1>3. ASSUME ReadSaved PROVE EventsStand'
    BY <1>3 DEF ReadSaved, EventsStand, Idle, ProcessTypes, Handlers
  <1>4. ASSUME ConsumeExpected PROVE EventsStand'
    BY <1>4 DEF ConsumeExpected, EventsStand, Idle, ProcessTypes, Handlers
  <1>5. ASSUME StoreUpdated PROVE EventsStand'
    BY <1>5 DEF StoreUpdated, EventsStand, Idle, ProcessTypes, Handlers
  <1>6. ASSUME CountViolation PROVE EventsStand'
    BY <1>6 DEF CountViolation, EventsStand, Idle, ProcessTypes, Handlers
  <1>7. ASSUME QueueRestore PROVE EventsStand'
    BY <1>7, StandSettled DEF QueueRestore, EventsStand, Idle
  <1>8. ASSUME StoreJoined PROVE EventsStand'
    BY <1>8 DEF StoreJoined, EventsStand, Idle, ProcessTypes, Handlers
  <1>9. ASSUME PlanJoined PROVE EventsStand'
    BY <1>9, StandSettled DEF PlanJoined, EventsStand, Idle
  <1>10. ASSUME RenameMember PROVE EventsStand'
    <2>1. worker.name \in Names
      BY <1>10 DEF RenameMember, ProcessTypes, Workers, Idle, Names
    <2> QED
      BY <1>10, <2>1, RenameTells, StandTold, StandUnchanged DEF RenameMember
  <1>11. ASSUME NEW n \in DhNames, ClaimJob(n) PROVE EventsStand'
    BY <1>11 DEF ClaimJob
  <1>12. ASSUME NEW n \in OwnNames, MemberRenames(n) PROVE EventsStand'
    BY <1>12, RenameTells, StandTold DEF MemberRenames, Names
  <1>13. ASSUME NEW n \in OwnNames, RenameManually(n) PROVE EventsStand'
    BY <1>13, RenameTells, StandTold DEF RenameManually, Names
  <1>14. ASSUME NEW n \in DhNames, ApplyPlan(n) PROVE EventsStand'
    BY <1>14 DEF ApplyPlan
  <1>15. ASSUME NEW n \in DhNames, JobDue(n) PROVE EventsStand'
    BY <1>15 DEF JobDue
  <1>16. ASSUME NEW n \in DhNames, TellWelcome(n) PROVE EventsStand'
    BY <1>16 DEF TellWelcome
  <1>17. ASSUME NEW k \in Keys, QueueMoves(k) PROVE EventsStand'
    BY <1>17 DEF QueueMoves
  <1>18. ASSUME NEW k \in Keys, PerformRestore(k) PROVE EventsStand'
    <2>1. payload[k] \in Names
      BY DEF QueueTypes, Names
    <2> QED
      BY <1>18, <2>1, RenameTells, StandTold DEF PerformRestore
  <1>19. ASSUME NEW k \in Keys, PerformWelcome(k) PROVE EventsStand'
    BY <1>19 DEF PerformWelcome
  <1>20. CASE \/ UNCHANGED vars \/ HandlerFails \/ BeginSync \/ ReadRoster \/ ReadExisting \/ StoreRoster
          \/ CountDrift \/ PlanDrifted \/ MarkAbsent \/ ReadBack \/ FinishJob \/ QueueWelcome \/ RetryFailed
          \/ ExpectationsExpire \/ Crash \/ Restart
    BY <1>20 DEF vars, HandlerFails, BeginSync, ReadRoster, ReadExisting, StoreRoster, CountDrift,
       PlanDrifted, MarkAbsent, ReadBack, FinishJob, QueueWelcome, RetryFailed, ExpectationsExpire, Crash,
       Restart
  <1> QED
    BY <1>1, <1>2, <1>3, <1>4, <1>5, <1>6, <1>7, <1>8, <1>9, <1>10, <1>11, <1>12, <1>13, <1>14, <1>15,
       <1>16, <1>17, <1>18, <1>19, <1>20 DEF Next, HandlerStep, SyncStep, WorkerStep

(* Planning, claiming, retrying and telling call no job done.              *)
LEMMA NothingIsDone ==
  ASSUME Types,
         \/ PlanJob \/ job' = job
         \/ RetryFailed \/ Restart
         \/ \E n \in DhNames : (\E w \in BOOLEAN : EnqueueJob(n, w)) \/ ClaimJob(n) \/ JobDue(n) \/ TellWelcome(n)
  PROVE  \A d \in DhNames : job'[d].state = "succeeded" => job[d].state = "succeeded"
  <1>0. job \in [DhNames -> Jobs]
    BY DEF Types, RowTypes
  <1>1. ASSUME NEW n \in DhNames, NEW w \in BOOLEAN, EnqueueJob(n, w), NEW d \in DhNames,
               job'[d].state = "succeeded"
        PROVE  job[d].state = "succeeded"
    BY <1>0, <1>1 DEF EnqueueJob
  <1>2. CASE PlanJob
    BY <1>1, <1>2 DEF PlanJob
  <1>3. CASE RetryFailed
    BY <1>0, <1>3 DEF RetryFailed, Jobs
  <1>4. CASE Restart
    BY <1>0, <1>4 DEF Restart, Jobs
  <1>5. ASSUME NEW n \in DhNames, ClaimJob(n), NEW d \in DhNames, job'[d].state = "succeeded"
        PROVE  job[d].state = "succeeded"
    BY <1>0, <1>5 DEF ClaimJob, Jobs
  <1>6. ASSUME NEW n \in DhNames, JobDue(n), NEW d \in DhNames, job'[d].state = "succeeded"
        PROVE  job[d].state = "succeeded"
    BY <1>0, <1>6 DEF JobDue, Jobs
  <1>7. ASSUME NEW n \in DhNames, TellWelcome(n), NEW d \in DhNames, job'[d].state = "succeeded"
        PROVE  job[d].state = "succeeded"
    BY <1>0, <1>7, MarkIs DEF Jobs
  <1> QED
    BY <1>1, <1>2, <1>3, <1>4, <1>5, <1>6, <1>7

(* Every step keeps locked names worn ones.                                *)
LEMMA WornStep ==
  ASSUME Types, EventsStand, WornStands, [Next]_vars
  PROVE  WornStands'
  <1> USE DEF Types
  <1>1. ASSUME MemberMoves PROVE WornStands'
    BY <1>1 DEF MemberMoves, WornStands, LockedNamesWereWorn, EventTypes, Snapshots
  <1>2. ASSUME MarkLeft PROVE WornStands'
    BY <1>2 DEF MarkLeft, WornStands, LockedNamesWereWorn, RowTypes, Rows
  <1>3. ASSUME StoreUpdated PROVE WornStands'
    BY <1>3, HeadIs, StoredIs DEF StoreUpdated, WornStands, LockedNamesWereWorn, RowTypes, EventTypes, EventsStand, Idle
  <1>4. ASSUME CountViolation PROVE WornStands'
    BY <1>4, CountedIs DEF CountViolation, WornStands, LockedNamesWereWorn, RowTypes
  <1>5. ASSUME QueueRestore PROVE WornStands'
    <2>1. PICK q : q = Restore(Head(events).id)
      OBVIOUS
    <2>2. \A n \in DhNames : Welcome(n) \in Keys /\ Welcome(n) # q
      BY <2>1 DEF Keys, Welcome, Restore
    <2>3. \A n \in DhNames : status'[Welcome(n)] = status[Welcome(n)]
      BY <1>5, <2>1, <2>2 DEF QueueRestore, Queue!Insert, QueueTypes
    <2> QED
      BY <1>5, <2>3 DEF QueueRestore, WornStands, LockedNamesWereWorn
  <1>6. ASSUME StoreJoined PROVE WornStands'
    BY <1>6, HeadIs, StoredIs DEF StoreJoined, WornStands, LockedNamesWereWorn, RowTypes, EventTypes, EventsStand, Idle
  <1>7. ASSUME BeginSync PROVE WornStands'
    BY <1>7 DEF BeginSync, WornStands, LockedNamesWereWorn, RowTypes, Rows
  <1>8. ASSUME StoreRoster PROVE WornStands'
    <2>1. sync.snap.card \in Names
      BY <1>8 DEF StoreRoster, ProcessTypes, Syncs, Snapshots, Idle
    <2>2. row' = Store(row, sync.snap.card) \/ row' = row
      BY <1>8 DEF StoreRoster
    <2> QED
      BY <1>8, <2>1, <2>2, StoredIs DEF StoreRoster, RowTypes, WornStands, LockedNamesWereWorn
  <1>9. ASSUME CountDrift PROVE WornStands'
    BY <1>9, CountedIs DEF CountDrift, WornStands, LockedNamesWereWorn, RowTypes
  <1>10. ASSUME MarkAbsent PROVE WornStands'
    BY <1>10 DEF MarkAbsent, WornStands, LockedNamesWereWorn, RowTypes, Rows
  <1>11. ASSUME RenameMember PROVE WornStands'
    <2>1. worker \in Workers /\ worker # Idle
      BY <1>11 DEF RenameMember, ProcessTypes, Idle
    <2>2. worker'.name = worker.name /\ worker'.at \in {"renamed", "retry", "failed"}
      BY <1>11, <2>1 DEF RenameMember, Outcome, Workers
    <2>3. CASE Rename(worker.name)
      <3>1. worker.name \in worn' /\ worn \subseteq worn' /\ remote'.card = worker.name
        BY <2>1, <2>3 DEF Rename, EventTypes, Snapshots, Workers
      <3> QED
        BY <1>11, <2>2, <3>1 DEF RenameMember, WornStands, LockedNamesWereWorn
    <2>4. CASE worker'.at # "renamed" /\ UNCHANGED remoteVars
      BY <1>11, <2>2, <2>4 DEF RenameMember, WornStands, LockedNamesWereWorn
    <2> QED
      BY <1>11, <2>1, <2>3, <2>4 DEF RenameMember, Outcome, Workers
  <1>12. ASSUME ReadBack PROVE WornStands'
    BY <1>12 DEF ReadBack, WornStands, LockedNamesWereWorn, ProcessTypes, Workers, Idle, RowTypes, Rows, Verified
  <1>13. ASSUME FinishJob PROVE WornStands'
    <2>1. worker \in Workers /\ worker # Idle /\ UNCHANGED <<remote, worn, status>>
      BY <1>13 DEF FinishJob, ProcessTypes, Idle
    <2>2. row'.locked = row.locked \/ (row'.locked = worker.name /\ worker.at = "verified")
      BY <1>13 DEF FinishJob, RowTypes, Rows, Verified
    <2>3. worker'.at \in {"renamed", "verified", "welcome"} => worker'.name = worker.name /\ worker.at = "verified"
      BY <1>13, <2>1 DEF FinishJob, Verified, Idle, Workers
    <2>4. \A d \in DhNames : job'[d].state = "succeeded" =>
              job[d].state = "succeeded" \/ (d = worker.name /\ worker.at = "verified")
      BY <1>13 DEF FinishJob, RowTypes, Jobs, Verified
    <2> QED
      BY <2>1, <2>2, <2>3, <2>4 DEF WornStands, LockedNamesWereWorn
  <1>14. ASSUME QueueWelcome PROVE WornStands'
    <2>1. worker.name \in worn /\ worker.name \in DhNames /\ Welcome(worker.name) \in Keys
      BY <1>14 DEF QueueWelcome, WornStands, ProcessTypes, Workers, Idle, Keys
    <2>2. \A n \in DhNames : Welcome(n) \in Keys /\ (Welcome(n) = Welcome(worker.name) => n = worker.name)
      BY DEF Keys, Welcome
    <2>3. PICK q : q = Welcome(worker.name)
      OBVIOUS
    <2>4. \A n \in DhNames : status'[Welcome(n)] # "absent" => status[Welcome(n)] # "absent" \/ n = worker.name
      BY <1>14, <2>1, <2>2, <2>3 DEF QueueWelcome, Queue!Insert, Queue!Rest, QueueTypes
    <2> QED
      BY <1>14, <2>1, <2>4 DEF QueueWelcome, WornStands, LockedNamesWereWorn, Idle
  <1>15. ASSUME Crash PROVE WornStands'
    BY <1>15 DEF Crash, WornStands, LockedNamesWereWorn, Queue!Forget, Idle
  <1>16. ASSUME Restart PROVE WornStands'
    <2>1. \A n \in DhNames : Welcome(n) \in Keys
      BY DEF Keys
    <2>2. \A q \in Keys : status'[q] # "absent" => status[q] # "absent"
      BY <1>16 DEF Restart, QueueTypes, Queue!Recover
    <2> QED
      BY <1>16, <2>1, <2>2, NothingIsDone DEF Restart, WornStands, LockedNamesWereWorn
  <1>17. ASSUME NEW n \in DhNames, ClaimJob(n) PROVE WornStands'
    BY <1>17, NothingIsDone DEF ClaimJob, WornStands, LockedNamesWereWorn
  <1>18. ASSUME NEW n \in OwnNames, MemberRenames(n) PROVE WornStands'
    BY <1>18 DEF MemberRenames, WornStands, LockedNamesWereWorn, Rename
  <1>19. ASSUME NEW n \in OwnNames, RenameManually(n) PROVE WornStands'
    BY <1>19 DEF RenameManually, WornStands, LockedNamesWereWorn, Rename
  <1>20. ASSUME NEW n \in DhNames, ApplyPlan(n) PROVE WornStands'
    BY <1>20, NothingIsDone DEF ApplyPlan, WornStands, LockedNamesWereWorn
  <1>21. ASSUME NEW n \in DhNames, JobDue(n) PROVE WornStands'
    BY <1>21, NothingIsDone DEF JobDue, WornStands, LockedNamesWereWorn
  <1>22. ASSUME NEW n \in DhNames, TellWelcome(n) PROVE WornStands'
    BY <1>22, NothingIsDone DEF TellWelcome, WornStands, LockedNamesWereWorn, Queue!Tell
  <1>23. ASSUME NEW k \in Keys, QueueMoves(k) PROVE WornStands'
    <2>1. \A n \in DhNames : Welcome(n) \in Keys
      BY DEF Keys
    <2>2. \A q \in Keys : status'[q] # "absent" => status[q] # "absent"
      BY <1>23 DEF QueueMoves, QueueTypes, Queue!Start, Queue!Postpone, Queue!Report, Queue!Outcomes
    <2> QED
      BY <1>23, <2>1, <2>2 DEF QueueMoves, WornStands, LockedNamesWereWorn
  <1>24. ASSUME NEW k \in Keys, PerformRestore(k) PROVE WornStands'
    <2>1. Rename(payload[k]) /\ UNCHANGED <<worker, row, job, status>>
      BY <1>24 DEF PerformRestore, Queue!Perform
    <2> QED
      BY <2>1 DEF Rename, WornStands, LockedNamesWereWorn, EventTypes, Snapshots
  <1>25. ASSUME NEW k \in Keys, PerformWelcome(k) PROVE WornStands'
    BY <1>25 DEF PerformWelcome, WornStands, LockedNamesWereWorn, Queue!Perform
  <1>26. CASE \/ UNCHANGED vars \/ ReadSaved \/ ConsumeExpected \/ HandlerFails \/ ReadRoster
          \/ ReadExisting \/ ExpectationsExpire
    BY <1>26 DEF vars, ReadSaved, ConsumeExpected, HandlerFails, ReadRoster, ReadExisting,
       ExpectationsExpire, WornStands, LockedNamesWereWorn
  <1>27. ASSUME PlanJoined \/ PlanDrifted \/ RetryFailed PROVE WornStands'
    <2>1. PlanJob \/ job' = job \/ RetryFailed
      BY <1>27 DEF PlanJoined, PlanDrifted
    <2> QED
      BY <1>27, <2>1, NothingIsDone DEF PlanJoined, PlanDrifted, RetryFailed, WornStands, LockedNamesWereWorn
  <1> QED
    BY <1>1, <1>2, <1>3, <1>4, <1>5, <1>6, <1>7, <1>8, <1>9, <1>10, <1>11, <1>12, <1>13, <1>14, <1>15,
       <1>16, <1>17, <1>18, <1>19, <1>20, <1>21, <1>22, <1>23, <1>24, <1>25, <1>26, <1>27 DEF Next, HandlerStep,
       SyncStep, WorkerStep

(* What keeps the marks of the jobs, and what has been said and told.      *)
LEMMA OwedFollows ==
  ASSUME OwedStands,
         \A n \in DhNames : Owes(n) => Owes(n)',
         \A n \in DhNames : status'[Welcome(n)] # "absent" => status[Welcome(n)] # "absent" \/ Owes(n),
         \A n \in DhNames : told'[Welcome(n)] = "succeeded" => told[Welcome(n)] = "succeeded" \/ sent'[Welcome(n)] = 1,
         \A n \in DhNames : sent[Welcome(n)] = 1 => sent'[Welcome(n)] = 1,
         worker' = Idle \/ worker'.name \in DhNames,
         worker' # Idle /\ (worker'.at = "welcome" \/ worker'.welcome) => Owes(worker'.name)
  PROVE  OwedStands'
  BY DEF OwedStands, WelcomesAreOwed, Owes

(* Every step keeps what is owed.                                          *)
LEMMA OwedStep ==
  ASSUME Types, OwedStands, [Next]_vars
  PROVE  OwedStands'
  <1> USE DEF Types
  <1>0. /\ \A n \in DhNames : Welcome(n) \in Keys
        /\ \A m, n \in DhNames : Welcome(m) = Welcome(n) => m = n
        /\ \A n \in DhNames, i \in 1..MaxEvents : Welcome(n) # Restore(i)
    BY DEF Keys, Welcome, Restore
  <1>1. worker # Idle => worker.name \in DhNames
    BY DEF ProcessTypes, Workers
  <1>2. CASE UNCHANGED <<status, sent, told, worker>> /\ job' = job
    BY <1>1, <1>2, OwedFollows DEF OwedStands, Owes
  <1>3. ASSUME UNCHANGED <<status, sent, told, worker>>, NEW n \in DhNames, NEW w \in BOOLEAN, EnqueueJob(n, w)
        PROVE  OwedStands'
    <2>1. \A d \in DhNames : job[d].welcome => job'[d].welcome
      BY <1>3 DEF EnqueueJob, RowTypes
    <2> QED
      BY <1>1, <1>3, <2>1, OwedFollows DEF OwedStands, Owes
  <1>4. ASSUME PlanJoined \/ PlanDrifted PROVE OwedStands'
    <2>1. UNCHANGED <<status, sent, told, worker>>
      BY <1>4 DEF PlanJoined, PlanDrifted
    <2>2. job' = job \/ \E n \in DhNames : EnqueueJob(n, TRUE)
      BY <1>4 DEF PlanJoined, PlanDrifted, PlanJob
    <2> QED
      BY <1>2, <1>3, <2>1, <2>2
  <1>5. ASSUME NEW n \in DhNames, ApplyPlan(n) PROVE OwedStands'
    BY <1>3, <1>5 DEF ApplyPlan
  <1>6. ASSUME NEW n \in DhNames, ClaimJob(n) PROVE OwedStands'
    <2>1. \A d \in DhNames : job'[d].welcome = job[d].welcome
      BY <1>6 DEF ClaimJob, RowTypes, Jobs
    <2>2. worker' = [at |-> "renaming", name |-> n, welcome |-> job[n].welcome] /\ UNCHANGED <<status, sent, told>>
      BY <1>6 DEF ClaimJob
    <2> QED
      BY <1>6, <2>1, <2>2, OwedFollows DEF OwedStands, Owes
  <1>7. ASSUME RenameMember \/ ReadBack PROVE OwedStands'
    <2>1. worker \in Workers /\ worker # Idle /\ worker.at # "welcome" /\ UNCHANGED <<job, status, sent, told>>
      <3>1. CASE RenameMember
        BY <3>1 DEF RenameMember, ProcessTypes, Idle, tableVars, queueVars
      <3>2. CASE ReadBack
        BY <3>2 DEF ReadBack, ProcessTypes, Idle, tableVars, queueVars
      <3> QED
        BY <1>7, <3>1, <3>2
    <2>2. ASSUME NEW ok \in BOOLEAN, NEW retryable \in BOOLEAN, Outcome(ok, retryable)
          PROVE  worker'.name = worker.name /\ worker'.at # "welcome" /\ worker'.welcome = worker.welcome
      BY <2>1, <2>2 DEF Outcome, Workers
    <2>3. worker'.name = worker.name /\ worker'.at # "welcome" /\ worker'.welcome = worker.welcome
      <3>1. CASE RenameMember
        <4>1. \E ok, retryable \in BOOLEAN : Outcome(ok, retryable)
          BY <3>1 DEF RenameMember
        <4> QED
          BY <2>2, <4>1
      <3>2. CASE ReadBack
        BY <2>1, <3>2 DEF ReadBack, Workers
      <3> QED
        BY <1>7, <3>1, <3>2
    <2>4. worker.welcome => Owes(worker.name)
      BY <2>1 DEF OwedStands
    <2>5. worker' # Idle /\ (worker'.at = "welcome" \/ worker'.welcome) => Owes(worker'.name)
      BY <2>3, <2>4, <2>1 DEF Owes
    <2> QED
      BY <1>1, <2>1, <2>3, <2>5, OwedFollows DEF Owes
  <1>8. ASSUME FinishJob PROVE OwedStands'
    <2>1. worker \in Workers /\ worker # Idle /\ worker.at # "welcome" /\ UNCHANGED <<status, sent, told>>
      BY <1>8 DEF FinishJob, ProcessTypes, Idle
    <2>2. \A d \in DhNames : job'[d].welcome = job[d].welcome
      BY <1>8 DEF FinishJob, RowTypes, Jobs
    <2>3. worker' = Idle \/ (worker'.name = worker.name /\ worker.welcome)
      BY <1>8, <2>1 DEF FinishJob, Workers
    <2> QED
      BY <1>1, <2>1, <2>2, <2>3, OwedFollows DEF OwedStands, Owes
  <1>9. ASSUME QueueWelcome PROVE OwedStands'
    <2>1. worker # Idle /\ worker' = Idle /\ job' = job /\ UNCHANGED <<sent, told>> /\ Owes(worker.name)
      BY <1>9 DEF QueueWelcome, Queue!Insert, Queue!Rest, OwedStands, Idle
    <2>2. PICK q : q = Welcome(worker.name)
      OBVIOUS
    <2>3. \A n \in DhNames : status'[Welcome(n)] # "absent" => status[Welcome(n)] # "absent" \/ n = worker.name
      BY <1>0, <1>1, <1>9, <2>1, <2>2 DEF QueueWelcome, Queue!Insert, Queue!Rest, QueueTypes
    <2> QED
      BY <2>1, <2>3, OwedFollows DEF OwedStands, Owes
  <1>10. ASSUME NEW n \in DhNames, JobDue(n) PROVE OwedStands'
    <2>1. \A d \in DhNames : job'[d].welcome = job[d].welcome
      BY <1>10 DEF JobDue, RowTypes, Jobs
    <2> QED
      BY <1>1, <1>10, <2>1, OwedFollows DEF JobDue, OwedStands, Owes
  <1>11. ASSUME RetryFailed PROVE OwedStands'
    <2>1. \A d \in DhNames : job'[d].welcome = job[d].welcome
      BY <1>11 DEF RetryFailed, RowTypes, Jobs
    <2> QED
      BY <1>1, <1>11, <2>1, OwedFollows DEF RetryFailed, OwedStands, Owes
  <1>12. ASSUME NEW n \in DhNames, TellWelcome(n) PROVE OwedStands'
    <2>1. told' = [told EXCEPT ![Welcome(n)] = "none"] /\ UNCHANGED <<status, sent, worker>>
      BY <1>12 DEF TellWelcome, Queue!Tell
    <2>2. PICK q : q = Welcome(n)
      OBVIOUS
    <2>3. \A d \in DhNames : told'[Welcome(d)] = "succeeded" => told[Welcome(d)] = "succeeded"
      BY <1>0, <2>1, <2>2 DEF QueueTypes
    <2>4. \A d \in DhNames : job[d].welcome => job'[d].welcome \/ sent[Welcome(d)] = 1
      BY <1>12, MarkIs DEF RowTypes, Jobs, OwedStands
    <2> QED
      BY <1>1, <2>1, <2>3, <2>4, OwedFollows DEF OwedStands, Owes
  <1>13. ASSUME NEW k \in Keys, QueueMoves(k) PROVE OwedStands'
    <2>1. UNCHANGED <<job, sent, worker>>
      BY <1>13 DEF QueueMoves, Queue!Start, Queue!Postpone, Queue!Report
    <2>2. \A q \in Keys : /\ status'[q] # "absent" => status[q] # "absent"
                          /\ told'[q] = "succeeded" => told[q] = "succeeded" \/ sent[q] = 1
      BY <1>13 DEF QueueMoves, QueueTypes, Queue!Start, Queue!Postpone, Queue!Report, Queue!Outcomes
    <2> QED
      BY <1>0, <1>1, <2>1, <2>2, OwedFollows DEF OwedStands, Owes
  <1>14. ASSUME NEW k \in Keys, PerformRestore(k) \/ PerformWelcome(k) PROVE OwedStands'
    <2>1. UNCHANGED <<job, status, told, worker>> /\ sent' = [sent EXCEPT ![k] = 1]
      BY <1>14 DEF PerformRestore, PerformWelcome, Queue!Perform
    <2>2. \A q \in Keys : sent[q] = 1 => sent'[q] = 1
      BY <2>1 DEF QueueTypes
    <2> QED
      BY <1>0, <1>1, <2>1, <2>2, OwedFollows DEF OwedStands, Owes
  <1>15. ASSUME Crash PROVE OwedStands'
    <2>1. worker' = Idle /\ UNCHANGED <<job, status, sent>> /\ told' = [k \in Keys |-> "none"]
      BY <1>15 DEF Crash, Queue!Forget
    <2> QED
      BY <1>0, <2>1, OwedFollows DEF OwedStands, Owes
  <1>16. ASSUME Restart PROVE OwedStands'
    <2>1. UNCHANGED <<sent, told, worker>> /\ \A d \in DhNames : job'[d].welcome = job[d].welcome
      BY <1>16 DEF Restart, Queue!Recover, RowTypes, Jobs
    <2>2. \A q \in Keys : status'[q] # "absent" => status[q] # "absent"
      BY <1>16 DEF Restart, QueueTypes, Queue!Recover
    <2> QED
      BY <1>0, <1>1, <2>1, <2>2, OwedFollows DEF OwedStands, Owes
  <1>17. ASSUME QueueRestore PROVE OwedStands'
    <2>1. PICK q : q = Restore(Head(events).id)
      OBVIOUS
    <2>2. \A n \in DhNames : Welcome(n) # q
      BY <2>1 DEF Welcome, Restore
    <2>3. UNCHANGED <<job, sent, told, worker>> /\ \A n \in DhNames : status'[Welcome(n)] = status[Welcome(n)]
      BY <1>0, <1>17, <2>1, <2>2 DEF QueueRestore, Queue!Insert, QueueTypes
    <2> QED
      BY <1>1, <2>3, OwedFollows DEF OwedStands, Owes
  <1>18. ASSUME \/ UNCHANGED vars \/ MemberMoves \/ MarkLeft \/ ReadSaved \/ ConsumeExpected \/ StoreUpdated
                \/ CountViolation \/ StoreJoined \/ HandlerFails \/ BeginSync \/ ReadRoster \/ ReadExisting
                \/ StoreRoster \/ CountDrift \/ MarkAbsent \/ ExpectationsExpire
                \/ \E n \in OwnNames : MemberRenames(n) \/ RenameManually(n)
         PROVE  OwedStands'
    <2>1. UNCHANGED <<status, sent, told, worker, job>>
      BY <1>18 DEF vars, MemberMoves, MarkLeft, ReadSaved, ConsumeExpected, StoreUpdated, CountViolation,
         StoreJoined, HandlerFails, BeginSync, ReadRoster, ReadExisting, StoreRoster, CountDrift, MarkAbsent,
         ExpectationsExpire, MemberRenames, RenameManually
    <2> QED
      BY <1>2, <2>1
  <1> QED
    BY <1>4, <1>5, <1>6, <1>7, <1>8, <1>9, <1>10, <1>11, <1>12, <1>13, <1>14, <1>15, <1>16, <1>17, <1>18
       DEF Next, HandlerStep, SyncStep, WorkerStep

-----------------------------------------------------------------------------
(* The violations.                                                         *)

(* What a step does to the events that may still count: none is added; one *)
(* is told; one is counted.                                                *)
Fewer(given) == Open(given)' \subseteq Open(given)

OneMore(given) ==
    /\ Open(given)' \subseteq Open(given) \cup {nextId} /\ nextId' = nextId + 1
    /\ (given = DhNames /\ "manual" \notin faults) => outsiders' = outsiders + 1

OneLess(given) == \E x \in Open(given) : Open(given)' \subseteq Open(given) \ {x}

Balanced(given) ==
    \/ Fewer(given) /\ row'.count = row.count
    \/ OneMore(given) /\ row'.count = row.count
    \/ OneLess(given) /\ row'.count <= row.count + 1

(* What may count depends on the events, the handler and the row's card.   *)
LEMMA SameOpen ==
  ASSUME NEW given, events' = events, handler' = handler, row'.card = row.card
  PROVE  Open(given)' = Open(given)
  BY DEF Open, Told, Spent, CannotCount, IsExternal, RestoreName

(* Nothing is added while the event in hand stays what it is,              *)
LEMMA SpentGrows ==
  ASSUME NEW given, events' = events, CannotCount => CannotCount'
  PROVE  Fewer(given)
  <1>1. Told(given)' = Told(given)
    BY DEF Told
  <1>2. Spent \subseteq Spent'
    BY DEF Spent
  <1> QED
    BY <1>1, <1>2 DEF Fewer, Open

(* nor when it is done.                                                    *)
LEMMA SettledFewer ==
  ASSUME EventTypes, EventsStand, events # <<>>, Settled, NEW given
  PROVE  Fewer(given)
  <1>1. /\ events' = Tail(events) /\ 1 \in DOMAIN events /\ Head(events) = events[1]
        /\ \A i \in DOMAIN events' : i \in Nat /\ i # 0 /\ i + 1 \in DOMAIN events /\ events'[i] = events[i + 1]
    BY HeadIs DEF Settled, EventTypes
  <1>2. \A i \in DOMAIN events' : events'[i].id # Head(events).id
    BY <1>1 DEF EventsStand
  <1>3. Told(given)' \subseteq Told(given) \ {Head(events).id}
    BY <1>1, <1>2 DEF Told
  <1>4. Spent \subseteq {Head(events).id}
    BY DEF Spent
  <1> QED
    BY <1>3, <1>4 DEF Fewer, Open

(* An event that is told adds itself at most,                              *)
LEMMA ToldOpen ==
  ASSUME EventTypes, EventsStand, handler' = handler, row' = row, NEW given,
         NEW kind \in {"card", "joined", "left"}, NEW card \in Names, Tells(kind, card)
  PROVE  \/ Fewer(given)
         \/ kind = "card" /\ card \notin given /\ nextId' = nextId + 1 /\ Open(given)' \subseteq Open(given) \cup {nextId}
  <1>1. CASE UNCHANGED <<events, nextId>>
    BY <1>1, SameOpen DEF Fewer
  <1>2. CASE /\ nextId <= case.events /\ nextId' = nextId + 1
             /\ events' = Append(events, [id |-> nextId, kind |-> kind, card |-> card])
    <2>1. PICK e \in Events : e = [id |-> nextId, kind |-> kind, card |-> card]
      BY <1>2, Bounds DEF EventTypes, Events
    <2>2. /\ DOMAIN events' = DOMAIN events \cup {Len(events) + 1}
          /\ \A i \in DOMAIN events : events'[i] = events[i]
          /\ events'[Len(events) + 1] = e /\ events' # <<>>
          /\ events # <<>> => Head(events') = Head(events)
      BY <1>2, <2>1, Pushing DEF EventTypes
    <2>3. e.id = nextId /\ e.kind = kind /\ e.card = card
      BY <2>1
    <2>4. Told(given)' \subseteq Told(given) \cup {nextId}
      BY <2>2, <2>3 DEF Told
    <2>5. (kind # "card" \/ card \in given) => Told(given)' \subseteq Told(given)
      BY <2>2, <2>3 DEF Told
    <2>6. Spent \subseteq Spent'
      <3>1. CASE events = <<>>
        BY <3>1 DEF Spent
      <3>2. CASE events # <<>>
        BY <2>2, <3>2 DEF Spent, CannotCount, IsExternal, RestoreName
      <3> QED
        BY <3>1, <3>2
    <2> QED
      BY <1>2, <2>4, <2>5, <2>6 DEF Fewer, Open
  <1> QED
    BY <1>1, <1>2 DEF Tells

(* and so does a rename.                                                   *)
LEMMA RenameOpen ==
  ASSUME EventTypes, EventsStand, handler' = handler, row' = row, NEW given, NEW n \in Names, Rename(n)
  PROVE  \/ Fewer(given)
         \/ n \notin given /\ nextId' = nextId + 1 /\ Open(given)' \subseteq Open(given) \cup {nextId}
  <1>1. CASE UNCHANGED <<events, nextId>>
    BY <1>1, SameOpen DEF Fewer
  <1>2. CASE Tells("card", n)
    BY <1>2, ToldOpen
  <1> QED
    BY <1>1, <1>2, RenameTells

(* Every step is one of the three; a violation is counted for an event     *)
(* that is spent from then on.                                             *)
LEMMA BalanceStep ==
  ASSUME Types, EventsStand, [Next]_vars, "sync" \notin faults, RowFollows,
         NEW given \in {{}, DhNames}, given = DhNames => OneName
  PROVE  Balanced(given)
  <1> USE SameOpen DEF Types
  <1>1. ASSUME MemberMoves PROVE Balanced(given)
    <2>1. remote'.card \in Names
      BY <1>1, EventTypesStep DEF EventTypes, Snapshots, Next
    <2>2. PICK n \in Names : n = remote'.card
      BY <2>1
    <2>3. PICK kind \in {"joined", "left"} : Tells(kind, n) /\ handler' = handler /\ row' = row
      BY <1>1, <2>2 DEF MemberMoves
    <2> QED
      BY <2>3, ToldOpen DEF Balanced
  <1>2. ASSUME MarkLeft PROVE Balanced(given)
    <2>1. events # <<>> /\ Settled
      BY <1>2 DEF MarkLeft, EventsStand, Idle
    <2> QED
      BY <1>2, <2>1, SettledFewer DEF MarkLeft, Balanced, RowTypes, Rows
  <1>3. ASSUME ReadSaved PROVE Balanced(given)
    <2>1. CannotCount => CannotCount'
      BY <1>3 DEF ReadSaved, CannotCount, Idle, Saved
    <2> QED
      BY <1>3, <2>1, SpentGrows DEF ReadSaved, Balanced
  <1>4. ASSUME ConsumeExpected PROVE Balanced(given)
    <2>1. handler'.at = "asked" /\ handler'.saved = handler.saved
      BY <1>4 DEF ConsumeExpected, ProcessTypes, Handlers, Idle
    <2>2. CannotCount => CannotCount'
      BY <1>4, <2>1 DEF ConsumeExpected, CannotCount
    <2> QED
      BY <1>4, <2>2, SpentGrows DEF ConsumeExpected, Balanced
  <1>5. ASSUME StoreUpdated PROVE Balanced(given)
    <2>1. handler'.at = "stored" /\ handler'.saved = handler.saved
      BY <1>5 DEF StoreUpdated, ProcessTypes, Handlers, Idle
    <2>2. row'.count = row.count
      BY <1>5, HeadIs, StoredIs DEF StoreUpdated, RowTypes, EventTypes, EventsStand, Idle
    <2>3. CannotCount => CannotCount'
      BY <1>5, <2>1 DEF StoreUpdated, CannotCount, IsExternal
    <2> QED
      BY <1>5, <2>2, <2>3, SpentGrows DEF StoreUpdated, Balanced
  <1>6. ASSUME CountViolation PROVE Balanced(given)
    <2>1. /\ handler \in Handlers /\ handler # Idle /\ handler.at = "stored" /\ handler'.at = "counted"
          /\ events' = events /\ events # <<>> /\ Head(events).kind = "card"
      BY <1>6 DEF CountViolation, EventsStand, Idle, ProcessTypes, Handlers
    <2>2. CASE ~IsExternal(Head(events).card)
      <3>1. CannotCount'
        BY <2>1 DEF CannotCount
      <3> QED
        BY <1>6, <2>1, <2>2, <3>1, SpentGrows DEF CountViolation, Balanced
    <2>3. CASE IsExternal(Head(events).card)
      <3>1. row'.count <= row.count + 1
        BY <1>6, <2>3, CountedIs DEF CountViolation, RowTypes
      <3>2. 1 \in DOMAIN events /\ Head(events) = events[1]
        BY <2>1, HeadIs DEF EventTypes
      <3>3. Head(events).card \notin given
        BY <2>1, <2>3 DEF IsExternal, RestoreName, Handlers, SavedRows, OneName
      <3>4. Head(events).id \in Told(given)
        BY <2>1, <3>2, <3>3 DEF Told
      <3>5. Spent = {} /\ Spent' = {Head(events).id} /\ Told(given)' = Told(given)
        BY <2>1, <2>3 DEF Spent, CannotCount, Told
      <3> QED
        BY <3>1, <3>4, <3>5 DEF Balanced, OneLess, Open
    <2> QED
      BY <2>2, <2>3
  <1>7. ASSUME QueueRestore PROVE Balanced(given)
    <2>1. events # <<>> /\ Settled
      BY <1>7 DEF QueueRestore, EventsStand, Idle
    <2> QED
      BY <1>7, <2>1, SettledFewer DEF QueueRestore, Balanced, RowTypes, Rows
  <1>8. ASSUME StoreJoined PROVE Balanced(given)
    <2>1. handler'.at = "joined"
      BY <1>8 DEF StoreJoined, ProcessTypes, Handlers, Idle
    <2>2. row'.count = row.count
      BY <1>8, HeadIs, StoredIs DEF StoreJoined, RowTypes, EventTypes, EventsStand, Idle
    <2>3. CannotCount'
      BY <2>1 DEF CannotCount
    <2> QED
      BY <1>8, <2>2, <2>3, SpentGrows DEF StoreJoined, Balanced
  <1>9. ASSUME PlanJoined PROVE Balanced(given)
    <2>1. events # <<>> /\ Settled
      BY <1>9 DEF PlanJoined, EventsStand, Idle
    <2> QED
      BY <1>9, <2>1, SettledFewer DEF PlanJoined, Balanced, RowTypes, Rows
  <1>10. ASSUME HandlerFails PROVE Balanced(given)
    <2>1. handler' = Idle /\ row' = row /\ events' = events
      BY <1>10 DEF HandlerFails
    <2>2. CannotCount => CannotCount'
      BY <2>1 DEF CannotCount, RowFollows, Idle, ProcessTypes, Handlers
    <2> QED
      BY <2>1, <2>2, SpentGrows DEF Balanced
  <1>11. ASSUME BeginSync PROVE Balanced(given)
    BY <1>11 DEF BeginSync, RowFollows, Idle
  <1>12. ASSUME ReadRoster PROVE Balanced(given)
    BY <1>12 DEF ReadRoster, RowFollows, Idle
  <1>13. ASSUME ReadExisting PROVE Balanced(given)
    BY <1>13 DEF ReadExisting, RowFollows, Idle
  <1>14. ASSUME StoreRoster PROVE Balanced(given)
    BY <1>14 DEF StoreRoster, RowFollows, Idle
  <1>15. ASSUME CountDrift PROVE Balanced(given)
    BY <1>15 DEF CountDrift, RowFollows, Idle
  <1>16. ASSUME PlanDrifted PROVE Balanced(given)
    BY <1>16 DEF PlanDrifted, RowFollows, Idle
  <1>17. ASSUME MarkAbsent PROVE Balanced(given)
    BY <1>17 DEF MarkAbsent, RowFollows, Idle
  <1>18. ASSUME RenameMember PROVE Balanced(given)
    <2>1. worker.name \in Names /\ worker.name \in DhNames
      BY <1>18 DEF RenameMember, ProcessTypes, Workers, Idle, Names
    <2>2. CASE Rename(worker.name)
      BY <1>18, <2>1, <2>2, RenameOpen DEF RenameMember, Balanced, OneMore
    <2>3. CASE UNCHANGED remoteVars
      BY <1>18, <2>3 DEF RenameMember, Balanced, Fewer
    <2> QED
      BY <1>18, <2>2, <2>3 DEF RenameMember
  <1>19. ASSUME FinishJob PROVE Balanced(given)
    <2>1. row'.card = row.card /\ row'.count = row.count
      BY <1>19 DEF FinishJob, RowTypes, Rows
    <2> QED
      BY <1>19, <2>1, SameOpen DEF FinishJob, Balanced, Fewer
  <1>20. ASSUME Crash PROVE Balanced(given)
    <2>1. handler' = Idle /\ row' = row /\ events' = events
      BY <1>20 DEF Crash
    <2>2. CannotCount => CannotCount'
      BY <2>1 DEF CannotCount, RowFollows, Idle, ProcessTypes, Handlers
    <2> QED
      BY <2>1, <2>2, SpentGrows DEF Balanced
  <1>21. ASSUME NEW n \in DhNames, ClaimJob(n) PROVE Balanced(given)
    BY <1>21 DEF ClaimJob, Balanced, Fewer
  <1>22. ASSUME NEW n \in OwnNames, MemberRenames(n) PROVE Balanced(given)
    <2>1. n \in Names /\ Rename(n) /\ handler' = handler /\ row' = row
      BY <1>22 DEF MemberRenames, Names
    <2> QED
      BY <1>22, <2>1, RenameOpen DEF MemberRenames, Balanced, OneMore
  <1>23. ASSUME NEW n \in OwnNames, RenameManually(n) PROVE Balanced(given)
    <2>1. n \in Names /\ Rename(n) /\ handler' = handler /\ row' = row
      BY <1>23 DEF RenameManually, Names
    <2> QED
      BY <1>23, <2>1, RenameOpen DEF RenameManually, Balanced, OneMore
  <1>24. ASSUME NEW n \in DhNames, ApplyPlan(n) PROVE Balanced(given)
    BY <1>24 DEF ApplyPlan, Balanced, Fewer
  <1>25. ASSUME NEW n \in DhNames, JobDue(n) PROVE Balanced(given)
    BY <1>25 DEF JobDue, Balanced, Fewer
  <1>26. ASSUME NEW n \in DhNames, TellWelcome(n) PROVE Balanced(given)
    BY <1>26 DEF TellWelcome, Balanced, Fewer
  <1>27. ASSUME NEW k \in Keys, QueueMoves(k) PROVE Balanced(given)
    BY <1>27 DEF QueueMoves, Balanced, Fewer
  <1>28. ASSUME NEW k \in Keys, PerformRestore(k) PROVE Balanced(given)
    <2>1. payload[k] \in DhNames /\ payload[k] \in Names
      BY DEF QueueTypes, Names
    <2> QED
      BY <1>28, <2>1, RenameOpen DEF PerformRestore, Balanced, OneMore
  <1>29. ASSUME NEW k \in Keys, PerformWelcome(k) PROVE Balanced(given)
    BY <1>29 DEF PerformWelcome, Balanced, Fewer
  <1>30. CASE \/ UNCHANGED vars \/ ReadBack \/ QueueWelcome \/ RetryFailed \/ ExpectationsExpire \/ Restart
    BY <1>30 DEF vars, ReadBack, QueueWelcome, RetryFailed, ExpectationsExpire, Restart, Balanced, Fewer
  <1> QED
    BY <1>1, <1>2, <1>3, <1>4, <1>5, <1>6, <1>7, <1>8, <1>9, <1>10, <1>11, <1>12, <1>13, <1>14, <1>15,
       <1>16, <1>17, <1>18, <1>19, <1>20, <1>21, <1>22, <1>23, <1>24, <1>25, <1>26, <1>27, <1>28, <1>29,
       <1>30 DEF Next, HandlerStep, SyncStep, WorkerStep

(* The event in hand stays first.                                          *)
LEMMA HeadStays ==
  ASSUME EventTypes, EventsStand, NEW kind \in {"card", "joined", "left"}, NEW card \in Names, Tells(kind, card)
  PROVE  handler # Idle => Head(events') = Head(events)
  <1>1. CASE nextId <= case.events /\ events' = Append(events, [id |-> nextId, kind |-> kind, card |-> card])
    <2>1. PICK e \in Events : e = [id |-> nextId, kind |-> kind, card |-> card]
      BY <1>1, Bounds DEF EventTypes, Events
    <2> QED
      BY <1>1, <2>1, Pushing DEF EventTypes, EventsStand
  <1> QED
    BY <1>1 DEF Tells

(* Every step lets the row follow the handler.                             *)
LEMMA FollowStep ==
  ASSUME Types, EventsStand, [Next]_vars, "sync" \notin faults, RowFollows
  PROVE  RowFollows'
  <1> USE DEF Types
  <1>1. ASSUME MemberMoves PROVE RowFollows'
    <2>1. handler' = handler /\ row' = row /\ sync' = sync
      BY <1>1 DEF MemberMoves
    <2>2. handler # Idle => Head(events') = Head(events)
      <3>1. remote'.card \in Names
        BY <1>1, EventTypesStep DEF EventTypes, Snapshots, Next
      <3>2. PICK n \in Names : n = remote'.card
        BY <3>1
      <3>3. PICK kind \in {"joined", "left"} : Tells(kind, n)
        BY <1>1, <3>2 DEF MemberMoves
      <3> QED
        BY <3>3, HeadStays
    <2> QED
      BY <2>1, <2>2 DEF RowFollows, Idle
  <1>2. ASSUME MarkLeft PROVE RowFollows'
    BY <1>2 DEF MarkLeft, RowFollows, Settled, Idle
  <1>3. ASSUME ReadSaved PROVE RowFollows'
    BY <1>3 DEF ReadSaved, RowFollows, Saved, Idle, ProcessTypes, Handlers
  <1>4. ASSUME ConsumeExpected PROVE RowFollows'
    BY <1>4 DEF ConsumeExpected, RowFollows, Saved, Idle, ProcessTypes, Handlers
  <1>5. ASSUME StoreUpdated PROVE RowFollows'
    BY <1>5, HeadIs, StoredIs DEF StoreUpdated, RowFollows, Idle, ProcessTypes, Handlers, RowTypes, EventTypes, EventsStand
  <1>6. ASSUME CountViolation PROVE RowFollows'
    BY <1>6, CountedIs DEF CountViolation, RowFollows, Idle, ProcessTypes, Handlers, RowTypes
  <1>7. ASSUME QueueRestore PROVE RowFollows'
    BY <1>7 DEF QueueRestore, RowFollows, Settled, Idle
  <1>8. ASSUME StoreJoined PROVE RowFollows'
    BY <1>8, HeadIs, StoredIs DEF StoreJoined, RowFollows, Idle, ProcessTypes, Handlers, RowTypes, EventTypes, EventsStand
  <1>9. ASSUME PlanJoined PROVE RowFollows'
    BY <1>9 DEF PlanJoined, RowFollows, Settled, Idle
  <1>10. ASSUME HandlerFails PROVE RowFollows'
    BY <1>10 DEF HandlerFails, RowFollows, Idle
  <1>11. ASSUME BeginSync PROVE RowFollows'
    BY <1>11 DEF BeginSync, RowFollows, Idle
  <1>12. ASSUME ReadRoster PROVE RowFollows'
    BY <1>12 DEF ReadRoster, RowFollows, Idle
  <1>13. ASSUME ReadExisting PROVE RowFollows'
    BY <1>13 DEF ReadExisting, RowFollows, Idle
  <1>14. ASSUME StoreRoster PROVE RowFollows'
    BY <1>14 DEF StoreRoster, RowFollows, Idle
  <1>15. ASSUME CountDrift PROVE RowFollows'
    BY <1>15 DEF CountDrift, RowFollows, Idle
  <1>16. ASSUME PlanDrifted PROVE RowFollows'
    BY <1>16 DEF PlanDrifted, RowFollows, Idle
  <1>17. ASSUME MarkAbsent PROVE RowFollows'
    BY <1>17 DEF MarkAbsent, RowFollows, Idle
  <1>18. ASSUME RenameMember PROVE RowFollows'
    <2>1. handler' = handler /\ row' = row /\ sync' = sync
      BY <1>18 DEF RenameMember
    <2>2. handler # Idle => Head(events') = Head(events)
      <3>1. worker.name \in Names
        BY <1>18 DEF RenameMember, ProcessTypes, Workers, Idle, Names
      <3> QED
        BY <1>18, <3>1, RenameTells, HeadStays DEF RenameMember
    <2> QED
      BY <2>1, <2>2 DEF RowFollows, Idle
  <1>19. ASSUME FinishJob PROVE RowFollows'
    BY <1>19 DEF FinishJob, RowFollows, RowTypes, Rows
  <1>20. ASSUME Crash PROVE RowFollows'
    BY <1>20 DEF Crash, RowFollows, Idle
  <1>21. ASSUME NEW n \in DhNames, ClaimJob(n) PROVE RowFollows'
    BY <1>21 DEF ClaimJob, RowFollows
  <1>22. ASSUME NEW n \in OwnNames, MemberRenames(n) PROVE RowFollows'
    <2>1. handler' = handler /\ row' = row /\ sync' = sync
      BY <1>22 DEF MemberRenames
    <2>2. handler # Idle => Head(events') = Head(events)
      BY <1>22, RenameTells, HeadStays DEF MemberRenames, Names
    <2> QED
      BY <2>1, <2>2 DEF RowFollows, Idle
  <1>23. ASSUME NEW n \in OwnNames, RenameManually(n) PROVE RowFollows'
    <2>1. handler' = handler /\ row' = row /\ sync' = sync
      BY <1>23 DEF RenameManually
    <2>2. handler # Idle => Head(events') = Head(events)
      BY <1>23, RenameTells, HeadStays DEF RenameManually, Names
    <2> QED
      BY <2>1, <2>2 DEF RowFollows, Idle
  <1>24. ASSUME NEW n \in DhNames, ApplyPlan(n) PROVE RowFollows'
    BY <1>24 DEF ApplyPlan, RowFollows
  <1>25. ASSUME NEW n \in DhNames, JobDue(n) PROVE RowFollows'
    BY <1>25 DEF JobDue, RowFollows
  <1>26. ASSUME NEW n \in DhNames, TellWelcome(n) PROVE RowFollows'
    BY <1>26 DEF TellWelcome, RowFollows
  <1>27. ASSUME NEW k \in Keys, QueueMoves(k) PROVE RowFollows'
    BY <1>27 DEF QueueMoves, RowFollows
  <1>28. ASSUME NEW k \in Keys, PerformRestore(k) PROVE RowFollows'
    <2>1. handler' = handler /\ row' = row /\ sync' = sync
      BY <1>28 DEF PerformRestore
    <2>2. handler # Idle => Head(events') = Head(events)
      <3>1. payload[k] \in Names
        BY DEF QueueTypes, Names
      <3> QED
        BY <1>28, <3>1, RenameTells, HeadStays DEF PerformRestore
    <2> QED
      BY <2>1, <2>2 DEF RowFollows, Idle
  <1>29. ASSUME NEW k \in Keys, PerformWelcome(k) PROVE RowFollows'
    BY <1>29 DEF PerformWelcome, RowFollows
  <1>30. CASE \/ UNCHANGED vars \/ ReadBack \/ QueueWelcome \/ RetryFailed \/ ExpectationsExpire \/ Restart
    BY <1>30 DEF vars, ReadBack, QueueWelcome, RetryFailed, ExpectationsExpire, Restart, RowFollows
  <1> QED
    BY <1>1, <1>2, <1>3, <1>4, <1>5, <1>6, <1>7, <1>8, <1>9, <1>10, <1>11, <1>12, <1>13, <1>14, <1>15,
       <1>16, <1>17, <1>18, <1>19, <1>20, <1>21, <1>22, <1>23, <1>24, <1>25, <1>26, <1>27, <1>28, <1>29,
       <1>30 DEF Next, HandlerStep, SyncStep, WorkerStep

(* The sets that are counted are small.                                    *)
LEMMA OpenIsFinite ==
  ASSUME EventTypes, NEW given
  PROVE  IsFiniteSet(Open(given)) /\ Cardinality(Open(given)) \in Nat
  <1>1. Open(given) \subseteq 1..MaxEvents
    <2>1. \A i \in DOMAIN events : events[i] \in Events
      BY DEF EventTypes
    <2>2. \A e \in Events : e.id \in 1..MaxEvents
      BY DEF Events
    <2> QED
      BY <2>1, <2>2 DEF Open, Told
  <1>2. IsFiniteSet(1..MaxEvents)
    BY Bounds, FS_Interval
  <1>3. IsFiniteSet(Open(given))
    BY <1>1, <1>2, FS_Subset
  <1> QED
    BY <1>3, FS_CardinalityType

(* The same in the next state.                                             *)
LEMMA OpenIsFiniteNext ==
  ASSUME EventTypes', NEW given
  PROVE  IsFiniteSet(Open(given)') /\ Cardinality(Open(given)') \in Nat
  <1>1. Open(given)' \subseteq 1..MaxEvents
    <2>1. \A i \in DOMAIN events' : events'[i] \in Events
      BY DEF EventTypes
    <2>2. \A e \in Events : e.id \in 1..MaxEvents
      BY DEF Events
    <2> QED
      BY <2>1, <2>2 DEF Open, Told
  <1>2. IsFiniteSet(1..MaxEvents)
    BY Bounds, FS_Interval
  <1>3. IsFiniteSet(Open(given)')
    BY <1>1, <1>2, FS_Subset
  <1> QED
    BY <1>3, FS_CardinalityType

(* The sizes of sets that differ in one element.                           *)
LEMMA Sizes ==
  ASSUME NEW S, NEW T, IsFiniteSet(S), IsFiniteSet(T)
  PROVE  /\ Cardinality(S) \in Nat /\ Cardinality(T) \in Nat
         /\ T \subseteq S => Cardinality(T) <= Cardinality(S)
         /\ \A x : T \subseteq S \cup {x} => Cardinality(T) <= Cardinality(S) + 1
         /\ \A x \in S : T \subseteq S \ {x} => Cardinality(T) + 1 <= Cardinality(S)
  <1>1. Cardinality(S) \in Nat /\ Cardinality(T) \in Nat
    BY FS_CardinalityType
  <1>2. ASSUME T \subseteq S PROVE Cardinality(T) <= Cardinality(S)
    BY <1>2, FS_Subset
  <1>3. ASSUME NEW x, T \subseteq S \cup {x} PROVE Cardinality(T) <= Cardinality(S) + 1
    <2>1. IsFiniteSet(S \cup {x}) /\ Cardinality(S \cup {x}) <= Cardinality(S) + 1
      BY <1>1, FS_AddElement
    <2>2. Cardinality(T) <= Cardinality(S \cup {x}) /\ Cardinality(S \cup {x}) \in Nat
      BY <1>3, <2>1, FS_Subset, FS_CardinalityType
    <2> QED
      BY <1>1, <2>1, <2>2
  <1>4. ASSUME NEW x \in S, T \subseteq S \ {x} PROVE Cardinality(T) + 1 <= Cardinality(S)
    <2>1. IsFiniteSet(S \ {x}) /\ Cardinality(S \ {x}) = Cardinality(S) - 1
      BY FS_RemoveElement
    <2>2. Cardinality(T) <= Cardinality(S \ {x})
      BY <1>4, <2>1, FS_Subset
    <2> QED
      BY <1>1, <2>1, <2>2
  <1> QED
    BY <1>1, <1>2, <1>3, <1>4

(* The numbers that are compared.                                          *)
LEMMA Numbers ==
  ASSUME Types
  PROVE  row.count \in Nat /\ nextId \in Nat /\ outsiders \in Nat
  BY Bounds DEF Types, RowTypes, Rows, EventTypes

(* Neither bound ever sinks.                                               *)
LEMMA BoundsGrow ==
  ASSUME Types, [Next]_vars
  PROVE  nextId' >= nextId /\ outsiders' >= outsiders /\ case' = case
  <1>1. nextId \in Nat /\ outsiders \in Nat
    BY Numbers
  <1>2. ASSUME NEW n, Rename(n) PROVE nextId' >= nextId
    BY <1>1, <1>2 DEF Rename, Tells
  <1>3. ASSUME MemberMoves PROVE nextId' >= nextId
    BY <1>1, <1>3 DEF MemberMoves, Tells
  <1>4. case' = case /\ (outsiders' = outsiders \/ outsiders' = outsiders + 1)
    BY DEF Next, vars, HandlerStep, SyncStep, WorkerStep, MemberMoves, MemberRenames, RenameManually,
       MarkLeft, ReadSaved, ConsumeExpected, StoreUpdated, CountViolation, QueueRestore, StoreJoined, PlanJoined,
       HandlerFails, BeginSync, ReadRoster, ReadExisting, StoreRoster, CountDrift, PlanDrifted, MarkAbsent, ClaimJob,
       RenameMember, ReadBack, FinishJob, QueueWelcome, RetryFailed, ExpectationsExpire, Crash, Restart, ApplyPlan,
       JobDue, TellWelcome, QueueMoves, PerformRestore, PerformWelcome
  <1>5. nextId' = nextId \/ MemberMoves \/ (\E n : Rename(n))
    BY DEF Next, vars, HandlerStep, SyncStep, WorkerStep, MemberRenames, RenameManually,
       MarkLeft, ReadSaved, ConsumeExpected, StoreUpdated, CountViolation, QueueRestore, StoreJoined, PlanJoined,
       HandlerFails, BeginSync, ReadRoster, ReadExisting, StoreRoster, CountDrift, PlanDrifted, MarkAbsent, ClaimJob,
       RenameMember, ReadBack, FinishJob, QueueWelcome, RetryFailed, ExpectationsExpire, Crash, Restart, ApplyPlan,
       JobDue, TellWelcome, QueueMoves, PerformRestore, PerformWelcome
  <1> QED
    BY <1>1, <1>2, <1>3, <1>4, <1>5

(* Every step keeps violations and events in balance.                      *)
LEMMA CountsStep ==
  ASSUME Types, Types', EventsStand, CountsStand, [Next]_vars
  PROVE  CountsStand'
  <1>1. case' = case /\ nextId' >= nextId /\ outsiders' >= outsiders
    BY BoundsGrow
  <1>2. /\ row.count \in Nat /\ nextId \in Nat /\ outsiders \in Nat
        /\ row'.count \in Nat /\ nextId' \in Nat /\ outsiders' \in Nat
    BY Numbers, Types' DEF Types, RowTypes, Rows, EventTypes
  <1>3. ASSUME NEW given
        PROVE  /\ IsFiniteSet(Open(given)) /\ Cardinality(Open(given)) \in Nat
               /\ IsFiniteSet(Open(given)') /\ Cardinality(Open(given)') \in Nat
    <2>1. IsFiniteSet(Open(given))' /\ (Cardinality(Open(given)) \in Nat)'
      BY OpenIsFiniteNext DEF Types
    <2> QED
      BY <2>1, OpenIsFinite DEF Types
  <1>4. ASSUME "sync" \notin faults PROVE RowFollows' /\ row'.count + Cardinality(Open({})') < nextId'
    <2>1. RowFollows /\ row.count + Cardinality(Open({})) < nextId
      BY <1>4 DEF CountsStand
    <2>2. Balanced({})
      <3>1. {} # DhNames
        BY Bounds
      <3> QED
        BY <1>4, <2>1, <3>1, BalanceStep
    <2>3. PICK S, T : S = Open({}) /\ T = Open({})'
      OBVIOUS
    <2>4. /\ IsFiniteSet(S) /\ IsFiniteSet(T) /\ Cardinality(S) \in Nat /\ Cardinality(T) \in Nat
          /\ row.count + Cardinality(S) < nextId
          /\ \/ T \subseteq S /\ row'.count = row.count
             \/ T \subseteq S \cup {nextId} /\ nextId' = nextId + 1 /\ row'.count = row.count
             \/ (\E x \in S : T \subseteq S \ {x}) /\ row'.count <= row.count + 1
      BY <1>3, <2>1, <2>2, <2>3 DEF Balanced, Fewer, OneMore, OneLess
    <2>5. row'.count + Cardinality(T) < nextId'
      BY <1>1, <1>2, <2>4, Sizes
    <2> QED
      BY <1>4, <2>1, <2>3, <2>5, FollowStep
  <1>5. ASSUME OnlyMember PROVE row'.count + Cardinality(Open(DhNames)') <= outsiders'
    <2>1. RowFollows /\ row.count + Cardinality(Open(DhNames)) <= outsiders /\ "sync" \notin faults /\ "manual" \notin faults
      BY <1>5 DEF CountsStand, OnlyMember
    <2>2. Balanced(DhNames)
      BY <1>5, <2>1, BalanceStep DEF OnlyMember
    <2>3. PICK S, T : S = Open(DhNames) /\ T = Open(DhNames)'
      OBVIOUS
    <2>4. /\ IsFiniteSet(S) /\ IsFiniteSet(T) /\ Cardinality(S) \in Nat /\ Cardinality(T) \in Nat
          /\ row.count + Cardinality(S) <= outsiders
          /\ \/ T \subseteq S /\ row'.count = row.count
             \/ T \subseteq S \cup {nextId} /\ outsiders' = outsiders + 1 /\ row'.count = row.count
             \/ (\E x \in S : T \subseteq S \ {x}) /\ row'.count <= row.count + 1
      BY <1>3, <2>1, <2>2, <2>3 DEF Balanced, Fewer, OneMore, OneLess
    <2>5. row'.count + Cardinality(T) <= outsiders'
      BY <1>1, <1>2, <2>4, Sizes
    <2> QED
      BY <2>3, <2>5
  <1> QED
    BY <1>1, <1>4, <1>5 DEF CountsStand, OnlyMember, faults

(* The start.                                                              *)
LEMMA InitInv == Init => IInv
  <1> SUFFICES ASSUME Init PROVE IInv
    OBVIOUS
  <1>1. Types
    BY InitTypes
  <1>2. events = <<>> /\ nextId = 1 /\ outsiders = 0 /\ row.count = 0 /\ handler = Idle /\ sync = Idle /\ worker = Idle
    BY DEF Init
  <1>3. EventsStand
    BY <1>2 DEF EventsStand, Idle
  <1>4. WornStands
    <2>1. \A n \in DhNames : status[Welcome(n)] = "absent"
      BY DEF Init, Queue!Empty, Keys
    <2>2. row.locked = Unlocked \/ (row.locked = remote.card /\ remote.card \in DhNames)
      <3>1. PICK in \in BOOLEAN, managed \in BOOLEAN, n \in DhNames, o \in OwnNames :
               /\ remote = [in |-> in, card |-> IF managed THEN n ELSE o]
               /\ row = [present |-> in, card |-> remote.card, count |-> 0, fresh |-> TRUE,
                         locked |-> IF managed THEN n ELSE Unlocked]
        BY DEF Init
      <3> QED
        BY <3>1
    <2>3. worn = {remote.card} \cap DhNames
      BY DEF Init
    <2>4. \A d \in DhNames : job[d].state = "succeeded" => d = remote.card
      <3>1. PICK in \in BOOLEAN, managed \in BOOLEAN, n \in DhNames, o \in OwnNames :
               /\ remote = [in |-> in, card |-> IF managed THEN n ELSE o]
               /\ job = [d \in DhNames |-> IF managed /\ d = n THEN [NoJob EXCEPT !.state = "succeeded"]
                                                             ELSE NoJob]
        BY DEF Init
      <3> QED
        BY <3>1 DEF NoJob
    <2> QED
      BY <1>2, <2>1, <2>2, <2>3, <2>4 DEF WornStands, LockedNamesWereWorn, Idle
  <1>7. OwedStands
    <2>1. \A k \in Keys : status[k] = "absent" /\ told[k] = "none"
      BY DEF Init, Queue!Empty
    <2>2. \A n \in DhNames : Welcome(n) \in Keys
      BY DEF Keys
    <2> QED
      BY <1>2, <2>1, <2>2 DEF OwedStands, WelcomesAreOwed
  <1>5. \A given : Open(given) = {}
    BY <1>2 DEF Open, Told
  <1>6. CountsStand
    <2>1. RowFollows
      BY <1>2 DEF RowFollows, Idle
    <2>2. \A given : Cardinality(Open(given)) = 0
      BY <1>5, FS_EmptySet
    <2> QED
      BY <1>2, <2>1, <2>2 DEF CountsStand
  <1> QED
    BY <1>1, <1>3, <1>4, <1>6, <1>7 DEF IInv

(* The inductive invariant of the members.                                 *)
THEOREM Inductive == Spec => []IInv
  <1>1. IInv /\ [Next]_vars => IInv'
    BY TypeStep, EventsStep, WornStep, OwedStep, CountsStep DEF IInv
  <1> QED
    BY <1>1, InitInv, PTL DEF Spec

(* A violation is counted once for an event, however often the event is    *)
(* handled; a name is locked, its job called done and its bearer welcomed  *)
(* by it only if the member has worn it; and a welcome that is queued      *)
(* stays marked until it has been said: through crashes, failing jobs,     *)
(* lost events and refused renames (handle_gateway_event,                  *)
(* finish_card_job, mark_card_welcome_sent).                               *)
THEOREM MemberRowTellsTheTruth == Spec => []MemberRowIsTrue
  <1>1. IInv => MemberRowIsTrue
    <2> SUFFICES ASSUME IInv PROVE MemberRowIsTrue
      OBVIOUS
    <2>1. \A given : Cardinality(Open(given)) \in Nat
      BY OpenIsFinite DEF IInv, Types
    <2>2. row.count \in Nat /\ nextId \in Nat /\ outsiders \in Nat
      BY Numbers DEF IInv
    <2> QED
      BY <2>1, <2>2 DEF IInv, WornStands, OwedStands, CountsStand, OnlyMember, MemberRowIsTrue, ReplaysDoNotCount, OnlyOutsidersCount
  <1> QED
    BY <1>1, Inductive, PTL

(* A snapshot that began before a row was written does not mark its member *)
(* absent (mark_members_not_present_before).                               *)
THEOREM NewcomersAreSpared == Spec => SnapshotsSpareNewcomers
  <1>1. Types /\ EventsStand /\ [Next]_vars =>
            [sync # Idle /\ sync' = Idle /\ row.present /\ ~row'.present => ~row.fresh]_vars
    <2> SUFFICES ASSUME Types, EventsStand, [Next]_vars, sync # Idle, sync' = Idle, row.present, ~row'.present, row.fresh
                 PROVE  FALSE
      OBVIOUS
    <2>1. MarkAbsent \/ Crash
      BY DEF Next, vars, HandlerStep, SyncStep, WorkerStep, MemberMoves, Tells, MemberRenames, RenameManually, Rename,
       MarkLeft, ReadSaved, ConsumeExpected, StoreUpdated, CountViolation, QueueRestore, StoreJoined, PlanJoined,
       HandlerFails, BeginSync, ReadRoster, ReadExisting, StoreRoster, CountDrift, PlanDrifted, ClaimJob,
       RenameMember, ReadBack, FinishJob, QueueWelcome, RetryFailed, ExpectationsExpire, Restart, ApplyPlan,
       JobDue, TellWelcome, QueueMoves, PerformRestore, PerformWelcome, Types, ProcessTypes, Syncs, Idle
    <2> QED
      BY <2>1 DEF MarkAbsent, Crash
  <1>2. IInv => Types /\ EventsStand
    BY DEF IInv
  <1> QED
    BY <1>1, <1>2, Inductive, PTL DEF Spec, SnapshotsSpareNewcomers

-----------------------------------------------------------------------------
(* The answers to messages.  The invariant says for every spot where the   *)
(* background worker that answers may stand what it already owes to the    *)
(* rows: it holds the run, and past `consider' the model's text is in the  *)
(* queue.  Only that worker finishes runs, rows of the queue never vanish, *)
(* and every worker uses the one key of an action.                         *)

-----------------------------------------------------------------------------
(* The queue: rows are only added, and what was sent has a row.            *)

Written(k) == aStatus[k] # "absent"

(* The keys of the queue, what is sent only of a row, and rows of actions  *)
(* only under the one key of the action.                                   *)
QueueInv ==
    /\ DOMAIN aStatus = Answers!Keys /\ DOMAIN aSent = Answers!Keys
    /\ \A k \in Answers!Keys : aStatus[k] = "absent" => aSent[k] = 0
    /\ \A k \in Answers!ActionKeys : Written(k) => k[1] = "action"

(* A step of the queue that loses no row.                                  *)
Grows == QueueInv' /\ \A k \in Answers!Keys : Written(k) => Written(k)'

(* INSERT OR IGNORE.                                                       *)
LEMMA InsertGrows ==
  ASSUME QueueInv, NEW k \in Answers!Keys, k \in Answers!ActionKeys => k[1] = "action", Answers!Queue!Insert(k)
  PROVE  Grows /\ Written(k)'
  BY DEF QueueInv, Written, Grows, Answers!Queue!Insert

(* The steps of the dispatcher.                                            *)
LEMMA QueueGrows ==
  ASSUME QueueInv, NEW k \in Answers!Keys,
         \/ Answers!Queue!Start(k) \/ Answers!Queue!Perform(k) \/ Answers!Queue!Postpone(k)
         \/ Answers!Queue!Report(k) \/ Answers!Queue!Forget
         \/ UNCHANGED <<aStatus, aSent>>
  PROVE  Grows
  <1> USE DEF QueueInv, Grows, Written
  <1>1. CASE Answers!Queue!Start(k)
    BY <1>1 DEF Answers!Queue!Start
  <1>2. CASE Answers!Queue!Perform(k)
    BY <1>2 DEF Answers!Queue!Perform
  <1>3. CASE Answers!Queue!Postpone(k)
    BY <1>3 DEF Answers!Queue!Postpone
  <1>4. CASE Answers!Queue!Report(k)
    BY <1>4 DEF Answers!Queue!Report, Answers!Queue!Outcomes
  <1>5. CASE Answers!Queue!Forget
    BY <1>5 DEF Answers!Queue!Forget
  <1>7. CASE UNCHANGED <<aStatus, aSent>>
    BY <1>7
  <1> QED
    BY <1>1, <1>2, <1>3, <1>4, <1>5, <1>7

(* A start changes no row's being there.                                   *)
LEMMA RecoverGrows ==
  ASSUME QueueInv, Answers!Queue!Recover
  PROVE  Grows
  <1>1. \A k1 \in Answers!Keys : aStatus'[k1] = "absent" <=> aStatus[k1] = "absent"
    BY DEF Answers!Queue!Recover, QueueInv
  <1>2. DOMAIN aStatus' = Answers!Keys /\ aSent' = aSent
    BY DEF Answers!Queue!Recover
  <1>3. Answers!ActionKeys \subseteq Answers!Keys
    BY DEF Answers!Keys
  <1> QED
    BY <1>1, <1>2, <1>3 DEF QueueInv, Grows, Written

-----------------------------------------------------------------------------
(* The invariant.                                                          *)

(* A worker is idle or at a spot with a message.                           *)
PlaceOK(p) == p = Answers!Idle \/ (p.at # "idle" /\ p.of \in Messages)
(* The spots of execute_rule_actions; those where the replier holds the    *)
(* run of its message; and those where the text the model gave is queued.  *)
Acting == {"look", "check", "act", "record"}
Holding == {"model", "reply", "consider", "settle", "excuse", "failed"} \cup Acting
Given == {"consider", "settle"} \cup Acting

(* What the replier owes to the tables where it stands.                    *)
Stands(p) ==
    /\ p.at \in Holding => aState[p.of] = "processing"
    /\ p.at \in Given => aDecision[p.of] = "nothing" \/ Written(Answers!Reply(p.of))
    /\ p.at = "failed" => "db" \in aCase.faults \/ Written(Answers!Apology(p.of))

(* The workers, their channels, and that nobody works while the process is *)
(* down.                                                                   *)
PlacesInv ==
    /\ DOMAIN aPlace = Answers!Workers /\ \A w \in Answers!Workers : PlaceOK(aPlace[w])
    /\ aReplies \in Seq(Messages) /\ aJudgements \in Seq(Messages)
    /\ ~aUp => \A w \in Answers!Workers : aPlace[w] = Answers!Idle

(* The replier keeps to what it owes, and so do the runs.                  *)
RunsInv ==
    /\ DOMAIN aState = Messages /\ DOMAIN aDecision = Messages
    /\ Stands(aPlace["replier"])
    /\ Answers!RunsKeepTheirWord

RepliesInv == QueueInv /\ PlacesInv /\ RunsInv

(* Texts and actions have different keys.                                  *)
LEMMA KeysAre ==
  \A m \in Messages :
     /\ Answers!Reply(m) \in Answers!Keys /\ Answers!Reply(m) \notin Answers!ActionKeys
     /\ Answers!Apology(m) \in Answers!Keys /\ Answers!Apology(m) \notin Answers!ActionKeys
     /\ Answers!AppReply(m) \in Answers!Keys /\ Answers!AppReply(m) \notin Answers!ActionKeys
     /\ \A w : Answers!ActionKey(w, m) \in Answers!Keys /\ Answers!ActionKey(w, m)[1] = "action"
  BY DEF Answers!Reply, Answers!Apology, Answers!AppReply, Answers!ActionKey, Answers!Keys, Answers!ActionKeys,
         Answers!Workers

(* The initial states.                                                     *)
LEMMA Starts == Answers!Init => RepliesInv
  <1> SUFFICES ASSUME Answers!Init PROVE RepliesInv
    OBVIOUS
  <1>1. QueueInv
    BY DEF Answers!Init, Answers!Queue!Empty, QueueInv, Written, Answers!ActionKeys, Answers!Keys
  <1>2. PlacesInv
    BY DEF Answers!Init, PlacesInv, PlaceOK
  <1>3. RunsInv
    BY DEF Answers!Init, Answers!Runs!NoRuns, RunsInv, Stands, Holding, Given, Acting, Answers!Idle,
           Answers!RunsKeepTheirWord, Answers!Workers
  <1> QED
    BY <1>1, <1>2, <1>3 DEF RepliesInv

(* Nothing is owed anew if the runs rest, rows only appear, and the        *)
(* replier rests or goes where it owes no more than before.                *)
LEMMA WordsStay ==
  ASSUME RunsInv, Grows, UNCHANGED <<aState, aDecision, aCase>>,
         \/ UNCHANGED aPlace["replier"]
         \/ aPlace'["replier"].at \notin Holding
         \/ /\ aPlace'["replier"].of = aPlace["replier"].of /\ aPlace["replier"].at \in Given
            /\ aPlace'["replier"].at \in Given \cup {"excuse"}
         \/ aPlace'["replier"].of = aPlace["replier"].of /\ aPlace["replier"].at \in Holding
            /\ aPlace'["replier"].at = "excuse",
         aPlace["replier"].at # "idle" => aPlace["replier"].of \in Messages
  PROVE  RunsInv'
  <1>1. Stands(aPlace["replier"])'
    BY KeysAre DEF RunsInv, Stands, Grows, Holding, Given, Acting
  <1>2. Answers!RunsKeepTheirWord'
    BY KeysAre DEF RunsInv, Grows, Written, Answers!RunsKeepTheirWord, Answers!faults
  <1> QED
    BY <1>1, <1>2 DEF RunsInv

-----------------------------------------------------------------------------
(* The steps.                                                              *)

(* What most steps leave alone.                                            *)
SameCase == UNCHANGED <<aCase, aUp>>
SameRuns == UNCHANGED <<aState, aDecision>>

(* One worker moves.                                                       *)
LEMMA Moves ==
  ASSUME PlacesInv, aUp, NEW w \in Answers!Workers, NEW p, PlaceOK(p), aPlace' = [aPlace EXCEPT ![w] = p],
         aUp' = aUp, aReplies' \in Seq(Messages), aJudgements' \in Seq(Messages)
  PROVE  /\ PlacesInv'
         /\ w = "replier" => aPlace'["replier"] = p
         /\ w # "replier" => UNCHANGED aPlace["replier"]
  <1>1. "replier" \in Answers!Workers
    BY DEF Answers!Workers
  <1> QED
    BY <1>1 DEF PlacesInv

(* Where a worker goes after its action.                                   *)
LEMMA AfterIs ==
  ASSUME NEW w \in Answers!Workers, NEW m \in Messages
  PROVE  /\ PlaceOK(Answers!After(w, m))
         /\ w = "replier" => Answers!After(w, m).at = "settle" /\ Answers!After(w, m).of = m
  <1>1. Answers!After("worker", m) = Answers!At("offer", m)
        /\ Answers!After("replier", m) = Answers!At("settle", m)
        /\ Answers!After("judge", m) = Answers!Idle
    BY DEF Answers!After
  <1>2. PlaceOK(Answers!At("offer", m)) /\ PlaceOK(Answers!At("settle", m)) /\ PlaceOK(Answers!Idle)
        /\ Answers!At("settle", m).at = "settle" /\ Answers!At("settle", m).of = m
    BY DEF PlaceOK, Answers!At
  <1> QED
    BY <1>1, <1>2 DEF Answers!Workers

(* execute_rule_actions moves its worker on with the same message, and     *)
(* touches the queue by its own key only.                                  *)
LEMMA ActionStepIs ==
  ASSUME QueueInv, PlacesInv, NEW w \in Answers!Workers, Answers!ActionStep(w)
  PROVE  /\ Grows /\ SameCase /\ SameRuns /\ aUp /\ UNCHANGED <<aReplies, aJudgements>>
         /\ aPlace[w].at \in Acting /\ aPlace[w].of \in Messages
         /\ \E p : /\ aPlace' = [aPlace EXCEPT ![w] = p] /\ PlaceOK(p)
                   /\ w = "replier" => p.of = aPlace[w].of /\ p.at \in Acting \cup {"settle"}
  <1> DEFINE m == aPlace[w].of
             Goes(p) == /\ aPlace' = [aPlace EXCEPT ![w] = p] /\ PlaceOK(p)
                        /\ w = "replier" => p.of = m /\ p.at \in Acting \cup {"settle"}
  <1>0. aPlace[w].at \in Acting
    BY DEF Answers!ActionStep, Answers!LookAtRoster, Answers!CheckAction, Answers!EnqueueAction,
           Answers!RecordAction, Acting
  <1>1. aPlace[w].of \in Messages
    <2>1. PlaceOK(aPlace[w]) /\ aPlace[w] # Answers!Idle
      BY <1>0 DEF PlacesInv, Acting, Answers!Idle
    <2> QED
      BY <2>1 DEF PlaceOK
  <1>2. /\ SameCase /\ SameRuns /\ aUp /\ UNCHANGED <<aReplies, aJudgements>>
    BY DEF Answers!ActionStep, Answers!LookAtRoster, Answers!CheckAction, Answers!EnqueueAction,
           Answers!RecordAction, Answers!Process, Answers!Channels, Answers!Tables, Answers!runVars,
           SameCase, SameRuns
  <1>3. Grows
    <2>1. CASE UNCHANGED <<aStatus, aSent>>
      BY <2>1, KeysAre, <1>1, QueueGrows
    <2>2. CASE Answers!Queue!Insert(Answers!ActionKey(w, m))
      BY <2>2, KeysAre, <1>1, InsertGrows
    <2> QED
      BY <2>1, <2>2 DEF Answers!ActionStep, Answers!LookAtRoster, Answers!CheckAction, Answers!EnqueueAction,
           Answers!RecordAction, Answers!Tables, Answers!queueVars, Answers!Queue!Rest
  <1>4. \E p : Goes(p)
    <2>1. CASE Answers!LookAtRoster(w)
      <3>1. PICK may : aPlace' = [aPlace EXCEPT ![w] = Answers!Acts("check", m, may)]
        BY <2>1 DEF Answers!LookAtRoster, Answers!Goes
      <3>2. Goes(Answers!Acts("check", m, may))
        BY <1>1, <3>1 DEF Answers!Acts, PlaceOK, Acting
      <3> QED
        BY <3>2
    <2>2. CASE aPlace' = [aPlace EXCEPT ![w] = Answers!After(w, m)]
      <3>1. Goes(Answers!After(w, m))
        BY <1>1, <2>2, AfterIs
      <3> QED
        BY <3>1
    <2>3. CASE aPlace[w].at = "check" /\ aPlace' = [aPlace EXCEPT ![w] = [aPlace[w] EXCEPT !.at = "act"]]
      <3> DEFINE q == [aPlace[w] EXCEPT !.at = "act"]
      <3>1. q.at = "act" /\ q.of = m
        BY <2>3
      <3>2. Goes(q)
        BY <1>1, <2>3, <3>1 DEF PlaceOK, Acting
      <3> QED
        BY <3>2
    <2>4. CASE aPlace' = [aPlace EXCEPT ![w] = Answers!At("record", m)]
      <3>1. Goes(Answers!At("record", m))
        BY <1>1, <2>4 DEF Answers!At, PlaceOK, Acting
      <3> QED
        BY <3>1
    <2>5. CASE Answers!CheckAction(w)
      BY <2>2, <2>3, <2>5 DEF Answers!CheckAction, Answers!Goes
    <2>6. CASE Answers!EnqueueAction(w)
      BY <2>2, <2>4, <2>6 DEF Answers!EnqueueAction, Answers!Goes
    <2>7. CASE Answers!RecordAction(w)
      BY <2>2, <2>7 DEF Answers!RecordAction, Answers!Goes
    <2> QED
      BY <2>1, <2>5, <2>6, <2>7 DEF Answers!ActionStep
  <1> QED
    BY <1>0, <1>1, <1>2, <1>3, <1>4

(* A step of the message worker or of the judge.                           *)
LEMMA OtherSteps ==
  ASSUME RepliesInv, aUp, NEW w \in {"worker", "judge"}, NEW p, PlaceOK(p),
         aPlace' = [aPlace EXCEPT ![w] = p], SameCase, SameRuns, Grows,
         aReplies' \in Seq(Messages), aJudgements' \in Seq(Messages)
  PROVE  RepliesInv'
  <1>1. w \in Answers!Workers /\ w # "replier"
    BY DEF Answers!Workers
  <1>2. PlacesInv' /\ UNCHANGED aPlace["replier"]
    BY <1>1, Moves DEF RepliesInv, SameCase
  <1>3. aPlace["replier"].at # "idle" => aPlace["replier"].of \in Messages
    <2>1. PlaceOK(aPlace["replier"])
      BY DEF RepliesInv, PlacesInv, Answers!Workers
    <2> QED
      BY <2>1 DEF PlaceOK, Answers!Idle
  <1>4. RunsInv'
    BY <1>2, <1>3, WordsStay DEF RepliesInv, SameCase, SameRuns
  <1> QED
    BY <1>2, <1>4 DEF RepliesInv, Grows

(* A step of the replier that leaves the runs alone.                       *)
LEMMA ReplierSteps ==
  ASSUME RepliesInv, aUp, NEW p, PlaceOK(p), aPlace' = [aPlace EXCEPT !["replier"] = p],
         SameCase, SameRuns, Grows, aReplies' \in Seq(Messages), aJudgements' \in Seq(Messages),
         \/ p.at \notin Holding
         \/ /\ p.of = aPlace["replier"].of /\ aPlace["replier"].at \in Given
            /\ p.at \in Given \cup {"excuse"}
         \/ p.of = aPlace["replier"].of /\ aPlace["replier"].at \in Holding /\ p.at = "excuse"
  PROVE  RepliesInv'
  <1>2. PlacesInv' /\ aPlace'["replier"] = p
    BY Moves DEF RepliesInv, SameCase, Answers!Workers
  <1>3. aPlace["replier"].at # "idle" => aPlace["replier"].of \in Messages
    <2>1. PlaceOK(aPlace["replier"])
      BY DEF RepliesInv, PlacesInv, Answers!Workers
    <2> QED
      BY <2>1 DEF PlaceOK, Answers!Idle
  <1>4. RunsInv'
    BY <1>2, <1>3, WordsStay DEF RepliesInv, SameCase, SameRuns
  <1> QED
    BY <1>2, <1>4 DEF RepliesInv, Grows

(* The spots of the workers.                                               *)
LEMMA Spots ==
  ASSUME NEW m \in Messages,
         NEW s \in {"context", "offer", "offerRule", "finish", "gate", "begin", "claim", "app", "appReply",
                    "appDone", "appFailed", "model", "reply", "consider", "look", "settle", "excuse", "failed"}
  PROVE  PlaceOK(Answers!At(s, m)) /\ Answers!At(s, m).at = s /\ Answers!At(s, m).of = m
  BY DEF PlaceOK, Answers!At

LEMMA IdleIs == PlaceOK(Answers!Idle) /\ Answers!Idle.at = "idle"
  BY DEF PlaceOK, Answers!Idle

(* Who is not idle has a message.                                          *)
LEMMA BusyIs ==
  ASSUME PlacesInv, NEW w \in Answers!Workers, aPlace[w].at # "idle"
  PROVE  aPlace[w].of \in Messages
  BY DEF PlacesInv, PlaceOK, Answers!Idle

LEMMA QuietGrows == QueueInv /\ UNCHANGED <<aStatus, aSent>> => Grows
  BY DEF QueueInv, Grows, Written

(* The same for the three workers: execute_rule_actions.                   *)
LEMMA ActionSteps ==
  ASSUME RepliesInv, NEW w \in Answers!Workers, Answers!ActionStep(w)
  PROVE  RepliesInv'
  <1>1. /\ Grows /\ SameCase /\ SameRuns /\ aUp /\ UNCHANGED <<aReplies, aJudgements>>
        /\ aPlace[w].at \in Acting /\ aPlace[w].of \in Messages
        /\ \E p : /\ aPlace' = [aPlace EXCEPT ![w] = p] /\ PlaceOK(p)
                  /\ w = "replier" => p.of = aPlace[w].of /\ p.at \in Acting \cup {"settle"}
    BY ActionStepIs DEF RepliesInv
  <1>2. PICK p : /\ aPlace' = [aPlace EXCEPT ![w] = p] /\ PlaceOK(p)
                 /\ w = "replier" => p.of = aPlace[w].of /\ p.at \in Acting \cup {"settle"}
    BY <1>1
  <1>3. aReplies' \in Seq(Messages) /\ aJudgements' \in Seq(Messages)
    BY <1>1 DEF RepliesInv, PlacesInv
  <1>4. CASE w = "replier"
    <2>1. p.at \in Given /\ aPlace["replier"].at \in Given /\ p.of = aPlace["replier"].of
      BY <1>1, <1>2, <1>4 DEF Given
    <2> QED
      BY <1>1, <1>2, <1>3, <1>4, <2>1, ReplierSteps
  <1>5. CASE w \in {"worker", "judge"}
    BY <1>1, <1>2, <1>3, <1>5, OtherSteps
  <1> QED
    BY <1>4, <1>5 DEF Answers!Workers

(* The message worker and the judge: process_job,                          *)
(* process_ai_rules_background.                                            *)
LEMMA SideSteps ==
  ASSUME RepliesInv,
         \/ \E m \in Messages : Answers!ClaimMessage(m)
         \/ Answers!WorkerStep \/ Answers!JudgeStep
  PROVE  RepliesInv'
  <1>0. /\ "worker" \in Answers!Workers /\ "judge" \in Answers!Workers
        /\ aReplies \in Seq(Messages) /\ aJudgements \in Seq(Messages) /\ QueueInv /\ PlacesInv
    BY DEF Answers!Workers, RepliesInv, PlacesInv
  <1> DEFINE Quiet == aUp /\ SameCase /\ SameRuns /\ Grows
  <1>1. ASSUME NEW m \in Messages, Answers!ClaimMessage(m) PROVE RepliesInv'
    <2>1. Quiet /\ UNCHANGED <<aReplies, aJudgements>>
          /\ aPlace' = [aPlace EXCEPT !["worker"] = Answers!At("context", m)]
      BY <1>0, <1>1, QuietGrows DEF Answers!ClaimMessage, Answers!Process, Answers!Channels, Answers!runVars,
         Answers!queueVars, Answers!Goes, SameCase, SameRuns
    <2> QED
      BY <1>0, <2>1, Spots, OtherSteps
  <1>2. CASE Answers!ReadContext
    <2>1. aPlace["worker"].of \in Messages
      BY <1>0, <1>2, BusyIs DEF Answers!ReadContext
    <2>2. Quiet /\ UNCHANGED <<aReplies, aJudgements>>
      BY <1>0, <1>2, QuietGrows DEF Answers!ReadContext, Answers!Process, Answers!Channels, Answers!runVars,
         Answers!queueVars, SameCase, SameRuns
    <2>3. \/ \E s \in {"look", "offer", "finish"} :
                aPlace' = [aPlace EXCEPT !["worker"] = Answers!At(s, aPlace["worker"].of)]
          \/ aPlace' = [aPlace EXCEPT !["worker"] = Answers!Idle]
      BY <1>2 DEF Answers!ReadContext, Answers!Goes
    <2>4. CASE aPlace' = [aPlace EXCEPT !["worker"] = Answers!Idle]
      BY <1>0, <2>2, <2>4, IdleIs, OtherSteps
    <2>5. ASSUME NEW s \in {"look", "offer", "finish"},
                 aPlace' = [aPlace EXCEPT !["worker"] = Answers!At(s, aPlace["worker"].of)]
          PROVE  RepliesInv'
      <3>1. PlaceOK(Answers!At(s, aPlace["worker"].of))
        BY <2>1, Spots
      <3> QED
        BY <1>0, <2>2, <2>5, <3>1, OtherSteps
    <2> QED
      BY <2>3, <2>4, <2>5
  <1>3. CASE Answers!OfferReply
    <2>1. aPlace["worker"].of \in Messages
      BY <1>0, <1>3, BusyIs DEF Answers!OfferReply
    <2>2. Quiet /\ aReplies' \in Seq(Messages) /\ UNCHANGED aJudgements
          /\ aPlace' = [aPlace EXCEPT !["worker"] = Answers!At("offerRule", aPlace["worker"].of)]
      BY <1>0, <1>3, <2>1, QuietGrows DEF Answers!OfferReply, Answers!Process, Answers!Tables, Answers!runVars,
         Answers!queueVars, Answers!Goes, SameCase, SameRuns
    <2> QED
      BY <1>0, <2>1, <2>2, Spots, OtherSteps
  <1>4. CASE Answers!OfferRule
    <2>1. aPlace["worker"].of \in Messages
      BY <1>0, <1>4, BusyIs DEF Answers!OfferRule
    <2>2. Quiet /\ aJudgements' \in Seq(Messages) /\ UNCHANGED aReplies
          /\ aPlace' = [aPlace EXCEPT !["worker"] = Answers!At("finish", aPlace["worker"].of)]
      BY <1>0, <1>4, <2>1, QuietGrows DEF Answers!OfferRule, Answers!Process, Answers!Tables, Answers!runVars,
         Answers!queueVars, Answers!Goes, SameCase, SameRuns
    <2> QED
      BY <1>0, <2>1, <2>2, Spots, OtherSteps
  <1>5. CASE Answers!FinishMessage
    <2>1. Quiet /\ UNCHANGED <<aReplies, aJudgements>>
          /\ aPlace' = [aPlace EXCEPT !["worker"] = Answers!Idle]
      BY <1>0, <1>5, QuietGrows DEF Answers!FinishMessage, Answers!Process, Answers!Channels, Answers!runVars,
         Answers!queueVars, Answers!Goes, SameCase, SameRuns
    <2> QED
      BY <1>0, <2>1, IdleIs, OtherSteps
  <1>6. CASE Answers!TakeRule
    <2>1. aJudgements # <<>>
      BY <1>6 DEF Answers!TakeRule
    <2>2. Head(aJudgements) \in Messages /\ Tail(aJudgements) \in Seq(Messages)
      BY <1>0, <2>1
    <2>3. Quiet /\ UNCHANGED aReplies /\ aJudgements' \in Seq(Messages)
          /\ aPlace' = [aPlace EXCEPT !["judge"] = Answers!At("gate", Head(aJudgements))]
      BY <1>0, <1>6, <2>2, QuietGrows DEF Answers!TakeRule, Answers!Process, Answers!Tables, Answers!runVars,
         Answers!queueVars, Answers!Goes, SameCase, SameRuns
    <2> QED
      BY <1>0, <2>2, <2>3, Spots, OtherSteps
  <1>7. CASE Answers!AcquirePermit("judge")
    <2>1. aPlace["judge"].of \in Messages
      BY <1>0, <1>7, BusyIs DEF Answers!AcquirePermit
    <2>2. Quiet /\ UNCHANGED <<aReplies, aJudgements>>
          /\ aPlace' = [aPlace EXCEPT !["judge"] = Answers!At("begin", aPlace["judge"].of)]
      BY <1>0, <1>7, QuietGrows DEF Answers!AcquirePermit, Answers!Process, Answers!Channels, Answers!Tables,
         Answers!runVars, Answers!queueVars, Answers!Goes, SameCase, SameRuns
    <2> QED
      BY <1>0, <2>1, <2>2, Spots, OtherSteps
  <1>8. CASE Answers!Judge
    <2>1. aPlace["judge"].of \in Messages
      BY <1>0, <1>8, BusyIs DEF Answers!Judge
    <2>2. Quiet /\ UNCHANGED <<aReplies, aJudgements>>
          /\ \/ aPlace' = [aPlace EXCEPT !["judge"] = Answers!Idle]
             \/ aPlace' = [aPlace EXCEPT !["judge"] = Answers!At("look", aPlace["judge"].of)]
      BY <1>0, <1>8, QuietGrows DEF Answers!Judge, Answers!Process, Answers!Channels, Answers!Tables,
         Answers!runVars, Answers!queueVars, Answers!Goes, SameCase, SameRuns
    <2> QED
      BY <1>0, <2>1, <2>2, Spots, IdleIs, OtherSteps
  <1> QED
    BY <1>0, <1>1, <1>2, <1>3, <1>4, <1>5, <1>6, <1>7, <1>8, ActionSteps DEF Answers!WorkerStep, Answers!JudgeStep

(* A text is queued.                                                       *)
LEMMA TextGrows ==
  ASSUME QueueInv, NEW m \in Messages,
         NEW k \in {Answers!Reply(m), Answers!Apology(m), Answers!AppReply(m)}, Answers!Queue!Insert(k)
  PROVE  Grows /\ Written(k)'
  BY KeysAre, InsertGrows

(* The replier: process_deferred_ai and process_business_app.              *)
LEMMA ReplierStepKeeps ==
  ASSUME RepliesInv, Answers!ReplierStep
  PROVE  RepliesInv'
  <1> DEFINE m == aPlace["replier"].of
             Quiet == aUp /\ SameCase /\ UNCHANGED <<aReplies, aJudgements>>
             To(p) == aPlace' = [aPlace EXCEPT !["replier"] = p]
  <1>0. /\ "replier" \in Answers!Workers /\ DOMAIN aPlace = Answers!Workers
        /\ aReplies \in Seq(Messages) /\ aJudgements \in Seq(Messages) /\ QueueInv /\ PlacesInv /\ RunsInv
    BY DEF Answers!Workers, RepliesInv, PlacesInv
  <1>m. aPlace["replier"].at # "idle" => m \in Messages
    BY <1>0, BusyIs
  <1>i. Answers!Idle.at \notin Holding
    BY IdleIs DEF Holding, Acting
  <1>1. CASE Answers!TakeReply
    <2>1. aReplies # <<>>
      BY <1>1 DEF Answers!TakeReply
    <2>2. Head(aReplies) \in Messages /\ Tail(aReplies) \in Seq(Messages)
      BY <1>0, <2>1
    <2>3. aUp /\ SameCase /\ SameRuns /\ Grows /\ UNCHANGED aJudgements /\ aReplies' \in Seq(Messages)
          /\ To(Answers!At("gate", Head(aReplies)))
      BY <1>0, <1>1, <2>2, QuietGrows DEF Answers!TakeReply, Answers!Process, Answers!Tables, Answers!runVars,
         Answers!queueVars, Answers!Goes, SameCase, SameRuns
    <2> QED
      BY <1>0, <2>2, <2>3, Spots, ReplierSteps DEF Holding, Acting
  <1>2. CASE Answers!AcquirePermit("replier")
    <2>1. m \in Messages
      BY <1>m, <1>2 DEF Answers!AcquirePermit
    <2>2. Quiet /\ SameRuns /\ UNCHANGED <<aStatus, aSent>>
      BY <1>2 DEF Answers!AcquirePermit, Answers!Process, Answers!Channels, Answers!Tables, Answers!runVars,
         Answers!queueVars, SameCase, SameRuns
    <2>3. To(Answers!At("begin", m))
      BY <1>2 DEF Answers!AcquirePermit, Answers!Goes
    <2>4. Grows
      BY <1>0, <2>2, QuietGrows
    <2> QED
      <3>1. ASSUME NEW p, PlaceOK(p), p.at \notin Holding, To(p) PROVE RepliesInv'
        BY <1>0, <2>2, <2>4, <3>1, ReplierSteps
      <3>2. /\ PlaceOK(Answers!At("begin", m)) /\ Answers!At("begin", m).at \notin Holding
        BY <2>1, Spots DEF Holding, Acting
      <3> QED
        BY <1>i, <2>3, <3>1, <3>2, IdleIs
  <1>3. CASE Answers!Recheck
    <2>1. m \in Messages
      BY <1>m, <1>3 DEF Answers!Recheck
    <2>2. Quiet /\ SameRuns /\ UNCHANGED <<aStatus, aSent>>
      BY <1>3 DEF Answers!Recheck, Answers!Process, Answers!Channels, Answers!Tables, Answers!runVars,
         Answers!queueVars, SameCase, SameRuns
    <2>3. To(Answers!At("app", m)) \/ To(Answers!At("claim", m)) \/ To(Answers!Idle)
      BY <1>3 DEF Answers!Recheck, Answers!Goes
    <2>4. Grows
      BY <1>0, <2>2, QuietGrows
    <2> QED
      <3>1. ASSUME NEW p, PlaceOK(p), p.at \notin Holding, To(p) PROVE RepliesInv'
        BY <1>0, <2>2, <2>4, <3>1, ReplierSteps
      <3>2. /\ PlaceOK(Answers!At("app", m)) /\ Answers!At("app", m).at \notin Holding
            /\ PlaceOK(Answers!At("claim", m)) /\ Answers!At("claim", m).at \notin Holding
        BY <2>1, Spots DEF Holding, Acting
      <3> QED
        BY <1>i, <2>3, <3>1, <3>2, IdleIs
  <1>4. CASE Answers!ClaimRun
    <2>1. m \in Messages
      BY <1>m, <1>4 DEF Answers!ClaimRun
    <2>2. Quiet /\ UNCHANGED <<aStatus, aSent, aDecision>>
      BY <1>4 DEF Answers!ClaimRun, Answers!Process, Answers!Channels, Answers!queueVars, SameCase
    <2>3. Grows
      BY <1>0, <2>2, QuietGrows
    <2>4. CASE Answers!Runs!RunsRest /\ To(Answers!Idle)
      <3>1. SameRuns
        BY <2>2, <2>4 DEF Answers!Runs!RunsRest, SameRuns
      <3> QED
        BY <1>0, <1>i, <2>2, <2>3, <2>4, <3>1, IdleIs, ReplierSteps
    <2>5. CASE Answers!Runs!Claim(m) /\ To(Answers!At("model", m))
      <3>1. aState' = [aState EXCEPT ![m] = "processing"]
        BY <2>5 DEF Answers!Runs!Claim
      <3>2. PlacesInv' /\ aPlace'["replier"] = Answers!At("model", m)
        BY <1>0, <2>1, <2>2, <2>5, Spots, Moves DEF SameCase
      <3>3. Stands(aPlace["replier"])'
        BY <1>0, <2>1, <3>1, <3>2, Spots DEF Stands, Given, Holding, Acting, RunsInv
      <3>4. Answers!RunsKeepTheirWord'
        BY <1>0, <2>1, <2>2, <3>1 DEF Answers!RunsKeepTheirWord, RunsInv, SameCase, Answers!faults
      <3> QED
        BY <1>0, <2>2, <2>3, <3>1, <3>2, <3>3, <3>4 DEF RepliesInv, RunsInv, Grows
    <2> QED
      BY <1>4, <2>4, <2>5 DEF Answers!ClaimRun, Answers!Goes
  <1>5. CASE Answers!AskModel
    <2>1. m \in Messages /\ aPlace["replier"].at = "model"
      BY <1>m, <1>5 DEF Answers!AskModel
    <2>2. Quiet /\ UNCHANGED <<aStatus, aSent, aState>>
      BY <1>5 DEF Answers!AskModel, Answers!Process, Answers!Channels, Answers!queueVars, Answers!runVars, SameCase
    <2>3. Grows
      BY <1>0, <2>2, QuietGrows
    <2>4. CASE UNCHANGED aDecision /\ To(Answers!At("excuse", m))
      <3>1. SameRuns
        BY <2>2, <2>4 DEF SameRuns
      <3> QED
        BY <1>0, <2>1, <2>2, <2>3, <2>4, <3>1, Spots, ReplierSteps DEF Holding
    <2>5. ASSUME NEW d, aDecision' = [aDecision EXCEPT ![m] = d], To(Answers!At("reply", m))
          PROVE  RepliesInv'
      <3>2. PlacesInv' /\ aPlace'["replier"] = Answers!At("reply", m)
        BY <1>0, <2>1, <2>2, <2>5, Spots, Moves DEF SameCase
      <3>3. aState[m] = "processing"
        BY <1>0, <2>1 DEF RunsInv, Stands, Holding
      <3>4. Stands(aPlace["replier"])'
        BY <1>0, <2>1, <2>2, <3>2, <3>3, Spots DEF Stands, Given, Holding, Acting, RunsInv
      <3>5. Answers!RunsKeepTheirWord'
        BY <1>0, <2>1, <2>2, <2>5, <3>3 DEF Answers!RunsKeepTheirWord, RunsInv, SameCase, Answers!faults
      <3> QED
        BY <1>0, <2>2, <2>3, <2>5, <3>2, <3>4, <3>5 DEF RepliesInv, RunsInv, Grows
    <2> QED
      BY <1>5, <2>4, <2>5 DEF Answers!AskModel, Answers!Goes
  <1>6. CASE Answers!QueueReply
    <2>1. m \in Messages /\ aPlace["replier"].at = "reply"
      BY <1>m, <1>6 DEF Answers!QueueReply
    <2>2. Quiet /\ SameRuns
      BY <1>6 DEF Answers!QueueReply, Answers!Process, Answers!Channels, Answers!runVars, SameCase, SameRuns
    <2>3. CASE Answers!Queue!Rest /\ To(Answers!At("excuse", m))
      <3>1. Grows
        BY <1>0, <2>3, QuietGrows DEF Answers!Queue!Rest
      <3> QED
        BY <1>0, <2>1, <2>2, <2>3, <3>1, Spots, ReplierSteps DEF Holding
    <2>4. ASSUME Grows, aDecision[m] = "nothing" \/ aStatus'[Answers!Reply(m)] # "absent", To(Answers!At("consider", m))
          PROVE  RepliesInv'
      <3>2. PlacesInv' /\ aPlace'["replier"] = Answers!At("consider", m)
        BY <1>0, <2>1, <2>2, <2>4, Spots, Moves DEF SameCase
      <3>3. aState[m] = "processing"
        BY <1>0, <2>1 DEF RunsInv, Stands, Holding
      <3>4. Stands(aPlace["replier"])'
        BY <1>0, <2>1, <2>2, <2>4, <3>2, <3>3, Spots DEF Stands, Given, Holding, Acting, RunsInv, SameRuns, Written
      <3>5. Answers!RunsKeepTheirWord'
        BY <1>0, <2>2, <2>4, KeysAre DEF Answers!RunsKeepTheirWord, RunsInv, SameCase, SameRuns, Grows, Written,
           Answers!faults
      <3> QED
        BY <1>0, <2>2, <2>4, <3>2, <3>4, <3>5 DEF RepliesInv, RunsInv, Grows, SameRuns
    <2>5. CASE Answers!Queue!Insert(Answers!Reply(m)) /\ To(Answers!At("consider", m))
      <3>2. Grows /\ aStatus'[Answers!Reply(m)] # "absent"
        BY <1>0, <2>1, <2>5, TextGrows DEF Written
      <3> QED
        BY <2>4, <2>5, <3>2
    <2>6. CASE aDecision[m] = "nothing" /\ Answers!Queue!Rest /\ To(Answers!At("consider", m))
      BY <1>0, <2>4, <2>6, QuietGrows DEF Answers!Queue!Rest
    <2> QED
      BY <1>6, <2>3, <2>5, <2>6 DEF Answers!QueueReply, Answers!NotQueued, Answers!Goes
  <1>7. CASE Answers!Consider
    <2>1. m \in Messages /\ aPlace["replier"].at = "consider"
      BY <1>m, <1>7 DEF Answers!Consider
    <2>2. Quiet /\ SameRuns /\ UNCHANGED <<aStatus, aSent>>
      BY <1>7 DEF Answers!Consider, Answers!Process, Answers!Channels, Answers!Tables, Answers!runVars,
         Answers!queueVars, SameCase, SameRuns
    <2>3. \E s \in {"settle", "look", "excuse"} : To(Answers!At(s, m))
      BY <1>7 DEF Answers!Consider, Answers!Goes
    <2>4. Grows
      BY <1>0, <2>2, QuietGrows
    <2> QED
      <3>1. PICK s \in {"settle", "look", "excuse"} : To(Answers!At(s, m))
        BY <2>3
      <3>2. PlaceOK(Answers!At(s, m)) /\ Answers!At(s, m).of = m /\ Answers!At(s, m).at \in Given \cup {"excuse"}
            /\ aPlace["replier"].at \in Given
        BY <2>1, <3>1, Spots DEF Given, Acting
      <3> QED
        BY <1>0, <2>2, <2>4, <3>1, <3>2, ReplierSteps
  <1>8. CASE Answers!SettleRun
    <2>1. m \in Messages /\ aPlace["replier"].at = "settle"
      BY <1>m, <1>8 DEF Answers!SettleRun
    <2>2. Quiet /\ UNCHANGED <<aStatus, aSent, aDecision>> /\ To(Answers!Idle)
      BY <1>8 DEF Answers!SettleRun, Answers!Process, Answers!Channels, Answers!queueVars, SameCase, Answers!Goes
    <2>3. Grows
      BY <1>0, <2>2, QuietGrows
    <2>4. CASE Answers!Runs!RunsRest
      <3>1. SameRuns
        BY <2>2, <2>4 DEF Answers!Runs!RunsRest, SameRuns
      <3> QED
        BY <1>0, <1>i, <2>2, <2>3, <3>1, IdleIs, ReplierSteps
    <2>5. CASE Answers!Runs!Finish(m, TRUE)
      <3>1. aState' = [aState EXCEPT ![m] = IF @ = "processing" THEN "succeeded" ELSE @]
        BY <2>5 DEF Answers!Runs!Finish, Answers!Runs!Settle
      <3>2. PlacesInv' /\ aPlace'["replier"] = Answers!Idle
        BY <1>0, <2>2, IdleIs, Moves DEF SameCase
      <3>3. Stands(aPlace["replier"])'
        BY <3>2, IdleIs DEF Stands, Given, Holding, Acting
      <3>4. aDecision[m] = "nothing" \/ Written(Answers!Reply(m))
        BY <1>0, <2>1 DEF RunsInv, Stands, Given, Answers!faults
      <3>5. Answers!RunsKeepTheirWord'
        BY <1>0, <2>1, <2>2, <3>1, <3>4 DEF Answers!RunsKeepTheirWord, RunsInv, SameCase, Answers!faults, Written
      <3> QED
        BY <1>0, <2>2, <2>3, <3>1, <3>2, <3>3, <3>5 DEF RepliesInv, RunsInv, Grows
    <2> QED
      BY <1>8, <2>4, <2>5 DEF Answers!SettleRun
  <1>9. CASE Answers!FailRun
    <2>1. m \in Messages /\ aPlace["replier"].at = "failed"
      BY <1>m, <1>9 DEF Answers!FailRun
    <2>2. Quiet /\ UNCHANGED <<aStatus, aSent, aDecision>> /\ To(Answers!Idle)
      BY <1>9 DEF Answers!FailRun, Answers!Process, Answers!Channels, Answers!queueVars, SameCase, Answers!Goes
    <2>3. Grows
      BY <1>0, <2>2, QuietGrows
    <2>4. CASE Answers!Runs!RunsRest
      <3>1. SameRuns
        BY <2>2, <2>4 DEF Answers!Runs!RunsRest, SameRuns
      <3> QED
        BY <1>0, <1>i, <2>2, <2>3, <3>1, IdleIs, ReplierSteps
    <2>5. CASE Answers!Runs!FailTerminal(m)
      <3>1. aState' = [aState EXCEPT ![m] = IF @ = "processing" THEN "failed" ELSE @]
        BY <2>5 DEF Answers!Runs!FailTerminal, Answers!Runs!Settle
      <3>2. PlacesInv' /\ aPlace'["replier"] = Answers!Idle
        BY <1>0, <2>2, IdleIs, Moves DEF SameCase
      <3>3. Stands(aPlace["replier"])'
        BY <3>2, IdleIs DEF Stands, Given, Holding, Acting
      <3>4. "db" \in Answers!faults \/ Written(Answers!Apology(m))
        BY <1>0, <2>1 DEF RunsInv, Stands, Given, Answers!faults
      <3>5. Answers!RunsKeepTheirWord'
        BY <1>0, <2>1, <2>2, <3>1, <3>4 DEF Answers!RunsKeepTheirWord, RunsInv, SameCase, Answers!faults, Written
      <3> QED
        BY <1>0, <2>2, <2>3, <3>1, <3>2, <3>3, <3>5 DEF RepliesInv, RunsInv, Grows
    <2> QED
      BY <1>9, <2>4, <2>5 DEF Answers!FailRun
  <1>10. CASE Answers!Excuse
    <2>1. m \in Messages /\ aPlace["replier"].at = "excuse"
      BY <1>m, <1>10 DEF Answers!Excuse
    <2>2. Quiet /\ SameRuns /\ To(Answers!At("failed", m))
      BY <1>10 DEF Answers!Excuse, Answers!Process, Answers!Channels, Answers!runVars, SameCase, SameRuns, Answers!Goes
    <2>3. Grows /\ ("db" \in Answers!faults \/ aStatus'[Answers!Apology(m)] # "absent")
      <3>1. CASE Answers!Queue!Insert(Answers!Apology(m))
        BY <1>0, <2>1, <3>1, TextGrows DEF Written
      <3>2. CASE Answers!Fails("db") /\ Answers!Queue!Rest
        BY <1>0, <3>2, QuietGrows DEF Answers!Fails, Answers!Queue!Rest
      <3> QED
        BY <1>10, <3>1, <3>2 DEF Answers!Excuse
    <2>4. PlacesInv' /\ aPlace'["replier"] = Answers!At("failed", m)
      BY <1>0, <2>1, <2>2, Spots, Moves DEF SameCase
    <2>5. aState[m] = "processing"
      BY <1>0, <2>1 DEF RunsInv, Stands, Holding
    <2>6. Stands(aPlace["replier"])'
      BY <2>1, <2>2, <2>3, <2>4, <2>5, Spots DEF Stands, Given, Holding, Acting, SameRuns, SameCase, Written,
         Answers!faults
    <2>7. Answers!RunsKeepTheirWord'
      BY <1>0, <2>2, <2>3, KeysAre DEF Answers!RunsKeepTheirWord, RunsInv, SameCase, SameRuns, Grows, Written,
         Answers!faults
    <2> QED
      BY <1>0, <2>2, <2>3, <2>4, <2>6, <2>7 DEF RepliesInv, RunsInv, Grows, SameRuns
  <1>11. CASE Answers!RunApp
    <2>1. m \in Messages
      BY <1>m, <1>11 DEF Answers!RunApp
    <2>2. Quiet /\ SameRuns /\ UNCHANGED <<aStatus, aSent>>
      BY <1>11 DEF Answers!RunApp, Answers!Process, Answers!Channels, Answers!Tables, Answers!runVars,
         Answers!queueVars, SameCase, SameRuns
    <2>3. To(Answers!At("appReply", m)) \/ To(Answers!At("appFailed", m)) \/ To(Answers!Idle)
      BY <1>11 DEF Answers!RunApp, Answers!Goes
    <2>4. Grows
      BY <1>0, <2>2, QuietGrows
    <2> QED
      <3>1. ASSUME NEW p, PlaceOK(p), p.at \notin Holding, To(p) PROVE RepliesInv'
        BY <1>0, <2>2, <2>4, <3>1, ReplierSteps
      <3>2. /\ PlaceOK(Answers!At("appReply", m)) /\ Answers!At("appReply", m).at \notin Holding
            /\ PlaceOK(Answers!At("appFailed", m)) /\ Answers!At("appFailed", m).at \notin Holding
        BY <2>1, Spots DEF Holding, Acting
      <3> QED
        BY <1>i, <2>3, <3>1, <3>2, IdleIs
  <1>13. CASE Answers!FinishApp
    <2>1. m \in Messages
      BY <1>m, <1>13 DEF Answers!FinishApp
    <2>2. Quiet /\ SameRuns /\ UNCHANGED <<aStatus, aSent>>
      BY <1>13 DEF Answers!FinishApp, Answers!Process, Answers!Channels, Answers!Tables, Answers!runVars,
         Answers!queueVars, SameCase, SameRuns
    <2>3. To(Answers!At("appFailed", m)) \/ To(Answers!Idle)
      BY <1>13 DEF Answers!FinishApp, Answers!Goes
    <2>4. Grows
      BY <1>0, <2>2, QuietGrows
    <2> QED
      <3>1. ASSUME NEW p, PlaceOK(p), p.at \notin Holding, To(p) PROVE RepliesInv'
        BY <1>0, <2>2, <2>4, <3>1, ReplierSteps
      <3>2. /\ PlaceOK(Answers!At("appFailed", m)) /\ Answers!At("appFailed", m).at \notin Holding
        BY <2>1, Spots DEF Holding, Acting
      <3> QED
        BY <1>i, <2>3, <3>1, <3>2, IdleIs
  <1>12. CASE Answers!QueueAppReply
    <2>1. m \in Messages
      BY <1>m, <1>12 DEF Answers!QueueAppReply
    <2>2. Quiet /\ SameRuns
      BY <1>12 DEF Answers!QueueAppReply, Answers!Process, Answers!Channels, Answers!runVars, SameCase, SameRuns
    <2>3. Grows
      <3>1. CASE Answers!Queue!Insert(Answers!AppReply(m))
        BY <1>0, <2>1, <3>1, TextGrows DEF Written
      <3>2. CASE Answers!Queue!Rest
        BY <1>0, <3>2, QuietGrows DEF Answers!Queue!Rest
      <3> QED
        BY <1>12, <3>1, <3>2 DEF Answers!QueueAppReply
    <2>4. To(Answers!At("appDone", m)) \/ To(Answers!At("appFailed", m))
      BY <1>12 DEF Answers!QueueAppReply, Answers!Goes
    <2> QED
      BY <1>0, <2>1, <2>2, <2>3, <2>4, Spots, ReplierSteps DEF Holding, Acting
  <1> QED
    BY <1>0, <1>1, <1>2, <1>3, <1>4, <1>5, <1>6, <1>7, <1>8, <1>9, <1>10, <1>11, <1>12, <1>13, ActionSteps
       DEF Answers!ReplierStep

(* The workers are aborted, or the process ends.                           *)
LEMMA HaltKeeps ==
  ASSUME RepliesInv, UNCHANGED aCase, SameRuns, UNCHANGED <<aStatus, aSent>>,
         aPlace' = [w \in Answers!Workers |-> Answers!Idle], aReplies' = <<>>, aJudgements' = <<>>
  PROVE  RepliesInv'
  <1>1. Grows
    BY QuietGrows DEF RepliesInv
  <1>2. PlacesInv'
    BY IdleIs DEF PlacesInv
  <1>3. aPlace'["replier"] = Answers!Idle
    BY DEF Answers!Workers
  <1>4. aPlace["replier"].at # "idle" => aPlace["replier"].of \in Messages
    BY BusyIs DEF RepliesInv, Answers!Workers
  <1>5. RunsInv'
    BY <1>1, <1>3, <1>4, IdleIs, WordsStay DEF RepliesInv, SameCase, SameRuns, Holding, Acting
  <1> QED
    BY <1>1, <1>2, <1>5 DEF RepliesInv, Grows

(* Database::prepare gives held runs back for a retry.                     *)
LEMMA RestartKeeps ==
  ASSUME RepliesInv, Answers!Restart
  PROVE  RepliesInv'
  <1>1. Grows
    BY RecoverGrows DEF Answers!Restart, RepliesInv
  <1>2. PlacesInv' /\ aPlace'["replier"] = Answers!Idle
    BY DEF Answers!Restart, Answers!Channels, RepliesInv, PlacesInv, Answers!Workers
  <1>3. Stands(aPlace["replier"])'
    BY <1>2, IdleIs DEF Stands, Given, Holding, Acting
  <1>4. aState' = [m \in Messages |-> IF aState[m] = "processing" THEN "retry" ELSE aState[m]]
        /\ UNCHANGED <<aDecision, aCase>>
    BY DEF Answers!Restart, Answers!Runs!RecoverRuns
  <1>5. Answers!RunsKeepTheirWord'
    BY <1>1, <1>4, KeysAre DEF Answers!RunsKeepTheirWord, RepliesInv, RunsInv, Grows, Written, Answers!faults
  <1> QED
    BY <1>1, <1>2, <1>3, <1>4, <1>5 DEF RepliesInv, RunsInv, Grows

(* The dispatcher works meanwhile.                                         *)
LEMMA QueueStepKeeps ==
  ASSUME RepliesInv, NEW k \in Answers!ActionKeys, Answers!QueueStep(k)
  PROVE  RepliesInv'
  <1>1. k \in Answers!Keys
    BY DEF Answers!Keys
  <1>2. Grows
    BY <1>1, QueueGrows DEF Answers!QueueStep, RepliesInv
  <1>3. PlacesInv' /\ UNCHANGED <<aPlace, aState, aDecision, aCase>>
    BY DEF Answers!QueueStep, Answers!Process, Answers!Channels, Answers!runVars, RepliesInv, PlacesInv
  <1>4. aPlace["replier"].at # "idle" => aPlace["replier"].of \in Messages
    BY BusyIs DEF RepliesInv, Answers!Workers
  <1>5. RunsInv'
    BY <1>2, <1>3, <1>4, WordsStay DEF RepliesInv
  <1> QED
    BY <1>2, <1>3, <1>5 DEF RepliesInv, Grows

(* Every step keeps the invariant.                                         *)
LEMMA StepKeeps ==
  ASSUME RepliesInv, [Answers!Next]_replyVars
  PROVE  RepliesInv'
  <1>1. CASE UNCHANGED replyVars
    <2>1. QueueInv' /\ PlacesInv' /\ RunsInv'
      BY <1>1 DEF replyVars, RepliesInv, QueueInv, Written, PlacesInv, RunsInv, Stands, Answers!RunsKeepTheirWord,
         Answers!faults
    <2> QED
      BY <2>1 DEF RepliesInv
  <1>2. CASE Answers!Abort
    BY <1>2, HaltKeeps DEF Answers!Abort, Answers!Process, Answers!Tables, Answers!runVars, Answers!queueVars,
       SameCase, SameRuns
  <1>3. CASE Answers!Crash
    BY <1>3, HaltKeeps DEF Answers!Crash, Answers!Queue!Forget, Answers!runVars, SameRuns
  <1> QED
    BY <1>1, <1>2, <1>3, SideSteps, ReplierStepKeeps, QueueStepKeeps, RestartKeeps DEF Answers!Next

-----------------------------------------------------------------------------
(* The theorem.                                                            *)

(* One key per action, and at most one execution per key.                  *)
LEMMA TruthFollows == RepliesInv => AnswersAreTrue
  <1> SUFFICES ASSUME RepliesInv PROVE AnswersAreTrue
    OBVIOUS
  <1>1. ASSUME NEW m \in Messages
        PROVE  Answers!Cardinality({k \in Answers!ActionKeys : k[2] = m /\ aSent[k] > 0}) <= 1
    <2> DEFINE S == {k \in Answers!ActionKeys : k[2] = m /\ aSent[k] > 0}
    <2>1. S \subseteq {<<"action", m>>}
      <3> SUFFICES ASSUME NEW k \in S PROVE k = <<"action", m>>
        OBVIOUS
      <3>1. k \in Answers!Keys /\ k \in Answers!ActionKeys
        BY DEF Answers!Keys
      <3>2. Written(k)
        BY <3>1 DEF RepliesInv, QueueInv, Written
      <3>3. k[1] = "action"
        BY <3>1, <3>2 DEF RepliesInv, QueueInv
      <3> QED
        BY <3>1, <3>3 DEF Answers!ActionKeys
    <2>2. IsFiniteSet({<<"action", m>>}) /\ Cardinality({<<"action", m>>}) = 1
      BY FS_Singleton
    <2>3. IsFiniteSet(S) /\ Cardinality(S) <= 1
      BY <2>1, <2>2, FS_Subset
    <2>4. Cardinality(S) = Answers!Cardinality(S)
      BY DEF Cardinality, Answers!Cardinality
    <2> QED
      BY <2>3, <2>4
  <1> QED
    BY <1>1 DEF AnswersAreTrue, Answers!AnswersAreTrue, Answers!ActionsActOnce, RepliesInv, RunsInv

(* The action a message calls for is carried out at most once, whichever   *)
(* workers ask for it, across crashes and repeated processing; and a run   *)
(* that the table calls succeeded has its text queued, one it calls failed *)
(* has its apology queued unless a database job failed                     *)
(* (execute_rule_actions, process_ai).                                     *)
THEOREM AnswersTellTheTruth == MCSpec => []AnswersAreTrue
  <1>1. MCInit => RepliesInv
    BY Starts DEF MCInit
  <1>2. RepliesInv /\ [MCNext]_<<focus, vars, replyVars>> => RepliesInv'
    <2>1. [MCNext]_<<focus, vars, replyVars>> => [Answers!Next]_replyVars
      BY DEF MCNext
    <2> QED
      BY <2>1, StepKeeps
  <1> QED
    BY <1>1, <1>2, TruthFollows, PTL DEF MCSpec
=============================================================================
