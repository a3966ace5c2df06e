---------------------------- MODULE GatewayInbox ----------------------------
(***************************************************************************)
(* How a chat event travels from the page of the chat client into the      *)
(* bot: the listener queue in the page, BackendRuntime::connection_loop    *)
(* with its retry scan, batch read, source acknowledgement and local       *)
(* commit, the durable tables gateway_inbox and messages, and the worker   *)
(* of each group that processes the messages.  One account.                *)
(***************************************************************************)
EXTENDS Naturals, SequencesExt

CONSTANTS
    Events,       \* stable event ids
    Members,      \* member events: joined, left, updated
    Ignorable,    \* own echoes, private chats, connection changes
    Late,         \* messages of a group that is not mapped at first
    Groups,
    GroupOf,      \* the group of an event
    NoEvent,
    MaxSessions,  \* bound on listener sessions
    MaxAttempts,  \* 5
    BatchLimit,   \* 100 records per read
    QueueLimit,   \* 5000 records in the page
    ChannelLimit, \* 128 jobs per group
    Faults        \* what may go wrong, see AllFaults

AllFaults == {"crash",     \* the process ends at any moment
              "reload",    \* the page is reloaded, the queue in it is lost
              "redeliver", \* a new listener session hears old events again
              "read",      \* a batch read fails
              "reset",     \* a diagnosis finds the client not ready for a while
              "ack",       \* the answer to an acknowledgement, or itself, is lost
              "members",   \* member events cannot be resolved
              "db",        \* a database job fails
              "job",       \* processing a message fails
              "old"}       \* a restart comes more than 15 minutes later

(* What Init asks of the constants.                                        *)
KindsAreApart ==
    /\ Members \subseteq Events /\ Ignorable \subseteq Events \ Members
    /\ Late \subseteq Events \ (Members \cup Ignorable)
    /\ NoEvent \notin Events /\ Faults \subseteq AllFaults
    /\ BatchLimit \in Nat \ {0} /\ ChannelLimit \in Nat \ {0} /\ MaxAttempts \in Nat

VARIABLES
    page,    \* window.__dhBridgeMessages: installed, session, queue, nextSeq, seen, dropped
    mapped,  \* messages whose group id can be found
    inbox,   \* gateway_inbox: state, session, seq, attempts, due
    msg,     \* messages: state, acked, seq, attempts, due
    up,      \* the process is running
    loop,    \* locals of connection_loop
    jobs,    \* the channel of each group
    busy     \* the message the worker of a group is processing

vars == <<page, mapped, inbox, msg, up, loop, jobs, busy>>

Messages == Events \ (Members \cup Ignorable)

Fresh(s) == [installed |-> TRUE, session |-> s, queue |-> <<>>, nextSeq |-> 1,
             seen |-> {}, dropped |-> FALSE]

(* at: where the loop is; epoch: the session its workers were started in;  *)
(* session and lastAck: of the batches read since the last connect (0 for  *)
(* none); batch and ackable: the batch in hand; item: the claimed inbox    *)
(* row.                                                                    *)
Connecting(epoch) == [at |-> "connect", epoch |-> epoch, session |-> 0, lastAck |-> 0,
                      batch |-> <<>>, ackable |-> {}, item |-> NoEvent]

Init ==
    /\ KindsAreApart
    /\ page = [Fresh(0) EXCEPT !.installed = FALSE]
    /\ mapped = Messages \ Late
    /\ inbox = [e \in Events |-> [state |-> "absent", session |-> 0, seq |-> 0,
                                  attempts |-> 0, due |-> TRUE]]
    /\ msg = [e \in Messages |-> [state |-> "absent", acked |-> FALSE, seq |-> 0,
                                  attempts |-> 0, due |-> TRUE]]
    /\ up = TRUE
    /\ loop = Connecting(0)
    /\ jobs = [g \in Groups |-> <<>>]
    /\ busy = [g \in Groups |-> NoEvent]

-----------------------------------------------------------------------------
(* The page and the client.                                                *)

Queued == {page.queue[i].event : i \in DOMAIN page.queue}

(* The listener hears an event it does not remember; beyond the limit the  *)
(* oldest record is dropped for good.                                      *)
Emit(e) ==
    /\ page.installed /\ e \notin page.seen
    /\ inbox[e].state # "absent" => "redeliver" \in Faults /\ e \notin Members
    /\ LET queue == Append(page.queue, [event |-> e, seq |-> page.nextSeq])
           over  == Len(queue) > QueueLimit
       IN  page' = [page EXCEPT !.queue = IF over THEN Tail(queue) ELSE queue,
                                !.nextSeq = @ + 1,
                                !.seen = @ \cup {e},
                                !.dropped = @ \/ over]
    /\ UNCHANGED <<mapped, inbox, msg, up, loop, jobs, busy>>

Reload ==
    /\ "reload" \in Faults
    /\ page.installed /\ page.session < MaxSessions
    /\ page' = [Fresh(page.session) EXCEPT !.installed = FALSE]
    /\ UNCHANGED <<mapped, inbox, msg, up, loop, jobs, busy>>

(* A refresh of the group list makes the group of a message known.         *)
MapGroup(e) ==
    /\ e \in Late \ mapped
    /\ mapped' = mapped \cup {e}
    /\ UNCHANGED <<page, inbox, msg, up, loop, jobs, busy>>

-----------------------------------------------------------------------------
(* Database jobs.  Attempts are counted up to MaxAttempts, where they stop *)
(* making a difference.                                                    *)

OneMore(attempts) == IF attempts < MaxAttempts THEN attempts + 1 ELSE attempts

Backoff(attempts) == IF attempts >= MaxAttempts THEN "failed" ELSE "retry"

(* Slip: a row that must wait stays claimed.                               *)
StaysClaimed(row) == row

(* finish_gateway_inbox(failure).                                          *)
Postponed(row) ==
    IF row.state # "processing" THEN row
    ELSE [row EXCEPT !.state = Backoff(row.attempts), !.due = row.attempts >= MaxAttempts]

(* INSERT OR IGNORE.                                                       *)
InsertMessage(row, seq) ==
    IF row.state = "absent" THEN [row EXCEPT !.state = "pending", !.seq = seq] ELSE row

(* claim_gateway_inbox: due, and behind no unfinished row of its session.  *)
Claimable(e) ==
    /\ inbox[e].state \in {"pending", "retry"} /\ inbox[e].due
    /\ \A d \in Events : /\ inbox[d].session = inbox[e].session
                         /\ inbox[d].seq < inbox[e].seq
                         => inbox[d].state \in {"absent", "processed"}

InsertedBefore(d, e) ==
    \/ inbox[d].session < inbox[e].session
    \/ inbox[d].session = inbox[e].session /\ inbox[d].seq <= inbox[e].seq

(* Slip: the rows are closed, the messages are not marked acknowledged.    *)
CommitRowsOnly(events) ==
    /\ inbox' = [e \in Events |-> IF e \in events
                                  THEN [inbox[e] EXCEPT !.state = "processed", !.due = TRUE]
                                  ELSE inbox[e]]
    /\ UNCHANGED msg

(* commit_gateway_ack.                                                     *)
CommitAck(events) ==
    /\ inbox' = [e \in Events |-> IF e \in events
                                  THEN [inbox[e] EXCEPT !.state = "processed", !.due = TRUE]
                                  ELSE inbox[e]]
    /\ msg' = [e \in Messages |-> IF e \in events /\ msg[e].state # "absent"
                                  THEN [msg[e] EXCEPT !.acked = TRUE] ELSE msg[e]]

(* The messages among these by their groups, each list in their order.     *)
Lists(messages, Before(_, _)) ==
    LET Listed(list, own) == /\ Len(list) = Cardinality(own)
                             /\ \A e \in own : \E i \in DOMAIN list : list[i] = e
                             /\ \A i, j \in DOMAIN list : i < j => Before(list[i], list[j])
    IN  {lists \in [Groups -> UNION {[1..n -> messages] : n \in 0..Cardinality(messages)}] :
            \A g \in Groups : Listed(lists[g], {e \in messages : GroupOf[e] = g})}

(* list_pending_messages, in the order of sequence, then of row id.        *)
Pending ==
    Lists({e \in Messages : /\ msg[e].acked /\ msg[e].due
                            /\ msg[e].state \in {"pending", "retry"}},
          LAMBDA d, e : \/ msg[d].seq < msg[e].seq
                        \/ msg[d].seq = msg[e].seq /\ InsertedBefore(d, e))

(* enqueue_incoming_job: try_send, job by job; what does not fit is left   *)
(* to the retry scan.                                                      *)
Enqueue(channels, lists) ==
    [g \in Groups |->
        LET all == channels[g] \o lists[g]
        IN  SubSeq(all, 1, IF Len(all) < ChannelLimit THEN Len(all) ELSE ChannelLimit)]

-----------------------------------------------------------------------------
(* The connection loop.                                                    *)

At(place)   == up /\ loop.at = place
Goto(place) == loop' = [loop EXCEPT !.at = place]

(* install_message_listener: the listener there is, or one with a session  *)
(* of its own.                                                             *)
Listener == IF page.installed THEN page ELSE Fresh(page.session + 1)

(* diagnose, install_message_listener, session_identity, then the recovery *)
(* of pending messages.  A new listener session, or a client that was not  *)
(* ready for a while, moves the session epoch: the workers are aborted and *)
(* their channels dropped.                                                 *)
Connect ==
    /\ At("connect")
    /\ page' = Listener
    /\ \E reset \in BOOLEAN :
          /\ reset => "reset" \in Faults
          /\ IF reset \/ loop.epoch # page'.session
               THEN /\ busy' = [g \in Groups |-> NoEvent]
                    /\ \E lists \in Pending : jobs' = Enqueue([g \in Groups |-> <<>>], lists)
               ELSE /\ UNCHANGED busy
                    /\ \E lists \in Pending : jobs' = Enqueue(jobs, lists)
    /\ loop' = [Connecting(page'.session) EXCEPT !.at = "top"]
    /\ UNCHANGED <<mapped, inbox, msg, up>>

(* The retry scan, every two seconds: pending messages, then one row of    *)
(* the inbox.                                                              *)
Scan ==
    /\ At("top")
    /\ \/ \E lists \in Pending : jobs' = Enqueue(jobs, lists)
       \/ "db" \in Faults /\ UNCHANGED jobs
    /\ \/ \E e \in Events :
             /\ Claimable(e)
             /\ \A d \in Events : Claimable(d) => InsertedBefore(e, d)
             /\ inbox' = [inbox EXCEPT ![e].state = "processing", ![e].attempts = OneMore(@)]
             /\ loop' = [loop EXCEPT !.at = "claimed", !.item = e]
       \/ /\ (\A e \in Events : ~Claimable(e)) \/ "db" \in Faults
          /\ Goto("read") /\ UNCHANGED inbox
    /\ UNCHANGED <<page, mapped, msg, up, busy>>

SkipScan ==
    /\ At("top") /\ Goto("read")
    /\ UNCHANGED <<page, mapped, inbox, msg, up, jobs, busy>>

(* finish_gateway_inbox(failure); its own result is ignored.               *)
PostponeItem ==
    /\ \/ inbox' = [inbox EXCEPT ![loop.item] = Postponed(@)]
       \/ "db" \in Faults /\ UNCHANGED inbox
    /\ loop' = [loop EXCEPT !.at = "read", !.item = NoEvent]

(* The claimed row: a member event waits for its batch, an unmapped        *)
(* message for its group; anything else goes on to its acknowledgement,    *)
(* a message after insert_message.                                         *)
TakeItem ==
    /\ At("claimed")
    /\ LET e == loop.item
           waits == e \in Members \/ e \in Messages \ mapped
       IN  \/ /\ waits \/ (e \in Messages /\ "db" \in Faults)
              /\ PostponeItem /\ UNCHANGED msg
           \/ /\ ~waits
              /\ msg' = IF e \in Messages THEN [msg EXCEPT ![e] = InsertMessage(@, inbox[e].seq)] ELSE msg
              /\ Goto("ack item") /\ UNCHANGED inbox
    /\ UNCHANGED <<page, mapped, up, jobs, busy>>

(* ack_expression discards the records up to seq if the session is still   *)
(* the same, which lie at the head of the queue; parse_gateway_receipt     *)
(* accepts the answer unless records were dropped.                         *)
Discarded(session, seq) ==
    LET n == CHOOSE n \in 0..Len(page.queue) :
                \A i \in DOMAIN page.queue : page.queue[i].seq > seq <=> i > n
    IN  IF page.installed /\ page.session = session
        THEN [page EXCEPT !.queue = SubSeq(@, n + 1, Len(@))]
        ELSE page

AckHeard(session) == page.installed /\ page.session = session /\ ~page.dropped

AckItem ==
    /\ At("ack item")
    /\ LET row == inbox[loop.item]
       IN  \/ /\ page' = Discarded(row.session, row.seq)
              /\ IF AckHeard(row.session) THEN Goto("commit item") /\ UNCHANGED inbox
                                          ELSE PostponeItem
           \/ /\ "ack" \in Faults
              /\ page' \in {page, Discarded(row.session, row.seq)}
              /\ PostponeItem
    /\ UNCHANGED <<mapped, msg, up, jobs, busy>>

Unprocessed == {e \in Messages : msg[e].state # "processed"}

CommitItem ==
    /\ At("commit item")
    /\ LET e == loop.item
       IN  \/ /\ CommitAck({e})
              /\ \E lists \in Lists({e} \cap Unprocessed, LAMBDA c, d : FALSE) :
                    jobs' = Enqueue(jobs, lists)
              /\ loop' = [loop EXCEPT !.at = "read", !.item = NoEvent]
           \/ "db" \in Faults /\ PostponeItem /\ UNCHANGED <<msg, jobs>>
    /\ UNCHANGED <<page, mapped, up, busy>>

-----------------------------------------------------------------------------
(* The batch.                                                              *)

BatchEvents(batch) == {batch[i].event : i \in DOMAIN batch}

(* parse_gateway_batch: the first records of the queue in their order.     *)
NextBatch ==
    SubSeq(page.queue, 1, IF Len(page.queue) < BatchLimit THEN Len(page.queue) ELSE BatchLimit)

(* read_batch: the records whose group can be found.                       *)
Identified(events) == events \cap mapped

Sequence(batch, e) == batch[CHOOSE i \in DOMAIN batch : batch[i].event = e].seq

(* ingest_gateway_batch: INSERT OR IGNORE of the inbox rows of all records *)
(* and of the message rows of the accepted ones, in one transaction.       *)
Ingest(batch, accepted) ==
    LET events == BatchEvents(batch)
    IN  /\ inbox' = [e \in Events |->
                        IF e \in events /\ inbox[e].state = "absent"
                        THEN [inbox[e] EXCEPT !.state = "pending", !.session = page.session,
                                                !.seq = Sequence(batch, e)]
                        ELSE inbox[e]]
        /\ msg' = [e \in Messages |-> IF e \in accepted THEN InsertMessage(msg[e], Sequence(batch, e))
                                                         ELSE msg[e]]

(* The loop starts over when the read fails, the session is another one,   *)
(* records were dropped, or the first record is not the next one.          *)
ReadFails ==
    /\ At("read")
    /\ \/ ~page.installed
       \/ "read" \in Faults
       \/ loop.session \notin {0, page.session}
       \/ page.dropped
       \/ loop.lastAck > 0 /\ page.queue # <<>> /\ Head(page.queue).seq > loop.lastAck + 1
    /\ loop' = Connecting(loop.epoch)
    /\ UNCHANGED <<page, mapped, inbox, msg, up, jobs, busy>>

(* read_batch, normalize_message for every record, and ingest_gateway_batch: *)
(* inbox rows and message rows in one transaction.                         *)
ReadBatch ==
    /\ At("read")
    /\ page.installed /\ ~page.dropped /\ loop.session \in {0, page.session}
    /\ loop.lastAck > 0 /\ page.queue # <<>> => Head(page.queue).seq <= loop.lastAck + 1
    /\ LET events   == BatchEvents(NextBatch)
           accepted == Identified(events)
       IN  \/ /\ Ingest(NextBatch, accepted)
              /\ loop' = [loop EXCEPT !.at = IF events \cap Members = {} THEN "ack" ELSE "members",
                                      !.session = page.session, !.batch = NextBatch,
                                      !.ackable = accepted \cup (events \cap Ignorable)]
           \/ /\ "db" \in Faults
              /\ loop' = [loop EXCEPT !.at = "top", !.session = page.session]
              /\ UNCHANGED <<inbox, msg>>
    /\ UNCHANGED <<page, mapped, up, jobs, busy>>

(* processed_gateway_event_ids.                                            *)
AlreadyProcessed(events) == \A e \in events : inbox[e].state = "processed"

(* mark_gateway_inbox_processed.                                           *)
MarkProcessed(events) ==
    inbox' = [e \in Events |-> IF e \in events
                               THEN [inbox[e] EXCEPT !.state = "processed", !.due = TRUE]
                               ELSE inbox[e]]

(* The member events of the batch are applied (or handed to the roster     *)
(* reconciliation) and marked processed, unless they are already; only     *)
(* then may they be acknowledged.                                          *)
ApplyMembers ==
    /\ At("members")
    /\ LET members == BatchEvents(loop.batch) \cap Members
           ready   == [loop EXCEPT !.at = "ack", !.ackable = @ \cup members]
       IN  \/ AlreadyProcessed(members) /\ loop' = ready /\ UNCHANGED inbox
           \/ MarkProcessed(members) /\ loop' = ready
           \/ /\ {"members", "db"} \cap Faults # {}
              /\ Goto("ack") /\ UNCHANGED inbox
    /\ UNCHANGED <<page, mapped, msg, up, jobs, busy>>

(* Slip: up to the last ackable record, whatever lies before it.           *)
AckLastAckable ==
    LET n == CHOOSE n \in 0..Len(loop.batch) :
                /\ n > 0 => loop.batch[n].event \in loop.ackable
                /\ \A i \in (n + 1)..Len(loop.batch) : loop.batch[i].event \notin loop.ackable
    IN  SubSeq(loop.batch, 1, n)

(* contiguous_ack_sequence: the longest ackable prefix of the batch.       *)
AckPrefix ==
    LET n == CHOOSE n \in 0..Len(loop.batch) :
                /\ \A i \in 1..n : loop.batch[i].event \in loop.ackable
                /\ n < Len(loop.batch) => loop.batch[n + 1].event \notin loop.ackable
    IN  SubSeq(loop.batch, 1, n)

NextRound(l) == [l EXCEPT !.at = "top", !.batch = <<>>, !.ackable = {}]

AckBatch ==
    /\ At("ack")
    /\ LET prefix == AckPrefix
           seq    == Last(prefix).seq
       IN  \/ prefix = <<>> /\ loop' = NextRound(loop) /\ UNCHANGED page
           \/ /\ prefix # <<>>
              /\ \/ /\ page' = Discarded(loop.session, seq)
                    /\ loop' = IF AckHeard(loop.session)
                               THEN [loop EXCEPT !.at = "commit", !.lastAck = seq]
                               ELSE NextRound(loop)
                 \/ /\ "ack" \in Faults
                    /\ page' \in {page, Discarded(loop.session, seq)}
                    /\ loop' = NextRound(loop)
    /\ UNCHANGED <<mapped, inbox, msg, up, jobs, busy>>

(* commit_gateway_ack for the prefix, then a job for every message of it.  *)
CommitBatch ==
    /\ At("commit")
    /\ LET events == BatchEvents(AckPrefix)
       IN  \/ /\ CommitAck(events)
              /\ \E lists \in Lists(events \cap Unprocessed,
                                   LAMBDA d, e : Sequence(loop.batch, d) < Sequence(loop.batch, e)) :
                    jobs' = Enqueue(jobs, lists)
           \/ "db" \in Faults /\ UNCHANGED <<inbox, msg, jobs>>
    /\ loop' = NextRound(loop)
    /\ UNCHANGED <<page, mapped, up, busy>>

-----------------------------------------------------------------------------
(* The worker of a group.                                                  *)

(* claim_message: only a message that waits and is due.                    *)
MayClaim(e) == msg[e].state \in {"pending", "retry"} /\ msg[e].due

(* A job whose message cannot be claimed is dropped.                       *)
StartJob(g) ==
    /\ up /\ busy[g] = NoEvent /\ jobs[g] # <<>>
    /\ jobs' = [jobs EXCEPT ![g] = Tail(@)]
    /\ LET e == Head(jobs[g])
       IN  \/ /\ MayClaim(e)
              /\ msg' = [msg EXCEPT ![e].state = "processing", ![e].attempts = OneMore(@)]
              /\ busy' = [busy EXCEPT ![g] = e]
           \/ /\ ~MayClaim(e) \/ "db" \in Faults
              /\ UNCHANGED <<msg, busy>>
    /\ UNCHANGED <<page, mapped, inbox, up, loop>>

(* finish_message_processing; its own result is ignored.                   *)
FinishJob(g) ==
    /\ up /\ busy[g] # NoEvent
    /\ LET e == busy[g]
       IN  \/ msg' = [msg EXCEPT ![e].state = "processed", ![e].due = TRUE]
           \/ /\ "job" \in Faults
              /\ msg' = [msg EXCEPT ![e].state = Backoff(msg[e].attempts), ![e].due = FALSE]
           \/ "db" \in Faults /\ UNCHANGED msg
    /\ busy' = [busy EXCEPT ![g] = NoEvent]
    /\ UNCHANGED <<page, mapped, inbox, up, loop, jobs>>

-----------------------------------------------------------------------------
(* The process and the clock.                                              *)

Crash ==
    /\ "crash" \in Faults /\ up
    /\ up' = FALSE
    /\ loop' = Connecting(0)
    /\ jobs' = [g \in Groups |-> <<>>]
    /\ busy' = [g \in Groups |-> NoEvent]
    /\ UNCHANGED <<page, mapped, inbox, msg>>

(* Slip: claimed rows are not given back.                                  *)
LeftClaimed(row) == row

Recovered(row) == IF row.state = "processing" THEN [row EXCEPT !.state = "retry", !.due = TRUE]
                                              ELSE row

(* Slip: messages in processing are not given back.                        *)
RestartKeepsProcessing ==
    /\ ~up /\ up' = TRUE
    /\ inbox' = [e \in Events |-> Recovered(inbox[e])]
    /\ UNCHANGED <<page, mapped, msg, loop, jobs, busy>>

(* Database::prepare.  Messages that were never acknowledged and are older *)
(* than 15 minutes are archived as ignored.                                *)
Restart ==
    /\ ~up /\ up' = TRUE
    /\ inbox' = [e \in Events |-> Recovered(inbox[e])]
    /\ \E old \in SUBSET {e \in Messages : ~msg[e].acked /\ msg[e].state = "pending"} :
          /\ old # {} => "old" \in Faults
          /\ msg' = [e \in Messages |->
                       IF e \in old THEN [msg[e] EXCEPT !.state = "ignored"]
                       ELSE IF msg[e].state = "processing"
                            THEN [msg[e] EXCEPT !.state = "pending", !.due = TRUE] ELSE msg[e]]
    /\ UNCHANGED <<page, mapped, loop, jobs, busy>>

BecomeDue(e) ==
    /\ \/ /\ inbox[e].state = "retry" /\ ~inbox[e].due
          /\ inbox' = [inbox EXCEPT ![e].due = TRUE] /\ UNCHANGED msg
       \/ /\ e \in Messages /\ msg[e].state = "retry" /\ ~msg[e].due
          /\ msg' = [msg EXCEPT ![e].due = TRUE] /\ UNCHANGED inbox
    /\ UNCHANGED <<page, mapped, up, loop, jobs, busy>>

LoopStep ==
    \/ Connect \/ TakeItem \/ AckItem \/ CommitItem
    \/ ReadFails \/ ReadBatch \/ ApplyMembers \/ AckBatch \/ CommitBatch

Next ==
    \/ \E e \in Events : Emit(e) \/ MapGroup(e) \/ BecomeDue(e)
    \/ Reload \/ Scan \/ SkipScan \/ LoopStep
    \/ \E g \in Groups : StartJob(g) \/ FinishJob(g)
    \/ Crash \/ Restart

Spec == Init /\ [][Next]_vars

(* The tasks of a running process go on, every two seconds a scan is due,  *)
(* and a process that ended is started again.                              *)
Fairness ==
    /\ WF_vars(LoopStep) /\ WF_vars(SkipScan) /\ SF_vars(Scan)
    /\ WF_vars(Restart)
    /\ \A g \in Groups : WF_vars(StartJob(g)) /\ WF_vars(FinishJob(g))
    /\ \A e \in Events : WF_vars(BecomeDue(e))

FairSpec == Spec /\ Fairness

-----------------------------------------------------------------------------
RowStates == {"pending", "retry", "processing", "processed", "failed"}

TypeOK ==
    /\ page.installed \in BOOLEAN /\ page.dropped \in BOOLEAN
    /\ page.session \in 0..MaxSessions
    /\ page.seen \subseteq Events /\ Queued \subseteq page.seen
    /\ Len(page.queue) <= QueueLimit
    /\ \A i \in DOMAIN page.queue : page.queue[i].seq < page.nextSeq
    /\ mapped \subseteq Messages
    /\ \A e \in Events : /\ inbox[e].state \in RowStates \cup {"absent"}
                         /\ inbox[e].session \in 0..MaxSessions
                         /\ inbox[e].attempts \in 0..MaxAttempts
    /\ \A e \in Messages : /\ msg[e].state \in RowStates \cup {"absent", "ignored"}
                           /\ msg[e].attempts \in 0..MaxAttempts
    /\ up \in BOOLEAN
    /\ loop.item \in Events \cup {NoEvent} /\ loop.ackable \subseteq Events
    /\ \A g \in Groups : /\ Len(jobs[g]) <= ChannelLimit
                         /\ busy[g] \in Messages \cup {NoEvent}

(* No message is processed before its acknowledgement at the source has    *)
(* been committed: an unacknowledged one may be heard again, and only the  *)
(* acknowledged ones are offered to the workers (list_pending_messages,    *)
(* commit_gateway_ack).                                                    *)
ProcessingFollowsAck ==
    \A e \in Messages :
        msg[e].state \in {"processing", "retry", "processed", "failed"} => msg[e].acked

(* An inbox row of a message that counts as processed has its message row, *)
(* and that row is offered to the workers or past them: no crash between   *)
(* acknowledgement and commit closes the row and forgets the message       *)
(* (commit_gateway_ack, claim_gateway_inbox).                              *)
ClosedRowsAreHandedOver ==
    \A e \in Messages : inbox[e].state = "processed" =>
        msg[e].acked \/ msg[e].state = "ignored"

(* A message passes from the gateway's inbox to the workers as a whole,    *)
(* whatever step a crash comes between: never handed over before its       *)
(* acknowledgement counts, never closed without being handed over.         *)
HandoverIsWhole == ProcessingFollowsAck /\ ClosedRowsAreHandedOver

(* What an acknowledgement makes the page forget has been stored: a mapped *)
(* message with its message row, a member event once it has been applied.  *)
(* Nothing behind a record that must be kept is acknowledged               *)
(* (contiguous_ack_sequence, claim_gateway_inbox; TECHNICAL-DESIGN.md:     *)
(* "only the contiguous persisted prefix is acknowledged").                *)
Kept(e) ==
    /\ inbox[e].state # "absent"
    /\ e \in Messages => msg[e].state # "absent"
    /\ e \in Members  => inbox[e].state = "processed"

DiscardsOnlyWhatIsKept ==
    [][page'.installed /\ page'.nextSeq = page.nextSeq =>
        \A e \in Queued \ Queued' : Kept(e)]_vars

(* Between the page and the workers nothing is lost: what the page forgets  *)
(* has been stored, and what was stored is handed over.                     *)
IntakeLosesNothing == [][HandoverIsWhole']_vars /\ DiscardsOnlyWhatIsKept

(* If the process stays up from some moment on and every group becomes     *)
(* known, no message stays on its way for ever: it leaves the page, because *)
(* it was stored or because the page dropped it (read_batch,               *)
(* ingest_gateway_batch), a stored one is acknowledged and handed to the   *)
(* workers (claim_gateway_inbox, commit_gateway_ack), and the loop offers  *)
(* it again until a worker has processed it or given up.  What is stored   *)
(* and no longer in the page rests on its inbox row: a row whose attempts  *)
(* are used up holds it back and those behind it (prior.state in           *)
(* claim_gateway_inbox).                                                   *)
Steady == <>[]up /\ <>(mapped = Messages)

HeldBack(e) ==
    \E d \in Events : /\ inbox[d].state = "failed" /\ inbox[d].session = inbox[e].session
                      /\ inbox[d].seq <= inbox[e].seq

Settled(e) ==
    /\ e \notin Queued
    /\ inbox[e].state # "absent" =>
         msg[e].state \in {"processed", "failed", "ignored"} \/ (~msg[e].acked /\ HeldBack(e))

HeardMessagesSettle == Steady => <>[](\A e \in Messages : Settled(e))
=============================================================================
