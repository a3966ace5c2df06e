------------------------- MODULE GatewayInboxProofs -------------------------
(***************************************************************************)
(* Safety of GatewayInbox for any events, groups, limits and faults: a     *)
(* message passes from the page to the workers as a whole. The constants   *)
(* are those the start of the specification asks for (KindsAreApart).      *)
(***************************************************************************)
EXTENDS GatewayInbox, WellFoundedInduction, SequenceTheorems, FiniteSetTheorems, TLAPS

(* What the page, the tables and the loop hold.                            *)
Records == [event : Events, seq : Nat]
Pages == [installed : BOOLEAN, session : Nat, queue : Seq(Records), nextSeq : Nat,
          seen : SUBSET Events, dropped : BOOLEAN]
InboxRows == [state : RowStates \cup {"absent"}, session : Nat, seq : Nat, attempts : Nat,
              due : BOOLEAN]
MessageRows == [state : RowStates \cup {"absent", "ignored"}, acked : BOOLEAN, seq : Nat,
                attempts : Nat, due : BOOLEAN]

WithItem == {"claimed", "ack item", "commit item"}
WithBatch == {"members", "ack", "commit"}
Loops == [at : {"connect", "top", "read"} \cup WithItem \cup WithBatch, epoch : Nat, session : Nat,
          lastAck : Nat, batch : Seq(Records), ackable : SUBSET Events, item : Events \cup {NoEvent}]

TableTypes == inbox \in [Events -> InboxRows] /\ msg \in [Messages -> MessageRows]
WorkTypes == jobs \in [Groups -> Seq(Messages)] /\ busy \in [Groups -> Messages \cup {NoEvent}]
(* The types of the variables; the constants stay what the start asks of   *)
(* them.                                                                   *)
Types ==
    /\ KindsAreApart /\ page \in Pages /\ mapped \subseteq Messages /\ up \in BOOLEAN
    /\ loop \in Loops /\ TableTypes /\ WorkTypes

(* The queue in the page is a run of the listener's numbers that ends with *)
(* the last, and holds no event twice.                                     *)
QueueStands ==
    /\ ~page.installed => page.queue = <<>>
    /\ \A i \in DOMAIN page.queue :
          /\ page.queue[i].seq = page.nextSeq - Len(page.queue) + i - 1
          /\ page.queue[i].event \in page.seen
    /\ \A i, j \in DOMAIN page.queue : page.queue[i].event = page.queue[j].event => i = j

(* An event that the inbox has a row for.                                  *)
Known(e) == inbox[e].state # "absent"

(* A row bears the session and the number of its record, which no other    *)
(* row has.                                                                *)
RowsStand ==
    /\ \A e \in Events : Known(e) =>
          /\ inbox[e].session <= page.session
          /\ page.installed /\ inbox[e].session = page.session => inbox[e].seq < page.nextSeq
    /\ \A d, e \in Events : /\ Known(d) /\ Known(e)
                            /\ inbox[d].session = inbox[e].session /\ inbox[d].seq = inbox[e].seq
                            => d = e

(* A record in the queue is the one its row tells of; if a later one is    *)
(* stored, it is too.                                                      *)
RecordsStand ==
    \A i \in DOMAIN page.queue :
        LET d == page.queue[i].event
        IN  /\ Known(d) => inbox[d].session = page.session /\ inbox[d].seq = page.queue[i].seq
            /\ \A e \in Events : /\ Known(e) /\ inbox[e].session = page.session
                                 /\ page.queue[i].seq <= inbox[e].seq
                                 => Known(d)

(* The row in hand lies behind closed rows of its session alone; before    *)
(* its acknowledgement a message has its own row.                          *)
ItemStands ==
    loop.at \in WithItem =>
        /\ loop.item \in Events /\ Known(loop.item)
        /\ \A d \in Events : /\ Known(d) /\ inbox[d].session = inbox[loop.item].session
                             /\ inbox[d].seq < inbox[loop.item].seq
                             => inbox[d].state = "processed"
        /\ loop.at # "claimed" => /\ loop.item \notin Members
                                  /\ loop.item \in Messages => msg[loop.item].state # "absent"

(* What may be acknowledged of the batch is kept; what lies in the queue   *)
(* up to a record of the batch is in the batch.                            *)
BatchStands ==
    loop.at \in WithBatch =>
        /\ \A i \in DOMAIN loop.batch : Known(loop.batch[i].event)
        /\ \A e \in loop.ackable : Kept(e)
        /\ page.installed /\ page.session = loop.session =>
              \A j \in DOMAIN loop.batch :
                  /\ loop.batch[j].seq < page.nextSeq
                  /\ \A i \in DOMAIN page.queue : page.queue[i].seq <= loop.batch[j].seq =>
                        \E k \in 1..j : loop.batch[k] = page.queue[i]

(* What waits for a worker, or is with one, is acknowledged.               *)
MessagesStand ==
    /\ \A e \in Messages : msg[e].acked => msg[e].state # "absent"
    /\ \A g \in Groups : \A i \in DOMAIN jobs[g] : msg[jobs[g][i]].acked
    /\ \A g \in Groups : busy[g] # NoEvent => msg[busy[g]].acked
    /\ HandoverIsWhole

(* The inductive invariant. Where old events may be heard again, a number  *)
(* tells no record.                                                        *)
IInv ==
    /\ Types /\ (~up => loop.at = "connect")
    /\ QueueStands /\ ItemStands /\ BatchStands /\ MessagesStand
    /\ "redeliver" \notin Faults => RowsStand /\ RecordsStand

-----------------------------------------------------------------------------
(* Numbers, sequences and the operators on them.                           *)

(* A set of numbers has a least one.                                       *)
LEMMA Least ==
  ASSUME NEW T, T \subseteq Nat, T # {}
  PROVE  \E m \in T : \A k \in T : m <= k
  <1>1. PICK m \in T : \A y \in T : ~ (<<y, m>> \in OpToRel(<, Nat))
    BY NatLessThanWellFounded, WFMin
  <1>2. \A y \in T : ~(y < m)
    <2> SUFFICES ASSUME NEW y \in T, y < m PROVE FALSE
      OBVIOUS
    <2>1. <<y, m>> \in OpToRel(<, Nat)
      BY DEF OpToRel
    <2> QED
      BY <1>1, <2>1
  <1> QED
    BY <1>2

(* A sequence without its first elements,                                  *)
LEMMA Suffix ==
  ASSUME NEW R, NEW s \in Seq(R), NEW n \in 0..Len(s)
  PROVE  /\ SubSeq(s, n + 1, Len(s)) \in Seq(R)
         /\ Len(SubSeq(s, n + 1, Len(s))) = Len(s) - n
         /\ DOMAIN SubSeq(s, n + 1, Len(s)) = 1..(Len(s) - n)
         /\ \A i \in 1..(Len(s) - n) : SubSeq(s, n + 1, Len(s))[i] = s[n + i]
         /\ Len(s) \in Nat /\ DOMAIN s = 1..Len(s)
  OBVIOUS

(* without its last,                                                       *)
LEMMA Prefix ==
  ASSUME NEW R, NEW s \in Seq(R), NEW n \in 0..Len(s)
  PROVE  /\ SubSeq(s, 1, n) \in Seq(R)
         /\ Len(SubSeq(s, 1, n)) = n
         /\ DOMAIN SubSeq(s, 1, n) = 1..n
         /\ \A i \in 1..n : SubSeq(s, 1, n)[i] = s[i]
         /\ Len(s) \in Nat /\ DOMAIN s = 1..Len(s)
  OBVIOUS

(* and with one more.                                                      *)
LEMMA Pushed ==
  ASSUME NEW R, NEW s \in Seq(R), NEW r \in R
  PROVE  /\ Append(s, r) \in Seq(R) /\ Len(Append(s, r)) = Len(s) + 1
         /\ DOMAIN Append(s, r) = 1..(Len(s) + 1)
         /\ \A i \in 1..Len(s) : Append(s, r)[i] = s[i]
         /\ Append(s, r)[Len(s) + 1] = r
         /\ Tail(Append(s, r)) = SubSeq(Append(s, r), 2, Len(Append(s, r)))
         /\ Len(s) \in Nat /\ DOMAIN s = 1..Len(s)
  <1>1. /\ Append(s, r) \in Seq(R) /\ Len(Append(s, r)) = Len(s) + 1
        /\ DOMAIN Append(s, r) = 1..(Len(s) + 1)
        /\ \A i \in 1..Len(s) : Append(s, r)[i] = s[i]
        /\ Append(s, r)[Len(s) + 1] = r
        /\ Len(s) \in Nat /\ DOMAIN s = 1..Len(s)
    OBVIOUS
  <1>2. ASSUME NEW t \in Seq(R), t # <<>> PROVE Tail(t) = SubSeq(t, 2, Len(t))
    BY <1>2
  <1>3. Append(s, r) # <<>>
    BY <1>1
  <1> QED
    BY <1>1, <1>2, <1>3

(* What is acknowledged of a batch is a prefix of it                       *)
(* (contiguous_ack_sequence).                                              *)
LEMMA AckPrefixIs ==
  ASSUME loop \in Loops
  PROVE  \E n \in 0..Len(loop.batch) :
            /\ AckPrefix = SubSeq(loop.batch, 1, n)
            /\ \A i \in 1..n : loop.batch[i].event \in loop.ackable
  <1> DEFINE b == loop.batch
             P(n) == /\ \A i \in 1..n : b[i].event \in loop.ackable
                     /\ n < Len(b) => b[n + 1].event \notin loop.ackable
             T == {n \in 0..Len(b) : n < Len(b) => b[n + 1].event \notin loop.ackable}
  <1>1. Len(b) \in Nat
    BY DEF Loops
  <1>2. T \subseteq Nat /\ Len(b) \in T
    BY <1>1
  <1>3. PICK m \in T : \A k \in T : m <= k
    BY <1>2, Least
  <1>4. ASSUME NEW i \in 1..m PROVE b[i].event \in loop.ackable
    <2>1. i - 1 \in 0..Len(b) /\ i - 1 < m /\ i - 1 < Len(b) /\ (i - 1) + 1 = i
      BY <1>1, <1>2
    <2>2. i - 1 \notin T
      BY <1>2, <1>3, <2>1
    <2> QED
      BY <2>1, <2>2
  <1>5. m \in 0..Len(b) /\ P(m)
    BY <1>4
  <1> DEFINE n == CHOOSE n \in 0..Len(b) : P(n)
  <1>6. n \in 0..Len(b) /\ P(n)
    BY <1>5
  <1>7. AckPrefix = SubSeq(b, 1, n)
    BY DEF AckPrefix
  <1> HIDE DEF n
  <1> QED
    BY <1>6, <1>7

(* An acknowledgement takes off the head of the queue.                     *)
LEMMA DiscardedIs ==
  ASSUME page \in Pages, QueueStands, NEW session, NEW q \in Nat
  PROVE  \/ Discarded(session, q) = page
         \/ /\ page.installed /\ page.session = session
            /\ \E n \in 0..Len(page.queue) :
                  /\ Discarded(session, q)
                        = [page EXCEPT !.queue = SubSeq(page.queue, n + 1, Len(page.queue))]
                  /\ \A i \in DOMAIN page.queue : page.queue[i].seq > q <=> i > n
  <1> DEFINE s == page.queue
             f == page.nextSeq - Len(s)
             P(n) == \A i \in DOMAIN s : s[i].seq > q <=> i > n
             k == IF q < f THEN 0 ELSE IF q - f + 1 > Len(s) THEN Len(s) ELSE q - f + 1
             n == CHOOSE n \in 0..Len(s) : P(n)
  <1>1. Len(s) \in Nat /\ DOMAIN s = 1..Len(s) /\ page.nextSeq \in Nat
    BY DEF Pages
  <1>2. \A i \in DOMAIN s : s[i].seq = f + i - 1
    BY <1>1 DEF QueueStands
  <1>3. k \in 0..Len(s)
    BY <1>1
  <1>4. P(k)
    <2>1. PICK l \in Nat, x \in Int : l = Len(s) /\ x = f
      <3>1. f \in Int
        BY <1>1
      <3> QED
        BY <1>1, <3>1
    <2>2. \A i \in 1..l : s[i].seq = x + i - 1
      BY <1>1, <1>2, <2>1
    <2>3. CASE q < x
      <3>1. k = 0 /\ \A i \in 1..l : x + i - 1 > q <=> i > 0
        BY <2>1, <2>3
      <3> QED
        BY <1>1, <2>1, <2>2, <3>1
    <2>4. CASE q - x + 1 > l /\ ~(q < x)
      <3>1. k = l /\ \A i \in 1..l : x + i - 1 > q <=> i > l
        BY <2>1, <2>4
      <3> QED
        BY <1>1, <2>1, <2>2, <3>1
    <2>5. CASE ~(q - x + 1 > l) /\ ~(q < x)
      <3>1. k = q - x + 1 /\ \A i \in 1..l : x + i - 1 > q <=> i > q - x + 1
        BY <2>1, <2>5
      <3> QED
        BY <1>1, <2>1, <2>2, <3>1
    <2> QED
      BY <2>3, <2>4, <2>5
  <1>5. n \in 0..Len(s) /\ P(n)
    BY <1>3, <1>4
  <1>6. Discarded(session, q) = IF page.installed /\ page.session = session
                                THEN [page EXCEPT !.queue = SubSeq(s, n + 1, Len(s))] ELSE page
    BY DEF Discarded
  <1> HIDE DEF n
  <1> QED
    BY <1>5, <1>6

(* A channel gets its jobs from those that are offered.                    *)
LEMMA EnqueueIs ==
  ASSUME ChannelLimit \in Nat, NEW S \in SUBSET Messages, NEW lists \in [Groups -> Seq(S)],
         NEW channels \in [Groups -> Seq(Messages)]
  PROVE  /\ Enqueue(channels, lists) \in [Groups -> Seq(Messages)]
         /\ \A g \in Groups : \A i \in DOMAIN Enqueue(channels, lists)[g] :
               \/ Enqueue(channels, lists)[g][i] \in S
               \/ \E k \in DOMAIN channels[g] : Enqueue(channels, lists)[g][i] = channels[g][k]
  <1> SUFFICES ASSUME NEW g \in Groups
               PROVE  /\ Enqueue(channels, lists)[g] \in Seq(Messages)
                      /\ \A i \in DOMAIN Enqueue(channels, lists)[g] :
                            \/ Enqueue(channels, lists)[g][i] \in S
                            \/ \E k \in DOMAIN channels[g] :
                                  Enqueue(channels, lists)[g][i] = channels[g][k]
    BY DEF Enqueue
  <1>1. PICK c \in Seq(Messages), l \in Seq(S) : c = channels[g] /\ l = lists[g]
    OBVIOUS
  <1> DEFINE all == c \o l
             n == IF Len(all) < ChannelLimit THEN Len(all) ELSE ChannelLimit
  <1>2. /\ all \in Seq(Messages) /\ DOMAIN all = 1..(Len(c) + Len(l)) /\ Len(all) \in Nat
        /\ \A i \in 1..Len(c) : all[i] = c[i]
        /\ \A i \in (Len(c) + 1)..(Len(c) + Len(l)) : all[i] = l[i - Len(c)]
        /\ Len(c) \in Nat /\ Len(l) \in Nat /\ Len(all) = Len(c) + Len(l)
        /\ DOMAIN c = 1..Len(c) /\ DOMAIN l = 1..Len(l) /\ \A i \in 1..Len(l) : l[i] \in S
    <2>1. l \in Seq(Messages)
      OBVIOUS
    <2> QED
      BY <2>1
  <1>3. Enqueue(channels, lists)[g] = SubSeq(all, 1, n) /\ n \in 0..Len(all)
    BY <1>1, <1>2 DEF Enqueue
  <1> HIDE DEF n
  <1>4. /\ SubSeq(all, 1, n) \in Seq(Messages)
        /\ DOMAIN SubSeq(all, 1, n) = 1..n
        /\ \A i \in 1..n : SubSeq(all, 1, n)[i] = all[i]
    BY <1>2, <1>3, Prefix
  <1>5. ASSUME NEW i \in 1..n PROVE all[i] \in S \/ \E k \in DOMAIN c : all[i] = c[k]
    <2>1. CASE i \in 1..Len(c)
      BY <1>2, <2>1
    <2>2. CASE i \in (Len(c) + 1)..(Len(c) + Len(l))
      <3>1. i - Len(c) \in 1..Len(l)
        BY <1>2, <2>2
      <3> QED
        BY <1>2, <2>2, <3>1
    <2> QED
      BY <1>2, <1>3, <2>1, <2>2
  <1> QED
    BY <1>1, <1>3, <1>4, <1>5

(* A list of a set's elements is a sequence of them.                       *)
LEMMA ListsAre ==
  ASSUME NEW S \in SUBSET Messages
  PROVE  \A f \in UNION {[1..n -> S] : n \in 0..Cardinality(S)} : f \in Seq(S)
  OBVIOUS

(* Only acknowledged messages are offered again (list_pending_messages).   *)
LEMMA PendingAre ==
  ASSUME NEW lists \in Pending
  PROVE  lists \in [Groups -> Seq({e \in Messages : msg[e].acked})]
  <1> DEFINE S == {e \in Messages : msg[e].acked /\ msg[e].due /\ msg[e].state \in {"pending", "retry"}}
  <1>1. lists \in [Groups -> UNION {[1..n -> S] : n \in 0..Cardinality(S)}]
    BY DEF Pending, Lists
  <1>2. lists \in [Groups -> Seq(S)]
    BY <1>1, ListsAre
  <1>3. \A f \in Seq(S) : f \in Seq({e \in Messages : msg[e].acked})
    OBVIOUS
  <1> QED
    BY <1>2, <1>3

-----------------------------------------------------------------------------
(* The page.                                                               *)

(* The constants do not change.                                            *)
LEMMA Constant == Types => KindsAreApart /\ KindsAreApart'
  BY DEF Types, KindsAreApart, Messages

(* What an acknowledgement of the batch does.                              *)
LEMMA AckBatchIs ==
  ASSUME loop \in Loops, AckBatch
  PROVE  \E n \in 0..Len(loop.batch) :
            /\ \A i \in 1..n : loop.batch[i].event \in loop.ackable
            /\ n > 0 => loop.batch[n] \in Records
            /\ page' = page \/ (n > 0 /\ page' = Discarded(loop.session, loop.batch[n].seq))
            /\ \/ loop' = NextRound(loop)
               \/ n > 0 /\ loop' = [loop EXCEPT !.at = "commit", !.lastAck = loop.batch[n].seq]
  <1>1. PICK n \in 0..Len(loop.batch) :
            /\ AckPrefix = SubSeq(loop.batch, 1, n)
            /\ \A i \in 1..n : loop.batch[i].event \in loop.ackable
    BY AckPrefixIs
  <1>2. loop.batch \in Seq(Records)
    BY DEF Loops
  <1>3. /\ AckPrefix \in Seq(Records) /\ Len(AckPrefix) = n /\ \A i \in 1..n : AckPrefix[i] = loop.batch[i]
        /\ Len(loop.batch) \in Nat
    BY <1>1, <1>2, Prefix
  <1>4. CASE n = 0
    <2>1. AckPrefix = <<>>
      BY <1>3, <1>4
    <2> QED
      BY <1>1, <1>4, <2>1 DEF AckBatch
  <1>5. CASE n > 0
    <2>1. AckPrefix # <<>> /\ Last(AckPrefix) = loop.batch[n] /\ loop.batch[n] \in Records
      BY <1>2, <1>3, <1>5 DEF Last
    <2>2. n \in 1..n
      BY <1>5
    <2> DEFINE q == loop.batch[n].seq
    <2>3. /\ page' = page \/ page' = Discarded(loop.session, q)
          /\ loop' = NextRound(loop) \/ loop' = [loop EXCEPT !.at = "commit", !.lastAck = q]
      BY <2>1 DEF AckBatch
    <2> QED
      BY <1>1, <1>5, <2>1, <2>3
  <1>6. n = 0 \/ n > 0
    BY <1>3
  <1> QED
    BY <1>4, <1>5, <1>6

(* The head of the queue is taken off.                                     *)
DiscardsSome ==
    /\ page.installed
    /\ \E n \in 0..Len(page.queue) :
          page' = [page EXCEPT !.queue = SubSeq(page.queue, n + 1, Len(page.queue))]

(* The steps that change the page.                                         *)
LEMMA PageMoves ==
  ASSUME Types, QueueStands, ItemStands, [Next]_vars
  PROVE  \/ UNCHANGED page
         \/ Reload
         \/ Connect /\ ~page.installed /\ page' = Fresh(page.session + 1)
         \/ \E e \in Events : Emit(e)
         \/ DiscardsSome
  <1>1. page \in Pages /\ loop \in Loops /\ inbox \in [Events -> InboxRows]
    BY DEF Types, TableTypes
  <1>2. ASSUME AckItem PROVE UNCHANGED page \/ DiscardsSome
    <2>1. PICK r : r = inbox[loop.item]
      OBVIOUS
    <2>2. page' = page \/ page' = Discarded(r.session, r.seq)
      BY <1>2, <2>1 DEF AckItem
    <2>3. loop.item \in Events => r.seq \in Nat
      BY <1>1, <2>1 DEF InboxRows
    <2>4. loop.item \in Events
      BY <1>2 DEF AckItem, ItemStands, WithItem, At
    <2> QED
      BY <1>1, <2>2, <2>3, <2>4, DiscardedIs DEF DiscardsSome
  <1>3. ASSUME AckBatch PROVE UNCHANGED page \/ DiscardsSome
    <2>1. PICK n \in 0..Len(loop.batch) :
             /\ n > 0 => loop.batch[n] \in Records
             /\ page' = page \/ (n > 0 /\ page' = Discarded(loop.session, loop.batch[n].seq))
      BY <1>1, <1>3, AckBatchIs
    <2>2. CASE n > 0 /\ page' = Discarded(loop.session, loop.batch[n].seq)
      <3>0. PICK s : s = loop.session
        OBVIOUS
      <3>1. PICK q \in Nat : q = loop.batch[n].seq
        BY <2>1, <2>2 DEF Records
      <3>2. page' = Discarded(s, q)
        BY <2>2, <3>0, <3>1
      <3>3. QueueStands
        OBVIOUS
      <3> QED
        BY <1>1, <3>2, <3>3, DiscardedIs DEF DiscardsSome
    <2> QED
      BY <2>1, <2>2
  <1>4. ASSUME Connect PROVE UNCHANGED page \/ (~page.installed /\ page' = Fresh(page.session + 1))
    BY <1>4 DEF Connect, Listener
  <1>5. CASE UNCHANGED vars \/ Scan \/ SkipScan \/ TakeItem \/ CommitItem \/ ReadFails \/ ReadBatch
             \/ ApplyMembers \/ CommitBatch \/ Crash \/ Restart
    BY <1>5 DEF vars, Scan, SkipScan, TakeItem, CommitItem, ReadFails, ReadBatch, ApplyMembers, CommitBatch, Crash, Restart
  <1>6. ASSUME NEW e \in Events, MapGroup(e) \/ BecomeDue(e) PROVE UNCHANGED page
    BY <1>6 DEF MapGroup, BecomeDue
  <1>7. ASSUME NEW g \in Groups, StartJob(g) \/ FinishJob(g) PROVE UNCHANGED page
    BY <1>7 DEF StartJob, FinishJob
  <1> QED
    BY <1>2, <1>3, <1>4, <1>5, <1>6, <1>7 DEF Next, LoopStep

(* What the listener hears.                                                *)
LEMMA EmitIs ==
  ASSUME page \in Pages, NEW e \in Events, Emit(e)
  PROVE  /\ page.installed /\ e \notin page.seen
         /\ inbox[e].state # "absent" => "redeliver" \in Faults
         /\ UNCHANGED <<mapped, inbox, msg, up, loop, jobs, busy>>
         /\ \E t \in Seq(Records) : \E n \in {0, 1} : \E d \in BOOLEAN :
               /\ t = Append(page.queue, [event |-> e, seq |-> page.nextSeq])
               /\ page' = [page EXCEPT !.queue = SubSeq(t, n + 1, Len(t)), !.nextSeq = page.nextSeq + 1,
                                       !.seen = page.seen \cup {e}, !.dropped = d]
  <1>1. page.queue \in Seq(Records) /\ page.nextSeq \in Nat /\ page.dropped \in BOOLEAN
    BY DEF Pages
  <1>2. PICK r \in Records : r = [event |-> e, seq |-> page.nextSeq]
    BY <1>1 DEF Records
  <1>3. PICK t \in Seq(Records) : t = Append(page.queue, r)
    BY <1>1, Pushed
  <1>4. Tail(t) = SubSeq(t, 1 + 1, Len(t)) /\ SubSeq(t, 0 + 1, Len(t)) = t
    BY <1>1, <1>3, Pushed
  <1>5. \E d \in BOOLEAN :
           page' = [page EXCEPT !.queue = SubSeq(t, 1 + 1, Len(t)), !.nextSeq = page.nextSeq + 1,
                                !.seen = page.seen \cup {e}, !.dropped = d]
        \/ page' = [page EXCEPT !.queue = SubSeq(t, 0 + 1, Len(t)), !.nextSeq = page.nextSeq + 1,
                                !.seen = page.seen \cup {e}, !.dropped = d]
    <2>1. CASE Len(t) > QueueLimit
      <3>1. page' = [page EXCEPT !.queue = Tail(t), !.nextSeq = page.nextSeq + 1,
                                 !.seen = page.seen \cup {e}, !.dropped = TRUE]
        BY <1>2, <1>3, <2>1 DEF Emit
      <3> QED
        BY <1>4, <3>1
    <2>2. CASE ~(Len(t) > QueueLimit)
      <3>1. page' = [page EXCEPT !.queue = t, !.nextSeq = page.nextSeq + 1,
                                 !.seen = page.seen \cup {e}, !.dropped = page.dropped]
        BY <1>1, <1>2, <1>3, <2>2 DEF Emit
      <3> QED
        BY <1>1, <1>4, <3>1
    <2> QED
      BY <2>1, <2>2
  <1>9. page.installed /\ e \notin page.seen /\ (inbox[e].state # "absent" => "redeliver" \in Faults)
        /\ UNCHANGED <<mapped, inbox, msg, up, loop, jobs, busy>>
    BY DEF Emit
  <1> QED
    BY <1>2, <1>3, <1>5, <1>9

(* The type of the page.                                                   *)
LEMMA PageTypes ==
  ASSUME Types, QueueStands, ItemStands, [Next]_vars
  PROVE  page' \in Pages
  <1>1. page \in Pages
    BY DEF Types
  <1>2. CASE Reload \/ (Connect /\ ~page.installed /\ page' = Fresh(page.session + 1))
    <2>1. <<>> \in Seq(Records)
      OBVIOUS
    <2>2. page.session \in Nat /\ page.session + 1 \in Nat
      BY <1>1 DEF Pages
    <2>3. \E s \in Nat, in \in BOOLEAN :
             page' = [installed |-> in, session |-> s, queue |-> <<>>, nextSeq |-> 1, seen |-> {}, dropped |-> FALSE]
      BY <1>2, <2>2 DEF Reload, Fresh
    <2> QED
      BY <2>1, <2>3 DEF Pages
  <1>3. ASSUME NEW e \in Events, Emit(e) PROVE page' \in Pages
    <2>1. PICK t \in Seq(Records), n \in {0, 1}, d \in BOOLEAN :
               /\ t = Append(page.queue, [event |-> e, seq |-> page.nextSeq])
               /\ page' = [page EXCEPT !.queue = SubSeq(t, n + 1, Len(t)), !.nextSeq = page.nextSeq + 1,
                                       !.seen = page.seen \cup {e}, !.dropped = d]
      BY <1>1, <1>3, EmitIs
    <2>2. SubSeq(t, n + 1, Len(t)) \in Seq(Records)
      OBVIOUS
    <2>3. PICK q \in Seq(Records) : q = SubSeq(t, n + 1, Len(t))
      BY <2>2
    <2>6. page.nextSeq + 1 \in Nat /\ page.seen \cup {e} \in SUBSET Events
      BY <1>1 DEF Pages
    <2>4. PICK k \in Nat, se \in SUBSET Events : k = page.nextSeq + 1 /\ se = page.seen \cup {e}
      BY <2>6
    <2>5. page' = [page EXCEPT !.queue = q, !.nextSeq = k, !.seen = se, !.dropped = d]
      BY <2>1, <2>3, <2>4
    <2> QED
      BY <1>1, <2>5 DEF Pages
  <1>4. CASE DiscardsSome
    <2>1. PICK n \in 0..Len(page.queue) :
             page' = [page EXCEPT !.queue = SubSeq(page.queue, n + 1, Len(page.queue))]
      BY <1>4 DEF DiscardsSome
    <2>2. page.queue \in Seq(Records)
      BY <1>1 DEF Pages
    <2>3. PICK q \in Seq(Records) : q = SubSeq(page.queue, n + 1, Len(page.queue))
      BY <2>2, Suffix
    <2> QED
      BY <1>1, <2>1, <2>3 DEF Pages
  <1> QED
    BY <1>1, <1>2, <1>3, <1>4, PageMoves

-----------------------------------------------------------------------------
(* The rows of the inbox.                                                  *)

(* How a row of the inbox may change: it stays, keeps its record, and once *)
(* closed it stays closed.                                                 *)
Moves(r, q) ==
    /\ q \in InboxRows /\ q.session = r.session /\ q.seq = r.seq
    /\ q.state = "absent" <=> r.state = "absent"
    /\ r.state = "processed" => q.state = "processed"

(* Every job of the database moves a row so.                               *)
LEMMA InboxRowsMove ==
  ASSUME MaxAttempts \in Nat, NEW r \in InboxRows
  PROVE  /\ Moves(r, r) /\ Moves(r, Postponed(r)) /\ Moves(r, Recovered(r))
         /\ Moves(r, [r EXCEPT !.due = TRUE])
         /\ r.state # "absent" => Moves(r, [r EXCEPT !.state = "processed", !.due = TRUE])
         /\ r.state \in {"pending", "retry"} =>
               Moves(r, [r EXCEPT !.state = "processing", !.attempts = OneMore(@)])
  <1>1. Moves(r, r) /\ Moves(r, Recovered(r)) /\ Moves(r, [r EXCEPT !.due = TRUE])
    BY DEF Moves, Recovered, InboxRows, RowStates
  <1>2. ASSUME r.state # "absent" PROVE Moves(r, [r EXCEPT !.state = "processed", !.due = TRUE])
    BY <1>2 DEF Moves, InboxRows, RowStates
  <1>3. ASSUME r.state \in {"pending", "retry"}
        PROVE  Moves(r, [r EXCEPT !.state = "processing", !.attempts = OneMore(@)])
    <2>1. PICK a \in Nat : a = OneMore(r.attempts)
      BY DEF InboxRows, OneMore
    <2>2. [r EXCEPT !.state = "processing", !.attempts = OneMore(@)]
             = [r EXCEPT !.state = "processing", !.attempts = a]
      BY <2>1
    <2> QED
      BY <1>3, <2>2 DEF Moves, InboxRows, RowStates
  <1>4. Moves(r, Postponed(r))
    <2>1. CASE r.state # "processing"
      BY <1>1, <2>1 DEF Postponed
    <2>2. CASE r.state = "processing"
      <3>1. \/ Postponed(r) = [r EXCEPT !.state = "failed", !.due = TRUE]
            \/ Postponed(r) = [r EXCEPT !.state = "retry", !.due = FALSE]
        <4>1. CASE r.attempts >= MaxAttempts
          BY <2>2, <4>1 DEF Postponed, Backoff
        <4>2. CASE ~(r.attempts >= MaxAttempts)
          <5>1. (r.attempts >= MaxAttempts) = FALSE
            BY <4>2 DEF InboxRows
          <5> QED
            BY <2>2, <5>1 DEF Postponed, Backoff
        <4> QED
          BY <4>1, <4>2
      <3> QED
        BY <2>2, <3>1 DEF Moves, InboxRows, RowStates
    <2> QED
      BY <2>1, <2>2
  <1> QED
    BY <1>1, <1>2, <1>3, <1>4

(* The rows move.                                                          *)
RowsMove == inbox' \in [Events -> InboxRows] /\ \A e \in Events : Moves(inbox[e], inbox'[e])

(* A bound the steps use.                                                  *)
LEMMA MaxIs == Types => MaxAttempts \in Nat
  BY DEF Types, KindsAreApart

(* The table moves if nothing,                                             *)
LEMMA RowsRest ==
  ASSUME Types, UNCHANGED inbox PROVE RowsMove
  BY InboxRowsMove, MaxIs DEF RowsMove, Types, TableTypes

(* one row,                                                                *)
LEMMA OneRowMoves ==
  ASSUME Types, NEW e \in Events, NEW q, Moves(inbox[e], q), inbox' = [inbox EXCEPT ![e] = q]
  PROVE  RowsMove
  <1>1. \A d \in Events : inbox[d] \in InboxRows /\ Moves(inbox[d], inbox[d])
    BY InboxRowsMove, MaxIs DEF Types, TableTypes
  <1>2. inbox \in [Events -> InboxRows] /\ q \in InboxRows
    BY DEF Types, TableTypes, Moves
  <1>3. \A d \in Events : inbox'[d] = IF d = e THEN q ELSE inbox[d]
    BY <1>2
  <1> QED
    BY <1>1, <1>2, <1>3 DEF RowsMove

(* or every row does,                                                      *)
LEMMA EachRowMoves ==
  ASSUME Types, NEW f, inbox' = [e \in Events |-> f[e]], \A e \in Events : Moves(inbox[e], f[e])
  PROVE  RowsMove
  BY DEF RowsMove, Moves

(* if the row in hand is postponed,                                        *)
LEMMA PostponedRowMoves ==
  ASSUME Types, loop.item \in Events, PostponeItem
  PROVE  RowsMove
  <1>1. CASE UNCHANGED inbox
    BY <1>1, RowsRest
  <1>2. CASE inbox' = [inbox EXCEPT ![loop.item] = Postponed(@)]
    <2>1. inbox[loop.item] \in InboxRows
      BY DEF Types, TableTypes
    <2>0. PICK e \in Events : e = loop.item
      OBVIOUS
    <2>2. PICK q : q = Postponed(inbox[e])
      OBVIOUS
    <2>3. Moves(inbox[e], q)
      BY <2>0, <2>1, <2>2, InboxRowsMove, MaxIs
    <2>4. inbox' = [inbox EXCEPT ![e] = q]
      BY <1>2, <2>0, <2>2
    <2> QED
      BY <2>3, <2>4, OneRowMoves
  <1> QED
    BY <1>1, <1>2 DEF PostponeItem

(* or rows are closed.                                                     *)
LEMMA ClosedRowsMove ==
  ASSUME Types, NEW E, \A e \in E : e \in Events => Known(e),
         inbox' = [e \in Events |-> IF e \in E THEN [inbox[e] EXCEPT !.state = "processed", !.due = TRUE]
                                    ELSE inbox[e]]
  PROVE  RowsMove
  <1>1. \A e \in Events : inbox[e] \in InboxRows
    BY DEF Types, TableTypes
  <1>2. \A e \in Events : Moves(inbox[e], inbox'[e])
    BY <1>1, InboxRowsMove, MaxIs DEF Known
  <1>3. inbox' \in [Events -> InboxRows]
    BY <1>2 DEF Moves
  <1> QED
    BY <1>2, <1>3 DEF RowsMove

(* What the rows of the inbox keep when no batch is stored.                *)
LEMMA InboxMoves ==
  ASSUME Types, ItemStands, BatchStands, [Next]_vars, ~ReadBatch
  PROVE  RowsMove
  <1>1. \A e \in Events : inbox[e] \in InboxRows
    BY DEF Types, TableTypes
  <1>2. ASSUME Scan PROVE RowsMove
    <2>1. ASSUME NEW e \in Events, Claimable(e),
                 inbox' = [inbox EXCEPT ![e].state = "processing", ![e].attempts = OneMore(@)]
          PROVE  RowsMove
      <3>1. PICK q : q = [inbox[e] EXCEPT !.state = "processing", !.attempts = OneMore(@)]
        OBVIOUS
      <3>2. inbox[e].state \in {"pending", "retry"}
        BY <2>1 DEF Claimable
      <3>3. Moves(inbox[e], q)
        BY <1>1, <3>1, <3>2, InboxRowsMove, MaxIs
      <3>4. inbox' = [inbox EXCEPT ![e] = q]
        BY <2>1, <3>1, <1>1 DEF InboxRows
      <3> QED
        BY <3>3, <3>4, OneRowMoves
    <2> QED
      BY <1>2, <2>1, RowsRest DEF Scan
  <1>3. ASSUME TakeItem \/ AckItem PROVE RowsMove
    <2>1. loop.item \in Events
      BY <1>3 DEF TakeItem, AckItem, At, ItemStands, WithItem
    <2> QED
      BY <1>3, <2>1, PostponedRowMoves, RowsRest DEF TakeItem, AckItem
  <1>4. ASSUME CommitItem PROVE RowsMove
    <2>1. loop.item \in Events /\ Known(loop.item)
      BY <1>4 DEF CommitItem, At, ItemStands, WithItem
    <2>2. CASE CommitAck({loop.item})
      <3>1. PICK E : E = {loop.item}
        OBVIOUS
      <3>2. \A e \in E : Known(e)
        BY <2>1, <3>1
      <3> QED
        BY <2>2, <3>1, <3>2, ClosedRowsMove DEF CommitAck
    <2> QED
      BY <1>4, <2>1, <2>2, PostponedRowMoves DEF CommitItem
  <1>5. ASSUME ApplyMembers PROVE RowsMove
    <2>1. \A e \in BatchEvents(loop.batch) : Known(e)
      BY <1>5 DEF ApplyMembers, At, BatchStands, WithBatch, BatchEvents
    <2>2. CASE MarkProcessed(BatchEvents(loop.batch) \cap Members)
      <3>1. PICK E : E = BatchEvents(loop.batch) \cap Members
        OBVIOUS
      <3>2. \A e \in E : Known(e)
        BY <2>1, <3>1
      <3> QED
        BY <2>2, <3>1, <3>2, ClosedRowsMove DEF MarkProcessed
    <2> QED
      BY <1>5, <2>2, RowsRest DEF ApplyMembers
  <1>6. ASSUME CommitBatch PROVE RowsMove
    <2>1. loop \in Loops
      BY DEF Types
    <2>2. PICK n \in 0..Len(loop.batch) :
            /\ AckPrefix = SubSeq(loop.batch, 1, n)
            /\ \A i \in 1..n : loop.batch[i].event \in loop.ackable
      BY <2>1, AckPrefixIs
    <2>3. DOMAIN AckPrefix = 1..n /\ \A i \in 1..n : AckPrefix[i] = loop.batch[i]
      BY <2>1, <2>2, Prefix DEF Loops
    <2>4. \A e \in BatchEvents(AckPrefix) : Known(e)
      <3>1. \A e \in loop.ackable : Known(e)
        BY <1>6 DEF CommitBatch, At, BatchStands, WithBatch, Kept, Known
      <3>2. \A e \in BatchEvents(AckPrefix) : \E i \in 1..n : e = loop.batch[i].event
        BY <2>3 DEF BatchEvents
      <3> QED
        BY <2>2, <3>1, <3>2
    <2>5. CASE CommitAck(BatchEvents(AckPrefix))
      <3>1. PICK E : E = BatchEvents(AckPrefix)
        OBVIOUS
      <3> QED
        BY <2>4, <2>5, <3>1, ClosedRowsMove DEF CommitAck
    <2> QED
      BY <1>6, <2>5, RowsRest DEF CommitBatch
  <1>7. ASSUME Restart PROVE RowsMove
    <2>1. inbox' = [e \in Events |-> Recovered(inbox[e])]
      BY <1>7 DEF Restart
    <2>2. \A e \in Events : Moves(inbox[e], inbox'[e])
      BY <1>1, <2>1, InboxRowsMove, MaxIs
    <2> QED
      BY <2>1, <2>2 DEF RowsMove, Moves
  <1>8. ASSUME NEW e \in Events, BecomeDue(e) PROVE RowsMove
    <2>1. CASE inbox' = [inbox EXCEPT ![e].due = TRUE]
      <3>1. PICK q : q = [inbox[e] EXCEPT !.due = TRUE]
        OBVIOUS
      <3>2. Moves(inbox[e], q) /\ inbox' = [inbox EXCEPT ![e] = q]
        BY <1>1, <2>1, <3>1, InboxRowsMove, MaxIs
      <3> QED
        BY <3>2, OneRowMoves
    <2> QED
      BY <1>8, <2>1, RowsRest DEF BecomeDue
  <1>9. CASE UNCHANGED vars \/ Reload \/ SkipScan \/ Connect \/ ReadFails \/ AckBatch \/ Crash
    BY <1>9, RowsRest DEF vars, Reload, SkipScan, Connect, ReadFails, AckBatch, Crash
  <1>10. ASSUME NEW e \in Events, Emit(e) \/ MapGroup(e) PROVE RowsMove
    BY <1>10, RowsRest DEF Emit, MapGroup
  <1>11. ASSUME NEW g \in Groups, StartJob(g) \/ FinishJob(g) PROVE RowsMove
    BY <1>11, RowsRest DEF StartJob, FinishJob
  <1> QED
    BY <1>2, <1>3, <1>4, <1>5, <1>6, <1>7, <1>8, <1>9, <1>10, <1>11 DEF Next, LoopStep

(* The number of a record, found by its event.                             *)
LEMMA SequenceIs ==
  ASSUME NEW b, \A i, j \in DOMAIN b : b[i].event = b[j].event => i = j, NEW i \in DOMAIN b
  PROVE  Sequence(b, b[i].event) = b[i].seq
  <1> DEFINE k == CHOOSE j \in DOMAIN b : b[j].event = b[i].event
  <1>1. k \in DOMAIN b /\ b[k].event = b[i].event
    OBVIOUS
  <1>2. k = i
    BY <1>1
  <1> QED
    BY <1>2 DEF Sequence

(* The row of a record that the tables do not have yet.                    *)
NewRow(e, m) ==
    /\ ~Known(e) /\ inbox'[e].state = "pending" /\ inbox'[e].session = page.session
    /\ \E i \in 1..m : e = page.queue[i].event /\ inbox'[e].seq = page.queue[i].seq

(* What a batch of the first m records stores.                             *)
Stores(m) ==
    /\ page.installed /\ m <= Len(page.queue)
    /\ inbox' \in [Events -> InboxRows]
    /\ \A e \in Events : inbox'[e] = inbox[e] \/ NewRow(e, m)
    /\ \A i \in 1..m : inbox'[page.queue[i].event].state # "absent"
    /\ loop'.at \in {"ack", "members"} /\ loop'.session = page.session
    /\ loop'.batch = SubSeq(page.queue, 1, m)
    /\ loop'.ackable = BatchEvents(loop'.batch) \cap (mapped \cup Ignorable)
    /\ \A e \in Messages : msg'[e] = msg[e] \/ msg'[e] = InsertMessage(msg[e], Sequence(loop'.batch, e))
    /\ \A e \in Messages : e \in BatchEvents(loop'.batch) \cap mapped =>
           msg'[e] = InsertMessage(msg[e], Sequence(loop'.batch, e))
    /\ \A e \in Messages : Sequence(loop'.batch, e) \in Nat \/ msg'[e] = msg[e]

(* A batch is stored as a whole or not at all (ingest_gateway_batch).      *)
LEMMA ReadIs ==
  ASSUME Types, QueueStands, ReadBatch
  PROVE  \/ UNCHANGED <<inbox, msg>> /\ loop' = [loop EXCEPT !.at = "top", !.session = page.session]
         \/ \E m \in Nat : Stores(m) /\ loop' \in Loops /\ msg' = [e \in Messages |-> msg'[e]]
  <1>1. /\ page.queue \in Seq(Records) /\ page.session \in Nat /\ loop \in Loops
        /\ inbox \in [Events -> InboxRows]
        /\ BatchLimit \in Nat /\ mapped \subseteq Events /\ Ignorable \subseteq Events
    BY DEF Types, Pages, TableTypes, KindsAreApart, Messages
  <1> DEFINE m == IF Len(page.queue) < BatchLimit THEN Len(page.queue) ELSE BatchLimit
             b == SubSeq(page.queue, 1, m)
             events == BatchEvents(b)
  <1>2. m \in Nat /\ m \in 0..Len(page.queue) /\ Len(page.queue) \in Nat /\ DOMAIN page.queue = 1..Len(page.queue)
    BY <1>1
  <1>3. NextBatch = b
    BY DEF NextBatch
  <1> HIDE DEF m
  <1>4. b \in Seq(Records) /\ DOMAIN b = 1..m /\ \A i \in 1..m : b[i] = page.queue[i]
    BY <1>1, <1>2, Prefix
  <1> HIDE DEF b
  <1>5. \A i, j \in DOMAIN b : b[i].event = b[j].event => i = j
    BY <1>2, <1>4 DEF QueueStands
  <1>6. \A i \in 1..m : Sequence(b, b[i].event) = b[i].seq /\ b[i].seq \in Nat /\ b[i].event \in Events
    <2> SUFFICES ASSUME NEW i \in 1..m
                 PROVE  Sequence(b, b[i].event) = b[i].seq /\ b[i] \in Records
      BY DEF Records
    <2>1. i \in DOMAIN b /\ b[i] \in Records
      <3>1. \A k \in 1..Len(page.queue) : page.queue[k] \in Records
        BY <1>1
      <3>2. i \in 1..Len(page.queue)
        BY <1>2
      <3> QED
        BY <1>4, <3>1, <3>2
    <2> QED
      BY <1>5, <2>1, SequenceIs
  <1>7. events \subseteq Events /\ \A e \in events : \E i \in 1..m : e = b[i].event
    BY <1>4, <1>6 DEF BatchEvents
  <1>8. \A e \in events : Sequence(b, e) \in Nat
    BY <1>6, <1>7
  <1>9. CASE UNCHANGED <<inbox, msg>> /\ loop' = [loop EXCEPT !.at = "top", !.session = page.session]
    BY <1>9
  <1>10. CASE /\ Ingest(b, Identified(events))
              /\ loop' = [loop EXCEPT !.at = IF events \cap Members = {} THEN "ack" ELSE "members",
                                      !.session = page.session, !.batch = b,
                                      !.ackable = Identified(events) \cup (events \cap Ignorable)]
    <2>1. PICK p \in {"ack", "members"}, A \in SUBSET Events :
             /\ A = events \cap (mapped \cup Ignorable)
             /\ loop' = [loop EXCEPT !.at = p, !.session = page.session, !.batch = b, !.ackable = A]
      <3>1. PICK A : A = Identified(events) \cup (events \cap Ignorable)
        OBVIOUS
      <3>2. A = events \cap (mapped \cup Ignorable) /\ A \in SUBSET Events
        BY <1>1, <1>7, <3>1 DEF Identified
      <3> QED
        BY <1>10, <3>1, <3>2
    <2>2. /\ loop' \in Loops /\ loop'.at \in {"ack", "members"} /\ loop'.session = page.session
          /\ loop'.batch = b /\ loop'.ackable = A
      BY <1>1, <1>4, <2>1 DEF Loops, WithItem, WithBatch
    <2>3. inbox' = [e \in Events |->
                        IF e \in events /\ inbox[e].state = "absent"
                        THEN [inbox[e] EXCEPT !.state = "pending", !.session = page.session,
                                                !.seq = Sequence(b, e)]
                        ELSE inbox[e]]
      BY <1>10 DEF Ingest
    <2>4. ASSUME NEW e \in Events
          PROVE  /\ inbox'[e] \in InboxRows
                 /\ inbox'[e] = inbox[e] \/ NewRow(e, m)
                 /\ e \in events => inbox'[e].state # "absent"
      <3>1. CASE e \in events /\ inbox[e].state = "absent"
        <4>1. PICK i \in 1..m : e = b[i].event
          BY <1>7, <3>1
        <4>2. PICK q \in Nat : q = Sequence(b, e) /\ q = page.queue[i].seq
          BY <1>4, <1>6, <4>1
        <4>3. inbox'[e] = [inbox[e] EXCEPT !.state = "pending", !.session = page.session, !.seq = q]
          BY <2>3, <3>1, <4>2
        <4>4. inbox'[e] \in InboxRows
          <5>1. PICK r \in InboxRows : r = inbox[e]
            BY <1>1
          <5>2. PICK z \in Nat : z = page.session
            BY <1>1
          <5>3. [r EXCEPT !.state = "pending", !.session = z, !.seq = q] \in InboxRows
            BY DEF InboxRows, RowStates
          <5> QED
            BY <4>3, <5>1, <5>2, <5>3
        <4>5. inbox'[e].state = "pending" /\ inbox'[e].session = page.session /\ inbox'[e].seq = q
          BY <1>1, <4>3 DEF InboxRows
        <4> QED
          BY <1>4, <3>1, <4>1, <4>2, <4>4, <4>5 DEF NewRow, Known
      <3>2. CASE ~(e \in events /\ inbox[e].state = "absent")
        BY <1>1, <2>3, <3>2
      <3> QED
        BY <3>1, <3>2
    <2>5. inbox' \in [Events -> InboxRows]
      <3>1. inbox' = [e \in Events |-> inbox'[e]]
        BY <2>3
      <3>2. \A e \in Events : inbox'[e] \in InboxRows
        BY <2>4
      <3>3. PICK f : f = inbox'
        OBVIOUS
      <3>4. f = [e \in Events |-> f[e]] /\ \A e \in Events : f[e] \in InboxRows
        BY <3>1, <3>2, <3>3
      <3>5. f \in [Events -> InboxRows]
        BY <3>4
      <3> QED
        BY <3>3, <3>5
    <2>6. \A i \in 1..m : page.queue[i].event \in events /\ page.queue[i].event \in Events
      BY <1>4, <1>6 DEF BatchEvents
    <2>7. msg' = [e \in Messages |-> IF e \in events \cap mapped THEN InsertMessage(msg[e], Sequence(b, e)) ELSE msg[e]]
      BY <1>10 DEF Ingest, Identified
    <2>8. page.installed /\ m <= Len(page.queue) /\ b = SubSeq(page.queue, 1, m)
      BY <1>2 DEF ReadBatch, b
    <2>9. Stores(m)
      BY <1>8, <2>1, <2>2, <2>4, <2>5, <2>6, <2>7, <2>8 DEF Stores
    <2> QED
      BY <1>2, <2>2, <2>7, <2>9
  <1> QED
    BY <1>3, <1>9, <1>10 DEF ReadBatch

-----------------------------------------------------------------------------
(* The messages.                                                           *)

(* A message is acknowledged before it is processed.                       *)
Sound(r) ==
    /\ r.acked => r.state # "absent"
    /\ r.state \in {"processing", "retry", "processed", "failed"} => r.acked

(* How the row of a message may change: it stays, keeps its                *)
(* acknowledgement, and is ignored until it is acknowledged.               *)
Passes(r, q) ==
    /\ q \in MessageRows /\ Sound(q)
    /\ r.acked => q.acked
    /\ r.state # "absent" => q.state # "absent"
    /\ r.state = "ignored" => q.state = "ignored" \/ q.acked

(* Every job of the database moves a message so.                           *)
LEMMA MessageRowsPass ==
  ASSUME NEW r \in MessageRows, Sound(r)
  PROVE  /\ Passes(r, r) /\ Passes(r, [r EXCEPT !.due = TRUE])
         /\ \A n \in Nat : Passes(r, InsertMessage(r, n))
         /\ r.state # "absent" => Passes(r, [r EXCEPT !.acked = TRUE])
         /\ r.acked => \A s \in RowStates : \A b \in BOOLEAN : Passes(r, [r EXCEPT !.state = s, !.due = b])
         /\ r.acked => Passes(r, [r EXCEPT !.state = "processing", !.attempts = OneMore(@)])
         /\ ~r.acked /\ r.state = "pending" => Passes(r, [r EXCEPT !.state = "ignored"])
         /\ r.state = "processing" => Passes(r, [r EXCEPT !.state = "pending", !.due = TRUE])
  <1> USE DEF Passes, Sound, MessageRows, RowStates
  <1>1. /\ Passes(r, r) /\ Passes(r, [r EXCEPT !.due = TRUE])
        /\ r.state # "absent" => Passes(r, [r EXCEPT !.acked = TRUE])
        /\ ~r.acked /\ r.state = "pending" => Passes(r, [r EXCEPT !.state = "ignored"])
        /\ r.state = "processing" => Passes(r, [r EXCEPT !.state = "pending", !.due = TRUE])
    OBVIOUS
  <1>2. ASSUME r.acked, NEW s \in RowStates, NEW b \in BOOLEAN PROVE Passes(r, [r EXCEPT !.state = s, !.due = b])
    BY <1>2
  <1>3. ASSUME NEW n \in Nat PROVE Passes(r, InsertMessage(r, n))
    BY DEF InsertMessage
  <1>4. ASSUME r.acked PROVE Passes(r, [r EXCEPT !.state = "processing", !.attempts = OneMore(@)])
    <2>1. PICK a \in Nat : a = OneMore(r.attempts)
      BY DEF OneMore
    <2>2. [r EXCEPT !.state = "processing", !.attempts = OneMore(@)]
             = [r EXCEPT !.state = "processing", !.attempts = a]
      BY <2>1
    <2> QED
      BY <1>4, <2>2
  <1> QED
    BY <1>1, <1>2, <1>3, <1>4

(* The messages move.                                                      *)
MessagesPass == msg' \in [Messages -> MessageRows] /\ \A e \in Messages : Passes(msg[e], msg'[e])

(* The messages are sound.                                                 *)
LEMMA SoundNow ==
  ASSUME Types, MessagesStand
  PROVE  \A e \in Messages : msg[e] \in MessageRows /\ Sound(msg[e])
  BY DEF Types, TableTypes, MessagesStand, HandoverIsWhole, ProcessingFollowsAck, Sound

(* The table moves if nothing,                                             *)
LEMMA MessagesRest ==
  ASSUME Types, MessagesStand, UNCHANGED msg
  PROVE  MessagesPass
  BY SoundNow, MessageRowsPass DEF MessagesPass, Types, TableTypes

(* one message,                                                            *)
LEMMA OneMessagePasses ==
  ASSUME Types, MessagesStand, NEW e \in Messages, NEW q, Passes(msg[e], q), msg' = [msg EXCEPT ![e] = q]
  PROVE  MessagesPass
  <1>1. \A d \in Messages : msg[d] \in MessageRows /\ Passes(msg[d], msg[d])
    BY SoundNow, MessageRowsPass
  <1>2. msg \in [Messages -> MessageRows] /\ q \in MessageRows
    BY DEF Types, TableTypes, Passes
  <1>3. \A d \in Messages : msg'[d] = IF d = e THEN q ELSE msg[d]
    BY <1>2
  <1> QED
    BY <1>1, <1>2, <1>3 DEF MessagesPass

(* or every message does,                                                  *)
LEMMA EachMessagePasses ==
  ASSUME msg' = [e \in Messages |-> msg'[e]], \A e \in Messages : Passes(msg[e], msg'[e])
  PROVE  MessagesPass
  <1>1. \A e \in Messages : msg'[e] \in MessageRows
    BY DEF Passes
  <1>2. PICK f : f = msg'
    OBVIOUS
  <1>3. f = [e \in Messages |-> f[e]] /\ \A e \in Messages : f[e] \in MessageRows
    BY <1>1, <1>2
  <1>4. f \in [Messages -> MessageRows]
    BY <1>3
  <1> QED
    BY <1>2, <1>4 DEF MessagesPass

(* if messages are acknowledged (commit_gateway_ack),                      *)
LEMMA AckedMessagesPass ==
  ASSUME Types, MessagesStand, NEW E, CommitAck(E)
  PROVE  /\ MessagesPass
         /\ \A e \in Messages : e \in E /\ msg[e].state # "absent" => msg'[e].acked
  <1>1. msg' = [e \in Messages |-> IF e \in E /\ msg[e].state # "absent"
                                   THEN [msg[e] EXCEPT !.acked = TRUE] ELSE msg[e]]
    BY DEF CommitAck
  <1>2. ASSUME NEW e \in Messages
        PROVE  Passes(msg[e], msg'[e]) /\ (e \in E /\ msg[e].state # "absent" => msg'[e].acked)
    BY <1>1, SoundNow, MessageRowsPass DEF MessageRows
  <1>3. msg' = [e \in Messages |-> msg'[e]]
    BY <1>1
  <1> QED
    BY <1>2, <1>3, EachMessagePasses

(* or a batch is stored.                                                   *)
LEMMA StoredMessagesPass ==
  ASSUME Types, QueueStands, MessagesStand, NEW m \in Nat, Stores(m), msg' = [e \in Messages |-> msg'[e]]
  PROVE  MessagesPass
  <1>1. ASSUME NEW e \in Messages PROVE Passes(msg[e], msg'[e])
    <2>1. PICK n : n = Sequence(loop'.batch, e)
      OBVIOUS
    <2>2. msg'[e] = msg[e] \/ (n \in Nat /\ msg'[e] = InsertMessage(msg[e], n))
      BY <2>1 DEF Stores
    <2>3. msg[e] \in MessageRows /\ Sound(msg[e])
      BY SoundNow
    <2>4. PICK r \in MessageRows : r = msg[e] /\ Sound(r)
      BY <2>3
    <2>5. Passes(r, r) /\ (n \in Nat => Passes(r, InsertMessage(r, n)))
      BY <2>4, MessageRowsPass
    <2> QED
      BY <2>2, <2>4, <2>5
  <1> QED
    BY <1>1, EachMessagePasses

(* Every step moves the messages so.                                       *)
LEMMA MessagesMove ==
  ASSUME Types, QueueStands, ItemStands, MessagesStand, [Next]_vars
  PROVE  MessagesPass
  <1>1. ASSUME TakeItem PROVE MessagesPass
    <2>1. CASE loop.item \in Messages /\ msg' = [msg EXCEPT ![loop.item] = InsertMessage(@, inbox[loop.item].seq)]
      <3>1. PICK e \in Messages : e = loop.item
        BY <2>1
      <3>2. e \in Events /\ inbox[e].seq \in Nat
        BY DEF Types, TableTypes, InboxRows, Messages
      <3>3. PICK q : q = InsertMessage(msg[e], inbox[e].seq)
        OBVIOUS
      <3>4. Passes(msg[e], q) /\ msg' = [msg EXCEPT ![e] = q]
        BY <2>1, <3>1, <3>2, <3>3, SoundNow, MessageRowsPass
      <3> QED
        BY <3>4, OneMessagePasses
    <2> QED
      BY <1>1, <2>1, MessagesRest DEF TakeItem
  <1>2. ASSUME CommitItem PROVE MessagesPass
    BY <1>2, AckedMessagesPass, MessagesRest DEF CommitItem
  <1>3. ASSUME ReadBatch PROVE MessagesPass
    BY <1>3, ReadIs, StoredMessagesPass, MessagesRest
  <1>4. ASSUME CommitBatch PROVE MessagesPass
    BY <1>4, AckedMessagesPass, MessagesRest DEF CommitBatch
  <1>5. ASSUME NEW g \in Groups, StartJob(g) PROVE MessagesPass
    <2>1. PICK s \in Seq(Messages) : s = jobs[g] /\ s # <<>>
      BY <1>5 DEF StartJob, Types, WorkTypes
    <2>2. Head(s) = s[1] /\ 1 \in DOMAIN s /\ Head(s) \in Messages
      BY <2>1
    <2>3. PICK e \in Messages : e = Head(jobs[g]) /\ e = jobs[g][1] /\ 1 \in DOMAIN jobs[g]
      BY <2>1, <2>2
    <2>4. msg[e].acked
      BY <2>3 DEF MessagesStand
    <2>5. CASE msg' = [msg EXCEPT ![e].state = "processing", ![e].attempts = OneMore(@)]
      <3>1. PICK q : q = [msg[e] EXCEPT !.state = "processing", !.attempts = OneMore(@)]
        OBVIOUS
      <3>2. msg' = [msg EXCEPT ![e] = q]
        BY <2>5, <3>1 DEF Types, TableTypes, MessageRows
      <3>3. Passes(msg[e], q)
        BY <2>4, <3>1, SoundNow, MessageRowsPass
      <3> QED
        BY <3>2, <3>3, OneMessagePasses
    <2> QED
      BY <1>5, <2>3, <2>5, MessagesRest DEF StartJob
  <1>6. ASSUME NEW g \in Groups, FinishJob(g) PROVE MessagesPass
    <2>1. PICK e \in Messages : e = busy[g]
      BY <1>6 DEF FinishJob, Types, WorkTypes
    <2>2. msg[e].acked
      BY <1>6, <2>1 DEF MessagesStand, FinishJob
    <2>3. ASSUME NEW s \in RowStates, NEW b \in BOOLEAN, msg' = [msg EXCEPT ![e].state = s, ![e].due = b]
          PROVE  MessagesPass
      <3>1. PICK q : q = [msg[e] EXCEPT !.state = s, !.due = b]
        OBVIOUS
      <3>2. msg' = [msg EXCEPT ![e] = q]
        BY <2>3, <3>1 DEF Types, TableTypes, MessageRows
      <3>3. Passes(msg[e], q)
        BY <2>2, <3>1, SoundNow, MessageRowsPass
      <3> QED
        BY <3>2, <3>3, OneMessagePasses
    <2>4. Backoff(msg[e].attempts) \in RowStates /\ "processed" \in RowStates
      BY DEF Backoff, RowStates
    <2> QED
      BY <1>6, <2>1, <2>3, <2>4, MessagesRest DEF FinishJob
  <1>7. ASSUME Restart PROVE MessagesPass
    <2>1. PICK old \in SUBSET {e \in Messages : ~msg[e].acked /\ msg[e].state = "pending"} :
             msg' = [e \in Messages |->
                       IF e \in old THEN [msg[e] EXCEPT !.state = "ignored"]
                       ELSE IF msg[e].state = "processing"
                            THEN [msg[e] EXCEPT !.state = "pending", !.due = TRUE] ELSE msg[e]]
      BY <1>7 DEF Restart
    <2>2. ASSUME NEW e \in Messages PROVE Passes(msg[e], msg'[e])
      BY <2>1, SoundNow, MessageRowsPass
    <2>3. msg' = [e \in Messages |-> msg'[e]]
      BY <2>1
    <2> QED
      BY <2>2, <2>3, EachMessagePasses
  <1>8. ASSUME NEW e \in Events, BecomeDue(e) PROVE MessagesPass
    <2>1. CASE e \in Messages /\ msg' = [msg EXCEPT ![e].due = TRUE]
      <3>1. PICK q : q = [msg[e] EXCEPT !.due = TRUE]
        OBVIOUS
      <3>2. msg' = [msg EXCEPT ![e] = q] /\ Passes(msg[e], q)
        BY <2>1, <3>1, SoundNow, MessageRowsPass
      <3> QED
        BY <2>1, <3>2, OneMessagePasses
    <2> QED
      BY <1>8, <2>1, MessagesRest DEF BecomeDue
  <1>9. CASE UNCHANGED vars \/ Reload \/ Scan \/ SkipScan \/ Connect \/ AckItem \/ ReadFails \/ ApplyMembers
             \/ AckBatch \/ Crash
    BY <1>9, MessagesRest
    DEF vars, Reload, Scan, SkipScan, Connect, AckItem, ReadFails, ApplyMembers, AckBatch, Crash
  <1>10. ASSUME NEW e \in Events, Emit(e) \/ MapGroup(e) PROVE MessagesPass
    BY <1>10, MessagesRest DEF Emit, MapGroup
  <1> QED
    BY <1>1, <1>2, <1>3, <1>4, <1>5, <1>6, <1>7, <1>8, <1>9, <1>10 DEF Next, LoopStep

-----------------------------------------------------------------------------
(* The jobs.                                                               *)

(* Lists of a set's elements.                                              *)
LEMMA ListedAre ==
  ASSUME NEW S \in SUBSET Messages, NEW lists
  PROVE  lists \in [Groups -> UNION {[1..n -> S] : n \in 0..Cardinality(S)}] => lists \in [Groups -> Seq(S)]
  BY ListsAre

(* The jobs of the groups and what their workers are at.                   *)
WorkStands ==
    /\ WorkTypes
    /\ \A g \in Groups : \A i \in DOMAIN jobs[g] : msg[jobs[g][i]].acked
    /\ \A g \in Groups : busy[g] # NoEvent => msg[busy[g]].acked

(* Acknowledged messages stay so while they wait,                          *)
LEMMA WorkKept ==
  ASSUME WorkStands, MessagesPass, UNCHANGED <<jobs, busy>>
  PROVE  WorkStands'
  <1>1. \A e \in Messages : msg[e].acked => msg'[e].acked
    BY DEF MessagesPass, Passes
  <1>2. \A g \in Groups : jobs[g] \in Seq(Messages) /\ (busy[g] # NoEvent => busy[g] \in Messages)
    BY DEF WorkStands, WorkTypes
  <1>3. \A g \in Groups : \A i \in DOMAIN jobs[g] : jobs[g][i] \in Messages
    BY <1>2
  <1> QED
    BY <1>1, <1>2, <1>3 DEF WorkStands, WorkTypes

(* The channels with some of a set's messages.                             *)
AddedTo(channels, S, f) ==
    /\ f \in [Groups -> Seq(Messages)]
    /\ \A g \in Groups : \A i \in DOMAIN f[g] :
          f[g][i] \in S \/ \E k \in DOMAIN channels[g] : f[g][i] = channels[g][k]

(* So they are after a round of enqueueing.                                *)
LEMMA EnqueueAdds ==
  ASSUME ChannelLimit \in Nat, NEW S \in SUBSET Messages, NEW lists \in [Groups -> Seq(S)],
         NEW channels \in [Groups -> Seq(Messages)]
  PROVE  AddedTo(channels, S, Enqueue(channels, lists))
  <1>1. Enqueue(channels, lists) \in [Groups -> Seq(Messages)]
    BY EnqueueIs
  <1>2. \A g \in Groups : \A i \in DOMAIN Enqueue(channels, lists)[g] :
            \/ Enqueue(channels, lists)[g][i] \in S
            \/ \E k \in DOMAIN channels[g] : Enqueue(channels, lists)[g][i] = channels[g][k]
    BY EnqueueIs, Zenon
  <1> QED
    BY <1>1, <1>2 DEF AddedTo

(* What is added is acknowledged.                                          *)
LEMMA WorkAdded ==
  ASSUME Types, WorkStands, MessagesPass, NEW S \in SUBSET Messages, \A e \in S : msg'[e].acked,
         NEW channels \in [Groups -> Seq(Messages)],
         \A g \in Groups : \A i \in DOMAIN channels[g] : msg[channels[g][i]].acked,
         NEW lists \in [Groups -> Seq(S)], jobs' = Enqueue(channels, lists),
         busy' = busy \/ busy' = [g \in Groups |-> NoEvent]
  PROVE  WorkStands'
  <1>1. ChannelLimit \in Nat
    BY DEF Types, KindsAreApart
  <1>2. /\ jobs' \in [Groups -> Seq(Messages)]
        /\ \A g \in Groups : \A i \in DOMAIN jobs'[g] :
               jobs'[g][i] \in S \/ \E k \in DOMAIN channels[g] : jobs'[g][i] = channels[g][k]
    <2>1. AddedTo(channels, S, Enqueue(channels, lists))
      BY <1>1, EnqueueAdds
    <2> QED
      BY <2>1 DEF AddedTo
  <1>3. \A e \in Messages : msg[e].acked => msg'[e].acked
    BY DEF MessagesPass, Passes
  <1>4. ASSUME NEW g \in Groups, NEW i \in DOMAIN channels[g] PROVE channels[g][i] \in Messages
    <2>1. PICK c \in Seq(Messages) : c = channels[g]
      OBVIOUS
    <2>2. \A k \in DOMAIN c : c[k] \in Messages
      OBVIOUS
    <2> QED
      BY <2>1, <2>2
  <1>5. \A g \in Groups : \A i \in DOMAIN jobs'[g] : msg'[jobs'[g][i]].acked
    <2>1. ASSUME NEW g \in Groups, NEW i \in DOMAIN jobs'[g] PROVE msg'[jobs'[g][i]].acked
      <3>1. CASE jobs'[g][i] \in S
        BY <3>1
      <3>2. ASSUME NEW k \in DOMAIN channels[g], jobs'[g][i] = channels[g][k] PROVE msg'[jobs'[g][i]].acked
        BY <1>3, <1>4, <3>2
      <3> QED
        BY <1>2, <3>1, <3>2
    <2> QED
      BY <2>1
  <1>6. busy' \in [Groups -> Messages \cup {NoEvent}] /\ \A g \in Groups : busy'[g] # NoEvent => msg'[busy'[g]].acked
    BY <1>3 DEF WorkStands, WorkTypes
  <1> QED
    BY <1>2, <1>5, <1>6 DEF WorkStands, WorkTypes

(* Every step keeps unacknowledged messages from the workers.              *)
LEMMA WorkStep ==
  ASSUME Types, QueueStands, ItemStands, BatchStands, MessagesStand, [Next]_vars
  PROVE  WorkStands'
  <1>1. MessagesPass
    BY MessagesMove
  <1>2. WorkStands
    BY DEF WorkStands, Types, MessagesStand
  <1>3. \A lists \in Pending : lists \in [Groups -> Seq({e \in Messages : msg[e].acked})]
    BY PendingAre
  <1>4. PICK A \in SUBSET Messages : A = {e \in Messages : msg[e].acked}
    OBVIOUS
  <1>5. \A e \in A : msg'[e].acked
    BY <1>1, <1>4 DEF MessagesPass, Passes
  <1>6. jobs \in [Groups -> Seq(Messages)] /\ \A g \in Groups : \A i \in DOMAIN jobs[g] : msg[jobs[g][i]].acked
    BY <1>2 DEF WorkStands, WorkTypes
  <1>7. ASSUME NEW lists \in Pending, jobs' = Enqueue(jobs, lists), UNCHANGED busy PROVE WorkStands'
    BY <1>1, <1>2, <1>3, <1>4, <1>5, <1>6, <1>7, WorkAdded
  <1>8. ASSUME Connect PROVE WorkStands'
    <2>1. ASSUME NEW lists \in Pending, jobs' = Enqueue([g \in Groups |-> <<>>], lists),
                 busy' = [g \in Groups |-> NoEvent]
          PROVE  WorkStands'
      <3>0. <<>> \in Seq(Messages)
        OBVIOUS
      <3>1. PICK c \in [Groups -> Seq(Messages)] : c = [g \in Groups |-> <<>>]
        <4>1. [g \in Groups |-> <<>>] \in [Groups -> Seq(Messages)]
          BY <3>0
        <4> QED
          BY <4>1
      <3>2. \A g \in Groups : \A i \in DOMAIN c[g] : msg[c[g][i]].acked
        BY <3>1
      <3>3. lists \in [Groups -> Seq(A)] /\ jobs' = Enqueue(c, lists)
        BY <1>3, <1>4, <2>1, <3>1
      <3> QED
        BY <1>1, <1>2, <1>5, <2>1, <3>2, <3>3, WorkAdded
    <2> QED
      BY <1>7, <1>8, <2>1 DEF Connect
  <1>9. ASSUME Scan PROVE WorkStands'
    BY <1>1, <1>2, <1>7, <1>9, WorkKept DEF Scan
  <1>10. ASSUME CommitItem PROVE WorkStands'
    <2>1. loop.item \in Events /\ (loop.item \in Messages => msg[loop.item].state # "absent")
      BY <1>10 DEF CommitItem, ItemStands, WithItem, At
    <2>2. ASSUME CommitAck({loop.item}),
                 NEW lists \in Lists({loop.item} \cap Unprocessed, LAMBDA c, d : FALSE),
                 jobs' = Enqueue(jobs, lists), UNCHANGED busy
          PROVE  WorkStands'
      <3>1. PICK S \in SUBSET Messages : S = {loop.item} \cap Unprocessed
        BY DEF Unprocessed
      <3>2. lists \in [Groups -> UNION {[1..n -> S] : n \in 0..Cardinality(S)}]
        <4>1. lists \in Lists(S, LAMBDA c, d : FALSE)
          BY <2>2, <3>1
        <4> QED
          BY <4>1 DEF Lists
      <3>3. lists \in [Groups -> Seq(S)]
        BY <3>2, ListedAre
      <3>4. PICK E : E = {loop.item}
        OBVIOUS
      <3>5. \A e \in Messages : e \in E /\ msg[e].state # "absent" => msg'[e].acked
        BY <2>2, <3>4, AckedMessagesPass
      <3>6. \A e \in S : msg'[e].acked
        BY <2>1, <3>1, <3>4, <3>5 DEF Unprocessed
      <3> QED
        BY <1>1, <1>2, <1>6, <2>2, <3>3, <3>6, WorkAdded
    <2> QED
      BY <1>1, <1>2, <1>10, <2>2, WorkKept DEF CommitItem
  <1>11. ASSUME CommitBatch PROVE WorkStands'
    <2>1. loop \in Loops
      BY DEF Types
    <2>2. PICK n \in 0..Len(loop.batch) :
            /\ AckPrefix = SubSeq(loop.batch, 1, n)
            /\ \A i \in 1..n : loop.batch[i].event \in loop.ackable
      BY <2>1, AckPrefixIs
    <2>3. DOMAIN AckPrefix = 1..n /\ \A i \in 1..n : AckPrefix[i] = loop.batch[i]
      BY <2>1, <2>2, Prefix DEF Loops
    <2>4. \A e \in BatchEvents(AckPrefix) : e \in loop.ackable
      BY <2>2, <2>3 DEF BatchEvents
    <2>5. \A e \in BatchEvents(AckPrefix) : e \in Messages => msg[e].state # "absent"
      BY <1>11, <2>4 DEF CommitBatch, At, BatchStands, WithBatch, Kept
    <2>6. PICK E : E = BatchEvents(AckPrefix)
      OBVIOUS
    <2>7. ASSUME CommitAck(E),
                 NEW lists \in Lists(E \cap Unprocessed,
                                     LAMBDA d, e : Sequence(loop.batch, d) < Sequence(loop.batch, e)),
                 jobs' = Enqueue(jobs, lists), UNCHANGED busy
          PROVE  WorkStands'
      <3>1. PICK S \in SUBSET Messages : S = E \cap Unprocessed
        BY DEF Unprocessed
      <3>2. lists \in [Groups -> UNION {[1..k -> S] : k \in 0..Cardinality(S)}]
        <4>1. lists \in Lists(S, LAMBDA d, e : Sequence(loop.batch, d) < Sequence(loop.batch, e))
          BY <2>7, <3>1
        <4> QED
          BY <4>1 DEF Lists
      <3>3. lists \in [Groups -> Seq(S)]
        BY <3>2, ListedAre
      <3>4. \A e \in Messages : e \in E /\ msg[e].state # "absent" => msg'[e].acked
        BY <2>7, AckedMessagesPass
      <3>5. \A e \in S : msg'[e].acked
        BY <2>5, <2>6, <3>1, <3>4
      <3> QED
        BY <1>1, <1>2, <1>6, <2>7, <3>3, <3>5, WorkAdded
    <2> QED
      BY <1>1, <1>2, <1>11, <2>6, <2>7, WorkKept DEF CommitBatch
  <1>12. ASSUME NEW g \in Groups, StartJob(g) PROVE WorkStands'
    <2>1. PICK s \in Seq(Messages) : s = jobs[g] /\ s # <<>> /\ jobs' = [jobs EXCEPT ![g] = Tail(s)]
      BY <1>6, <1>12 DEF StartJob
    <2>2. /\ Tail(s) \in Seq(Messages) /\ Head(s) = s[1] /\ 1 \in DOMAIN s /\ Head(s) \in Messages
          /\ \A i \in DOMAIN Tail(s) : i + 1 \in DOMAIN s /\ Tail(s)[i] = s[i + 1]
      BY <2>1
    <2>3. PICK t \in Seq(Messages), e \in Messages : t = Tail(s) /\ e = Head(s)
      BY <2>2
    <2>4. jobs' = [jobs EXCEPT ![g] = t] /\ (\A i \in DOMAIN t : msg[t[i]].acked) /\ msg[e].acked
      BY <1>6, <2>1, <2>2, <2>3
    <2>5. busy' = busy \/ busy' = [busy EXCEPT ![g] = e]
      BY <1>12, <2>1, <2>3 DEF StartJob
    <2>6. \A d \in Messages : msg[d].acked => msg'[d].acked
      BY <1>1 DEF MessagesPass, Passes
    <2>7. jobs' \in [Groups -> Seq(Messages)] /\ \A h \in Groups : \A i \in DOMAIN jobs'[h] : msg[jobs'[h][i]].acked
      BY <1>6, <2>4
    <2>8. busy' \in [Groups -> Messages \cup {NoEvent}] /\ \A h \in Groups : busy'[h] # NoEvent => msg[busy'[h]].acked
      BY <1>2, <2>4, <2>5 DEF WorkStands, WorkTypes
    <2>9. \A h \in Groups : \A i \in DOMAIN jobs'[h] : jobs'[h][i] \in Messages
      BY <2>7, ElementOfSeq
    <2> QED
      BY <2>6, <2>7, <2>8, <2>9 DEF WorkStands, WorkTypes
  <1>13. ASSUME NEW g \in Groups, FinishJob(g) PROVE WorkStands'
    <2>1. jobs' = jobs /\ busy' = [busy EXCEPT ![g] = NoEvent]
      BY <1>13 DEF FinishJob
    <2>2. \A d \in Messages : msg[d].acked => msg'[d].acked
      BY <1>1 DEF MessagesPass, Passes
    <2>3. \A h \in Groups : \A i \in DOMAIN jobs[h] : jobs[h][i] \in Messages
      BY <1>6, ElementOfSeq
    <2> QED
      BY <1>2, <2>1, <2>2, <2>3 DEF WorkStands, WorkTypes
  <1>14. CASE Crash
    BY <1>14 DEF Crash, WorkStands, WorkTypes
  <1>15. CASE UNCHANGED vars \/ Reload \/ SkipScan \/ TakeItem \/ AckItem \/ ReadFails \/ ReadBatch
              \/ ApplyMembers \/ AckBatch \/ Restart
    BY <1>1, <1>2, <1>15, WorkKept
    DEF vars, Reload, SkipScan, TakeItem, AckItem, ReadFails, ReadBatch, ApplyMembers, AckBatch, Restart
  <1>16. ASSUME NEW e \in Events, Emit(e) \/ MapGroup(e) \/ BecomeDue(e) PROVE WorkStands'
    BY <1>1, <1>2, <1>16, WorkKept DEF Emit, MapGroup, BecomeDue
  <1> QED
    BY <1>8, <1>9, <1>10, <1>11, <1>12, <1>13, <1>14, <1>15, <1>16 DEF Next, LoopStep

(* A message's row in the inbox closes only with its acknowledgement.      *)
LEMMA ClosedWithAck ==
  ASSUME Types, QueueStands, ItemStands, BatchStands, MessagesStand, [Next]_vars,
         NEW e \in Messages, inbox[e].state # "processed", inbox'[e].state = "processed"
  PROVE  msg'[e].acked
  <1>1. e \in Events /\ e \notin Members /\ inbox \in [Events -> InboxRows] /\ loop \in Loops
    BY DEF Messages, Types, TableTypes
  <1>2. ~(inbox' = inbox)
    OBVIOUS
  <1>3. ASSUME NEW d, inbox' = [inbox EXCEPT ![d] = Postponed(@)] PROVE FALSE
    BY <1>1, <1>3 DEF Postponed, Backoff, InboxRows
  <1>4. ~PostponeItem
    BY <1>2, <1>3 DEF PostponeItem
  <1>5. CASE CommitItem
    <2>1. CommitAck({loop.item}) /\ loop.item \in Events
          /\ (loop.item \in Messages => msg[loop.item].state # "absent")
      BY <1>4, <1>5 DEF CommitItem, ItemStands, WithItem, At
    <2>2. PICK E : E = {loop.item}
      OBVIOUS
    <2>3. e \in E
      BY <1>1, <2>1, <2>2 DEF CommitAck
    <2>4. \A d \in Messages : d \in E /\ msg[d].state # "absent" => msg'[d].acked
      BY <2>1, <2>2, AckedMessagesPass
    <2> QED
      BY <2>1, <2>2, <2>3, <2>4
  <1>6. CASE CommitBatch
    <2>1. PICK n \in 0..Len(loop.batch) :
            /\ AckPrefix = SubSeq(loop.batch, 1, n)
            /\ \A i \in 1..n : loop.batch[i].event \in loop.ackable
      BY <1>1, AckPrefixIs
    <2>2. DOMAIN AckPrefix = 1..n /\ \A i \in 1..n : AckPrefix[i] = loop.batch[i]
      BY <1>1, <2>1, Prefix DEF Loops
    <2>3. PICK E : E = BatchEvents(AckPrefix)
      OBVIOUS
    <2>4. \A d \in E : d \in loop.ackable
      BY <2>1, <2>2, <2>3 DEF BatchEvents
    <2>5. CommitAck(E)
      BY <1>2, <1>6, <2>3 DEF CommitBatch
    <2>6. e \in E
      BY <1>1, <2>5 DEF CommitAck
    <2>7. msg[e].state # "absent"
      BY <1>6, <2>4, <2>6 DEF CommitBatch, At, BatchStands, WithBatch, Kept
    <2>8. \A d \in Messages : d \in E /\ msg[d].state # "absent" => msg'[d].acked
      BY <2>5, AckedMessagesPass
    <2> QED
      BY <2>6, <2>7, <2>8
  <1>7. CASE ReadBatch
    <2>1. PICK m \in Nat : Stores(m)
      BY <1>2, <1>7, ReadIs
    <2> QED
      BY <1>1, <2>1 DEF Stores, NewRow
  <1>8. CASE ApplyMembers
    BY <1>1, <1>2, <1>8 DEF ApplyMembers, MarkProcessed
  <1>9. CASE Scan
    <2>1. PICK d \in Events : inbox' = [inbox EXCEPT ![d].state = "processing", ![d].attempts = OneMore(@)]
      BY <1>2, <1>9 DEF Scan
    <2> QED
      BY <1>1, <2>1 DEF InboxRows
  <1>10. CASE Restart
    BY <1>1, <1>10 DEF Restart, Recovered, InboxRows
  <1>11. ASSUME NEW d \in Events, BecomeDue(d) PROVE FALSE
    BY <1>1, <1>2, <1>11 DEF BecomeDue, InboxRows
  <1>12. CASE UNCHANGED vars \/ Reload \/ SkipScan \/ Connect \/ TakeItem \/ AckItem \/ ReadFails
              \/ AckBatch \/ Crash
    BY <1>2, <1>4, <1>12 DEF vars, Reload, SkipScan, Connect, TakeItem, AckItem, ReadFails, AckBatch, Crash
  <1>13. ASSUME NEW d \in Events, Emit(d) \/ MapGroup(d) PROVE FALSE
    BY <1>2, <1>13 DEF Emit, MapGroup
  <1>14. ASSUME NEW g \in Groups, StartJob(g) \/ FinishJob(g) PROVE FALSE
    BY <1>2, <1>14 DEF StartJob, FinishJob
  <1> QED
    BY <1>5, <1>6, <1>7, <1>8, <1>9, <1>10, <1>11, <1>12, <1>13, <1>14 DEF Next, LoopStep

(* Every step passes messages on as a whole.                               *)
LEMMA HandoverStep ==
  ASSUME Types, QueueStands, ItemStands, BatchStands, MessagesStand, [Next]_vars
  PROVE  MessagesStand'
  <1>1. MessagesPass
    BY MessagesMove
  <1>2. WorkStands'
    BY WorkStep
  <1>3. \A e \in Messages : Sound(msg'[e])
    BY <1>1 DEF MessagesPass, Passes
  <1>4. ASSUME NEW e \in Messages, inbox'[e].state = "processed" PROVE msg'[e].acked \/ msg'[e].state = "ignored"
    <2>1. CASE inbox[e].state = "processed"
      <3>1. msg[e].acked \/ msg[e].state = "ignored"
        BY <2>1 DEF MessagesStand, HandoverIsWhole, ClosedRowsAreHandedOver
      <3> QED
        BY <1>1, <3>1 DEF MessagesPass, Passes
    <2>2. CASE inbox[e].state # "processed"
      BY <1>4, <2>2, ClosedWithAck
    <2> QED
      BY <2>1, <2>2
  <1> QED
    BY <1>2, <1>3, <1>4 DEF WorkStands, MessagesStand, Sound, HandoverIsWhole, ProcessingFollowsAck, ClosedRowsAreHandedOver

(* The type of the loop.                                                   *)
LEMMA LoopTypes ==
  ASSUME Types, QueueStands, ItemStands, BatchStands, ~up => loop.at = "connect", [Next]_vars
  PROVE  loop' \in Loops /\ (~up' => loop'.at = "connect")
  <1>1. /\ loop \in Loops /\ page \in Pages /\ page' \in Pages /\ Members \subseteq Events
        /\ loop.epoch \in Nat
    BY PageTypes DEF Types, KindsAreApart, Loops
  <1>2. ASSUME NEW p \in {"top", "read", "ack item", "commit item", "ack"}, Goto(p) PROVE loop' \in Loops
    BY <1>1, <1>2 DEF Goto, Loops, WithItem, WithBatch
  <1>3. PostponeItem => loop' \in Loops
    BY <1>1 DEF PostponeItem, Loops
  <1>4. ASSUME NEW n \in Nat, NEW p \in {"connect", "top"}, loop' = [Connecting(n) EXCEPT !.at = p]
        PROVE  loop' \in Loops
    <2>1. <<>> \in Seq(Records)
      OBVIOUS
    <2>2. loop' = [at |-> p, epoch |-> n, session |-> 0, lastAck |-> 0,
                   batch |-> <<>>, ackable |-> {}, item |-> NoEvent]
      BY <1>4 DEF Connecting
    <2> QED
      BY <2>1, <2>2 DEF Loops
  <1>5. ASSUME NEW n \in Nat, loop' = Connecting(n) PROVE loop' \in Loops /\ loop'.at = "connect"
    <2>1. <<>> \in Seq(Records)
      OBVIOUS
    <2> QED
      BY <1>5, <2>1 DEF Connecting, Loops
  <1>6. loop' = NextRound(loop) => loop' \in Loops
    <2>1. <<>> \in Seq(Records)
      OBVIOUS
    <2> QED
      BY <1>1, <2>1 DEF NextRound, Loops
  <1>7. CASE Connect
    <2>1. PICK n \in Nat : n = page'.session
      BY <1>1 DEF Pages
    <2> QED
      BY <1>4, <1>7, <2>1 DEF Connect, At
  <1>8. CASE Scan
    BY <1>1, <1>2, <1>8 DEF Scan, At, Loops, WithItem
  <1>9. CASE ReadBatch
    BY <1>1, <1>9, ReadIs DEF ReadBatch, At, Loops, Pages
  <1>10. CASE ApplyMembers
    <2>1. PICK A \in SUBSET Events : A = loop.ackable \cup (BatchEvents(loop.batch) \cap Members)
      BY <1>1 DEF Loops
    <2>2. loop' = [loop EXCEPT !.at = "ack", !.ackable = A] \/ Goto("ack")
      BY <1>10, <2>1 DEF ApplyMembers
    <2>3. loop' = [loop EXCEPT !.at = "ack", !.ackable = A] => loop' \in Loops
      BY <1>1 DEF Loops, WithBatch
    <2> QED
      BY <1>2, <1>10, <2>2, <2>3 DEF ApplyMembers, At
  <1>11. CASE AckBatch
    <2>1. PICK n \in 0..Len(loop.batch) :
            /\ n > 0 => loop.batch[n] \in Records
            /\ \/ loop' = NextRound(loop)
               \/ n > 0 /\ loop' = [loop EXCEPT !.at = "commit", !.lastAck = loop.batch[n].seq]
      BY <1>1, <1>11, AckBatchIs
    <2>2. CASE n > 0 /\ loop' = [loop EXCEPT !.at = "commit", !.lastAck = loop.batch[n].seq]
      <3>1. PICK q \in Nat : q = loop.batch[n].seq
        BY <2>1, <2>2 DEF Records
      <3>2. loop' = [loop EXCEPT !.at = "commit", !.lastAck = q]
        BY <2>2, <3>1
      <3> QED
        BY <1>1, <1>11, <3>2 DEF AckBatch, At, Loops, WithBatch
    <2> QED
      BY <1>6, <1>11, <2>1, <2>2 DEF AckBatch, At
  <1>12. CASE CommitBatch
    BY <1>6, <1>12 DEF CommitBatch, At
  <1>13. CASE TakeItem
    BY <1>2, <1>3, <1>13 DEF TakeItem, At
  <1>14. CASE AckItem
    BY <1>2, <1>3, <1>14 DEF AckItem, At
  <1>15. CASE CommitItem
    BY <1>1, <1>3, <1>15 DEF CommitItem, At, Loops
  <1>16. CASE ReadFails
    BY <1>1, <1>5, <1>16 DEF ReadFails, At
  <1>17. CASE Crash
    BY <1>5, <1>17 DEF Crash
  <1>18. CASE SkipScan
    BY <1>2, <1>18 DEF SkipScan, At
  <1>19. CASE UNCHANGED vars \/ Reload \/ Restart
    BY <1>1, <1>19 DEF vars, Reload, Restart
  <1>20. ASSUME NEW e \in Events, Emit(e) \/ MapGroup(e) \/ BecomeDue(e) PROVE loop' = loop /\ up' = up
    BY <1>20 DEF Emit, MapGroup, BecomeDue
  <1>21. ASSUME NEW g \in Groups, StartJob(g) \/ FinishJob(g) PROVE loop' = loop /\ up' = up
    BY <1>21 DEF StartJob, FinishJob
  <1> QED
    BY <1>1, <1>7, <1>8, <1>9, <1>10, <1>11, <1>12, <1>13, <1>14, <1>15, <1>16, <1>17, <1>18, <1>19,
       <1>20, <1>21 DEF Next, LoopStep

-----------------------------------------------------------------------------
(* The queue in the page.                                                  *)

(* The queue without its first records,                                    *)
Discards(n) ==
    /\ page.installed /\ page'.installed /\ page'.session = page.session
    /\ page'.nextSeq = page.nextSeq /\ page'.seen = page.seen
    /\ Len(page'.queue) = Len(page.queue) - n /\ n <= Len(page.queue)
    /\ DOMAIN page'.queue = 1..(Len(page.queue) - n) /\ DOMAIN page.queue = 1..Len(page.queue)
    /\ \A i \in 1..(Len(page.queue) - n) : page'.queue[i] = page.queue[n + i]

(* after an acknowledgement.                                               *)
LEMMA DiscardsIs ==
  ASSUME page \in Pages, page.installed, NEW n \in 0..Len(page.queue),
         page' = [page EXCEPT !.queue = SubSeq(page.queue, n + 1, Len(page.queue))]
  PROVE  Discards(n)
  <1>1. page.queue \in Seq(Records)
    BY DEF Pages
  <1>2. PICK s \in Seq(Records) : s = SubSeq(page.queue, n + 1, Len(page.queue))
    BY <1>1, Suffix
  <1>3. page' = [page EXCEPT !.queue = s]
    BY <1>2
  <1>4. /\ page'.queue = s /\ page'.installed = page.installed /\ page'.session = page.session
        /\ page'.nextSeq = page.nextSeq /\ page'.seen = page.seen
    BY <1>3 DEF Pages
  <1>5. /\ Len(s) = Len(page.queue) - n /\ DOMAIN s = 1..(Len(page.queue) - n)
        /\ \A i \in 1..(Len(page.queue) - n) : s[i] = page.queue[n + i]
        /\ Len(page.queue) \in Nat /\ DOMAIN page.queue = 1..Len(page.queue)
    BY <1>1, <1>2, Suffix
  <1>6. /\ Len(page'.queue) = Len(page.queue) - n /\ DOMAIN page'.queue = 1..(Len(page.queue) - n)
        /\ \A i \in 1..(Len(page.queue) - n) : page'.queue[i] = page.queue[n + i]
    BY <1>4, <1>5
  <1>7. n <= Len(page.queue)
    BY <1>5
  <1>8. page'.installed
    BY <1>4
  <1> QED
    BY <1>4, <1>5, <1>6, <1>7, <1>8 DEF Discards

(* The queue with one record more, and perhaps without its first,          *)
Hears(e, n) ==
    /\ page.installed /\ page'.installed /\ page'.session = page.session /\ e \notin page.seen
    /\ page'.nextSeq = page.nextSeq + 1 /\ page'.seen = page.seen \cup {e}
    /\ Len(page'.queue) = Len(page.queue) + 1 - n
    /\ DOMAIN page'.queue = 1..(Len(page.queue) + 1 - n) /\ DOMAIN page.queue = 1..Len(page.queue)
    /\ \A i \in 1..(Len(page.queue) + 1 - n) :
          /\ n + i <= Len(page.queue) => page'.queue[i] = page.queue[n + i]
          /\ n + i > Len(page.queue) => page'.queue[i].event = e /\ page'.queue[i].seq = page.nextSeq
                                        /\ n + i = Len(page.queue) + 1

(* after an event was heard.                                               *)
LEMMA HearsIs ==
  ASSUME page \in Pages, NEW e \in Events, Emit(e)
  PROVE  \E n \in {0, 1} : Hears(e, n)
  <1>1. page.queue \in Seq(Records) /\ page.nextSeq \in Nat
    BY DEF Pages
  <1>2. PICK t \in Seq(Records), n \in {0, 1}, d \in BOOLEAN :
               /\ t = Append(page.queue, [event |-> e, seq |-> page.nextSeq])
               /\ page' = [page EXCEPT !.queue = SubSeq(t, n + 1, Len(t)), !.nextSeq = page.nextSeq + 1,
                                       !.seen = page.seen \cup {e}, !.dropped = d]
    BY EmitIs
  <1>3. PICK r \in Records : r = [event |-> e, seq |-> page.nextSeq]
    BY <1>1 DEF Records
  <1>4. /\ Len(t) = Len(page.queue) + 1 /\ \A i \in 1..Len(page.queue) : t[i] = page.queue[i]
        /\ t[Len(page.queue) + 1] = r /\ Len(page.queue) \in Nat /\ DOMAIN page.queue = 1..Len(page.queue)
    BY <1>1, <1>2, <1>3, Pushed
  <1>5. n \in 0..Len(t)
    BY <1>4
  <1>6. PICK s \in Seq(Records) : s = SubSeq(t, n + 1, Len(t))
    BY <1>5, Suffix
  <1>7. /\ Len(s) = Len(t) - n /\ DOMAIN s = 1..(Len(t) - n) /\ \A i \in 1..(Len(t) - n) : s[i] = t[n + i]
    BY <1>5, <1>6, Suffix
  <1>8. /\ page'.queue = s /\ page'.installed = page.installed /\ page'.session = page.session
        /\ page'.nextSeq = page.nextSeq + 1 /\ page'.seen = page.seen \cup {e}
    BY <1>2, <1>6 DEF Pages
  <1>9. page.installed /\ e \notin page.seen
    BY DEF Emit
  <1>10. \A i \in 1..(Len(page.queue) + 1 - n) :
          /\ n + i <= Len(page.queue) => s[i] = page.queue[n + i]
          /\ n + i > Len(page.queue) => s[i] = r /\ n + i = Len(page.queue) + 1
    BY <1>4, <1>7
  <1>11. Hears(e, n)
    BY <1>3, <1>4, <1>7, <1>8, <1>9, <1>10 DEF Hears
  <1> QED
    BY <1>11

(* How the page moves: not at all, emptied, by what is discarded, by what  *)
(* is heard.                                                               *)
LEMMA PageSteps ==
  ASSUME Types, QueueStands, ItemStands, [Next]_vars
  PROVE  \/ UNCHANGED page
         \/ /\ page'.queue = <<>> /\ ~page'.installed /\ page'.session = page.session
         \/ /\ Connect /\ ~page.installed /\ page' = Fresh(page.session + 1)
            /\ page'.queue = <<>> /\ page'.session = page.session + 1
         \/ \E n \in Nat : Discards(n)
         \/ \E e \in Events : Emit(e) /\ \E n \in {0, 1} : Hears(e, n)
  <1>1. page \in Pages
    BY DEF Types
  <1>2. CASE Reload
    BY <1>2 DEF Reload, Fresh
  <1>3. CASE Connect /\ ~page.installed /\ page' = Fresh(page.session + 1)
    BY <1>3 DEF Fresh
  <1>4. CASE DiscardsSome
    <2>1. PICK n \in 0..Len(page.queue) :
             page' = [page EXCEPT !.queue = SubSeq(page.queue, n + 1, Len(page.queue))]
      BY <1>4 DEF DiscardsSome
    <2>2. n \in Nat
      BY <1>1 DEF Pages
    <2> QED
      BY <1>1, <1>4, <2>1, <2>2, DiscardsIs DEF DiscardsSome
  <1>5. ASSUME NEW e \in Events, Emit(e) PROVE \E n \in {0, 1} : Hears(e, n)
    BY <1>1, <1>5, HearsIs
  <1> QED
    BY <1>2, <1>3, <1>4, <1>5, PageMoves

(* Every step keeps the queue in order.                                    *)
LEMMA QueueStep ==
  ASSUME Types, QueueStands, ItemStands, [Next]_vars
  PROVE  QueueStands'
  <1>1. page \in Pages /\ page.nextSeq \in Nat /\ Len(page.queue) \in Nat /\ DOMAIN page.queue = 1..Len(page.queue)
    BY DEF Types, Pages
  <1>2. CASE UNCHANGED page
    BY <1>2 DEF QueueStands
  <1>3. CASE page'.queue = <<>>
    BY <1>3 DEF QueueStands
  <1>4. ASSUME NEW n \in Nat, Discards(n) PROVE QueueStands'
    <2>1. PICK l \in Nat, x \in Nat : l = Len(page.queue) /\ x = page.nextSeq
      BY <1>1
    <2>2. /\ DOMAIN page'.queue = 1..(l - n) /\ DOMAIN page.queue = 1..l /\ n <= l /\ Len(page'.queue) = l - n
          /\ \A i \in 1..(l - n) : page'.queue[i] = page.queue[n + i]
          /\ page'.nextSeq = x /\ page'.seen = page.seen /\ page'.installed
      BY <1>4, <2>1 DEF Discards
    <2>3. /\ \A i \in 1..l : page.queue[i].seq = x - l + i - 1 /\ page.queue[i].event \in page.seen
          /\ \A i, j \in 1..l : page.queue[i].event = page.queue[j].event => i = j
      <3>1. /\ \A i \in DOMAIN page.queue :
                  /\ page.queue[i].seq = page.nextSeq - Len(page.queue) + i - 1
                  /\ page.queue[i].event \in page.seen
            /\ \A i, j \in DOMAIN page.queue : page.queue[i].event = page.queue[j].event => i = j
        BY DEF QueueStands
      <3> QED
        BY <2>1, <2>2, <3>1
    <2>4. ASSUME NEW i \in 1..(l - n)
          PROVE  /\ n + i \in 1..l /\ page'.queue[i] = page.queue[n + i] /\ x - l + (n + i) - 1 = x - (l - n) + i - 1
      <3>1. page'.queue[i] = page.queue[n + i] /\ n <= l
        BY <2>2
      <3>2. PICK k \in Nat : k = i /\ 1 <= k /\ k <= l - n
        OBVIOUS
      <3>3. n + k \in 1..l /\ x - l + (n + k) - 1 = x - (l - n) + k - 1
        BY <3>1, <3>2
      <3> QED
        BY <3>1, <3>2, <3>3
    <2>5. ASSUME NEW i \in 1..(l - n), NEW j \in 1..(l - n), page'.queue[i].event = page'.queue[j].event
          PROVE  i = j
      <3>1. n + i = n + j
        BY <2>3, <2>4, <2>5
      <3> QED
        BY <3>1
    <2>6. \A i \in 1..(l - n) : page'.queue[i].seq = x - (l - n) + i - 1 /\ page'.queue[i].event \in page.seen
      BY <2>3, <2>4
    <2> QED
      BY <2>2, <2>5, <2>6 DEF QueueStands
  <1>5. ASSUME NEW e \in Events, NEW n \in {0, 1}, Hears(e, n) PROVE QueueStands'
    <2>1. \A i \in DOMAIN page'.queue :
             \/ n + i \in DOMAIN page.queue /\ page'.queue[i] = page.queue[n + i]
             \/ n + i = Len(page.queue) + 1 /\ page'.queue[i].event = e /\ page'.queue[i].seq = page.nextSeq
      BY <1>1, <1>5 DEF Hears
    <2>2. e \notin page.seen /\ \A i \in DOMAIN page.queue : page.queue[i].event \in page.seen
      BY <1>5 DEF Hears, QueueStands
    <2>3. /\ \A i \in DOMAIN page.queue : page.queue[i].seq = page.nextSeq - Len(page.queue) + i - 1
          /\ page'.nextSeq = page.nextSeq + 1 /\ page'.seen = page.seen \cup {e} /\ page'.installed
          /\ Len(page'.queue) = Len(page.queue) + 1 - n /\ DOMAIN page'.queue = 1..(Len(page.queue) + 1 - n)
      BY <1>5 DEF Hears, QueueStands
    <2>4. ASSUME NEW i \in DOMAIN page'.queue
          PROVE  /\ page'.queue[i].seq = page'.nextSeq - Len(page'.queue) + i - 1
                 /\ page'.queue[i].event \in page'.seen
      <3>1. CASE n + i \in DOMAIN page.queue /\ page'.queue[i] = page.queue[n + i]
        <4>1. page'.queue[i].seq = page.nextSeq - Len(page.queue) + (n + i) - 1 /\ page'.queue[i].event \in page.seen
          BY <2>2, <2>3, <3>1
        <4>2. i \in Nat
          BY <1>1, <2>3
        <4>3. page.nextSeq - Len(page.queue) + (n + i) - 1 = page'.nextSeq - Len(page'.queue) + i - 1
          BY <1>1, <2>3, <4>2
        <4> QED
          BY <2>3, <4>1, <4>3
      <3>2. CASE n + i = Len(page.queue) + 1 /\ page'.queue[i].event = e /\ page'.queue[i].seq = page.nextSeq
        <4>1. i \in Nat
          BY <1>1, <2>3
        <4>2. page.nextSeq = page'.nextSeq - Len(page'.queue) + i - 1
          <5>1. PICK l \in Nat, x \in Nat, k \in Nat : l = Len(page.queue) /\ x = page.nextSeq /\ k = n
            BY <1>1
          <5>2. Len(page'.queue) = l + 1 - k /\ page'.nextSeq = x + 1 /\ k + i = l + 1
            BY <2>3, <3>2, <5>1
          <5>3. x = (x + 1) - (l + 1 - k) + i - 1
            BY <4>1, <5>2
          <5> QED
            BY <5>1, <5>2, <5>3
        <4> QED
          BY <2>3, <3>2, <4>2
      <3> QED
        BY <2>1, <3>1, <3>2
    <2>5. ASSUME NEW i \in DOMAIN page'.queue, NEW j \in DOMAIN page'.queue,
                 page'.queue[i].event = page'.queue[j].event
          PROVE  i = j
      <3>1. i \in Nat /\ j \in Nat
        BY <1>1, <2>3
      <3>2. CASE n + i \in DOMAIN page.queue /\ n + j \in DOMAIN page.queue
        <4>1. page'.queue[i] = page.queue[n + i] /\ page'.queue[j] = page.queue[n + j]
          BY <1>1, <2>1, <3>2
        <4>2. n + i = n + j
          BY <2>5, <3>2, <4>1 DEF QueueStands
        <4> QED
          BY <3>1, <4>2
      <3>3. CASE n + i \notin DOMAIN page.queue
        <4>1. n + i = Len(page.queue) + 1 /\ page'.queue[j].event = e
          BY <2>1, <2>5, <3>3
        <4>2. n + j = Len(page.queue) + 1
          BY <2>1, <2>2, <4>1
        <4> QED
          BY <3>1, <4>1, <4>2
      <3>4. CASE n + j \notin DOMAIN page.queue
        <4>1. n + j = Len(page.queue) + 1 /\ page'.queue[i].event = e
          BY <2>1, <2>5, <3>4
        <4>2. n + i = Len(page.queue) + 1
          BY <2>1, <2>2, <4>1
        <4> QED
          BY <3>1, <4>1, <4>2
      <3> QED
        BY <3>2, <3>3, <3>4
    <2> QED
      BY <2>3, <2>4, <2>5 DEF QueueStands
  <1> QED
    BY <1>2, <1>3, <1>4, <1>5, PageSteps

-----------------------------------------------------------------------------
(* The row and the batch in hand.                                          *)

(* The row in hand while the tables move.                                  *)
LEMMA ItemRests ==
  ASSUME Types, RowsMove, MessagesPass, ItemStands, loop.at \in WithItem, loop'.item = loop.item,
         loop.at = "claimed" => loop'.at = "claimed"
  PROVE  ItemStands'
  <1>1. \A d \in Events : Moves(inbox[d], inbox'[d])
    BY DEF RowsMove
  <1>2. \A d \in Events : /\ inbox'[d].session = inbox[d].session /\ inbox'[d].seq = inbox[d].seq
                          /\ (Known(d))' <=> Known(d)
                          /\ inbox[d].state = "processed" => inbox'[d].state = "processed"
    BY <1>1 DEF Moves, Known
  <1>3. \A m \in Messages : msg[m].state # "absent" => msg'[m].state # "absent"
    BY DEF MessagesPass, Passes
  <1>4. PICK e \in Events : e = loop.item
    BY DEF ItemStands
  <1>5. \A d \in Events : /\ Known(d) /\ inbox[d].session = inbox[e].session
                          /\ inbox[d].seq < inbox[e].seq
                          => inbox[d].state = "processed"
    BY <1>4 DEF ItemStands
  <1>6. Known(e) /\ (loop.at # "claimed" => /\ e \notin Members
                                            /\ e \in Messages => msg[e].state # "absent")
    BY <1>4 DEF ItemStands
  <1>7. \A d \in Events : /\ (Known(d))' /\ inbox'[d].session = inbox'[e].session
                          /\ inbox'[d].seq < inbox'[e].seq
                          => inbox'[d].state = "processed"
    BY <1>2, <1>5
  <1> QED
    BY <1>2, <1>3, <1>4, <1>6, <1>7 DEF ItemStands

(* Every step keeps the row in hand behind closed ones.                    *)
LEMMA ItemStep ==
  ASSUME Types, QueueStands, ItemStands, BatchStands, MessagesStand, ~up => loop.at = "connect", [Next]_vars
  PROVE  ItemStands'
  <1>1. MessagesPass
    BY MessagesMove
  <1>2. loop \in Loops
    BY DEF Types
  <1>3. \A p : [loop EXCEPT !.at = p].at = p
    BY <1>2 DEF Loops
  <1>4. PostponeItem => loop'.at = "read"
    BY <1>2 DEF PostponeItem, Loops
  <1>5. ASSUME loop' = loop, ~ReadBatch PROVE ItemStands'
    <2>1. RowsMove
      BY <1>5, InboxMoves
    <2>2. CASE loop.at \in WithItem
      BY <1>1, <1>5, <2>1, <2>2, ItemRests
    <2>3. CASE loop.at \notin WithItem
      BY <1>5, <2>3 DEF ItemStands
    <2> QED
      BY <2>2, <2>3
  <1>6. CASE Scan
    <2>1. CASE Goto("read")
      BY <1>3, <2>1 DEF Goto, ItemStands, WithItem
    <2>2. ASSUME NEW e \in Events, Claimable(e), loop' = [loop EXCEPT !.at = "claimed", !.item = e]
          PROVE  ItemStands'
      <3>1. RowsMove
        BY <1>6, InboxMoves DEF Scan, ReadBatch, At
      <3>2. \A d \in Events : Moves(inbox[d], inbox'[d])
        BY <3>1 DEF RowsMove
      <3>3. \A d \in Events : /\ inbox'[d].session = inbox[d].session /\ inbox'[d].seq = inbox[d].seq
                              /\ (Known(d))' <=> Known(d)
                              /\ inbox[d].state = "processed" => inbox'[d].state = "processed"
        BY <3>2 DEF Moves, Known
      <3>4. Known(e) /\ \A d \in Events : /\ Known(d) /\ inbox[d].session = inbox[e].session
                                          /\ inbox[d].seq < inbox[e].seq
                                          => inbox[d].state = "processed"
        BY <2>2 DEF Claimable, Known
      <3>5. loop'.at = "claimed" /\ loop'.item = e
        BY <1>2, <2>2 DEF Loops
      <3>6. \A d \in Events : /\ (Known(d))' /\ inbox'[d].session = inbox'[e].session
                              /\ inbox'[d].seq < inbox'[e].seq
                              => inbox'[d].state = "processed"
        BY <3>3, <3>4
      <3> QED
        BY <3>3, <3>4, <3>5, <3>6 DEF ItemStands
    <2> QED
      BY <1>6, <2>1, <2>2 DEF Scan
  <1>7. CASE TakeItem
    <2>1. CASE PostponeItem
      BY <1>4, <2>1 DEF ItemStands, WithItem
    <2>2. CASE ~PostponeItem
      <3>1. PICK e \in Events : e = loop.item /\ Known(e)
        BY <1>7 DEF TakeItem, At, ItemStands, WithItem
      <3>2. /\ e \notin Members /\ UNCHANGED inbox /\ loop' = [loop EXCEPT !.at = "ack item"]
            /\ e \in Messages => msg' = [msg EXCEPT ![e] = InsertMessage(@, inbox[e].seq)]
        BY <1>7, <2>2, <3>1 DEF TakeItem, Goto
      <3>3. loop'.at = "ack item" /\ loop'.item = e
        BY <1>2, <3>1, <3>2 DEF Loops
      <3>4. e \in Messages => msg'[e].state # "absent"
        <4>1. ASSUME e \in Messages PROVE msg'[e].state # "absent"
          <5>1. msg'[e] = InsertMessage(msg[e], inbox[e].seq) /\ msg[e] \in MessageRows
            BY <3>2, <4>1 DEF Types, TableTypes
          <5> QED
            BY <5>1 DEF InsertMessage, MessageRows
        <4> QED
          BY <4>1
      <3>5. \A d \in Events : /\ Known(d) /\ inbox[d].session = inbox[e].session
                              /\ inbox[d].seq < inbox[e].seq
                              => inbox[d].state = "processed"
        BY <1>7, <3>1 DEF TakeItem, At, ItemStands, WithItem
      <3> QED
        BY <3>1, <3>2, <3>3, <3>4, <3>5 DEF ItemStands, Known
    <2> QED
      BY <2>1, <2>2
  <1>8. CASE AckItem
    <2>1. CASE PostponeItem
      BY <1>4, <2>1 DEF ItemStands, WithItem
    <2>2. CASE ~PostponeItem
      <3>1. loop' = [loop EXCEPT !.at = "commit item"] /\ loop.at = "ack item"
        BY <1>8, <2>2 DEF AckItem, Goto, At
      <3>2. loop'.item = loop.item
        BY <1>2, <3>1 DEF Loops
      <3>3. RowsMove
        BY <1>8, InboxMoves DEF AckItem, ReadBatch, At
      <3> QED
        BY <1>1, <3>1, <3>2, <3>3, ItemRests DEF WithItem
    <2> QED
      BY <2>1, <2>2
  <1>9. CASE CommitItem
    <2>1. loop'.at = "read"
      BY <1>2, <1>4, <1>9 DEF CommitItem, Loops
    <2> QED
      BY <2>1 DEF ItemStands, WithItem
  <1>10. CASE Connect
    <2>1. loop'.at = "top"
      BY <1>10 DEF Connect, Connecting
    <2> QED
      BY <2>1 DEF ItemStands, WithItem
  <1>11. CASE SkipScan
    BY <1>3, <1>11 DEF SkipScan, Goto, ItemStands, WithItem
  <1>12. CASE ReadFails \/ Crash
    <2>1. loop'.at = "connect"
      BY <1>12 DEF ReadFails, Crash, Connecting
    <2> QED
      BY <2>1 DEF ItemStands, WithItem
  <1>13. CASE ReadBatch
    <2>1. loop'.at \in {"top", "ack", "members"}
      BY <1>2, <1>13 DEF ReadBatch, Loops
    <2> QED
      BY <2>1 DEF ItemStands, WithItem
  <1>14. CASE ApplyMembers
    <2>1. loop'.at = "ack"
      BY <1>2, <1>14 DEF ApplyMembers, Goto, Loops
    <2> QED
      BY <2>1 DEF ItemStands, WithItem
  <1>15. CASE AckBatch
    <2>1. loop'.at \in {"top", "commit"}
      BY <1>2, <1>15, AckBatchIs DEF NextRound, Loops
    <2> QED
      BY <2>1 DEF ItemStands, WithItem
  <1>16. CASE CommitBatch
    <2>1. loop'.at = "top"
      BY <1>2, <1>16 DEF CommitBatch, NextRound, Loops
    <2> QED
      BY <2>1 DEF ItemStands, WithItem
  <1>17. CASE UNCHANGED vars \/ Reload
    <2>1. CASE ReadBatch
      BY <1>13, <2>1
    <2> QED
      BY <1>5, <1>17, <2>1 DEF vars, Reload
  <1>18. CASE Restart
    <2>1. loop' = loop /\ loop.at = "connect"
      BY <1>18 DEF Restart
    <2> QED
      BY <2>1 DEF ItemStands, WithItem
  <1>19. ASSUME NEW e \in Events, Emit(e) \/ MapGroup(e) \/ BecomeDue(e) PROVE ItemStands'
    <2>1. CASE ReadBatch
      BY <1>13, <2>1
    <2> QED
      BY <1>5, <1>19, <2>1 DEF Emit, MapGroup, BecomeDue
  <1>20. ASSUME NEW g \in Groups, StartJob(g) \/ FinishJob(g) PROVE ItemStands'
    <2>1. CASE ReadBatch
      BY <1>13, <2>1
    <2> QED
      BY <1>5, <1>20, <2>1 DEF StartJob, FinishJob
  <1> QED
    BY <1>6, <1>7, <1>8, <1>9, <1>10, <1>11, <1>12, <1>13, <1>14, <1>15, <1>16, <1>17, <1>18, <1>19,
       <1>20 DEF Next, LoopStep

(* What lies in the page's queue up to a record of the batch is in the     *)
(* batch.                                                                  *)
Ahead ==
    page.installed /\ page.session = loop.session =>
        \A j \in DOMAIN loop.batch :
            /\ loop.batch[j].seq < page.nextSeq
            /\ \A i \in DOMAIN page.queue : page.queue[i].seq <= loop.batch[j].seq =>
                  \E k \in 1..j : loop.batch[k] = page.queue[i]

(* It stays there while the batch is in hand.                              *)
LEMMA AheadStays ==
  ASSUME Types, QueueStands, ItemStands, [Next]_vars, loop.at # "connect", Ahead,
         loop'.batch = loop.batch, loop'.session = loop.session
  PROVE  Ahead'
  <1>1. page \in Pages /\ page.nextSeq \in Nat /\ Len(page.queue) \in Nat /\ DOMAIN page.queue = 1..Len(page.queue)
    BY DEF Types, Pages
  <1>2. \A j \in DOMAIN loop.batch : loop.batch[j].seq \in Nat
    <2>1. \A s \in Seq(Records) : \A j \in DOMAIN s : s[j] \in Records
      OBVIOUS
    <2> QED
      BY <2>1 DEF Types, Loops, Records
  <1>3. CASE UNCHANGED page
    BY <1>3 DEF Ahead
  <1>4. CASE ~page'.installed
    BY <1>4 DEF Ahead
  <1>5. ASSUME NEW n \in Nat, Discards(n) PROVE Ahead'
    <2>1. PICK l \in Nat : l = Len(page.queue)
      BY <1>1
    <2>2. /\ page.installed /\ page'.session = page.session /\ page'.nextSeq = page.nextSeq
          /\ DOMAIN page'.queue = 1..(l - n) /\ DOMAIN page.queue = 1..l
          /\ \A i \in 1..(l - n) : page'.queue[i] = page.queue[n + i]
      BY <1>5, <2>1 DEF Discards
    <2>3. \A i \in 1..(l - n) : n + i \in 1..l
      OBVIOUS
    <2>4. \A i \in DOMAIN page'.queue : \E k \in DOMAIN page.queue : page'.queue[i] = page.queue[k]
      BY <2>2, <2>3
    <2>5. ASSUME page'.session = loop'.session, NEW j \in DOMAIN loop'.batch
          PROVE  /\ loop'.batch[j].seq < page'.nextSeq
                 /\ \A i \in DOMAIN page'.queue : page'.queue[i].seq <= loop'.batch[j].seq =>
                       \E k \in 1..j : loop'.batch[k] = page'.queue[i]
      <3>1. /\ loop.batch[j].seq < page.nextSeq
            /\ \A i \in DOMAIN page.queue : page.queue[i].seq <= loop.batch[j].seq =>
                  \E k \in 1..j : loop.batch[k] = page.queue[i]
        BY <2>2, <2>5 DEF Ahead
      <3>2. ASSUME NEW i \in DOMAIN page'.queue, page'.queue[i].seq <= loop.batch[j].seq
            PROVE  \E k \in 1..j : loop.batch[k] = page'.queue[i]
        <4>1. PICK h \in DOMAIN page.queue : page'.queue[i] = page.queue[h]
          BY <2>4
        <4>2. page.queue[h].seq <= loop.batch[j].seq
          BY <3>2, <4>1
        <4> QED
          BY <3>1, <4>1, <4>2
      <3> QED
        BY <2>2, <3>1, <3>2
    <2> QED
      BY <2>5 DEF Ahead
  <1>6. ASSUME NEW e \in Events, NEW n \in {0, 1}, Hears(e, n) PROVE Ahead'
    <2>1. \A i \in DOMAIN page'.queue :
             \/ \E k \in DOMAIN page.queue : page'.queue[i] = page.queue[k]
             \/ page'.queue[i].seq = page.nextSeq
      <3>1. \A i \in DOMAIN page'.queue : n + i \in DOMAIN page.queue \/ n + i > Len(page.queue)
        BY <1>1, <1>6 DEF Hears
      <3>2. \A i \in DOMAIN page'.queue :
               /\ n + i <= Len(page.queue) => page'.queue[i] = page.queue[n + i]
               /\ n + i > Len(page.queue) => page'.queue[i].seq = page.nextSeq
        BY <1>6 DEF Hears
      <3>3. \A i \in DOMAIN page'.queue : n + i \in DOMAIN page.queue => n + i <= Len(page.queue)
        BY <1>1
      <3> QED
        BY <3>1, <3>2, <3>3
    <2>2. page.installed /\ page'.session = page.session /\ page'.nextSeq = page.nextSeq + 1
      BY <1>6 DEF Hears
    <2>3. ASSUME page'.session = loop'.session, NEW j \in DOMAIN loop'.batch
          PROVE  /\ loop'.batch[j].seq < page'.nextSeq
                 /\ \A i \in DOMAIN page'.queue : page'.queue[i].seq <= loop'.batch[j].seq =>
                       \E k \in 1..j : loop'.batch[k] = page'.queue[i]
      <3>1. /\ loop.batch[j].seq < page.nextSeq /\ loop.batch[j].seq \in Nat
            /\ \A i \in DOMAIN page.queue : page.queue[i].seq <= loop.batch[j].seq =>
                  \E k \in 1..j : loop.batch[k] = page.queue[i]
        BY <1>2, <2>2, <2>3 DEF Ahead
      <3>2. ~(page.nextSeq <= loop.batch[j].seq)
        BY <1>1, <3>1
      <3> QED
        BY <1>1, <2>1, <2>2, <3>1, <3>2
    <2> QED
      BY <2>3 DEF Ahead
  <1> QED
    BY <1>3, <1>4, <1>5, <1>6, PageSteps DEF Connect, At

(* What is kept stays kept.                                                *)
LEMMA KeptStays ==
  ASSUME RowsMove, MessagesPass, NEW e \in Events, Kept(e)
  PROVE  (Kept(e))'
  <1>1. Moves(inbox[e], inbox'[e])
    BY DEF RowsMove
  <1>2. \A m \in Messages : msg[m].state # "absent" => msg'[m].state # "absent"
    BY DEF MessagesPass, Passes
  <1> QED
    BY <1>1, <1>2 DEF Kept, Moves

(* The batch in hand while the tables move.                                *)
LEMMA BatchRests ==
  ASSUME Types, QueueStands, ItemStands, BatchStands, MessagesStand, [Next]_vars, ~ReadBatch,
         loop.at \in WithBatch, loop'.batch = loop.batch, loop'.session = loop.session,
         \A e \in loop'.ackable : e \in loop.ackable \/ (Kept(e))'
  PROVE  BatchStands'
  <1>1. RowsMove /\ MessagesPass
    BY InboxMoves, MessagesMove
  <1>2. /\ \A i \in DOMAIN loop.batch : loop.batch[i].event \in Events
        /\ loop.ackable \subseteq Events
    <2>1. \A s \in Seq(Records) : \A j \in DOMAIN s : s[j] \in Records
      OBVIOUS
    <2> QED
      BY <2>1 DEF Types, Loops, Records
  <1>3. \A i \in DOMAIN loop.batch : Known(loop.batch[i].event)
    BY DEF BatchStands
  <1>4. \A e \in Events : Known(e) => (Known(e))'
    BY <1>1 DEF RowsMove, Moves, Known
  <1>5. \A i \in DOMAIN loop'.batch : (Known(loop.batch[i].event))'
    BY <1>2, <1>3, <1>4
  <1>6. \A e \in loop.ackable : (Kept(e))'
    BY <1>1, <1>2, KeptStays DEF BatchStands
  <1>7. \A e \in loop'.ackable : (Kept(e))'
    BY <1>6
  <1>8. Ahead
    BY DEF Ahead, BatchStands
  <1>9. Ahead'
    BY <1>8, AheadStays DEF WithBatch
  <1> QED
    BY <1>5, <1>7, <1>9 DEF BatchStands, Ahead, Known

(* A batch that has been stored.                                           *)
LEMMA BatchRead ==
  ASSUME Types, QueueStands, NEW m \in Nat, Stores(m), UNCHANGED page
  PROVE  BatchStands'
  <1>1. /\ page.queue \in Seq(Records) /\ page.nextSeq \in Nat /\ Len(page.queue) \in Nat
        /\ DOMAIN page.queue = 1..Len(page.queue)
    BY DEF Types, Pages
  <1>2. /\ m \in 0..Len(page.queue) /\ loop'.batch = SubSeq(page.queue, 1, m)
    BY <1>1 DEF Stores
  <1>3. /\ DOMAIN loop'.batch = 1..m /\ \A i \in 1..m : loop'.batch[i] = page.queue[i]
    BY <1>1, <1>2, Prefix
  <1>4. \A i \in 1..m : inbox'[page.queue[i].event].state # "absent"
    BY DEF Stores
  <1>5. \A i \in DOMAIN loop'.batch : inbox'[loop'.batch[i].event].state # "absent"
    BY <1>3, <1>4
  <1>6. /\ mapped \subseteq Messages /\ Ignorable \subseteq Events \ Members
        /\ \A e \in Messages : msg[e] \in MessageRows
    BY DEF Types, KindsAreApart, TableTypes
  <1>7. ASSUME NEW e \in loop'.ackable PROVE (Kept(e))'
    <2>1. e \in BatchEvents(loop'.batch) /\ e \in mapped \cup Ignorable
      BY DEF Stores
    <2>2. inbox'[e].state # "absent"
      BY <1>5, <2>1 DEF BatchEvents
    <2>3. CASE e \in mapped
      <3>1. PICK q : q = Sequence(loop'.batch, e)
        OBVIOUS
      <3>2. PICK r \in MessageRows : r = msg[e]
        BY <1>6, <2>3
      <3>3. msg'[e] = InsertMessage(r, q) /\ e \in Messages
        BY <1>6, <2>1, <2>3, <3>1, <3>2 DEF Stores
      <3>4. msg'[e].state # "absent"
        BY <3>3 DEF InsertMessage, MessageRows
      <3> QED
        BY <2>2, <3>3, <3>4 DEF Kept, Messages
    <2>4. CASE e \in Ignorable
      BY <1>6, <2>2, <2>4 DEF Kept, Messages
    <2> QED
      BY <2>1, <2>3, <2>4
  <1>8. ASSUME NEW j \in 1..m
        PROVE  /\ page.queue[j].seq < page.nextSeq
               /\ \A i \in DOMAIN page.queue : page.queue[i].seq <= page.queue[j].seq => i \in 1..j
    <2>1. PICK l \in Nat, x \in Nat : l = Len(page.queue) /\ x = page.nextSeq
      BY <1>1
    <2>2. \A i \in 1..l : page.queue[i].seq = x - l + i - 1
      BY <1>1, <2>1 DEF QueueStands
    <2>3. j \in 1..l /\ DOMAIN page.queue = 1..l
      BY <1>1, <1>2, <2>1
    <2>4. x - l + j - 1 < x /\ \A i \in 1..l : x - l + i - 1 <= x - l + j - 1 => i \in 1..j
      BY <2>3
    <2> QED
      BY <2>1, <2>2, <2>3, <2>4
  <1>9. \A j \in DOMAIN loop'.batch :
            /\ loop'.batch[j].seq < page.nextSeq
            /\ \A i \in DOMAIN page.queue : page.queue[i].seq <= loop'.batch[j].seq =>
                  \E k \in 1..j : loop'.batch[k] = page.queue[i]
    BY <1>3, <1>8
  <1> QED
    BY <1>5, <1>7, <1>9 DEF BatchStands, Known

(* Every step keeps what the batch may acknowledge.                        *)
LEMMA BatchStep ==
  ASSUME Types, QueueStands, ItemStands, BatchStands, MessagesStand, ~up => loop.at = "connect", [Next]_vars
  PROVE  BatchStands'
  <1>1. MessagesPass
    BY MessagesMove
  <1>2. loop \in Loops
    BY DEF Types
  <1>3. \A p : [loop EXCEPT !.at = p].at = p
    BY <1>2 DEF Loops
  <1>4. ASSUME loop' = loop, ~ReadBatch PROVE BatchStands'
    <2>1. CASE loop.at \in WithBatch
      BY <1>4, <2>1, BatchRests
    <2>2. CASE loop.at \notin WithBatch
      BY <1>4, <2>2 DEF BatchStands
    <2> QED
      BY <2>1, <2>2
  <1>5. CASE ReadBatch
    <2>1. CASE loop' = [loop EXCEPT !.at = "top", !.session = page.session]
      <3>1. loop'.at = "top"
        BY <1>2, <2>1 DEF Loops
      <3> QED
        BY <3>1 DEF BatchStands, WithBatch
    <2>2. ASSUME NEW m \in Nat, Stores(m) PROVE BatchStands'
      BY <1>5, <2>2, BatchRead DEF ReadBatch
    <2> QED
      BY <1>5, <2>1, <2>2, ReadIs
  <1>6. CASE ApplyMembers
    <2>1. loop.at = "members" /\ loop.at \in WithBatch
      BY <1>6 DEF ApplyMembers, At, WithBatch
    <2>2. PICK M : M = BatchEvents(loop.batch) \cap Members
      OBVIOUS
    <2>3. \/ AlreadyProcessed(M) /\ UNCHANGED inbox /\ loop' = [loop EXCEPT !.at = "ack", !.ackable = @ \cup M]
          \/ MarkProcessed(M) /\ loop' = [loop EXCEPT !.at = "ack", !.ackable = @ \cup M]
          \/ loop' = [loop EXCEPT !.at = "ack"]
      BY <1>6, <2>2 DEF ApplyMembers, Goto
    <2>4. /\ loop'.batch = loop.batch /\ loop'.session = loop.session
          /\ loop'.ackable = loop.ackable \cup M \/ loop'.ackable = loop.ackable
          /\ loop'.ackable = loop.ackable \cup M => \/ AlreadyProcessed(M) /\ UNCHANGED inbox
                                                    \/ MarkProcessed(M) \/ M \subseteq loop.ackable
      BY <1>2, <2>3 DEF Loops
    <2>5. M \subseteq Members /\ Members \subseteq Events
      BY <2>2 DEF Types, KindsAreApart
    <2>6. \A e \in Events : inbox[e] \in InboxRows
      BY DEF Types, TableTypes
    <2>7. ASSUME (AlreadyProcessed(M) /\ UNCHANGED inbox) \/ MarkProcessed(M), NEW e \in M
          PROVE  (Kept(e))'
      <3>1. inbox'[e].state = "processed"
        <4>1. CASE AlreadyProcessed(M) /\ UNCHANGED inbox
          BY <2>7, <4>1 DEF AlreadyProcessed
        <4>2. CASE MarkProcessed(M)
          <5>1. e \in Events /\ inbox[e] \in InboxRows
            BY <2>5, <2>6, <2>7
          <5>2. inbox'[e] = [inbox[e] EXCEPT !.state = "processed", !.due = TRUE]
            BY <2>7, <4>2, <5>1 DEF MarkProcessed
          <5> QED
            BY <5>1, <5>2 DEF InboxRows
        <4> QED
          BY <2>7, <4>1, <4>2
      <3>2. e \notin Messages
        BY <2>5 DEF Messages
      <3> QED
        BY <3>1, <3>2 DEF Kept
    <2>8. \A e \in loop'.ackable : e \in loop.ackable \/ (Kept(e))'
      BY <2>4, <2>7
    <2>9. ~ReadBatch
      BY <2>1 DEF ReadBatch, At
    <2> QED
      BY <2>1, <2>4, <2>8, <2>9, BatchRests
  <1>7. CASE AckBatch
    <2>1. PICK q : loop' = NextRound(loop) \/ loop' = [loop EXCEPT !.at = "commit", !.lastAck = q]
      BY <1>2, <1>7, AckBatchIs
    <2>2. CASE loop' = NextRound(loop)
      <3>1. loop'.at = "top"
        BY <1>2, <2>2 DEF NextRound, Loops
      <3> QED
        BY <3>1 DEF BatchStands, WithBatch
    <2>3. CASE loop' = [loop EXCEPT !.at = "commit", !.lastAck = q]
      <3>1. loop'.batch = loop.batch /\ loop'.session = loop.session /\ loop'.ackable = loop.ackable
        BY <1>2, <2>3 DEF Loops
      <3>2. ~ReadBatch /\ loop.at \in WithBatch
        BY <1>7 DEF AckBatch, ReadBatch, At, WithBatch
      <3> QED
        BY <3>1, <3>2, BatchRests
    <2> QED
      BY <2>1, <2>2, <2>3
  <1>8. CASE CommitBatch
    <2>1. loop'.at = "top"
      BY <1>2, <1>8 DEF CommitBatch, NextRound, Loops
    <2> QED
      BY <2>1 DEF BatchStands, WithBatch
  <1>9. CASE Connect
    <2>1. loop'.at = "top"
      BY <1>9 DEF Connect, Connecting
    <2> QED
      BY <2>1 DEF BatchStands, WithBatch
  <1>10. CASE ReadFails \/ Crash
    <2>1. loop'.at = "connect"
      BY <1>10 DEF ReadFails, Crash, Connecting
    <2> QED
      BY <2>1 DEF BatchStands, WithBatch
  <1>11. CASE SkipScan
    BY <1>3, <1>11 DEF SkipScan, Goto, BatchStands, WithBatch
  <1>12. PostponeItem => loop'.at = "read"
    BY <1>2 DEF PostponeItem, Loops
  <1>13. CASE Scan \/ TakeItem \/ AckItem \/ CommitItem
    <2>1. loop'.at \in {"claimed", "read", "ack item", "commit item"}
      BY <1>2, <1>3, <1>12, <1>13 DEF Scan, TakeItem, AckItem, CommitItem, Goto, Loops
    <2> QED
      BY <2>1 DEF BatchStands, WithBatch
  <1>14. CASE Restart
    <2>1. loop' = loop /\ loop.at = "connect"
      BY <1>14 DEF Restart
    <2> QED
      BY <2>1 DEF BatchStands, WithBatch
  <1>15. CASE UNCHANGED vars \/ Reload
    BY <1>4, <1>5, <1>15 DEF vars, Reload
  <1>16. ASSUME NEW e \in Events, Emit(e) \/ MapGroup(e) \/ BecomeDue(e) PROVE BatchStands'
    BY <1>4, <1>5, <1>16 DEF Emit, MapGroup, BecomeDue
  <1>17. ASSUME NEW g \in Groups, StartJob(g) \/ FinishJob(g) PROVE BatchStands'
    BY <1>4, <1>5, <1>17 DEF StartJob, FinishJob
  <1> QED
    BY <1>5, <1>6, <1>7, <1>8, <1>9, <1>10, <1>11, <1>13, <1>14, <1>15, <1>16, <1>17 DEF Next, LoopStep

-----------------------------------------------------------------------------
(* Rows and records.                                                       *)

(* A row tells of the same record.                                         *)
Same(e) ==
    /\ (Known(e))' <=> Known(e)
    /\ inbox'[e].session = inbox[e].session /\ inbox'[e].seq = inbox[e].seq

(* So do all while they move.                                              *)
LEMMA RowsAreSame ==
  ASSUME RowsMove PROVE \A e \in Events : Same(e)
  BY DEF RowsMove, Moves, Same, Known

(* The rows stay apart,                                                    *)
LEMMA RowsKeep ==
  ASSUME Types, QueueStands, ItemStands, RowsStand, RowsMove, [Next]_vars
  PROVE  RowsStand'
  <1>1. \A e \in Events : Same(e)
    BY RowsAreSame
  <1>2. page.session \in Nat /\ page.nextSeq \in Nat
        /\ \A e \in Events : inbox[e].session \in Nat /\ inbox[e].seq \in Nat
    BY DEF Types, Pages, TableTypes, InboxRows
  <1>3. \A e \in Events : Known(e) =>
          /\ inbox[e].session <= page.session
          /\ page.installed /\ inbox[e].session = page.session => inbox[e].seq < page.nextSeq
    BY DEF RowsStand
  <1>4. /\ page'.session = page.session \/ (page'.session = page.session + 1)
        /\ page'.installed /\ page'.session = page.session =>
              \/ /\ page.installed
                 /\ page'.nextSeq \in {page.nextSeq, page.nextSeq + 1}
              \/ UNCHANGED page
    BY <1>2, PageSteps DEF Discards, Hears
  <1>5. ASSUME NEW e \in Events, Known(e)
        PROVE  /\ inbox[e].session <= page'.session
               /\ page'.installed /\ inbox[e].session = page'.session => inbox[e].seq < page'.nextSeq
    <2>1. CASE page'.session = page.session + 1
      BY <1>2, <1>3, <1>5, <2>1
    <2>2. CASE page'.session = page.session
      BY <1>2, <1>3, <1>4, <1>5, <2>2
    <2> QED
      BY <1>4, <2>1, <2>2
  <1>6. \A d, e \in Events : /\ Known(d) /\ Known(e)
                             /\ inbox[d].session = inbox[e].session /\ inbox[d].seq = inbox[e].seq
                             => d = e
    BY DEF RowsStand
  <1>7. \A e \in Events : (Known(e))' =>
               /\ inbox'[e].session <= page'.session
               /\ page'.installed /\ inbox'[e].session = page'.session => inbox'[e].seq < page'.nextSeq
    BY <1>1, <1>5 DEF Same
  <1>8. \A d, e \in Events : /\ (Known(d))' /\ (Known(e))'
                             /\ inbox'[d].session = inbox'[e].session /\ inbox'[d].seq = inbox'[e].seq
                             => d = e
    BY <1>1, <1>6 DEF Same
  <1> QED
    BY <1>7, <1>8 DEF RowsStand

(* and the records agree with them,                                        *)
LEMMA RecordsKeep ==
  ASSUME Types, QueueStands, ItemStands, RowsStand, RecordsStand, RowsMove, "redeliver" \notin Faults,
         [Next]_vars
  PROVE  RecordsStand'
  <1>1. \A e \in Events : Same(e)
    BY RowsAreSame
  <1>2. /\ page.nextSeq \in Nat /\ Len(page.queue) \in Nat /\ DOMAIN page.queue = 1..Len(page.queue)
        /\ \A i \in DOMAIN page.queue : page.queue[i].event \in Events
        /\ \A e \in Events : inbox[e].seq \in Nat
    <2>1. \A s \in Seq(Records) : \A j \in DOMAIN s : s[j] \in Records
      OBVIOUS
    <2>2. page.queue \in Seq(Records) /\ page.nextSeq \in Nat /\ page.session \in Nat
      BY DEF Types, Pages
    <2>3. \A i \in DOMAIN page.queue : page.queue[i].event \in Events
      BY <2>1, <2>2 DEF Records
    <2>4. \A e \in Events : inbox[e].seq \in Nat
      BY DEF Types, TableTypes, InboxRows
    <2> QED
      BY <2>2, <2>3, <2>4
  <1> DEFINE Stands(r, s) ==
               /\ Known(r.event) => inbox[r.event].session = s /\ inbox[r.event].seq = r.seq
               /\ \A e \in Events : Known(e) /\ inbox[e].session = s /\ r.seq <= inbox[e].seq
                                    => Known(r.event)
             Stood(r, s) ==
               /\ inbox'[r.event].state # "absent" => inbox'[r.event].session = s /\ inbox'[r.event].seq = r.seq
               /\ \A e \in Events : /\ inbox'[e].state # "absent" /\ inbox'[e].session = s
                                    /\ r.seq <= inbox'[e].seq
                                    => inbox'[r.event].state # "absent"
  <1>3. \A i \in DOMAIN page.queue : Stands(page.queue[i], page.session)
    BY DEF RecordsStand
  <1>4. ASSUME NEW r, NEW s, r.event \in Events, Stands(r, s) PROVE Stood(r, s)
    BY <1>1, <1>4 DEF Same, Known
  <1> HIDE DEF Stands, Stood
  <1>5. \A i \in DOMAIN page.queue : Stood(page.queue[i], page.session)
    BY <1>2, <1>3, <1>4
  <1>6. ASSUME page'.session = page.session,
               \A i \in DOMAIN page'.queue : Stood(page'.queue[i], page.session)
        PROVE  RecordsStand'
    <2>1. ASSUME NEW i \in DOMAIN page'.queue
          PROVE  /\ (Known(page.queue[i].event))' => /\ inbox'[page'.queue[i].event].session = page'.session
                                                    /\ inbox'[page'.queue[i].event].seq = page'.queue[i].seq
                 /\ \A e \in Events : /\ (Known(e))' /\ inbox'[e].session = page'.session
                                      /\ page'.queue[i].seq <= inbox'[e].seq
                                      => (Known(page.queue[i].event))'
      BY <1>6, <2>1 DEF Stood, Known
    <2> QED
      BY <2>1 DEF RecordsStand
  <1>7. CASE page'.queue = <<>>
    BY <1>7 DEF RecordsStand
  <1>8. CASE UNCHANGED page
    BY <1>5, <1>6, <1>8
  <1>9. ASSUME NEW n \in Nat, Discards(n) PROVE RecordsStand'
    <2>1. \A i \in DOMAIN page'.queue : n + i \in DOMAIN page.queue /\ page'.queue[i] = page.queue[n + i]
      BY <1>2, <1>9 DEF Discards
    <2> QED
      BY <1>5, <1>6, <1>9, <2>1 DEF Discards
  <1>10. ASSUME NEW e \in Events, NEW n \in {0, 1}, Emit(e), Hears(e, n) PROVE RecordsStand'
    <2>1. ~Known(e) /\ page.installed
      BY <1>10, EmitIs DEF Types, Known
    <2>2. \A d \in Events : ~(Known(d) /\ inbox[d].session = page.session /\ page.nextSeq <= inbox[d].seq)
      BY <1>2, <2>1 DEF RowsStand
    <2>3. ASSUME NEW r, r.event = e, r.seq = page.nextSeq PROVE Stood(r, page.session)
      <3>1. Stands(r, page.session)
        BY <2>1, <2>2, <2>3 DEF Stands
      <3> QED
        BY <1>4, <2>3, <3>1
    <2>4. \A i \in DOMAIN page'.queue : n + i \in DOMAIN page.queue \/ n + i > Len(page.queue)
      BY <1>2, <1>10 DEF Hears
    <2>5. \A i \in DOMAIN page'.queue :
               /\ n + i <= Len(page.queue) => page'.queue[i] = page.queue[n + i]
               /\ n + i > Len(page.queue) => page'.queue[i].event = e /\ page'.queue[i].seq = page.nextSeq
      BY <1>10 DEF Hears
    <2>6. \A i \in DOMAIN page'.queue : n + i \in DOMAIN page.queue => n + i <= Len(page.queue)
      BY <1>2
    <2>7. \A i \in DOMAIN page'.queue : Stood(page'.queue[i], page.session)
      BY <1>5, <2>3, <2>4, <2>5, <2>6
    <2> QED
      BY <1>6, <1>10, <2>7 DEF Hears
  <1> QED
    BY <1>7, <1>8, <1>9, <1>10, PageSteps

(* also when a batch is stored.                                            *)
LEMMA RowsRead ==
  ASSUME Types, QueueStands, RowsStand, RecordsStand, NEW m \in Nat, Stores(m), UNCHANGED page
  PROVE  RowsStand' /\ RecordsStand'
  <1>1. /\ page.nextSeq \in Nat /\ Len(page.queue) \in Nat /\ DOMAIN page.queue = 1..Len(page.queue)
        /\ page.session \in Nat
        /\ \A i \in DOMAIN page.queue : page.queue[i].event \in Events
        /\ \A e \in Events : inbox[e].seq \in Nat
    <2>1. \A s \in Seq(Records) : \A j \in DOMAIN s : s[j] \in Records
      OBVIOUS
    <2>2. page.queue \in Seq(Records) /\ page.nextSeq \in Nat /\ page.session \in Nat
      BY DEF Types, Pages
    <2>3. \A i \in DOMAIN page.queue : page.queue[i].event \in Events
      BY <2>1, <2>2 DEF Records
    <2>4. \A e \in Events : inbox[e].seq \in Nat
      BY DEF Types, TableTypes, InboxRows
    <2> QED
      BY <2>2, <2>3, <2>4
  <1>2. PICK l \in Nat, x \in Nat, b \in Int : l = Len(page.queue) /\ x = page.nextSeq /\ b = x - l - 1
    <2>1. page.nextSeq - Len(page.queue) - 1 \in Int
      BY <1>1
    <2> QED
      BY <1>1, <2>1
  <1>3. /\ DOMAIN page.queue = 1..l /\ m <= l /\ b + l < x
        /\ \A i \in 1..l : page.queue[i].seq = b + i
    <2>1. \A i \in 1..l : page.queue[i].seq = x - l + i - 1
      BY <1>1, <1>2 DEF QueueStands
    <2>2. \A i \in 1..l : x - l + i - 1 = b + i
      BY <1>2
    <2> QED
      BY <1>1, <1>2, <2>1, <2>2 DEF Stores
  <1>4. \A i, j \in 1..l : page.queue[i].event = page.queue[j].event => i = j
    BY <1>3 DEF QueueStands
  <1>5. ASSUME NEW e \in Events
        PROVE  \/ inbox'[e] = inbox[e]
               \/ /\ ~Known(e) /\ inbox'[e].state = "pending" /\ inbox'[e].session = page.session
                  /\ \E i \in 1..m : e = page.queue[i].event /\ inbox'[e].seq = b + i
    BY <1>3 DEF Stores, NewRow
  <1>6. \A i \in 1..m : (Known(page.queue[i].event))'
    BY DEF Stores, Known
  <1>7. page.installed
    BY DEF Stores
  <1>8. ASSUME NEW i \in 1..l, NEW e \in Events, Known(e), inbox[e].session = page.session, b + i <= inbox[e].seq
        PROVE  Known(page.queue[i].event)
    BY <1>3, <1>8 DEF RecordsStand
  <1>9. \A e \in Events : Known(e) =>
          /\ inbox[e].session <= page.session
          /\ inbox[e].session = page.session => inbox[e].seq < x
    BY <1>2, <1>7 DEF RowsStand
  <1>10. ASSUME NEW e \in Events, (Known(e))'
         PROVE  /\ inbox'[e].session <= page.session
                /\ inbox'[e].session = page.session => inbox'[e].seq < x
    <2>1. CASE inbox'[e] = inbox[e]
      BY <1>9, <1>10, <2>1 DEF Known
    <2>2. ASSUME NEW i \in 1..m, inbox'[e].session = page.session, inbox'[e].seq = b + i
          PROVE  inbox'[e].session <= page.session /\ inbox'[e].seq < x
      <3>1. b + i < x
        BY <1>3
      <3> QED
        BY <1>1, <2>2, <3>1
    <2> QED
      BY <1>5, <2>1, <2>2
  <1>11. ASSUME NEW d \in Events, NEW e \in Events, Known(d), NEW i \in 1..m, ~Known(e), e = page.queue[i].event,
                inbox[d].session = page.session
         PROVE  inbox[d].seq # b + i
    BY <1>1, <1>3, <1>8, <1>11
  <1>12. ASSUME NEW d \in Events, NEW e \in Events, (Known(d))', (Known(e))',
                inbox'[d].session = inbox'[e].session, inbox'[d].seq = inbox'[e].seq
         PROVE  d = e
    <2>1. CASE inbox'[d] = inbox[d] /\ inbox'[e] = inbox[e]
      BY <1>12, <2>1 DEF RowsStand, Known
    <2>2. CASE inbox'[d] = inbox[d] /\ inbox'[e] # inbox[e]
      BY <1>5, <1>11, <1>12, <2>2 DEF Known
    <2>3. CASE inbox'[d] # inbox[d] /\ inbox'[e] = inbox[e]
      BY <1>5, <1>11, <1>12, <2>3 DEF Known
    <2>4. CASE inbox'[d] # inbox[d] /\ inbox'[e] # inbox[e]
      <3>1. PICK i \in 1..m : d = page.queue[i].event /\ inbox'[d].seq = b + i
        BY <1>5, <2>4
      <3>2. PICK j \in 1..m : e = page.queue[j].event /\ inbox'[e].seq = b + j
        BY <1>5, <2>4
      <3>3. b + i = b + j
        BY <1>12, <3>1, <3>2
      <3>4. i = j
        BY <3>3
      <3> QED
        BY <3>1, <3>2, <3>4
    <2> QED
      BY <2>1, <2>2, <2>3, <2>4
  <1>13. ASSUME NEW i \in 1..l, (Known(page.queue[i].event))'
         PROVE  /\ inbox'[page.queue[i].event].session = page.session
                /\ inbox'[page.queue[i].event].seq = b + i
    <2>1. PICK d \in Events : d = page.queue[i].event
      BY <1>1, <1>3
    <2>2. CASE inbox'[d] = inbox[d]
      BY <1>3, <1>13, <2>1, <2>2 DEF RecordsStand, Known
    <2>3. CASE inbox'[d] # inbox[d]
      <3>1. PICK k \in 1..m : d = page.queue[k].event /\ inbox'[d].seq = b + k
        BY <1>5, <2>3
      <3>2. k \in 1..l
        BY <1>3
      <3>3. k = i
        BY <1>4, <2>1, <3>1, <3>2
      <3> QED
        BY <1>5, <2>1, <2>3, <3>1, <3>3
    <2> QED
      BY <2>1, <2>2, <2>3
  <1>14. ASSUME NEW i \in 1..l, NEW e \in Events, (Known(e))', inbox'[e].session = page.session,
                b + i <= inbox'[e].seq
         PROVE  (Known(page.queue[i].event))'
    <2>1. PICK d \in Events : d = page.queue[i].event
      BY <1>1, <1>3
    <2>2. CASE inbox'[e] = inbox[e]
      <3>1. Known(d)
        BY <1>8, <1>14, <2>1, <2>2 DEF Known
      <3> QED
        BY <1>5, <2>1, <3>1 DEF Known
    <2>3. CASE inbox'[e] # inbox[e]
      <3>1. PICK k \in 1..m : inbox'[e].seq = b + k
        BY <1>5, <2>3
      <3>2. i \in 1..m
        BY <1>14, <3>1
      <3> QED
        BY <1>6, <3>2
    <2> QED
      BY <2>2, <2>3
  <1>15. RowsStand'
    BY <1>2, <1>10, <1>12 DEF RowsStand
  <1>16. RecordsStand'
    BY <1>3, <1>13, <1>14 DEF RecordsStand
  <1> QED
    BY <1>15, <1>16

-----------------------------------------------------------------------------
(* The theorems.                                                           *)

(* The start.                                                              *)
LEMMA Starts == Init => IInv
  <1> SUFFICES ASSUME Init PROVE IInv
    OBVIOUS
  <1>1. KindsAreApart /\ NoEvent \notin Events
    BY DEF Init, KindsAreApart
  <1>2. page = [installed |-> FALSE, session |-> 0, queue |-> <<>>, nextSeq |-> 1, seen |-> {}, dropped |-> FALSE]
    BY DEF Init, Fresh
  <1>3. loop = [at |-> "connect", epoch |-> 0, session |-> 0, lastAck |-> 0,
                batch |-> <<>>, ackable |-> {}, item |-> NoEvent]
    BY DEF Init, Connecting
  <1>4. <<>> \in Seq(Records) /\ <<>> \in Seq(Messages)
    OBVIOUS
  <1>5. page \in Pages /\ loop \in Loops
    BY <1>2, <1>3, <1>4 DEF Pages, Loops
  <1>6. TableTypes
    BY DEF Init, TableTypes, InboxRows, MessageRows
  <1>7. WorkTypes
    BY <1>4 DEF Init, WorkTypes
  <1>8. Types
    BY <1>1, <1>5, <1>6, <1>7 DEF Types, Init
  <1>9. QueueStands /\ RecordsStand
    BY <1>2 DEF QueueStands, RecordsStand
  <1>10. ItemStands /\ BatchStands /\ loop.at = "connect"
    BY <1>3 DEF ItemStands, BatchStands, WithItem, WithBatch
  <1>11. /\ \A e \in Messages : ~msg[e].acked /\ msg[e].state = "absent"
         /\ \A e \in Events : inbox[e].state = "absent"
         /\ \A g \in Groups : jobs[g] = <<>> /\ busy[g] = NoEvent
    BY DEF Init
  <1>12. \A e \in Messages : e \in Events
    BY DEF Messages
  <1>13. MessagesStand
    BY <1>11, <1>12 DEF MessagesStand, HandoverIsWhole, ProcessingFollowsAck, ClosedRowsAreHandedOver
  <1>14. RowsStand
    BY <1>11 DEF RowsStand, Known
  <1> QED
    BY <1>8, <1>9, <1>10, <1>13, <1>14 DEF IInv

(* The types of what is known of groups and of the process,                *)
LEMMA MappedStays ==
  ASSUME Types, [Next]_vars
  PROVE  mapped' \subseteq Messages /\ up' \in BOOLEAN
  <1>1. mapped \subseteq Messages /\ up \in BOOLEAN /\ Late \subseteq Messages
    BY DEF Types, KindsAreApart, Messages
  <1>2. ASSUME NEW e \in Events, Emit(e) \/ MapGroup(e) \/ BecomeDue(e) PROVE mapped' \subseteq Messages /\ up' \in BOOLEAN
    BY <1>1, <1>2 DEF Emit, MapGroup, BecomeDue, Messages
  <1>3. ASSUME NEW g \in Groups, StartJob(g) \/ FinishJob(g) PROVE mapped' \subseteq Messages /\ up' \in BOOLEAN
    BY <1>1, <1>3 DEF StartJob, FinishJob, Messages
  <1>4. CASE UNCHANGED vars \/ Reload \/ Scan \/ SkipScan \/ Connect \/ TakeItem \/ AckItem \/ CommitItem \/ ReadFails
             \/ ReadBatch \/ ApplyMembers \/ AckBatch \/ CommitBatch \/ Crash \/ Restart
    BY <1>1, <1>4 DEF vars, Reload, Scan, SkipScan, Connect, TakeItem, AckItem, CommitItem, ReadFails, ReadBatch,
                      ApplyMembers, AckBatch, CommitBatch, Crash, Restart, Messages
  <1> QED
    BY <1>2, <1>3, <1>4 DEF Next, LoopStep

(* and of the inbox.                                                       *)
LEMMA RowTypes ==
  ASSUME Types, QueueStands, ItemStands, BatchStands, [Next]_vars
  PROVE  inbox' \in [Events -> InboxRows]
  <1>1. CASE ~ReadBatch
    BY <1>1, InboxMoves DEF RowsMove
  <1>2. CASE ReadBatch
    BY <1>2, ReadIs DEF Types, TableTypes, Stores
  <1> QED
    BY <1>1, <1>2

(* Every step keeps the invariant.                                         *)
LEMMA Steps == IInv /\ [Next]_vars => IInv'
  <1> SUFFICES ASSUME IInv, [Next]_vars PROVE IInv'
    OBVIOUS
  <1>1. /\ Types /\ QueueStands /\ ItemStands /\ BatchStands /\ MessagesStand
        /\ ~up => loop.at = "connect"
        /\ "redeliver" \notin Faults => RowsStand /\ RecordsStand
    BY DEF IInv
  <1>2. QueueStands' /\ ItemStands' /\ BatchStands' /\ MessagesStand'
    BY <1>1, QueueStep, ItemStep, BatchStep, HandoverStep
  <1>3. loop' \in Loops /\ (~up' => loop'.at = "connect")
    BY <1>1, LoopTypes
  <1>4. KindsAreApart'
    BY <1>1, Constant
  <1>5. page' \in Pages /\ mapped' \subseteq Messages /\ up' \in BOOLEAN
    BY <1>1, PageTypes, MappedStays
  <1>6. msg' \in [Messages -> MessageRows] /\ inbox' \in [Events -> InboxRows]
    BY <1>1, MessagesMove, RowTypes DEF MessagesPass
  <1>7. jobs' \in [Groups -> Seq(Messages)] /\ busy' \in [Groups -> Messages \cup {NoEvent}]
    BY <1>1, WorkStep DEF WorkStands, WorkTypes
  <1>8. Types'
    BY <1>3, <1>4, <1>5, <1>6, <1>7 DEF Types, TableTypes, WorkTypes
  <1>9. ASSUME "redeliver" \notin Faults PROVE RowsStand' /\ RecordsStand'
    <2>1. CASE ~ReadBatch
      BY <1>1, <1>9, <2>1, InboxMoves, RowsKeep, RecordsKeep
    <2>2. CASE ReadBatch
      <3>1. CASE UNCHANGED inbox
        <4>1. page' = page
          BY <2>2 DEF ReadBatch
        <4> QED
          BY <1>1, <1>9, <3>1, <4>1 DEF RowsStand, RecordsStand, Known
      <3>2. CASE inbox' # inbox
        <4>1. PICK m \in Nat : Stores(m)
          BY <1>1, <2>2, <3>2, ReadIs
        <4>2. UNCHANGED page
          BY <2>2 DEF ReadBatch
        <4> QED
          BY <1>1, <1>9, <4>1, <4>2, RowsRead
      <3> QED
        BY <3>1, <3>2
    <2> QED
      BY <2>1, <2>2
  <1> QED
    BY <1>2, <1>3, <1>8, <1>9 DEF IInv

(* The inductive invariant of the intake.                                  *)
THEOREM Inductive == Spec => []IInv
  BY Starts, Steps, PTL DEF Spec

(* A message is never processed before its acknowledgement at the source   *)
(* counts, and its inbox row never closes without the message being handed *)
(* over, whatever fails, crashes, reloads or is heard again                *)
(* (commit_gateway_ack, list_pending_messages).                            *)
THEOREM MessagesPassWhole == Spec => []HandoverIsWhole
  <1>1. IInv => HandoverIsWhole
    BY DEF IInv, MessagesStand
  <1> QED
    BY <1>1, Inductive, PTL

(* What an acknowledgement takes out of the queue.                         *)
LEMMA Forgotten ==
  ASSUME Types, QueueStands, NEW s, NEW q \in Nat, page' = Discarded(s, q), NEW e \in Queued \ Queued'
  PROVE  /\ page.installed /\ page.session = s
         /\ \E i \in DOMAIN page.queue : page.queue[i].event = e /\ page.queue[i].seq <= q
  <1>1. page \in Pages /\ Len(page.queue) \in Nat /\ DOMAIN page.queue = 1..Len(page.queue)
    BY DEF Types, Pages
  <1>2. page' # page
    BY DEF Queued
  <1>3. PICK n \in 0..Len(page.queue) :
           /\ page.installed /\ page.session = s
           /\ page' = [page EXCEPT !.queue = SubSeq(page.queue, n + 1, Len(page.queue))]
           /\ \A i \in DOMAIN page.queue : page.queue[i].seq > q <=> i > n
    BY <1>1, <1>2, DiscardedIs
  <1>4. Discards(n)
    BY <1>1, <1>3, DiscardsIs
  <1>5. PICK i \in DOMAIN page.queue : page.queue[i].event = e
    BY DEF Queued
  <1>6. i <= n
    <2> SUFFICES ASSUME i > n PROVE FALSE
      BY <1>1
    <2>1. PICK k \in 1..(Len(page.queue) - n) : i = n + k
      <3>1. i - n \in 1..(Len(page.queue) - n) /\ i = n + (i - n)
        BY <1>1
      <3> QED
        BY <3>1
    <2>2. k \in DOMAIN page'.queue /\ page'.queue[k] = page.queue[i]
      BY <1>4, <2>1 DEF Discards
    <2>3. e \in Queued'
      BY <1>5, <2>2 DEF Queued
    <2> QED
      BY <2>3
  <1>7. page.queue[i].seq \in Nat
    <2>1. \A t \in Seq(Records) : \A j \in DOMAIN t : t[j] \in Records
      OBVIOUS
    <2> QED
      BY <1>1, <2>1 DEF Pages, Records
  <1> QED
    BY <1>1, <1>3, <1>5, <1>6, <1>7

(* Where nothing old is heard again, what an acknowledgement makes the     *)
(* page forget is kept: the batch's prefix by what the batch stored, the   *)
(* row in hand and those before it by their closed rows.                   *)
LEMMA WhatIsForgottenIsKept ==
  ASSUME IInv, [Next]_vars, "redeliver" \notin Faults, page'.installed, page'.nextSeq = page.nextSeq,
         NEW e \in Queued \ Queued'
  PROVE  Kept(e)
  <1>1. /\ Types /\ QueueStands /\ ItemStands /\ BatchStands /\ MessagesStand /\ RowsStand /\ RecordsStand
        /\ page \in Pages /\ page.nextSeq \in Nat /\ loop \in Loops
    BY DEF IInv, Types, Pages
  <1>2. page' # page
    BY DEF Queued
  <1>3. CASE AckItem
    <2>1. PICK d \in Events : d = loop.item /\ Known(d) /\ d \notin Members /\ (d \in Messages => msg[d].state # "absent")
      BY <1>1, <1>3 DEF AckItem, At, ItemStands, WithItem
    <2>2. PICK s \in Nat, q \in Nat : s = inbox[d].session /\ q = inbox[d].seq
      BY <1>1 DEF Types, TableTypes, InboxRows
    <2>3. page' = Discarded(s, q)
      BY <1>2, <1>3, <2>1, <2>2 DEF AckItem
    <2>4. PICK i \in DOMAIN page.queue : /\ page.queue[i].event = e /\ page.queue[i].seq <= q
                                         /\ page.installed /\ page.session = s
      BY <1>1, <2>2, <2>3, Forgotten
    <2>5. e \in Events /\ page.queue[i].seq \in Nat
      <3>1. \A t \in Seq(Records) : \A j \in DOMAIN t : t[j] \in Records
        OBVIOUS
      <3> QED
        BY <1>1, <2>4, <3>1 DEF Pages, Records
    <2>6. Known(e) /\ inbox[e].session = s /\ inbox[e].seq = page.queue[i].seq
      BY <1>1, <2>1, <2>2, <2>4 DEF RecordsStand
    <2>7. CASE e = d
      BY <2>1, <2>7 DEF Kept, Known
    <2>8. CASE e # d
      <3>1. inbox[e].seq # inbox[d].seq
        BY <1>1, <2>1, <2>2, <2>5, <2>6, <2>8 DEF RowsStand
      <3>2. inbox[e].seq < inbox[d].seq
        BY <2>2, <2>4, <2>5, <2>6, <3>1
      <3>3. inbox[e].state = "processed"
        BY <1>1, <1>3, <2>1, <2>2, <2>5, <2>6, <3>2 DEF AckItem, At, ItemStands, WithItem
      <3>4. e \in Messages => msg[e].state # "absent"
        BY <1>1, <3>3 DEF MessagesStand, HandoverIsWhole, ClosedRowsAreHandedOver
      <3> QED
        BY <3>3, <3>4 DEF Kept
    <2> QED
      BY <2>7, <2>8
  <1>4. CASE AckBatch
    <2>1. PICK n \in 0..Len(loop.batch) :
            /\ \A i \in 1..n : loop.batch[i].event \in loop.ackable
            /\ n > 0 => loop.batch[n] \in Records
            /\ n > 0 /\ page' = Discarded(loop.session, loop.batch[n].seq)
      BY <1>1, <1>2, <1>4, AckBatchIs
    <2>2. PICK q \in Nat : q = loop.batch[n].seq
      BY <2>1 DEF Records
    <2>3. PICK i \in DOMAIN page.queue : /\ page.queue[i].event = e /\ page.queue[i].seq <= q
                                         /\ page.installed /\ page.session = loop.session
      BY <1>1, <2>1, <2>2, Forgotten
    <2>4. n \in DOMAIN loop.batch /\ loop.at \in WithBatch
      BY <1>1, <1>4, <2>1 DEF AckBatch, At, WithBatch, Loops
    <2>5. PICK k \in 1..n : loop.batch[k] = page.queue[i]
      BY <1>1, <2>2, <2>3, <2>4 DEF BatchStands
    <2> QED
      BY <1>1, <2>1, <2>3, <2>4, <2>5 DEF BatchStands
  <1>5. CASE Connect
    <2>1. ~page.installed \/ page' = page
      BY <1>5 DEF Connect, Listener
    <2>2. page.queue = <<>>
      BY <1>1, <1>2, <2>1 DEF QueueStands
    <2> QED
      BY <2>2 DEF Queued
  <1>6. ASSUME NEW d \in Events, Emit(d) PROVE FALSE
    <2>1. PICK n \in {0, 1} : Hears(d, n)
      BY <1>1, <1>6, HearsIs
    <2> QED
      BY <1>1, <2>1 DEF Hears
  <1>7. CASE Reload
    BY <1>7 DEF Reload, Fresh
  <1>8. CASE UNCHANGED vars \/ Scan \/ SkipScan \/ TakeItem \/ CommitItem \/ ReadFails \/ ReadBatch
             \/ ApplyMembers \/ CommitBatch \/ Crash \/ Restart
    BY <1>2, <1>8 DEF vars, Scan, SkipScan, TakeItem, CommitItem, ReadFails, ReadBatch, ApplyMembers, CommitBatch,
                      Crash, Restart
  <1>9. ASSUME NEW d \in Events, MapGroup(d) \/ BecomeDue(d) PROVE FALSE
    BY <1>2, <1>9 DEF MapGroup, BecomeDue
  <1>10. ASSUME NEW g \in Groups, StartJob(g) \/ FinishJob(g) PROVE FALSE
    BY <1>2, <1>10 DEF StartJob, FinishJob
  <1> QED
    BY <1>3, <1>4, <1>5, <1>6, <1>7, <1>8, <1>9, <1>10 DEF Next, LoopStep

(* Between the page and the workers nothing is lost, where nothing old is  *)
(* heard again: what the page forgets has been stored, and what was stored *)
(* is handed over (contiguous_ack_sequence, claim_gateway_inbox).          *)
THEOREM NothingIsLost ==
  ASSUME "redeliver" \notin Faults
  PROVE  Spec => IntakeLosesNothing
  <1>1. IInv /\ [Next]_vars => [page'.installed /\ page'.nextSeq = page.nextSeq =>
                                   \A e \in Queued \ Queued' : Kept(e)]_vars
    BY WhatIsForgottenIsKept
  <1>2. HandoverIsWhole' => [HandoverIsWhole']_vars
    OBVIOUS
  <1>3. Spec => DiscardsOnlyWhatIsKept
    BY <1>1, Inductive, PTL DEF Spec, DiscardsOnlyWhatIsKept
  <1>4. Spec => [][HandoverIsWhole']_vars
    BY <1>2, MessagesPassWhole, PTL DEF Spec
  <1> QED
    BY <1>3, <1>4 DEF IntakeLosesNothing
=============================================================================
