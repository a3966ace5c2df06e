---------------------- MODULE ConversationLedgerProofs ----------------------
(***************************************************************************)
(* Safety of ConversationLedger for any number of messages and sends, any  *)
(* limit of the pending packets, any number of logins and losses and any   *)
(* set of faults.                                                          *)
(***************************************************************************)
EXTENDS ConversationLedger, SequenceTheorems, WellFoundedInduction, FiniteSetTheorems, TLAPS

(* The records of the packets, the requests on the way, the receiver and   *)
(* the exchange in progress.                                               *)
Packets ==
    [kind : {"messages", "recalled", "done", "accepted", "refused"}, of : SUBSET Nat, upto : Nat,
     to : {"client", "send", "recall", "beat"}]

Requests == [kind : {"send", "recall", "beat"}, id : Nat, live : BOOLEAN]

Receivers ==
    [at : {"idle", "journal", "store", "ack", "recall", "cursor", "failed"},
     packet : Packets \cup {NoPacket}, left : SUBSET Messages, epoch : Nat]

Exchanges ==
    [at : {"write", "wait", "finish"}, kind : {"send", "recall", "beat"}, id : Nat,
     result : {"none", "accepted", "refused", "unknown"}]

(* A text is one of the case's texts, a recall is of one of its messages.  *)
Named(r) ==
    /\ r.kind = "send" => r.id \in Clients
    /\ r.kind = "recall" => r.id \in Messages

(* A packet of messages names messages of the case, one that a message was *)
(* recalled one message; only an answer is for an exchange.                *)
Sound(p, accepted) ==
    /\ p.kind \in {"messages", "recalled"} => p.of # {} /\ p.of \subseteq Messages
    /\ p.kind \in {"accepted", "refused"} <=> p.to # "client"
    /\ p.kind = "done" => p.upto <= accepted

SocketShape ==
    /\ flights \subseteq Requests /\ \A f \in flights : Named(f)
    /\ wire \in Seq(Packets) /\ pending \in Seq(Packets)
    /\ \A i \in DOMAIN wire : Sound(wire[i], log)
    /\ \A i \in DOMAIN pending : Sound(pending[i], log)

ReceiverShape ==
    /\ rcv \in Receivers
    /\ rcv.at = "journal" => rcv.packet \in Packets /\ Sound(rcv.packet, log)
    /\ rcv.at = "recall" => rcv.packet.of # {} /\ rcv.packet.of \subseteq Messages
    /\ rcv.at = "cursor" => rcv.packet.kind = "done" /\ rcv.packet.upto \in 0..log
    /\ rcv.at \in {"store", "ack"} => rcv.left # {}

Shapes == SocketShape /\ ReceiverShape /\ op \in Exchanges \cup {NoOp} /\ Named(op)

Types == TypeOK /\ Shapes

(* Only a socket that is up carries anything, and a packet is worked on    *)
(* under the login of the socket that carried it.                          *)
SocketHolds ==
    /\ ~session.nim => /\ wire = <<>> /\ pending = <<>> /\ op = NoOp
                       /\ \A f \in flights : ~f.live
    /\ rcv.at # "idle" /\ session.nim => rcv.epoch = session.epoch

(* The ledger holds a row for each stored message, each once.              *)
RowsStand ==
    /\ rows \in Seq(Messages)
    /\ \A m \in Messages : Stored(m) <=> \E i \in DOMAIN rows : rows[i] = m
    /\ \A i, j \in DOMAIN rows : rows[i] = rows[j] => i = j

(* A message is acknowledged after it is stored.                           *)
AcksAreKept ==
    /\ rcv.at = "ack" => Stored(Min(rcv.left))
    /\ \A m \in acked : Stored(m)

(* What the runtime has in hand is in the ledger and is the oldest that is *)
(* pending; a queued message is staged.                                    *)
BatchStands ==
    /\ batch \in [at : {"stage", "ack"}, of : SUBSET Messages] \cup {NoBatch}
    /\ \A b \in batch.of : Stored(b)
    /\ \A m \in Readable, b \in batch.of : Place(m) <= Place(b) => m \in batch.of
    /\ batch.at = "ack" => batch.of \subseteq staged
    /\ \A m \in Messages : state[m] = "queued" => m \in staged

(* What may be counted on: messages in the ledger or recalled, and those   *)
(* the receiver has in hand.                                               *)
Safe(m) == Stored(m) \/ m \in gone
Of(p) == IF p.kind = "messages" THEN p.of ELSE {}
InHand ==
    CASE rcv.at = "journal" -> Of(rcv.packet)
      [] rcv.at \in {"store", "ack"} -> rcv.left
      [] OTHER -> {}
Held == {m \in Messages : Safe(m)} \cup InHand

(* A new boundary in a queue is preceded by all it covers that is not held.*)
Carried(s) == UNION {Of(s[j]) : j \in DOMAIN s}
Whole(s, held) ==
    \A i \in DOMAIN s : s[i].kind = "done" =>
        \A m \in 1..s[i].upto : m \in held \/ \E j \in 1..(i - 1) : m \in Of(s[j])

QueueIsWhole == Whole(pending, Held) /\ Whole(wire, Held \cup Carried(pending))

(* A packet has been lost and its socket is about to be given up.          *)
Losing == rcv.at = "failed" \/ (op.at = "finish" /\ GivesUp)

(* Where no recall is lost, everything below a boundary that is in force   *)
(* or about to be is safe, and so is the queue of a socket that stays.     *)
BoundaryHolds ==
    "recall" \notin case.faults =>
        /\ op.kind # "recall"
        /\ ~Losing => QueueIsWhole
        /\ rcv.at \in {"journal", "cursor"} /\ rcv.packet.kind = "done" =>
               \A m \in 1..rcv.packet.upto : Safe(m)
        /\ \A m \in 1..cursor : Safe(m)

(* A text is on the way once at most and is not delivered meanwhile; an    *)
(* answer tells what the server did with it; and before the request is     *)
(* written nothing of it exists.                                           *)
AnswerTo(p, c, result) == p.to = "send" /\ p.of = {c} /\ p.kind = result
OnTheWay(c) == \E f \in flights : f.kind = "send" /\ f.id = c

SendsStand ==
    /\ \A c \in Clients : OnTheWay(c) => sends[c] = "unknown" /\ c \notin delivered
    /\ \A f, g \in flights : f.kind = "send" /\ g.kind = "send" /\ f.id = g.id => f = g
    /\ \A i \in DOMAIN wire, c \in Clients :
          /\ AnswerTo(wire[i], c, "accepted") => c \in delivered
          /\ AnswerTo(wire[i], c, "refused") => c \notin delivered /\ ~OnTheWay(c)
          /\ wire[i].to = "send" /\ wire[i].of = {c} => sends[c] # "none"
    /\ op.kind = "send" =>
          /\ op.id \in Clients /\ sends[op.id] = "unknown"
          /\ op.at = "write" =>
                /\ op.id \notin delivered /\ ~OnTheWay(op.id)
                /\ \A i \in DOMAIN wire : wire[i].to = "send" => wire[i].of # {op.id}
          /\ op.at = "finish" /\ op.result = "accepted" => op.id \in delivered
          /\ op.at = "finish" /\ op.result = "refused" => op.id \notin delivered /\ ~OnTheWay(op.id)
    /\ \A c \in delivered : sends[c] # "none" 

IInv ==
    /\ Types /\ SocketHolds /\ RowsStand /\ AcksAreKept /\ BatchStands /\ BoundaryHolds
    /\ SendsStand /\ SendsToldTruly

USE DEF server, tables

(* The least of a set of numbers.                                          *)
LEMMA LeastOf ==
  ASSUME NEW S \in SUBSET Nat, S # {}
  PROVE  Min(S) \in S /\ \A x \in S : Min(S) <= x
  <1>1. PICK t \in S : \A u \in S : <<u, t>> \notin OpToRel(<, Nat)
    BY NatLessThanWellFounded, WFMin, Zenon
  <1>2. \A u \in S : ~(u < t)
    BY <1>1, Zenon DEF OpToRel
  <1>3. \E x \in S : \A y \in S : x <= y
    BY <1>2
  <1> QED
    BY <1>3 DEF Min

(* The constants as the steps use them.                                    *)
LEMMA Bounds ==
  /\ Messages \subseteq Nat /\ Clients \subseteq Nat
  /\ PendingLimit \in Nat /\ MaxLosses \in Nat /\ MaxEpoch \in Nat /\ MaxEpoch >= 1
  BY BoundsAssumption DEF Messages, Clients

(* The types at the start.                                                 *)
LEMMA InitTypes == Init => Types
  BY BoundsAssumption, CasesAssumption
  DEF Init, Types, TypeOK, Shapes, Messages, Clients, States, Stored, Receivers, Resting, NoPacket, Packet,
      NoOp, Packets, SocketShape, ReceiverShape, Named

(* The queue of packets changes in five ways.                              *)
LEMMA Pushing ==
  ASSUME NEW s \in Seq(Packets), NEW p \in Packets
  PROVE  /\ Append(s, p) \in Seq(Packets)
         /\ DOMAIN Append(s, p) = 1..(Len(s) + 1)
         /\ \A i \in DOMAIN s : Append(s, p)[i] = s[i]
         /\ Append(s, p)[Len(s) + 1] = p
         /\ Len(Append(s, p)) = Len(s) + 1
         /\ Len(s) \in Nat /\ DOMAIN s = 1..Len(s)
  OBVIOUS

LEMMA Popping ==
  ASSUME NEW s \in Seq(Packets), s # <<>>
  PROVE  /\ Tail(s) \in Seq(Packets) /\ Head(s) \in Packets /\ Head(s) = s[1]
         /\ DOMAIN Tail(s) = 1..(Len(s) - 1)
         /\ \A i \in 1..(Len(s) - 1) : Tail(s)[i] = s[i + 1]
         /\ Len(Tail(s)) = Len(s) - 1
         /\ Len(s) \in Nat /\ Len(s) >= 1 /\ DOMAIN s = 1..Len(s)
  OBVIOUS

LEMMA Joining ==
  ASSUME NEW s \in Seq(Packets), NEW t \in Seq(Packets)
  PROVE  /\ s \o t \in Seq(Packets)
         /\ Len(s \o t) = Len(s) + Len(t)
         /\ Len(s) \in Nat /\ Len(t) \in Nat /\ DOMAIN s = 1..Len(s) /\ DOMAIN t = 1..Len(t)
         /\ DOMAIN (s \o t) = 1..(Len(s) + Len(t))
         /\ \A i \in 1..Len(s) : (s \o t)[i] = s[i]
         /\ \A i \in (Len(s) + 1)..(Len(s) + Len(t)) : (s \o t)[i] = t[i - Len(s)]
  OBVIOUS

(* The first packet of what waits and what comes.                          *)
LEMMA FirstOfBoth ==
  ASSUME NEW s \in Seq(Packets), NEW t \in Seq(Packets), s \o t # <<>>
  PROVE  /\ s # <<>> => Head(s \o t) = s[1]
         /\ s = <<>> => Head(s \o t) = t[1] /\ t # <<>>
  <1>1. CASE s = <<>>
    BY <1>1
  <1>2. CASE s # <<>>
    BY <1>2
  <1> QED
    BY <1>1, <1>2

(* What the server sends for a request to synchronise: packets of messages *)
(* that hold all that was missed, then the new boundary.                   *)
LEMMA SyncBrings ==
  ASSUME TypeOK, NEW known \in SUBSET Messages, NEW whole \in BOOLEAN, wire \in Seq(Packets), Sync(known, whole)
  PROVE  \E parts \in Seq(Packets) :
            /\ wire' = (wire \o parts) \o <<Packet("done", {}, log, "client")>>
            /\ \A i \in DOMAIN parts : /\ parts[i].kind = "messages" /\ parts[i].to = "client"
                                       /\ parts[i].of # {} /\ parts[i].of \subseteq Messages
            /\ \A m \in Missed(known) : \E i \in DOMAIN parts : m \in parts[i].of
  <1> DEFINE missed == Missed(known)
             parts == Parts(missed, whole)
  <1>1. missed \subseteq Messages
    BY BoundsAssumption, CasesAssumption DEF TypeOK, Messages, Missed
  <1>2. /\ \A p \in parts : p # {} /\ p \subseteq Messages
        /\ \A m \in missed : \E p \in parts : m \in p
    BY <1>1 DEF Parts
  <1>3. PICK s \in InOrder(parts) :
           wire' = wire \o [i \in DOMAIN s |-> Packet("messages", s[i], 0, "client")]
                        \o <<Packet("done", {}, log, "client")>>
    BY DEF Sync
  <1>4. PICK n \in 0..log : s \in [1..n -> parts]
    BY DEF InOrder
  <1>5. {s[i] : i \in DOMAIN s} = parts
    BY DEF InOrder
  <1>16. PICK q : q = [i \in DOMAIN s |-> Packet("messages", s[i], 0, "client")]
    OBVIOUS
  <1> HIDE DEF parts, missed
  <1>6. n \in Nat /\ DOMAIN q = 1..n /\ DOMAIN s = 1..n
    BY <1>4, <1>16 DEF TypeOK
  <1>7. \A i \in 1..n : q[i] = Packet("messages", s[i], 0, "client") /\ s[i] \in parts
    BY <1>4, <1>6, <1>16
  <1>14. \A p \in parts : Packet("messages", p, 0, "client") \in Packets
    BY <1>2, Bounds DEF Packet, Packets
  <1>15. q \in [1..n -> Packets]
    BY <1>6, <1>7, <1>14, <1>16
  <1>9. q \in Seq(Packets)
    BY <1>6, <1>15
  <1>10. \A i \in DOMAIN q : /\ q[i].kind = "messages" /\ q[i].to = "client"
                             /\ q[i].of # {} /\ q[i].of \subseteq Messages
    BY <1>2, <1>6, <1>7 DEF Packet
  <1>13. \A m \in missed : \E i \in 1..n : m \in s[i]
    BY <1>2, <1>5, <1>6
  <1>11. \A m \in missed : \E i \in DOMAIN q : m \in q[i].of
    BY <1>13, <1>6, <1>7 DEF Packet
  <1>12. wire' = (wire \o q) \o <<Packet("done", {}, log, "client")>>
    BY <1>3, <1>16
  <1> QED
    BY <1>9, <1>10, <1>11, <1>12 DEF missed

(* The socket is left alone or given up.                                   *)
LEMMA SocketStays ==
  ASSUME Types, DropSocket \/ KeepSocket, log' = log
  PROVE  /\ SocketShape' /\ Len(pending') <= PendingLimit
         /\ session' \in [in : BOOLEAN, nim : BOOLEAN, synced : BOOLEAN, epoch : 1..MaxEpoch]
         /\ session'.nim => session'.in
         /\ session'.in = session.in /\ session'.epoch = session.epoch
  <1> USE DEF Types, TypeOK, Shapes, SocketShape
  <1>1. CASE KeepSocket
    BY <1>1 DEF KeepSocket, Sound, Named
  <1>2. CASE DropSocket
    <2>1. /\ session' = [session EXCEPT !.nim = FALSE, !.synced = FALSE]
          /\ wire' = <<>> /\ pending' = <<>>
          /\ flights' = {[f EXCEPT !.live = FALSE] : f \in flights}
      BY <1>2 DEF DropSocket, NewSession
    <2>2. flights' \subseteq Requests
      <3>1. \A f \in Requests : [f EXCEPT !.live = FALSE] \in Requests
        BY DEF Requests
      <3> QED
        BY <2>1, <3>1
    <2>5. \A f \in flights' : Named(f)
      <3>1. \A f \in Requests : LET g == [f EXCEPT !.live = FALSE] IN g.kind = f.kind /\ g.id = f.id
        BY DEF Requests
      <3>2. \A f \in flights : Named([f EXCEPT !.live = FALSE])
        BY <3>1 DEF Named
      <3> QED
        BY <2>1, <3>2
    <2>3. wire' \in Seq(Packets) /\ pending' \in Seq(Packets) /\ DOMAIN wire' = {} /\ DOMAIN pending' = {}
          /\ Len(pending') = 0
      BY <2>1
    <2>4. /\ session' \in [in : BOOLEAN, nim : BOOLEAN, synced : BOOLEAN, epoch : 1..MaxEpoch]
          /\ session'.nim = FALSE /\ session'.in = session.in /\ session'.epoch = session.epoch
      BY <2>1
    <2> QED
      BY <2>2, <2>3, <2>4, <2>5, Bounds DEF Named
  <1> QED
    BY <1>1, <1>2

(* A packet that is sound stays sound as the log grows.                    *)
LEMMA SoundStays ==
  ASSUME NEW a \in Nat, NEW b \in Nat, a <= b, NEW p \in Packets, Sound(p, a)
  PROVE  Sound(p, b)
  BY DEF Sound, Packets

(* The server's next packet is one of the sound ones.                      *)
LEMMA PushedShape ==
  ASSUME SocketShape, log' \in Nat, log \in Nat, log' >= log,
         NEW p \in Packets, wire' = Append(wire, p) \/ wire' = wire, Sound(p, log'), pending' = pending,
         flights' \subseteq flights
  PROVE  SocketShape'
  <1>1. wire \in Seq(Packets) /\ pending \in Seq(Packets) /\ flights' \subseteq Requests
        /\ \A f \in flights' : Named(f)
    BY DEF SocketShape
  <1>2. \A i \in DOMAIN wire : wire[i] \in Packets /\ Sound(wire[i], log')
    BY <1>1, SoundStays DEF SocketShape
  <1>3. \A i \in DOMAIN pending : Sound(pending[i], log')
    BY <1>1, SoundStays DEF SocketShape
  <1>4. CASE wire' = wire
    BY <1>1, <1>2, <1>3, <1>4 DEF SocketShape, Sound, Named
  <1>5. CASE wire' = Append(wire, p)
    <2>1. \A i \in DOMAIN Append(wire, p) : Append(wire, p)[i] = p \/ \E j \in DOMAIN wire : Append(wire, p)[i] = wire[j]
      BY <1>1, Pushing
    <2>2. \A i \in DOMAIN wire' : wire'[i] = p \/ \E j \in DOMAIN wire : wire'[i] = wire[j]
      BY <1>5, <2>1
    <2>3. wire' \in Seq(Packets)
      BY <1>1, <1>5, Pushing
    <2>4. \A i \in DOMAIN wire' : Sound(wire'[i], log')
      BY <1>2, <2>2 DEF Sound
    <2> QED
      BY <1>1, <1>3, <2>3, <2>4 DEF SocketShape, Named
  <1> QED
    BY <1>4, <1>5

-----------------------------------------------------------------------------
(* Types and shapes.                                                       *)

(* A row is added at the end.                                              *)
LEMMA Appending ==
  ASSUME NEW m \in Messages, NEW s \in Seq(Messages)
  PROVE  /\ Append(s, m) \in Seq(Messages)
         /\ DOMAIN Append(s, m) = DOMAIN s \cup {Len(s) + 1}
         /\ \A i \in DOMAIN s : Append(s, m)[i] = s[i]
         /\ Append(s, m)[Len(s) + 1] = m
         /\ {Append(s, m)[i] : i \in DOMAIN Append(s, m)} = {s[i] : i \in DOMAIN s} \cup {m}
  <1>1. /\ Append(s, m) \in Seq(Messages)
        /\ DOMAIN Append(s, m) = DOMAIN s \cup {Len(s) + 1}
        /\ \A i \in DOMAIN s : Append(s, m)[i] = s[i]
        /\ Append(s, m)[Len(s) + 1] = m
    OBVIOUS
  <1> QED
    BY <1>1

(* A recall marks the row of its message.                                  *)
LEMMA MarkKeeps ==
  ASSUME state \in [Messages -> States], NEW m, Mark(m)
  PROVE  /\ state' \in [Messages -> States]
         /\ {k \in Messages : Stored(k)}' = {k \in Messages : Stored(k)}
         /\ \A k \in Messages : Stored(k)' <=> Stored(k)
         /\ \A k \in Messages : state'[k] = state[k] \/ state'[k] = "recalled"
  BY DEF Mark, Stored, States

(* A new socket carries nothing.                                           *)
LEMMA SocketReplaced ==
  ASSUME SocketShape, NEW new, NewSession(new), log' = log
  PROVE  SocketShape' /\ Len(pending') <= PendingLimit
  <1>1. /\ wire' = <<>> /\ pending' = <<>>
        /\ flights' = {[f EXCEPT !.live = FALSE] : f \in flights}
    BY DEF NewSession
  <1>2. \A f \in Requests : LET g == [f EXCEPT !.live = FALSE]
                           IN g \in Requests /\ g.kind = f.kind /\ g.id = f.id
    BY DEF Requests
  <1>3. \A f \in flights : [f EXCEPT !.live = FALSE] \in Requests /\ Named([f EXCEPT !.live = FALSE])
    BY <1>2 DEF SocketShape, Named
  <1>4. flights' \subseteq Requests /\ \A f \in flights' : Named(f)
    BY <1>1, <1>3
  <1>5. wire' \in Seq(Packets) /\ pending' \in Seq(Packets) /\ DOMAIN wire' = {} /\ DOMAIN pending' = {}
        /\ Len(pending') = 0
    BY <1>1
  <1> QED
    BY <1>4, <1>5, Bounds DEF SocketShape, Named

(* What stays in a queue after its first packet was taken is sound.        *)
LEMMA PoppedShape ==
  ASSUME NEW s \in Seq(Packets), s # <<>>, \A i \in DOMAIN s : Sound(s[i], log)
  PROVE  /\ Tail(s) \in Seq(Packets) /\ \A i \in DOMAIN Tail(s) : Sound(Tail(s)[i], log)
         /\ s[1] \in Packets /\ Head(s) = s[1] /\ Sound(s[1], log)
         /\ Len(Tail(s)) < Len(s) /\ Len(Tail(s)) \in Nat /\ Len(s) \in Nat
  BY Popping

(* What waits together with what comes is sound.                           *)
LEMMA Joined ==
  ASSUME NEW s \in Seq(Packets), NEW t \in Seq(Packets),
         \A i \in DOMAIN s : Sound(s[i], log), \A i \in DOMAIN t : Sound(t[i], log)
  PROVE  s \o t \in Seq(Packets) /\ \A i \in DOMAIN (s \o t) : Sound((s \o t)[i], log)
  <1>1. \A i \in DOMAIN (s \o t) : (\E j \in DOMAIN s : (s \o t)[i] = s[j]) \/ (\E j \in DOMAIN t : (s \o t)[i] = t[j])
    BY Joining
  <1> QED
    BY <1>1, Joining

(* The packets of a synchronisation are sound.                             *)
LEMMA SyncedShape ==
  ASSUME Types, NEW known \in {{}, acked}, NEW whole \in BOOLEAN, Sync(known, whole),
         pending' = pending, flights' = flights, log' = log
  PROVE  SocketShape'
  <1>1. TypeOK /\ SocketShape /\ known \in SUBSET Messages /\ wire \in Seq(Packets) /\ log \in Nat
    BY DEF Types, Shapes, SocketShape, TypeOK
  <1>2. PICK parts \in Seq(Packets) :
            /\ wire' = (wire \o parts) \o <<Packet("done", {}, log, "client")>>
            /\ \A i \in DOMAIN parts : /\ parts[i].kind = "messages" /\ parts[i].to = "client"
                                       /\ parts[i].of # {} /\ parts[i].of \subseteq Messages
    BY <1>1, SyncBrings
  <1> DEFINE done == Packet("done", {}, log, "client")
  <1>3. done \in Packets /\ Sound(done, log) /\ <<done>> \in Seq(Packets) /\ DOMAIN <<done>> = {1}
        /\ <<done>>[1] = done /\ Len(<<done>>) = 1
    BY <1>1 DEF Packets, Packet, Sound
  <1> HIDE DEF done
  <1>4. \A i \in DOMAIN parts : Sound(parts[i], log)
    BY <1>2 DEF Sound
  <1>5. /\ wire \o parts \in Seq(Packets)
        /\ \A i \in DOMAIN (wire \o parts) : Sound((wire \o parts)[i], log)
    BY <1>1, <1>4, Joined DEF SocketShape
  <1>6. /\ (wire \o parts) \o <<done>> \in Seq(Packets)
        /\ \A i \in DOMAIN ((wire \o parts) \o <<done>>) : Sound(((wire \o parts) \o <<done>>)[i], log)
    <2>1. \A i \in DOMAIN <<done>> : Sound(<<done>>[i], log)
      BY <1>3
    <2> QED
      BY <1>3, <1>5, <2>1, Joined
  <1>7. wire' = (wire \o parts) \o <<done>>
    BY <1>2 DEF done
  <1> QED
    BY <1>1, <1>6, <1>7 DEF SocketShape, Sound, Named

(* Every step keeps the types and shapes.                                  *)
LEMMA TypeStep ==
  ASSUME Types, RowsStand, BatchStands, [Next]_vars
  PROVE  Types'
  <1> USE DEF Types, Shapes
  <1>1. ASSUME Accept PROVE Types'
    <2>1. /\ log' = log + 1 /\ log + 1 \in Messages /\ log \in Nat /\ log + 1 <= case.messages
          /\ wire' = Append(wire, Pushed(log + 1)) \/ wire' = wire
          /\ pending' = pending /\ flights' = flights
      BY <1>1, CasesAssumption, BoundsAssumption DEF Accept, Push, TypeOK, Messages
    <2>2. Pushed(log + 1) \in Packets /\ Sound(Pushed(log + 1), log')
      BY <2>1, Bounds DEF Pushed, Packet, Packets, Sound
    <2>11. SocketShape'
      BY <2>1, <2>2, PushedShape
    <2>12. ReceiverShape' /\ op' \in Exchanges \cup {NoOp} /\ Named(op)'
      BY <1>1, <2>1, Bounds DEF Accept, ReceiverShape, Sound, Packets, Named
    <2>13. TypeOK'
      BY <1>1, <2>1, Bounds DEF Accept, TypeOK, Stored
    <2> QED
      BY <2>11, <2>12, <2>13 DEF Types, Shapes
  <1>2. ASSUME NEW m \in Messages, Withdraw(m) PROVE Types'
    <2>1. /\ log' = log /\ log \in Nat
          /\ wire' = Append(wire, Recalled(m)) \/ wire' = wire
          /\ pending' = pending /\ flights' = flights
      BY <1>2 DEF Withdraw, Push, TypeOK
    <2>2. Recalled(m) \in Packets /\ Sound(Recalled(m), log')
      BY Bounds DEF Recalled, Packet, Packets, Sound
    <2>11. SocketShape'
      BY <2>1, <2>2, PushedShape
    <2>12. ReceiverShape' /\ op' \in Exchanges \cup {NoOp} /\ Named(op)'
      BY <1>2 DEF Withdraw, Push, ReceiverShape, Sound, Named
    <2>13. TypeOK'
      BY <1>2, Bounds DEF Withdraw, TypeOK, Stored
    <2> QED
      BY <2>11, <2>12, <2>13 DEF Types, Shapes
  <1>3. ASSUME NEW f \in flights, NEW result \in {"accepted", "refused"}, Deliver(f, result) PROVE Types'
    <2>1. /\ log' = log /\ log \in Nat /\ f \in Requests /\ Named(f)
          /\ wire' = Append(wire, Answer(result, f)) \/ wire' = wire
          /\ pending' = pending /\ flights' \subseteq flights
      BY <1>3 DEF Deliver, TypeOK, SocketShape
    <2>2. Answer(result, f) \in Packets /\ Sound(Answer(result, f), log')
      BY <2>1 DEF Answer, Packet, Packets, Sound, Requests
    <2>3. delivered' \subseteq Clients /\ gone' \subseteq Messages
      BY <1>3, <2>1 DEF Deliver, TypeOK, Named
    <2>11. SocketShape'
      BY <2>1, <2>2, PushedShape
    <2>12. ReceiverShape' /\ op' \in Exchanges \cup {NoOp} /\ Named(op)'
      BY <1>3 DEF Deliver, ReceiverShape, Sound, Named
    <2>13. TypeOK'
      BY <1>3, <2>1, <2>3, Bounds DEF Deliver, TypeOK, Stored
    <2> QED
      BY <2>11, <2>12, <2>13 DEF Types, Shapes
  <1>4. ASSUME Connect PROVE Types'
    <2>1. /\ session' \in [in : BOOLEAN, nim : BOOLEAN, synced : BOOLEAN, epoch : 1..MaxEpoch] /\ (session'.nim => session'.in)
          /\ log' = log
      BY <1>4, Bounds DEF Connect, NewSession, TypeOK
    <2>2. \E new \in [in : BOOLEAN, nim : BOOLEAN, synced : BOOLEAN, epoch : 1..MaxEpoch] : NewSession(new)
      BY <1>4, <2>1 DEF Connect, NewSession
    <2>11. SocketShape'
      BY <2>1, <2>2, SocketReplaced
    <2>12. ReceiverShape' /\ op' \in Exchanges \cup {NoOp} /\ Named(op)'
      BY <1>4 DEF Connect, ReceiverShape, Sound, Named
    <2>13. TypeOK'
      BY <1>4, <2>1, <2>2, SocketReplaced, Bounds DEF Connect, TypeOK, Stored, Fails
    <2> QED
      BY <2>11, <2>12, <2>13 DEF Types, Shapes
  <1>5. ASSUME NEW in \in BOOLEAN, ChangeLogin(in) PROVE Types'
    <2>1. /\ session' \in [in : BOOLEAN, nim : BOOLEAN, synced : BOOLEAN, epoch : 1..MaxEpoch] /\ (session'.nim => session'.in)
          /\ log' = log
      BY <1>5, Bounds DEF ChangeLogin, NewSession, TypeOK
    <2>2. \E new \in [in : BOOLEAN, nim : BOOLEAN, synced : BOOLEAN, epoch : 1..MaxEpoch] : NewSession(new)
      BY <1>5, <2>1 DEF ChangeLogin, NewSession
    <2>11. SocketShape'
      BY <2>1, <2>2, SocketReplaced
    <2>12. ReceiverShape' /\ op' \in Exchanges \cup {NoOp} /\ Named(op)'
      BY <1>5 DEF ChangeLogin, ReceiverShape, Sound, Named
    <2>13. TypeOK'
      BY <1>5, <2>1, <2>2, SocketReplaced, Bounds DEF ChangeLogin, TypeOK, Stored
    <2> QED
      BY <2>11, <2>12, <2>13 DEF Types, Shapes
  <1>6. ASSUME SocketBreaks PROVE Types'
    <2>1. (DropSocket \/ KeepSocket) /\ log' = log
      BY <1>6 DEF SocketBreaks
    <2>11. SocketShape'
      BY <2>1, SocketStays
    <2>12. ReceiverShape' /\ op' \in Exchanges \cup {NoOp} /\ Named(op)'
      BY <1>6 DEF SocketBreaks, ReceiverShape, Sound, Named
    <2>13. TypeOK'
      BY <1>6, <2>1, SocketStays, Bounds DEF SocketBreaks, TypeOK, Stored, Fails
    <2> QED
      BY <2>11, <2>12, <2>13 DEF Types, Shapes
  <1>7. ASSUME StartSync PROVE Types'
    <2>1. SocketShape' /\ Len(pending') <= PendingLimit
          /\ session' \in [in : BOOLEAN, nim : BOOLEAN, synced : BOOLEAN, epoch : 1..MaxEpoch] /\ (session'.nim => session'.in)
      <3>1. CASE session' = [session EXCEPT !.synced = TRUE]
                 /\ (\E known \in {{}, acked}, whole \in BOOLEAN : Sync(known, whole))
                 /\ pending' = pending /\ flights' = flights
        BY <1>7, <3>1, SyncedShape DEF StartSync, TypeOK
      <3>2. CASE DropSocket
        BY <1>7, <3>2, SocketStays DEF StartSync
      <3> QED
        BY <1>7, <3>1, <3>2 DEF StartSync
    <2>2. losses' \in 0..MaxLosses
      BY <1>7, Bounds DEF StartSync, TypeOK, Fails
    <2>11. SocketShape'
      BY <2>1
    <2>12. ReceiverShape' /\ op' \in Exchanges \cup {NoOp} /\ Named(op)'
      BY <1>7 DEF StartSync, ReceiverShape, Sound, Named
    <2>13. TypeOK'
      BY <1>7, <2>1, <2>2, Bounds DEF StartSync, TypeOK, Stored
    <2> QED
      BY <2>11, <2>12, <2>13 DEF Types, Shapes
  <1>8. ASSUME Poll PROVE Types'
    <2>1. /\ log' = log /\ log \in Nat /\ wire \in Seq(Packets) /\ pending \in Seq(Packets)
          /\ pending \o wire # <<>>
          /\ IF pending # <<>> THEN pending' = Tail(pending) /\ wire' = wire
                               ELSE wire' = Tail(wire) /\ pending' = pending
      BY <1>8 DEF Poll, TypeOK, SocketShape
    <2>2. SocketShape' /\ Len(pending') <= PendingLimit
      <3>1. CASE pending # <<>>
        <4>1. /\ pending' \in Seq(Packets) /\ (\A i \in DOMAIN pending' : Sound(pending'[i], log))
              /\ Len(pending') < Len(pending) /\ wire' = wire
              /\ Len(pending) \in Nat /\ Len(pending') \in Nat /\ Len(pending) <= PendingLimit
          BY <2>1, <3>1, PoppedShape DEF SocketShape, TypeOK
        <4> QED
          BY <1>8, <2>1, <4>1, Bounds DEF SocketShape, Named, Poll
      <3>2. CASE pending = <<>>
        <4>1. wire # <<>>
          BY <2>1, <3>2, FirstOfBoth
        <4>2. /\ wire' \in Seq(Packets) /\ (\A i \in DOMAIN wire' : Sound(wire'[i], log))
              /\ pending' = pending /\ Len(pending) <= PendingLimit
          BY <2>1, <3>2, <4>1, PoppedShape DEF SocketShape, TypeOK
        <4> QED
          BY <1>8, <2>1, <4>2 DEF SocketShape, Named, Poll
      <3> QED
        BY <3>1, <3>2
    <2>3. Head(pending \o wire) \in Packets /\ Sound(Head(pending \o wire), log)
      <3>1. CASE pending # <<>>
        <4>1. Head(pending \o wire) = pending[1]
          BY <2>1, <3>1, FirstOfBoth
        <4> QED
          BY <2>1, <3>1, <4>1, PoppedShape DEF SocketShape
      <3>2. CASE pending = <<>>
        <4>1. Head(pending \o wire) = wire[1] /\ wire # <<>>
          BY <2>1, <3>2, FirstOfBoth
        <4> QED
          BY <2>1, <4>1, PoppedShape DEF SocketShape
      <3> QED
        BY <3>1, <3>2
    <2>4. rcv' \in Receivers /\ rcv'.at = "journal" /\ rcv'.packet = Head(pending \o wire)
      BY <1>8, <2>3, Bounds DEF Poll, Receivers, TypeOK
    <2>11. SocketShape'
      BY <2>2 DEF SocketShape
    <2>12. ReceiverShape' /\ op' \in Exchanges \cup {NoOp} /\ Named(op)'
      BY <1>8, <2>1, <2>3, <2>4 DEF Poll, ReceiverShape, Named
    <2>13. TypeOK'
      BY <1>8, <2>2 DEF Poll, TypeOK, Stored
    <2> QED
      BY <2>11, <2>12, <2>13 DEF Types, Shapes
  <1>9. ASSUME Journal PROVE Types'
    <2>1. Resting \in Receivers /\ log' = log
      BY <1>9, Bounds DEF Resting, Receivers, NoPacket, Packet, Journal
    <2>11. SocketShape'
      BY <1>9 DEF Journal, SocketShape, Sound, Named
    <2>12. ReceiverShape' /\ op' \in Exchanges \cup {NoOp} /\ Named(op)'
      <3>1. CASE FailsTo
        BY <1>9, <3>1 DEF Journal, FailsTo, ReceiverShape, Receivers, Named
      <3>2. CASE rcv' = Decoded(rcv.packet)
        <4>1. rcv.packet \in Packets /\ Sound(rcv.packet, log) /\ rcv \in Receivers
          BY <1>9 DEF Journal, ReceiverShape
        <4>2. CASE rcv.packet.kind = "messages"
          BY <1>9, <2>1, <3>2, <4>1, <4>2 DEF Journal, Decoded, ReceiverShape, Receivers, Sound, Named
        <4>3. CASE rcv.packet.kind \in {"recalled", "refused"}
          BY <1>9, <2>1, <3>2, <4>1, <4>3 DEF Journal, Decoded, ReceiverShape, Receivers, Sound, Named
        <4>4. CASE rcv.packet.kind = "done"
          BY <1>9, <2>1, <3>2, <4>1, <4>4 DEF Journal, Decoded, ReceiverShape, Receivers, Sound, Named, TypeOK,
              Packets
        <4>5. CASE rcv.packet.kind = "accepted"
          BY <1>9, <2>1, <3>2, <4>1, <4>5 DEF Journal, Decoded, ReceiverShape, Resting, Named
        <4> QED
          BY <4>1, <4>2, <4>3, <4>4, <4>5 DEF Packets
      <3> QED
        BY <1>9, <3>1, <3>2 DEF Journal
    <2>13. TypeOK'
      BY <1>9, Bounds DEF Journal, TypeOK, Stored, Fails
    <2> QED
      BY <2>11, <2>12, <2>13 DEF Types, Shapes
  <1>10. ASSUME Store PROVE Types'
    <2>1. Min(rcv.left) \in Messages /\ rows \in Seq(Messages)
      BY <1>10, Bounds, LeastOf DEF Store, ReceiverShape, Receivers, RowsStand
    <2>2. {"pending"} \cup (IF "opaque" \in case.faults THEN {"needs_human"} ELSE {}) \subseteq {"pending", "needs_human"}
      OBVIOUS
    <2>11. SocketShape'
      BY <1>10 DEF Store, SocketShape, Sound, Named
    <2>12. ReceiverShape' /\ op' \in Exchanges \cup {NoOp} /\ Named(op)'
      BY <1>10, <2>1 DEF Store, FailsTo, ReceiverShape, Receivers, Named
    <2>13. TypeOK'
      <3>1. CASE UNCHANGED <<rows, state>>
        BY <1>10, <3>1, Bounds DEF Store, Fails, TypeOK, Stored
      <3>2. CASE ~Stored(Min(rcv.left)) /\ rows' = Append(rows, Min(rcv.left))
        <4>1. /\ \E s \in {"pending", "needs_human"} : state' = [state EXCEPT ![Min(rcv.left)] = s]
              /\ losses' = losses
          BY <1>10, <3>2, <2>2 DEF Store
        <4>2. state' \in [Messages -> States]
          BY <4>1, <2>1 DEF TypeOK, States
        <4>3. {m \in Messages : Stored(m)}' = {m \in Messages : Stored(m)} \cup {Min(rcv.left)}
          BY <4>1, <2>1 DEF TypeOK, Stored, States
        <4>4. {rows'[i] : i \in DOMAIN rows'} = {rows[i] : i \in DOMAIN rows} \cup {Min(rcv.left)}
          BY <3>2, <2>1, Appending
        <4>5. {rows'[i] : i \in DOMAIN rows'} = {m \in Messages : Stored(m)}'
          BY <4>3, <4>4 DEF TypeOK
        <4> QED
          BY <1>10, <4>1, <4>2, <4>5, Bounds DEF Store, TypeOK
      <3> QED
        BY <1>10, <3>1, <3>2 DEF Store
    <2> QED
      BY <2>11, <2>12, <2>13 DEF Types, Shapes
  <1>11. ASSUME Acknowledge PROVE Types'
    <2>1. (DropSocket \/ KeepSocket) /\ log' = log
      BY <1>11 DEF Acknowledge
    <2>2. Resting \in Receivers /\ Min(rcv.left) \in Messages
      BY <1>11, Bounds, LeastOf DEF Resting, Receivers, NoPacket, Packet, Acknowledge, ReceiverShape
    <2>3. acked' \subseteq Messages
      BY <1>11, <2>2 DEF Acknowledge, TypeOK
    <2>11. SocketShape'
      BY <2>1, SocketStays
    <2>12. ReceiverShape' /\ op' \in Exchanges \cup {NoOp} /\ Named(op)'
      <3>1. rcv \in Receivers /\ rcv.at = "ack" /\ op' = op
        BY <1>11 DEF Acknowledge, ReceiverShape
      <3>2. CASE FailsTo
        BY <3>1, <3>2 DEF FailsTo, ReceiverShape, Receivers, Named
      <3>3. CASE NextMessage /\ rcv.left = {Min(rcv.left)}
        BY <2>2, <3>1, <3>3 DEF NextMessage, ReceiverShape, Receivers, Named, Resting
      <3>4. CASE NextMessage /\ rcv.left \ {Min(rcv.left)} # {}
        <4>1. rcv' = [rcv EXCEPT !.at = "store", !.left = rcv.left \ {Min(rcv.left)}]
          BY <3>4 DEF NextMessage
        <4> QED
          BY <3>1, <3>4, <4>1 DEF ReceiverShape, Receivers, Named
      <3>5. (FailsTo \/ NextMessage) /\ Min(rcv.left) \in rcv.left
        BY <1>11, <3>1, Bounds, LeastOf DEF Acknowledge, ReceiverShape, Receivers
      <3> QED
        BY <3>2, <3>3, <3>4, <3>5
    <2>13. TypeOK'
      <3>1. losses' \in 0..MaxLosses
        BY <1>11, Bounds DEF Acknowledge, TypeOK, Fails
      <3>2. UNCHANGED <<case, up, log, gone, delivered, rows, state, cursor, sends, staged>>
        BY <1>11 DEF Acknowledge
      <3>3. /\ session' \in [in : BOOLEAN, nim : BOOLEAN, synced : BOOLEAN, epoch : 1..MaxEpoch]
            /\ session'.nim => session'.in
            /\ Len(pending') <= PendingLimit
        BY <2>1, SocketStays
      <3> QED
        BY <2>3, <3>1, <3>2, <3>3 DEF TypeOK, Stored
    <2> QED
      BY <2>11, <2>12, <2>13 DEF Types, Shapes
  <1>12. ASSUME ApplyRecall PROVE Types'
    <2>1. Resting \in Receivers
      BY Bounds DEF Resting, Receivers, NoPacket, Packet
    <2>2. state' \in [Messages -> States] /\ {m \in Messages : Stored(m)}' = {m \in Messages : Stored(m)}
      <3>1. CASE \A m \in rcv.packet.of : Mark(m)
        <4>1. PICK m \in rcv.packet.of : Mark(m)
          BY <1>12, <3>1 DEF ApplyRecall, ReceiverShape
        <4> QED
          BY <4>1, MarkKeeps DEF TypeOK
      <3> QED
        BY <1>12, <3>1 DEF ApplyRecall, TypeOK, Stored
    <2>11. SocketShape'
      BY <1>12 DEF ApplyRecall, SocketShape, Sound, Named
    <2>12. ReceiverShape' /\ op' \in Exchanges \cup {NoOp} /\ Named(op)'
      BY <1>12, <2>1 DEF ApplyRecall, FailsTo, ReceiverShape, Receivers, Named, Resting
    <2>13. TypeOK'
      BY <1>12, <2>2, Bounds DEF ApplyRecall, TypeOK, Fails
    <2> QED
      BY <2>11, <2>12, <2>13 DEF Types, Shapes
  <1>13. ASSUME SaveCursor PROVE Types'
    <2>1. Resting \in Receivers
      BY Bounds DEF Resting, Receivers, NoPacket, Packet
    <2>11. SocketShape'
      BY <1>13 DEF SaveCursor, SocketShape, Sound, Named
    <2>12. ReceiverShape' /\ op' \in Exchanges \cup {NoOp} /\ Named(op)'
      BY <1>13, <2>1 DEF SaveCursor, FailsTo, ReceiverShape, Receivers, Named, Resting
    <2>13. TypeOK'
      <3>1. losses' \in 0..MaxLosses
        BY <1>13, Bounds DEF SaveCursor, TypeOK, Fails
      <3>2. cursor' \in 0..log
        BY <1>13 DEF SaveCursor, TypeOK, ReceiverShape
      <3>3. UNCHANGED <<case, up, log, gone, acked, delivered, session, pending, rows, state, sends, staged>>
        BY <1>13 DEF SaveCursor
      <3> QED
        BY <3>1, <3>2, <3>3 DEF TypeOK, Stored
    <2> QED
      BY <2>11, <2>12, <2>13 DEF Types, Shapes
  <1>14. ASSUME Fail PROVE Types'
    <2>1. (DropSocket \/ KeepSocket) /\ log' = log
      BY <1>14 DEF Fail, GiveUpSocket
    <2>2. Resting \in Receivers
      BY Bounds DEF Resting, Receivers, NoPacket, Packet
    <2>11. SocketShape'
      BY <2>1, SocketStays
    <2>12. ReceiverShape' /\ op' \in Exchanges \cup {NoOp} /\ Named(op)'
      BY <1>14, <2>2 DEF Fail, ReceiverShape, Receivers, Named, Resting
    <2>13. TypeOK'
      BY <1>14, <2>1, SocketStays, Bounds DEF Fail, TypeOK, Stored
    <2> QED
      BY <2>11, <2>12, <2>13 DEF Types, Shapes
  <1>15. ASSUME NEW c \in Clients, Reserve(c) PROVE Types'
    <2>11. SocketShape'
      BY <1>15 DEF Reserve, SocketShape, Sound, Named
    <2>12. ReceiverShape' /\ op' \in Exchanges \cup {NoOp} /\ Named(op)'
      BY <1>15, Bounds DEF Reserve, ReceiverShape, Sound, Named, Begin, Free, Exchanges
    <2>13. TypeOK'
      BY <1>15, Bounds DEF Reserve, TypeOK, Stored
    <2> QED
      BY <2>11, <2>12, <2>13 DEF Types, Shapes
  <1>16. ASSUME NEW m \in Messages, BeginRecall(m) PROVE Types'
    <2>11. SocketShape'
      BY <1>16 DEF BeginRecall, SocketShape, Sound, Named
    <2>12. ReceiverShape' /\ op' \in Exchanges \cup {NoOp} /\ Named(op)'
      BY <1>16, Bounds DEF BeginRecall, ReceiverShape, Sound, Named, Begin, Free, Exchanges
    <2>13. TypeOK'
      BY <1>16, Bounds DEF BeginRecall, TypeOK, Stored
    <2> QED
      BY <2>11, <2>12, <2>13 DEF Types, Shapes
  <1>17. ASSUME BeginBeat PROVE Types'
    <2>11. SocketShape'
      BY <1>17 DEF BeginBeat, SocketShape, Sound, Named
    <2>12. ReceiverShape' /\ op' \in Exchanges \cup {NoOp} /\ Named(op)'
      BY <1>17 DEF BeginBeat, ReceiverShape, Sound, Named, Begin, Free, Exchanges
    <2>13. TypeOK'
      BY <1>17, Bounds DEF BeginBeat, TypeOK, Stored, Fails
    <2> QED
      BY <2>11, <2>12, <2>13 DEF Types, Shapes
  <1>18. ASSUME Write PROVE Types'
    <2>1. op \in Exchanges
      BY <1>18 DEF Write, NoOp
    <2>2. flights' \subseteq Requests /\ \A f \in flights' : Named(f)
      <3>1. [kind |-> op.kind, id |-> op.id, live |-> TRUE] \in Requests
            /\ Named([kind |-> op.kind, id |-> op.id, live |-> TRUE])
        BY <2>1 DEF Requests, Exchanges, Named
      <3> QED
        BY <1>18, <3>1 DEF Write, SocketShape
    <2>11. SocketShape'
      BY <1>18, <2>2 DEF Write, SocketShape, Sound
    <2>12. ReceiverShape' /\ op' \in Exchanges \cup {NoOp} /\ Named(op)'
      BY <1>18, <2>1 DEF Write, ReceiverShape, Sound, Named, Ends, Exchanges
    <2>13. TypeOK'
      BY <1>18, Bounds DEF Write, TypeOK, Stored, Fails
    <2> QED
      BY <2>11, <2>12, <2>13 DEF Types, Shapes
  <1>19. ASSUME ReadAnswer PROVE Types'
    <2>1. op \in Exchanges /\ (IsAnswer(Head(wire)) => Head(wire).kind \in {"accepted", "refused"})
      BY <1>19, Popping DEF ReadAnswer, NoOp, IsAnswer, SocketShape, Sound, Packets, Exchanges
    <2>2. SocketShape' /\ Len(pending') <= PendingLimit
      <3>1. wire' = Tail(wire) /\ wire # <<>> /\ log' = log /\ flights' = flights
            /\ wire \in Seq(Packets) /\ pending \in Seq(Packets)
        BY <1>19 DEF ReadAnswer, SocketShape
      <3>2. wire' \in Seq(Packets) /\ (\A i \in DOMAIN wire : Sound(wire[i], log))'
        BY <3>1, Popping DEF SocketShape, Sound
      <3>3. pending' \in Seq(Packets) /\ (\A i \in DOMAIN pending : Sound(pending[i], log))' /\ Len(pending') <= PendingLimit
        <4>1. CASE pending' = pending
          BY <3>1, <4>1 DEF SocketShape, Sound, TypeOK
        <4>2. CASE pending' = Append(pending, Head(wire)) /\ Len(pending) < PendingLimit
          BY <3>1, <4>2, Popping, Pushing, Bounds DEF SocketShape, Sound
        <4> QED
          BY <1>19, <4>1, <4>2 DEF ReadAnswer
      <3> QED
        BY <3>1, <3>2, <3>3 DEF SocketShape, Named
    <2>11. SocketShape'
      BY <2>2
    <2>12. ReceiverShape' /\ op' \in Exchanges \cup {NoOp} /\ Named(op)'
      BY <1>19, <2>1 DEF ReadAnswer, ReceiverShape, Sound, Named, Ends, Exchanges, Packets, IsAnswer
    <2>13. TypeOK'
      BY <1>19, <2>2, Bounds DEF ReadAnswer, TypeOK, Stored
    <2> QED
      BY <2>11, <2>12, <2>13 DEF Types, Shapes
  <1>20. ASSUME TimesOut PROVE Types'
    <2>1. op \in Exchanges
      BY <1>20 DEF TimesOut, NoOp
    <2>11. SocketShape'
      BY <1>20 DEF TimesOut, SocketShape, Sound, Named
    <2>12. ReceiverShape' /\ op' \in Exchanges \cup {NoOp} /\ Named(op)'
      BY <1>20, <2>1 DEF TimesOut, ReceiverShape, Sound, Named, Ends, Exchanges
    <2>13. TypeOK'
      BY <1>20, Bounds DEF TimesOut, TypeOK, Stored, Fails
    <2> QED
      BY <2>11, <2>12, <2>13 DEF Types, Shapes
  <1>21. ASSUME Finish PROVE Types'
    <2>1. (DropSocket \/ KeepSocket) /\ log' = log
      BY <1>21 DEF Finish
    <2>2. state' \in [Messages -> States] /\ {m \in Messages : Stored(m)}' = {m \in Messages : Stored(m)}
      <3>1. CASE Mark(op.id)
        BY <3>1, MarkKeeps DEF TypeOK
      <3> QED
        BY <1>21, <3>1 DEF Finish, TypeOK, Stored
    <2>3. sends' \in [Clients -> {"none", "unknown", "sent", "rejected"}]
      BY <1>21 DEF Finish, TypeOK, SendState
    <2>11. SocketShape'
      BY <2>1, SocketStays
    <2>12. ReceiverShape' /\ op' \in Exchanges \cup {NoOp} /\ Named(op)'
      BY <1>21 DEF Finish, ReceiverShape, Sound, Named, NoOp
    <2>13. TypeOK'
      BY <1>21, <2>1, <2>2, <2>3, SocketStays, Bounds DEF Finish, TypeOK, Fails
    <2> QED
      BY <2>11, <2>12, <2>13 DEF Types, Shapes
  <1>22. ASSUME ReadRows PROVE Types'
    <2>11. SocketShape'
      BY <1>22 DEF ReadRows, SocketShape, Sound, Named
    <2>12. ReceiverShape' /\ op' \in Exchanges \cup {NoOp} /\ Named(op)'
      BY <1>22 DEF ReadRows, ReceiverShape, Sound, Named
    <2>13. TypeOK'
      BY <1>22, Bounds DEF ReadRows, TypeOK, Stored
    <2> QED
      BY <2>11, <2>12, <2>13 DEF Types, Shapes
  <1>23. ASSUME StageRows PROVE Types'
    <2>1. batch.of \subseteq Messages
      BY <1>23 DEF StageRows, BatchStands, NoBatch
    <2>11. SocketShape'
      BY <1>23 DEF StageRows, SocketShape, Sound, Named
    <2>12. ReceiverShape' /\ op' \in Exchanges \cup {NoOp} /\ Named(op)'
      BY <1>23 DEF StageRows, ReceiverShape, Sound, Named
    <2>13. TypeOK'
      BY <1>23, <2>1, Bounds DEF StageRows, TypeOK, Stored, Fails
    <2> QED
      BY <2>11, <2>12, <2>13 DEF Types, Shapes
  <1>24. ASSUME AckRows PROVE Types'
    <2>1. state' \in [Messages -> States] /\ {m \in Messages : Stored(m)}' = {m \in Messages : Stored(m)}
      BY <1>24 DEF AckRows, TypeOK, Stored, States, Readable
    <2>11. SocketShape'
      BY <1>24 DEF AckRows, SocketShape, Sound, Named
    <2>12. ReceiverShape' /\ op' \in Exchanges \cup {NoOp} /\ Named(op)'
      BY <1>24 DEF AckRows, ReceiverShape, Sound, Named
    <2>13. TypeOK'
      BY <1>24, <2>1, Bounds DEF AckRows, TypeOK
    <2> QED
      BY <2>11, <2>12, <2>13 DEF Types, Shapes
  <1>25. ASSUME Crash PROVE Types'
    <2>1. (DropSocket \/ KeepSocket) /\ log' = log
      BY <1>25 DEF Crash
    <2>3. losses' \in 0..MaxLosses
      BY <1>25, Bounds DEF Crash, Fails, TypeOK
    <2>4. /\ session' \in [in : BOOLEAN, nim : BOOLEAN, synced : BOOLEAN, epoch : 1..MaxEpoch] /\ (session'.nim => session'.in) /\ Len(pending') <= PendingLimit
      BY <2>1, SocketStays
    <2>2. Resting \in Receivers
      BY Bounds DEF Resting, Receivers, NoPacket, Packet
    <2>11. SocketShape'
      BY <2>1, SocketStays
    <2>12. ReceiverShape' /\ op' \in Exchanges \cup {NoOp} /\ Named(op)'
      BY <1>25, <2>2 DEF Crash, ReceiverShape, Receivers, Named, Resting, NoOp
    <2>13. TypeOK'
      <3>1. up' \in BOOLEAN /\ UNCHANGED <<case, log, gone, acked, delivered, rows, state, cursor, sends, staged>>
        BY <1>25 DEF Crash
      <3> QED
        BY <2>3, <2>4, <3>1 DEF TypeOK, Stored
    <2> QED
      BY <2>11, <2>12, <2>13 DEF Types, Shapes
  <1>26. ASSUME Restart PROVE Types'
    <2>11. SocketShape'
      BY <1>26 DEF Restart, SocketShape, Sound, Named
    <2>12. ReceiverShape' /\ op' \in Exchanges \cup {NoOp} /\ Named(op)'
      BY <1>26 DEF Restart, ReceiverShape, Sound, Named
    <2>13. TypeOK'
      BY <1>26, Bounds DEF Restart, TypeOK, Stored
    <2> QED
      BY <2>11, <2>12, <2>13 DEF Types, Shapes
  <1>27. CASE UNCHANGED vars
    BY <1>27 DEF vars, TypeOK, SocketShape, ReceiverShape, Sound, Named, Stored
  <1> QED
    BY <1>1, <1>2, <1>3, <1>4, <1>5, <1>6, <1>7, <1>8, <1>9, <1>10, <1>11, <1>12, <1>13, <1>14, <1>15, <1>16,
        <1>17, <1>18, <1>19, <1>20, <1>21, <1>22, <1>23, <1>24, <1>25, <1>26, <1>27
    DEF Next, ServerAnswers, ReceiverStep, ExchangeStep, RuntimeStep

-----------------------------------------------------------------------------
(* The socket.                                                             *)

(* A new session leaves no request alive.                                  *)
LEMMA AllDead ==
  ASSUME SocketShape, NEW new, NewSession(new)
  PROVE  session' = new /\ wire' = <<>> /\ pending' = <<>> /\ \A f \in flights' : ~f.live
  <1>1. \A f \in Requests : ~[f EXCEPT !.live = FALSE].live
    BY DEF Requests
  <1> QED
    BY <1>1 DEF NewSession, SocketShape

(* What the receiver does with a packet, by its kind.                      *)
LEMMA JournalMoves ==
  ASSUME Types, Journal
  PROVE  /\ rcv.packet \in Packets
         /\ \/ rcv'.at = "failed" /\ rcv'.epoch = rcv.epoch
            \/ rcv' = Resting /\ rcv.packet.kind = "accepted"
            \/ /\ rcv'.packet = rcv.packet /\ rcv'.epoch = rcv.epoch
               /\ \/ rcv.packet.kind = "messages" /\ rcv'.at = "store" /\ rcv'.left = rcv.packet.of
                  \/ rcv.packet.kind = "recalled" /\ rcv'.at = "recall" /\ rcv'.left = rcv.left
                  \/ rcv.packet.kind = "done" /\ rcv'.at = "cursor" /\ rcv'.left = rcv.left
  <1>1. rcv.packet \in Packets /\ rcv \in Receivers
    BY DEF Types, Shapes, ReceiverShape, Journal
  <1>2. CASE FailsTo
    BY <1>1, <1>2 DEF FailsTo, Receivers
  <1>3. CASE rcv' = Decoded(rcv.packet)
    <2>1. CASE rcv.packet.kind = "messages"
      BY <1>1, <1>3, <2>1 DEF Decoded, Receivers
    <2>2. CASE rcv.packet.kind = "recalled"
      BY <1>1, <1>3, <2>2 DEF Decoded, Receivers
    <2>3. CASE rcv.packet.kind = "done"
      BY <1>1, <1>3, <2>3 DEF Decoded, Receivers
    <2>4. CASE rcv.packet.kind = "accepted"
      BY <1>1, <1>3, <2>4 DEF Decoded, Receivers
    <2>5. CASE rcv.packet.kind = "refused"
      BY <1>1, <1>3, <2>5 DEF Decoded, Receivers
    <2> QED
      BY <1>1, <2>1, <2>2, <2>3, <2>4, <2>5 DEF Packets
  <1> QED
    BY <1>1, <1>2, <1>3 DEF Journal

(* What follows an acknowledgement.                                        *)
LEMMA AcknowledgeMoves ==
  ASSUME Types, Acknowledge
  PROVE  \/ rcv'.at = "failed" /\ rcv'.epoch = rcv.epoch
         \/ rcv' = Resting /\ rcv.left = {Min(rcv.left)}
         \/ /\ rcv'.at = "store" /\ rcv'.left = rcv.left \ {Min(rcv.left)}
            /\ rcv'.packet = rcv.packet /\ rcv'.epoch = rcv.epoch
  <1>1. rcv \in Receivers /\ rcv.left # {} /\ Min(rcv.left) \in rcv.left
    BY LeastOf, Bounds DEF Types, Shapes, ReceiverShape, Acknowledge, Receivers
  <1>2. CASE FailsTo
    BY <1>1, <1>2 DEF FailsTo, Receivers
  <1>3. CASE NextMessage
    <2> DEFINE rest == rcv.left \ {Min(rcv.left)}
    <2>1. CASE rest = {}
      BY <1>1, <1>3, <2>1 DEF NextMessage
    <2>2. CASE rest # {}
      BY <1>1, <1>3, <2>2 DEF NextMessage, Receivers
    <2> QED
      BY <2>1, <2>2
  <1> QED
    BY <1>2, <1>3 DEF Acknowledge

(* A socket that was given up holds nothing.                               *)
LEMMA Dropped ==
  ASSUME Types, DropSocket, op' = NoOp
  PROVE  SocketHolds'
  <1>1. /\ ~session'.nim /\ wire' = <<>> /\ pending' = <<>>
        /\ \A f \in flights' : ~f.live
    BY AllDead DEF DropSocket, NewSession, Types, Shapes, TypeOK
  <1> QED
    BY <1>1 DEF SocketHolds

(* Every step keeps the socket's part.                                     *)
LEMMA SocketStep ==
  ASSUME Types, SocketHolds, [Next]_vars
  PROVE  SocketHolds'
  <1> USE DEF Types, Shapes
  <1>1. ASSUME Accept PROVE SocketHolds'
    BY <1>1 DEF Accept, Push, SocketHolds
  <1>2. ASSUME NEW m \in Messages, Withdraw(m) PROVE SocketHolds'
    BY <1>2 DEF Withdraw, Push, SocketHolds
  <1>3. ASSUME NEW f \in flights, NEW result \in {"accepted", "refused"}, Deliver(f, result) PROVE SocketHolds'
    BY <1>3 DEF Deliver, SocketHolds
  <1>4. ASSUME Connect PROVE SocketHolds'
    BY <1>4, AllDead DEF Connect, NewSession, SocketHolds, Free, TypeOK
  <1>5. ASSUME NEW in \in BOOLEAN, ChangeLogin(in) PROVE SocketHolds'
    BY <1>5, AllDead DEF ChangeLogin, NewSession, SocketHolds, Free, TypeOK
  <1>6. ASSUME SocketBreaks PROVE SocketHolds'
    BY <1>6, Dropped DEF SocketBreaks, Free
  <1>7. ASSUME StartSync PROVE SocketHolds'
    <2>1. CASE session' = [session EXCEPT !.synced = TRUE]
      BY <1>7, <2>1 DEF StartSync, SocketHolds, TypeOK
    <2>2. CASE DropSocket
      BY <1>7, <2>2, Dropped DEF StartSync, Free
    <2> QED
      BY <1>7, <2>1, <2>2 DEF StartSync
  <1>8. ASSUME Poll PROVE SocketHolds'
    BY <1>8 DEF Poll, SocketHolds
  <1>9. ASSUME Journal PROVE SocketHolds'
    BY <1>9, JournalMoves DEF Journal, SocketHolds, Resting
  <1>10. ASSUME Store PROVE SocketHolds'
    BY <1>10 DEF Store, FailsTo, SocketHolds, ReceiverShape, Receivers
  <1>11. ASSUME Acknowledge PROVE SocketHolds'
    <2>1. CASE DropSocket
      BY <1>11, <2>1, Dropped DEF Acknowledge, Free
    <2>2. CASE KeepSocket
      BY <1>11, <2>2, AcknowledgeMoves DEF Acknowledge, KeepSocket, SocketHolds, Resting
    <2> QED
      BY <1>11, <2>1, <2>2 DEF Acknowledge
  <1>12. ASSUME ApplyRecall PROVE SocketHolds'
    BY <1>12 DEF ApplyRecall, FailsTo, Resting, SocketHolds, ReceiverShape, Receivers
  <1>13. ASSUME SaveCursor PROVE SocketHolds'
    BY <1>13 DEF SaveCursor, FailsTo, Resting, SocketHolds, ReceiverShape, Receivers
  <1>14. ASSUME Fail PROVE SocketHolds'
    <2>1. CASE DropSocket
      BY <1>14, <2>1, Dropped DEF Fail, Free
    <2>2. CASE KeepSocket
      BY <1>14, <2>2 DEF Fail, KeepSocket, Resting, SocketHolds
    <2> QED
      BY <1>14, <2>1, <2>2 DEF Fail, GiveUpSocket
  <1>15. ASSUME NEW c \in Clients, Reserve(c) PROVE SocketHolds'
    BY <1>15 DEF Reserve, Begin, SocketHolds
  <1>16. ASSUME NEW m \in Messages, BeginRecall(m) PROVE SocketHolds'
    BY <1>16 DEF BeginRecall, Begin, SocketHolds
  <1>17. ASSUME BeginBeat PROVE SocketHolds'
    BY <1>17 DEF BeginBeat, Begin, SocketHolds
  <1>18. ASSUME Write PROVE SocketHolds'
    BY <1>18 DEF Write, NoOp, SocketHolds
  <1>19. ASSUME ReadAnswer PROVE SocketHolds'
    BY <1>19 DEF ReadAnswer, SocketHolds
  <1>20. ASSUME TimesOut PROVE SocketHolds'
    BY <1>20 DEF TimesOut, NoOp, SocketHolds
  <1>21. ASSUME Finish PROVE SocketHolds'
    <2>1. CASE DropSocket
      BY <1>21, <2>1, Dropped DEF Finish
    <2>2. CASE KeepSocket
      BY <1>21, <2>2 DEF Finish, KeepSocket, SocketHolds
    <2> QED
      BY <1>21, <2>1, <2>2 DEF Finish
  <1>22. ASSUME ReadRows PROVE SocketHolds'
    BY <1>22 DEF ReadRows, SocketHolds, Fails, Free
  <1>23. ASSUME StageRows PROVE SocketHolds'
    BY <1>23 DEF StageRows, SocketHolds, Fails, Free
  <1>24. ASSUME AckRows PROVE SocketHolds'
    BY <1>24 DEF AckRows, SocketHolds, Fails, Free
  <1>25. ASSUME Crash PROVE SocketHolds'
    BY <1>25, Dropped DEF Crash
  <1>26. ASSUME Restart PROVE SocketHolds'
    BY <1>26 DEF Restart, SocketHolds, Fails, Free
  <1>27. CASE UNCHANGED vars
    BY <1>27 DEF vars, SocketHolds
  <1> QED
    BY <1>1, <1>2, <1>3, <1>4, <1>5, <1>6, <1>7, <1>8, <1>9, <1>10, <1>11, <1>12, <1>13, <1>14, <1>15, <1>16,
        <1>17, <1>18, <1>19, <1>20, <1>21, <1>22, <1>23, <1>24, <1>25, <1>26, <1>27
    DEF Next, ServerAnswers, ReceiverStep, ExchangeStep, RuntimeStep

-----------------------------------------------------------------------------
(* The rows of the ledger and what was acknowledged.                       *)

(* What each step leaves alone.                                            *)
LEMMA Frames ==
  ASSUME [Next]_vars
  PROVE  /\ UNCHANGED <<rows, state>> \/ Store \/ ApplyRecall \/ Finish \/ AckRows
         /\ UNCHANGED <<batch, staged>> \/ ReadRows \/ StageRows \/ AckRows \/ Crash
         /\ UNCHANGED acked \/ Acknowledge
         /\ UNCHANGED rows \/ Store
         /\ UNCHANGED case
         /\ UNCHANGED cursor \/ SaveCursor
         /\ UNCHANGED gone \/ (\E m \in Messages : Withdraw(m)) \/ ServerAnswers
  <1> USE DEF Fails, Accept, Withdraw, ServerAnswers, Deliver, Connect, ChangeLogin, SocketBreaks, StartSync, Poll,
      Journal,
              Store, Acknowledge, ApplyRecall, SaveCursor, Fail, Reserve, BeginRecall, BeginBeat, Write,
              ReadAnswer, TimesOut, Finish, ReadRows, StageRows, AckRows, Crash, Restart
  <1>1. CASE UNCHANGED vars
    BY <1>1 DEF vars
  <1>2. CASE Accept \/ \E m \in Messages : Withdraw(m)
    BY <1>2
  <1>3. CASE ServerAnswers
    BY <1>3
  <1>4. CASE Connect \/ (\E in \in BOOLEAN : ChangeLogin(in)) \/ SocketBreaks
    BY <1>4
  <1>5. CASE ReceiverStep
    BY <1>5 DEF ReceiverStep
  <1>6. CASE (\E c \in Clients : Reserve(c)) \/ (\E m \in Messages : BeginRecall(m)) \/ BeginBeat
    BY <1>6
  <1>7. CASE ExchangeStep
    BY <1>7 DEF ExchangeStep
  <1>8. CASE RuntimeStep
    BY <1>8 DEF RuntimeStep
  <1>9. CASE Crash \/ Restart
    BY <1>9
  <1> QED
    BY <1>1, <1>2, <1>3, <1>4, <1>5, <1>6, <1>7, <1>8, <1>9 DEF Next

(* A message is stored once, at the end of the ledger.                     *)
LEMMA StoreMoves ==
  ASSUME Types, Store
  PROVE  /\ rcv.left \subseteq Messages /\ rcv.left # {} /\ Min(rcv.left) \in rcv.left
         /\ \/ rcv'.at = "failed" /\ rcv'.epoch = rcv.epoch /\ UNCHANGED <<rows, state>>
            \/ /\ rcv'.at = "ack" /\ rcv'.left = rcv.left /\ rcv'.epoch = rcv.epoch
               /\ rcv'.packet = rcv.packet
               /\ \/ Stored(Min(rcv.left)) /\ UNCHANGED <<rows, state>>
                  \/ /\ ~Stored(Min(rcv.left)) /\ rows' = Append(rows, Min(rcv.left))
                     /\ \E s \in {"pending", "needs_human"} : state' = [state EXCEPT ![Min(rcv.left)] = s]
  <1>1. /\ rcv \in Receivers /\ rcv.left \subseteq Messages /\ rcv.left # {} /\ Min(rcv.left) \in rcv.left
    BY LeastOf, Bounds DEF Types, Shapes, ReceiverShape, Store, Receivers
  <1>2. {"pending"} \cup (IF "opaque" \in case.faults THEN {"needs_human"} ELSE {}) \subseteq {"pending", "needs_human"}
    OBVIOUS
  <1> QED
    BY <1>1, <1>2 DEF Store, FailsTo, Receivers

(* How the state of a row may change.                                      *)
LEMMA StatesMove ==
  ASSUME Types, [Next]_vars, NEW m \in Messages
  PROVE  \/ state'[m] = state[m]
         \/ Stored(m) /\ state'[m] = "recalled"
         \/ AckRows /\ m \in Readable /\ Covers(m) /\ state'[m] = "queued"
         \/ /\ Store /\ m = Min(rcv.left) /\ ~Stored(m) /\ rows' = Append(rows, m)
            /\ state'[m] \in {"pending", "needs_human"} /\ rcv'.at = "ack" /\ rcv'.left = rcv.left
  <1> USE DEF Types, Shapes
  <1>0. state \in [Messages -> States]
    BY DEF TypeOK
  <1>1. CASE Store
    BY <1>0, <1>1, StoreMoves
  <1>2. CASE AckRows
    BY <1>0, <1>2 DEF AckRows
  <1>3. CASE ApplyRecall
    <2>1. CASE \A k \in rcv.packet.of : Mark(k)
      <3>1. PICK k \in rcv.packet.of : Mark(k)
        BY <1>3, <2>1 DEF ApplyRecall, ReceiverShape
      <3> QED
        BY <1>0, <3>1 DEF Mark, Stored
    <2> QED
      BY <1>3, <2>1 DEF ApplyRecall
  <1>4. CASE Finish
    <2>1. Mark(op.id) \/ state' = state
      BY <1>4 DEF Finish
    <2> QED
      BY <1>0, <2>1 DEF Mark, Stored
  <1> QED
    BY <1>1, <1>2, <1>3, <1>4, Frames

(* A stored message stays stored.                                          *)
LEMMA StoredStays ==
  ASSUME Types, [Next]_vars, NEW m \in Messages, Stored(m)
  PROVE  Stored(m)'
  BY StatesMove DEF Stored

(* Every step keeps the ledger's rows.                                     *)
LEMMA RowsStep ==
  ASSUME Types, RowsStand, [Next]_vars
  PROVE  RowsStand'
  <1> USE DEF RowsStand
  <1>1. CASE Store /\ rows' = Append(rows, Min(rcv.left)) /\ ~Stored(Min(rcv.left))
    <2>0. PICK m : m = Min(rcv.left)
      OBVIOUS
    <2>1. m \in Messages /\ rows' = Append(rows, m) /\ ~Stored(m)
      BY <1>1, <2>0, StoreMoves
    <2>2. /\ rows' \in Seq(Messages) /\ DOMAIN rows' = DOMAIN rows \cup {Len(rows) + 1}
          /\ \A i \in DOMAIN rows : rows'[i] = rows[i]
          /\ rows'[Len(rows) + 1] = m
      BY <2>1, Appending
    <2>3. \A i \in DOMAIN rows : rows[i] # m
      BY <2>1
    <2>4. Stored(m)' /\ \A k \in Messages \ {m} : Stored(k)' <=> Stored(k)
      <3>1. \E s \in {"pending", "needs_human"} : state' = [state EXCEPT ![m] = s]
        BY <1>1, <2>0, StoreMoves
      <3> QED
        BY <3>1, <2>1 DEF Stored, Types, TypeOK
    <2>5. (\A k \in Messages : Stored(k) <=> \E i \in DOMAIN rows : rows[i] = k)'
      BY <2>1, <2>2, <2>4
    <2>6. (\A i, j \in DOMAIN rows : rows[i] = rows[j] => i = j)'
      BY <2>2, <2>3
    <2> QED
      BY <2>2, <2>5, <2>6
  <1>2. CASE ~(Store /\ rows' = Append(rows, Min(rcv.left)) /\ ~Stored(Min(rcv.left)))
    <2>1. UNCHANGED rows
      BY <1>2, Frames, StoreMoves
    <2>2. \A k \in Messages : Stored(k)' <=> Stored(k)
      BY <1>2, StatesMove DEF Stored, Readable
    <2> QED
      BY <2>1, <2>2
  <1> QED
    BY <1>1, <1>2

(* The place of a stored message.                                          *)
LEMMA PlaceIs ==
  ASSUME RowsStand, NEW m \in Messages, Stored(m)
  PROVE  Place(m) \in DOMAIN rows /\ rows[Place(m)] = m
  BY DEF RowsStand, Place

(* Rows do not move.                                                       *)
LEMMA PlacesStay ==
  ASSUME Types, RowsStand, [Next]_vars, NEW k \in Messages, Stored(k)
  PROVE  Place(k)' = Place(k)
  <1>1. RowsStand' /\ Stored(k)' /\ Place(k) \in DOMAIN rows /\ rows[Place(k)] = k
    BY RowsStep, StoredStays, PlaceIs
  <1>2. Place(k) \in DOMAIN rows' /\ rows'[Place(k)] = k
    BY <1>1, Frames, StoreMoves, Appending DEF RowsStand
  <1>3. Place(k)' \in DOMAIN rows' /\ rows'[Place(k)'] = k
    BY <1>1, <1>2 DEF Place
  <1> QED
    BY <1>1, <1>2, <1>3 DEF RowsStand

(* A new row is behind those read before.                                  *)
LEMMA NewRowIsLast ==
  ASSUME Types, RowsStand, [Next]_vars, NEW k \in Messages, Stored(k), NEW m \in Messages, ~Stored(m), Stored(m)'
  PROVE  Place(k)' < Place(m)'
  <1>1. rows' = Append(rows, m)
    BY StatesMove DEF Stored, Readable
  <1>2. /\ DOMAIN rows' = DOMAIN rows \cup {Len(rows) + 1} /\ rows'[Len(rows) + 1] = m
        /\ Len(rows) \in Nat /\ DOMAIN rows = 1..Len(rows)
    BY <1>1, Appending DEF RowsStand
  <1>3. Place(k)' = Place(k) /\ Place(k) \in DOMAIN rows
    BY PlacesStay, PlaceIs
  <1>4. Place(m)' \in DOMAIN rows' /\ rows'[Place(m)'] = m
    BY <1>2 DEF Place
  <1>5. RowsStand'
    BY RowsStep
  <1>6. Place(m)' = Len(rows) + 1
    BY <1>2, <1>4, <1>5 DEF RowsStand
  <1> QED
    BY <1>2, <1>3, <1>6

(* The receiver comes to an acknowledgement from storing.                  *)
LEMMA AckComes ==
  ASSUME Types, [Next]_vars, rcv'.at = "ack"
  PROVE  Store \/ (rcv.at = "ack" /\ rcv'.left = rcv.left)
  <1>1. rcv' = rcv \/ ReceiverStep \/ Crash
    BY DEF Next, vars, Accept, Withdraw, ServerAnswers, Deliver, Connect, ChangeLogin, SocketBreaks, Reserve,
           BeginRecall, BeginBeat, ExchangeStep, Write, ReadAnswer, TimesOut, Finish, RuntimeStep, ReadRows,
           StageRows, AckRows, Restart
  <1>2. CASE ReceiverStep
    BY <1>2, JournalMoves, AcknowledgeMoves
    DEF ReceiverStep, StartSync, Poll, ApplyRecall, FailsTo, SaveCursor, Fail, Resting, Types, Shapes,
        ReceiverShape, Receivers
  <1> QED
    BY <1>1, <1>2 DEF Crash, Resting

(* Every step keeps acknowledgements true.                                 *)
LEMMA AcksStep ==
  ASSUME Types, RowsStand, AcksAreKept, [Next]_vars
  PROVE  AcksAreKept'
  <1> USE DEF AcksAreKept
  <1>0. acked \subseteq Messages /\ acked' \subseteq Messages \cup acked'
    BY DEF Types, TypeOK
  <1>1. \A m \in acked' : Stored(m)'
    <2>1. CASE Acknowledge
      <3>1. acked' \subseteq acked \cup {Min(rcv.left)} /\ Stored(Min(rcv.left)) /\ rcv.at = "ack"
        BY <2>1 DEF Acknowledge
      <3>2. Min(rcv.left) \in Messages
        BY <3>1, LeastOf, Bounds DEF Types, Shapes, ReceiverShape, Receivers
      <3> QED
        BY <1>0, <3>1, <3>2, StoredStays
    <2>2. CASE UNCHANGED acked
      BY <1>0, <2>2, StoredStays
    <2> QED
      BY <2>1, <2>2, Frames
  <1>2. ASSUME rcv'.at = "ack" PROVE Stored(Min(rcv.left))'
    <2>1. CASE rcv.at = "ack" /\ rcv'.left = rcv.left
      <3>1. Min(rcv.left) \in Messages
        BY <2>1, LeastOf, Bounds DEF Types, Shapes, ReceiverShape, Receivers
      <3>2. PICK m \in Messages : m = Min(rcv.left) /\ Stored(m)
        BY <2>1, <3>1
      <3>3. Stored(m)' /\ m = Min(rcv'.left)
        BY <2>1, <3>2, StoredStays
      <3> QED
        BY <3>3 DEF Stored
    <2>2. CASE Store
      BY <1>2, <2>2, StoreMoves DEF Stored, Types, TypeOK
    <2> QED
      BY <1>2, <2>1, <2>2, AckComes
  <1> QED
    BY <1>1, <1>2

-----------------------------------------------------------------------------
(* The batch of the runtime.                                               *)

(* Every step keeps the runtime's batch.                                   *)
LEMMA BatchStep ==
  ASSUME Types, RowsStand, BatchStands, [Next]_vars
  PROVE  BatchStands'
  <1> USE DEF BatchStands
  <1>0. Readable' \subseteq Messages /\ Readable \subseteq Messages /\ \A m \in Readable : Stored(m)
    BY DEF Readable, Stored
  <1>1. \A b \in batch.of : b \in Messages /\ Stored(b)'
    BY StoredStays DEF NoBatch
  <1>2. \A m \in Readable', b \in batch.of : Place(m)' <= Place(b)' => m \in batch.of
    <2> SUFFICES ASSUME NEW m \in Readable', NEW b \in batch.of, Place(m)' <= Place(b)'
                 PROVE  m \in batch.of
      OBVIOUS
    <2>1. m \in Messages /\ Stored(m)' /\ b \in Messages /\ Stored(b)
      BY <1>0, <1>1 DEF Readable, Stored
    <2>2. CASE Stored(m)
      <3>1. m \in Readable
        BY <2>1, <2>2, StatesMove DEF Readable, Stored
      <3> QED
        BY <2>1, <2>2, <3>1, PlacesStay
    <2>3. CASE ~Stored(m)
      <3>1. Place(b)' < Place(m)' /\ Place(b)' \in Nat /\ Place(m)' \in Nat
        <4>1. RowsStand'
          BY RowsStep
        <4>2. Place(b)' \in DOMAIN rows' /\ Place(m)' \in DOMAIN rows'
          BY <1>1, <2>1, <4>1 DEF RowsStand, Place
        <4> QED
          BY <2>1, <2>3, <4>1, <4>2, NewRowIsLast DEF RowsStand
      <3> QED
        BY <3>1
    <2> QED
      BY <2>2, <2>3
  <1>3. \A m \in Messages : state'[m] = "queued" => m \in staged
    <2> SUFFICES ASSUME NEW m \in Messages, state'[m] = "queued", state[m] # "queued"
                 PROVE  m \in staged
      OBVIOUS
    <2>1. AckRows /\ m \in Readable /\ Covers(m)
      BY StatesMove
    <2> QED
      BY <2>1 DEF Covers, AckRows
  <1>4. CASE UNCHANGED <<batch, staged>>
    BY <1>1, <1>2, <1>3, <1>4
  <1>5. CASE ReadRows
    <2>1. /\ batch' = [at |-> "stage", of |-> {m \in Readable : Cardinality(Before(m)) < BatchLimit}]
          /\ UNCHANGED <<rows, state, staged>>
      BY <1>5 DEF ReadRows
    <2>2. \A m \in Readable, b \in Readable :
              Place(m) <= Place(b) => Cardinality(Before(m)) <= Cardinality(Before(b))
                                      /\ Cardinality(Before(m)) \in Nat /\ Cardinality(Before(b)) \in Nat
      <3> SUFFICES ASSUME NEW m \in Readable, NEW b \in Readable, Place(m) <= Place(b)
                   PROVE  /\ Cardinality(Before(m)) <= Cardinality(Before(b))
                          /\ Cardinality(Before(m)) \in Nat /\ Cardinality(Before(b)) \in Nat
        OBVIOUS
      <3>1. \A k \in Readable : Place(k) \in Nat
        BY <1>0, PlaceIs DEF RowsStand
      <3>2. Before(m) \subseteq Before(b)
        BY <3>1 DEF Before
      <3>3. IsFiniteSet(Messages) /\ Before(b) \subseteq Messages
        <4>1. IsFiniteSet(1..MaxMessages)
          BY FS_Interval, BoundsAssumption
        <4> QED
          BY <1>0, <4>1 DEF Messages, Before
      <3>4. IsFiniteSet(Before(b)) /\ IsFiniteSet(Before(m))
        BY <3>2, <3>3, FS_Subset
      <3> QED
        BY <3>2, <3>4, FS_Subset, FS_CardinalityType
    <2>3. batch'.of = {m \in Readable : Cardinality(Before(m)) < BatchLimit} /\ batch'.at = "stage"
          /\ batch'.of \subseteq Messages
      BY <1>0, <2>1
    <2>4. \A m \in Readable, b \in batch'.of : Place(m) <= Place(b) => m \in batch'.of
      BY <2>2, <2>3, BoundsAssumption
    <2>5. Readable' = Readable /\ \A m \in Messages : Place(m)' = Place(m)
      BY <2>1 DEF Readable, Place
    <2>6. batch' \in [at : {"stage", "ack"}, of : SUBSET Messages]
      BY <2>1, <2>3
    <2>7. \A b \in batch'.of : Stored(b)'
      BY <1>0, <2>1, <2>3 DEF Stored
    <2>8. (\A m \in Readable, b \in batch.of : Place(m) <= Place(b) => m \in batch.of)'
      BY <1>0, <2>3, <2>4, <2>5
    <2> QED
      BY <1>3, <2>1, <2>3, <2>6, <2>7, <2>8
  <1>6. CASE StageRows
    <2>1. batch.at = "stage" /\ UNCHANGED <<rows, state>>
      BY <1>6 DEF StageRows
    <2>2. CASE batch' = NoBatch /\ staged' = staged
      BY <1>3, <2>2 DEF NoBatch
    <2>3. CASE staged' = staged \cup batch.of /\ batch' = [batch EXCEPT !.at = "ack"]
      <3>1. batch'.of = batch.of /\ batch' \in [at : {"stage", "ack"}, of : SUBSET Messages]
        BY <2>1, <2>3 DEF NoBatch
      <3> QED
        BY <1>1, <1>2, <1>3, <2>3, <3>1
    <2> QED
      BY <1>6, <2>2, <2>3 DEF StageRows
  <1>7. CASE AckRows
    BY <1>3, <1>7 DEF AckRows, NoBatch
  <1>8. CASE Crash
    BY <1>3, <1>8 DEF Crash, NoBatch
  <1> QED
    BY <1>4, <1>5, <1>6, <1>7, <1>8, Frames

-----------------------------------------------------------------------------
(* The sends.                                                              *)

(* A text is on the way once.                                              *)
OneFlightEach == \A f, g \in flights : f.kind = "send" /\ g.kind = "send" /\ f.id = g.id => f = g

(* A new session changes only whether its requests are still waited for.   *)
LEMMA FlightsStay ==
  ASSUME SocketShape, SocketShape', OneFlightEach, (\E new : NewSession(new)) \/ flights' = flights
  PROVE  OneFlightEach' /\ \A c : OnTheWay(c)' <=> OnTheWay(c)
  <1>1. CASE flights' = flights
    BY <1>1 DEF OneFlightEach, OnTheWay
  <1>2. CASE \E new : NewSession(new)
    <2> DEFINE Dead(f) == [f EXCEPT !.live = FALSE]
    <2>1. flights' = {Dead(f) : f \in flights}
      BY <1>2 DEF NewSession
    <2>2. \A f \in flights : Dead(f).kind = f.kind /\ Dead(f).id = f.id
      <3>1. \A f \in Requests : Dead(f).kind = f.kind /\ Dead(f).id = f.id
        BY DEF Requests
      <3> QED
        BY <3>1 DEF SocketShape
    <2> HIDE DEF Dead
    <2>3. \A f \in flights : \E g \in flights' : g.kind = f.kind /\ g.id = f.id
      BY <2>1, <2>2
    <2>4. \A g \in flights' : \E f \in flights : g = Dead(f) /\ g.kind = f.kind /\ g.id = f.id
      BY <2>1, <2>2
    <2>5. OneFlightEach'
      <3> SUFFICES ASSUME NEW g \in flights', NEW h \in flights', g.kind = "send", h.kind = "send", g.id = h.id
                   PROVE  g = h
        BY DEF OneFlightEach
      <3>1. PICK f \in flights : g = Dead(f) /\ g.kind = f.kind /\ g.id = f.id
        BY <2>4
      <3>2. PICK e \in flights : h = Dead(e) /\ h.kind = e.kind /\ h.id = e.id
        BY <2>4
      <3> QED
        BY <3>1, <3>2 DEF OneFlightEach
    <2>6. ASSUME NEW c PROVE OnTheWay(c)' <=> OnTheWay(c)
      BY <2>3, <2>4 DEF OnTheWay
    <2> QED
      BY <2>5, <2>6
  <1> QED
    BY <1>1, <1>2

(* Nothing about the sends changes while their table, the texts delivered, *)
(* the requests on the way and the exchange stay and no answer comes in.   *)
LEMMA SendsQuiet ==
  ASSUME SendsStand, SendsToldTruly,
         sends' = sends, delivered' = delivered,
         op' = op \/ op'.kind # "send",
         OneFlightEach',
         \A c : OnTheWay(c)' <=> OnTheWay(c),
         \A i \in DOMAIN wire' : wire'[i].to = "send" => \E j \in DOMAIN wire : wire'[i] = wire[j]
  PROVE  SendsStand' /\ SendsToldTruly'
  <1>1. SendsToldTruly'
    BY DEF SendsToldTruly, OnTheWay
  <1>2. (\A i \in DOMAIN wire, c \in Clients :
          /\ AnswerTo(wire[i], c, "accepted") => c \in delivered
          /\ AnswerTo(wire[i], c, "refused") => c \notin delivered /\ ~OnTheWay(c)
          /\ wire[i].to = "send" /\ wire[i].of = {c} => sends[c] # "none")'
    BY DEF SendsStand, AnswerTo
  <1>3. (op.kind = "send" =>
          /\ op.id \in Clients /\ sends[op.id] = "unknown"
          /\ op.at = "write" =>
                /\ op.id \notin delivered /\ ~OnTheWay(op.id)
                /\ \A i \in DOMAIN wire : wire[i].to = "send" => wire[i].of # {op.id}
          /\ op.at = "finish" /\ op.result = "accepted" => op.id \in delivered
          /\ op.at = "finish" /\ op.result = "refused" => op.id \notin delivered /\ ~OnTheWay(op.id))'
    <2>1. CASE op' = op
      <3>1. PICK c : c = op.id
        OBVIOUS
      <3>2. OnTheWay(c)' <=> OnTheWay(c)
        OBVIOUS
      <3> QED
        BY <2>1, <3>1, <3>2 DEF SendsStand, OnTheWay
    <2>2. CASE op'.kind # "send"
      BY <2>2
    <2> QED
      BY <2>1, <2>2
  <1> QED
    BY <1>1, <1>2, <1>3 DEF SendsStand, OneFlightEach

(* The steps that concern a text, and what all others leave alone.         *)
Sending == (\E c \in Clients : Reserve(c)) \/ Write \/ ServerAnswers \/ ReadAnswer \/ TimesOut \/ Finish

WireQuiet == \A i \in DOMAIN wire' : wire'[i].to = "send" => \E j \in DOMAIN wire : wire'[i] = wire[j]

Quiet ==
    /\ sends' = sends /\ delivered' = delivered
    /\ op' = op \/ op'.kind # "send"
    /\ flights' = flights \/ \E new : NewSession(new)
    /\ WireQuiet

(* A packet for the client is no answer.                                   *)
LEMMA AppendQuiet ==
  ASSUME wire \in Seq(Packets), NEW p \in Packets, p.to = "client", wire' = Append(wire, p) \/ wire' = wire
  PROVE  WireQuiet
  <1>1. CASE wire' = wire
    BY <1>1 DEF WireQuiet
  <1>2. CASE wire' = Append(wire, p)
    <2>1. /\ DOMAIN wire' = 1..(Len(wire) + 1) /\ DOMAIN wire = 1..Len(wire) /\ Len(wire) \in Nat
          /\ \A i \in DOMAIN wire : wire'[i] = wire[i]
          /\ wire'[Len(wire) + 1] = p
      BY <1>2, Pushing
    <2>2. \A i \in DOMAIN wire' : i \in DOMAIN wire \/ i = Len(wire) + 1
      BY <2>1
    <2> QED
      BY <2>1, <2>2 DEF WireQuiet
  <1> QED
    BY <1>1, <1>2

(* A packet of a joined queue comes from one of the two.                   *)
LEMMA JoinedOf ==
  ASSUME NEW s \in Seq(Packets), NEW t \in Seq(Packets)
  PROVE  \A i \in DOMAIN (s \o t) :
            (\E j \in DOMAIN s : (s \o t)[i] = s[j]) \/ (\E j \in DOMAIN t : (s \o t)[i] = t[j])
  BY Joining

(* Synchronising brings no answers.                                        *)
LEMMA SyncQuiet ==
  ASSUME Types, NEW known \in {{}, acked}, NEW whole \in BOOLEAN, Sync(known, whole)
  PROVE  WireQuiet
  <1>1. TypeOK /\ known \in SUBSET Messages /\ wire \in Seq(Packets) /\ log \in Nat
    BY DEF Types, Shapes, SocketShape, TypeOK
  <1>2. PICK parts \in Seq(Packets) :
            /\ wire' = (wire \o parts) \o <<Packet("done", {}, log, "client")>>
            /\ \A i \in DOMAIN parts : /\ parts[i].kind = "messages" /\ parts[i].to = "client"
                                       /\ parts[i].of # {} /\ parts[i].of \subseteq Messages
    BY <1>1, SyncBrings
  <1>3. PICK done : done = Packet("done", {}, log, "client")
    OBVIOUS
  <1>4. done \in Packets /\ done.to = "client" /\ <<done>> \in Seq(Packets) /\ DOMAIN <<done>> = {1} /\ <<done>>[1] = done
    BY <1>1, <1>3 DEF Packets, Packet
  <1>5. \A i \in DOMAIN (wire \o parts) : (wire \o parts)[i].to = "send" => \E j \in DOMAIN wire : (wire \o parts)[i] = wire[j]
    BY <1>1, <1>2, JoinedOf
  <1>6. \A i \in DOMAIN ((wire \o parts) \o <<done>>) :
            \/ ((wire \o parts) \o <<done>>)[i] = done
            \/ \E j \in DOMAIN (wire \o parts) : ((wire \o parts) \o <<done>>)[i] = (wire \o parts)[j]
    BY <1>1, <1>4, Joining, JoinedOf
  <1> QED
    BY <1>2, <1>3, <1>4, <1>5, <1>6 DEF WireQuiet

(* Every other step leaves the sends alone.                                *)
LEMMA OthersAreQuiet ==
  ASSUME Types, ~Sending, [Next]_vars
  PROVE  Quiet
  <1> USE DEF Types, Shapes
  <1>1. ASSUME Accept PROVE Quiet
    <2>1. Pushed(log + 1) \in Packets /\ Pushed(log + 1).to = "client"
      BY Bounds DEF Pushed, Packet, Packets, TypeOK
    <2>2. WireQuiet
      BY <1>1, <2>1, AppendQuiet DEF Accept, Push, SocketShape
    <2> QED
      BY <1>1, <2>2 DEF Accept, Quiet
  <1>2. ASSUME NEW m \in Messages, Withdraw(m) PROVE Quiet
    <2>1. Recalled(m) \in Packets /\ Recalled(m).to = "client"
      BY Bounds DEF Recalled, Packet, Packets
    <2>2. WireQuiet
      BY <1>2, <2>1, AppendQuiet DEF Withdraw, Push, SocketShape
    <2> QED
      BY <1>2, <2>2 DEF Withdraw, Quiet
  <1>3. ASSUME NEW f \in flights, NEW result \in {"accepted", "refused"}, Deliver(f, result) PROVE Quiet
    BY <1>3 DEF Sending, ServerAnswers
  <1>4. ASSUME Connect PROVE Quiet
    BY <1>4 DEF Connect, NewSession, Quiet, WireQuiet
  <1>5. ASSUME NEW in \in BOOLEAN, ChangeLogin(in) PROVE Quiet
    BY <1>5 DEF ChangeLogin, NewSession, Quiet, WireQuiet
  <1>6. ASSUME SocketBreaks PROVE Quiet
    BY <1>6 DEF SocketBreaks, DropSocket, NewSession, Quiet, WireQuiet
  <1>7. ASSUME StartSync PROVE Quiet
    <2>1. CASE DropSocket
      BY <1>7, <2>1 DEF StartSync, DropSocket, NewSession, Quiet, WireQuiet
    <2>2. ASSUME NEW known \in {{}, acked}, NEW whole \in BOOLEAN, Sync(known, whole), flights' = flights
          PROVE  Quiet
      <3>1. WireQuiet
        BY <2>2, SyncQuiet
      <3> QED
        BY <1>7, <2>2, <3>1 DEF StartSync, Quiet
    <2> QED
      BY <1>7, <2>1, <2>2 DEF StartSync
  <1>8. ASSUME Poll PROVE Quiet
    <2>1. wire' = wire \/ (wire # <<>> /\ wire' = Tail(wire))
      BY <1>8, FirstOfBoth DEF Poll, SocketShape
    <2>2. WireQuiet
      BY <2>1, Popping DEF WireQuiet, SocketShape
    <2> QED
      BY <1>8, <2>2 DEF Poll, Quiet
  <1>9. ASSUME Journal PROVE Quiet
    BY <1>9 DEF Journal, Quiet, WireQuiet, Free, Fails
  <1>10. ASSUME Store PROVE Quiet
    BY <1>10 DEF Store, Quiet, WireQuiet, Free, Fails
  <1>11. ASSUME Acknowledge PROVE Quiet
    <2>1. DropSocket \/ KeepSocket
      BY <1>11 DEF Acknowledge, GiveUpSocket
    <2> QED
      BY <1>11, <2>1 DEF Acknowledge, DropSocket, KeepSocket, NewSession, Quiet, WireQuiet
  <1>12. ASSUME ApplyRecall PROVE Quiet
    BY <1>12 DEF ApplyRecall, Quiet, WireQuiet, Free, Fails
  <1>13. ASSUME SaveCursor PROVE Quiet
    BY <1>13 DEF SaveCursor, Quiet, WireQuiet, Free, Fails
  <1>14. ASSUME Fail PROVE Quiet
    <2>1. DropSocket \/ KeepSocket
      BY <1>14 DEF Fail, GiveUpSocket
    <2> QED
      BY <1>14, <2>1 DEF Fail, DropSocket, KeepSocket, NewSession, Quiet, WireQuiet
  <1>15. ASSUME NEW c \in Clients, Reserve(c) PROVE Quiet
    BY <1>15 DEF Sending, ServerAnswers
  <1>16. ASSUME NEW m \in Messages, BeginRecall(m) PROVE Quiet
    BY <1>16 DEF BeginRecall, Begin, Quiet, WireQuiet, Fails
  <1>17. ASSUME BeginBeat PROVE Quiet
    BY <1>17 DEF BeginBeat, Begin, Quiet, WireQuiet, Fails
  <1>18. ASSUME Write PROVE Quiet
    BY <1>18 DEF Sending, ServerAnswers
  <1>19. ASSUME ReadAnswer PROVE Quiet
    BY <1>19 DEF Sending, ServerAnswers
  <1>20. ASSUME TimesOut PROVE Quiet
    BY <1>20 DEF Sending, ServerAnswers
  <1>21. ASSUME Finish PROVE Quiet
    BY <1>21 DEF Sending, ServerAnswers
  <1>22. ASSUME ReadRows PROVE Quiet
    BY <1>22 DEF ReadRows, Quiet, WireQuiet, Free, Fails
  <1>23. ASSUME StageRows PROVE Quiet
    BY <1>23 DEF StageRows, Quiet, WireQuiet, Free, Fails
  <1>24. ASSUME AckRows PROVE Quiet
    BY <1>24 DEF AckRows, Quiet, WireQuiet, Free, Fails
  <1>25. ASSUME Crash PROVE Quiet
    BY <1>25 DEF Crash, DropSocket, NewSession, Quiet, WireQuiet, NoOp
  <1>26. ASSUME Restart PROVE Quiet
    BY <1>26 DEF Restart, Quiet, WireQuiet, Free, Fails
  <1>27. CASE UNCHANGED vars
    BY <1>27 DEF vars, Quiet, WireQuiet
  <1> QED
    BY <1>1, <1>2, <1>3, <1>4, <1>5, <1>6, <1>7, <1>8, <1>9, <1>10, <1>11, <1>12, <1>13, <1>14, <1>15, <1>16,
        <1>17, <1>18, <1>19, <1>20, <1>21, <1>22, <1>23, <1>24, <1>25, <1>26, <1>27
    DEF Next, ServerAnswers, ReceiverStep, ExchangeStep, RuntimeStep

(* Reserving a text keeps the sends in order.                              *)
LEMMA ReserveSends ==
  ASSUME Types, SendsStand, SendsToldTruly, NEW c \in Clients, Reserve(c)
  PROVE  SendsStand' /\ SendsToldTruly'
  <1> USE DEF SendsStand, SendsToldTruly, OnTheWay
  <1>1. /\ sends[c] = "none" /\ sends' = [sends EXCEPT ![c] = "unknown"]
        /\ op' = [at |-> "write", kind |-> "send", id |-> c, result |-> "none"]
        /\ UNCHANGED <<flights, delivered, wire>>
    BY DEF Reserve, Begin
  <1>2. sends'[c] = "unknown" /\ \A d \in Clients \ {c} : sends'[d] = sends[d]
    BY <1>1 DEF Types, TypeOK
  <1>3. c \notin delivered /\ ~OnTheWay(c)
    BY <1>1
  <1>4. \A i \in DOMAIN wire : wire[i].to = "send" => wire[i].of # {c}
    BY <1>1
  <1>5. delivered \subseteq Clients
    BY DEF Types, TypeOK
  <1> QED
    BY <1>1, <1>2, <1>3, <1>4, <1>5 DEF AnswerTo

(* So does writing the request,                                            *)
LEMMA WriteSends ==
  ASSUME Types, SendsStand, SendsToldTruly, Write
  PROVE  SendsStand' /\ SendsToldTruly'
  <1> USE DEF SendsStand, SendsToldTruly
  <1>1. op.at = "write" /\ op \in Exchanges /\ UNCHANGED <<sends, delivered, wire>>
    BY DEF Write, Types, Shapes, NoOp
  <1>2. op'.kind = op.kind /\ op'.id = op.id /\ op'.at \in {"wait", "finish"}
        /\ (op'.at = "finish" => op'.result = "unknown")
    BY <1>1 DEF Write, Ends, Exchanges
  <1>3. CASE flights' = flights
    BY <1>1, <1>2, <1>3 DEF OnTheWay
  <1>4. CASE /\ flights' = flights \cup {[kind |-> op.kind, id |-> op.id, live |-> TRUE]}
             /\ op' = [op EXCEPT !.at = "wait"]
    <2>1. PICK f : f = [kind |-> op.kind, id |-> op.id, live |-> TRUE]
      OBVIOUS
    <2>2. f.kind = op.kind /\ f.id = op.id /\ flights' = flights \cup {f} /\ op'.at = "wait"
      BY <1>1, <1>4, <2>1 DEF Exchanges
    <2>3. CASE op.kind = "send"
      <3>1. op.id \in Clients /\ sends[op.id] = "unknown" /\ op.id \notin delivered /\ ~OnTheWay(op.id)
            /\ \A i \in DOMAIN wire : wire[i].to = "send" => wire[i].of # {op.id}
        BY <1>1, <2>3
      <3>2. \A c : OnTheWay(c)' <=> OnTheWay(c) \/ c = op.id
        BY <2>2, <2>3 DEF OnTheWay
      <3>3. OneFlightEach'
        BY <2>2, <2>3, <3>1 DEF OneFlightEach, OnTheWay
      <3> QED
        BY <1>1, <1>2, <2>2, <3>1, <3>2, <3>3 DEF OneFlightEach, AnswerTo, OnTheWay
    <2>4. CASE op.kind # "send"
      <3>1. \A c : OnTheWay(c)' <=> OnTheWay(c)
        BY <2>2, <2>4 DEF OnTheWay
      <3>2. OneFlightEach'
        BY <2>2, <2>4 DEF OneFlightEach
      <3>3. WireQuiet
        BY <1>1 DEF WireQuiet
      <3> QED
        BY <1>1, <1>2, <2>4, <3>1, <3>2, <3>3, SendsQuiet DEF WireQuiet
    <2> QED
      BY <2>3, <2>4
  <1> QED
    BY <1>3, <1>4 DEF Write

(* the server's answer to it,                                              *)
LEMMA DeliverSends ==
  ASSUME Types, SendsStand, SendsToldTruly, NEW f \in flights, NEW result \in {"accepted", "refused"},
         Deliver(f, result)
  PROVE  SendsStand' /\ SendsToldTruly'
  <1>1. /\ f \in Requests /\ Named(f) /\ flights' = flights \ {f} /\ UNCHANGED <<sends, op>>
        /\ wire \in Seq(Packets)
    BY DEF Deliver, Types, Shapes, SocketShape
  <1>2. PICK p \in Packets : p = Answer(result, f)
    BY <1>1 DEF Answer, Packet, Packets, Requests
  <1>3. p.to = f.kind /\ p.of = {f.id} /\ p.kind = result
    BY <1>2 DEF Answer, Packet
  <1>4. wire' = Append(wire, p) \/ wire' = wire
    BY <1>2 DEF Deliver
  <1>5. \A i \in DOMAIN wire' : wire'[i] = p \/ \E j \in DOMAIN wire : wire'[i] = wire[j]
    BY <1>1, <1>4, Pushing
  <1>6. CASE f.kind # "send"
    <2>1. delivered' = delivered
      BY <1>6 DEF Deliver
    <2>2. \A c : OnTheWay(c)' <=> OnTheWay(c)
      BY <1>1, <1>6 DEF OnTheWay
    <2>3. OneFlightEach'
      BY <1>1 DEF OneFlightEach, SendsStand
    <2>4. WireQuiet
      BY <1>3, <1>5, <1>6 DEF WireQuiet
    <2> QED
      BY <1>1, <2>1, <2>2, <2>3, <2>4, SendsQuiet DEF WireQuiet
  <1>7. CASE f.kind = "send"
    <2>1. f.id \in Clients /\ OnTheWay(f.id) /\ sends[f.id] = "unknown" /\ f.id \notin delivered
      BY <1>1, <1>7 DEF OnTheWay, Named, SendsStand
    <2>2. ~OnTheWay(f.id)' /\ \A c : c # f.id => (OnTheWay(c)' <=> OnTheWay(c))
      BY <1>1, <1>7 DEF OnTheWay, SendsStand
    <2>3. delivered' = IF result = "accepted" THEN delivered \cup {f.id} ELSE delivered
      BY <1>7 DEF Deliver
    <2>4. \A i \in DOMAIN wire, c \in Clients : AnswerTo(wire[i], c, "refused") => c # f.id
      BY <2>1 DEF SendsStand
    <2>5. \A c \in Clients : /\ AnswerTo(p, c, "accepted") => c \in delivered'
                             /\ AnswerTo(p, c, "refused") => c \notin delivered' /\ ~OnTheWay(c)'
                             /\ p.of = {c} => sends[c] # "none"
      BY <1>3, <2>1, <2>2, <2>3 DEF AnswerTo
    <2>6. \A i \in DOMAIN wire, c \in Clients :
             /\ AnswerTo(wire[i], c, "accepted") => c \in delivered'
             /\ AnswerTo(wire[i], c, "refused") => c \notin delivered' /\ ~OnTheWay(c)'
             /\ wire[i].to = "send" /\ wire[i].of = {c} => sends[c] # "none"
      BY <2>2, <2>3, <2>4 DEF SendsStand
    <2>7. (\A i \in DOMAIN wire, c \in Clients :
             /\ AnswerTo(wire[i], c, "accepted") => c \in delivered
             /\ AnswerTo(wire[i], c, "refused") => c \notin delivered /\ ~OnTheWay(c)
             /\ wire[i].to = "send" /\ wire[i].of = {c} => sends[c] # "none")'
      <3> SUFFICES ASSUME NEW i \in DOMAIN wire', NEW c \in Clients
                   PROVE  /\ AnswerTo(wire'[i], c, "accepted") => c \in delivered'
                          /\ AnswerTo(wire'[i], c, "refused") => c \notin delivered' /\ ~OnTheWay(c)'
                          /\ wire'[i].to = "send" /\ wire'[i].of = {c} => sends'[c] # "none"
        BY DEF AnswerTo
      <3>1. CASE wire'[i] = p
        BY <1>1, <2>5, <3>1
      <3>2. CASE \E j \in DOMAIN wire : wire'[i] = wire[j]
        <4>1. PICK j \in DOMAIN wire : wire'[i] = wire[j]
          BY <3>2
        <4> QED
          BY <1>1, <2>6, <4>1
      <3> QED
        BY <1>5, <3>1, <3>2
    <2>8. (op.kind = "send" =>
          /\ op.id \in Clients /\ sends[op.id] = "unknown"
          /\ op.at = "write" =>
                /\ op.id \notin delivered /\ ~OnTheWay(op.id)
                /\ \A i \in DOMAIN wire : wire[i].to = "send" => wire[i].of # {op.id}
          /\ op.at = "finish" /\ op.result = "accepted" => op.id \in delivered
          /\ op.at = "finish" /\ op.result = "refused" => op.id \notin delivered /\ ~OnTheWay(op.id))'
      <3>1. PICK c : c = op.id
        OBVIOUS
      <3>2. op.kind = "send" /\ (op.at = "write" \/ (op.at = "finish" /\ op.result = "refused")) => c # f.id
        BY <2>1, <3>1 DEF SendsStand
      <3>3. ~OnTheWay(c) => ~OnTheWay(c)'
        BY <1>1 DEF OnTheWay
      <3>4. op.kind = "send" =>
              /\ c \in Clients /\ sends[c] = "unknown"
              /\ op.at = "write" =>
                    /\ c \notin delivered' /\ ~OnTheWay(c)'
                    /\ \A i \in DOMAIN wire' : wire'[i].to = "send" => wire'[i].of # {c}
              /\ op.at = "finish" /\ op.result = "accepted" => c \in delivered'
              /\ op.at = "finish" /\ op.result = "refused" => c \notin delivered' /\ ~OnTheWay(c)'
        BY <1>3, <1>5, <2>3, <3>1, <3>2, <3>3 DEF SendsStand
      <3> QED
        BY <1>1, <3>1, <3>4 DEF OnTheWay
    <2>9. SendsToldTruly'
      BY <1>1, <2>1, <2>2, <2>3 DEF SendsToldTruly, OnTheWay
    <2>10. OneFlightEach'
      BY <1>1 DEF OneFlightEach, SendsStand
    <2>11. (\A c \in Clients : OnTheWay(c) => sends[c] = "unknown" /\ c \notin delivered)'
      BY <1>1, <2>2, <2>3 DEF SendsStand
    <2>12. \A c \in delivered' : sends'[c] # "none"
      BY <1>1, <2>1, <2>3 DEF SendsStand
    <2> QED
      BY <2>7, <2>8, <2>9, <2>10, <2>11, <2>12 DEF SendsStand, OneFlightEach
  <1> QED
    BY <1>6, <1>7

(* reading that answer,                                                    *)
LEMMA AnswerSends ==
  ASSUME Types, SendsStand, SendsToldTruly, ReadAnswer \/ TimesOut
  PROVE  SendsStand' /\ SendsToldTruly'
  <1>1. op.at = "wait" /\ op \in Exchanges /\ UNCHANGED <<sends, delivered, flights>>
    BY DEF ReadAnswer, TimesOut, Types, Shapes, NoOp
  <1>2. WireQuiet
    BY Popping DEF ReadAnswer, TimesOut, Types, Shapes, SocketShape, WireQuiet
  <1>3. OneFlightEach' /\ \A c : OnTheWay(c)' <=> OnTheWay(c)
    BY <1>1 DEF OneFlightEach, OnTheWay, SendsStand
  <1>4. CASE op' = op \/ op.kind # "send"
    <2>1. op' = op \/ op'.kind # "send"
      BY <1>1, <1>4 DEF ReadAnswer, TimesOut, Ends, Exchanges
    <2> QED
      BY <1>1, <1>2, <1>3, <2>1, SendsQuiet DEF WireQuiet
  <1>5. CASE op' # op /\ op.kind = "send"
    <2>1. /\ op'.kind = "send" /\ op'.id = op.id /\ op'.at = "finish"
          /\ op'.result = "unknown" \/ \E i \in DOMAIN wire : AnswerTo(wire[i], op.id, op'.result)
      <3>1. CASE TimesOut
        BY <1>1, <1>5, <3>1 DEF TimesOut, Ends, Exchanges
      <3>2. CASE ReadAnswer
        <4>1. wire # <<>> /\ wire \in Seq(Packets) /\ 1 \in DOMAIN wire /\ Head(wire) = wire[1]
          BY <3>2, Popping DEF ReadAnswer, Types, Shapes, SocketShape
        <4>2. (IsAnswer(Head(wire)) /\ Ends(Head(wire).kind)) \/ Ends("unknown")
          BY <1>5, <3>2 DEF ReadAnswer
        <4> QED
          BY <1>1, <1>5, <4>1, <4>2 DEF Ends, Exchanges, IsAnswer, AnswerTo
      <3> QED
        BY <3>1, <3>2
    <2>2. /\ op.id \in Clients /\ sends[op.id] = "unknown"
          /\ op'.result = "accepted" => op.id \in delivered
          /\ op'.result = "refused" => op.id \notin delivered /\ ~OnTheWay(op.id)
      BY <1>5, <2>1 DEF SendsStand
    <2>3. SendsToldTruly'
      BY <1>1, <1>3 DEF SendsToldTruly, OnTheWay
    <2> QED
      BY <1>1, <1>2, <1>3, <2>1, <2>2, <2>3 DEF SendsStand, WireQuiet, AnswerTo, OneFlightEach, OnTheWay
  <1> QED
    BY <1>4, <1>5

(* and the record of the outcome.                                          *)
LEMMA FinishSends ==
  ASSUME Types, Types', SendsStand, SendsToldTruly, Finish
  PROVE  SendsStand' /\ SendsToldTruly'
  <1>1. op.at = "finish" /\ op \in Exchanges /\ op' = NoOp /\ UNCHANGED delivered
    BY DEF Finish, Types, Shapes, NoOp
  <1>2. flights' = flights \/ \E new : NewSession(new)
    BY DEF Finish, DropSocket, KeepSocket
  <1>3. OneFlightEach' /\ \A c : OnTheWay(c)' <=> OnTheWay(c)
    BY <1>2, FlightsStay DEF Types, Shapes, SendsStand, OneFlightEach
  <1>4. WireQuiet
    BY DEF Finish, DropSocket, NewSession, KeepSocket, WireQuiet
  <1>5. CASE sends' = sends
    BY <1>1, <1>3, <1>4, <1>5, SendsQuiet DEF WireQuiet, NoOp
  <1>6. CASE op.kind = "send" /\ sends' = [sends EXCEPT ![op.id] = SendState]
    <2>1. op.id \in Clients /\ sends[op.id] = "unknown"
      BY <1>6 DEF SendsStand
    <2>2. sends'[op.id] = SendState /\ \A d \in Clients \ {op.id} : sends'[d] = sends[d]
      BY <1>6, <2>1 DEF Types, TypeOK
    <2>3. /\ SendState # "none"
          /\ SendState = "sent" => op.id \in delivered
          /\ SendState = "rejected" => op.id \notin delivered /\ ~OnTheWay(op.id)
          /\ OnTheWay(op.id) => SendState \in {"sent", "unknown"}
      BY <1>1, <1>6 DEF SendState, SendsStand
    <2>4. OnTheWay(op.id) => SendState = "unknown"
      BY <2>1, <2>3 DEF SendsStand
    <2>5. SendsToldTruly'
      BY <1>1, <1>3, <2>1, <2>2, <2>3 DEF SendsToldTruly, OnTheWay
    <2>6. delivered \subseteq Clients
      BY DEF Types, TypeOK
    <2> QED
      BY <1>1, <1>3, <1>4, <2>1, <2>2, <2>3, <2>4, <2>5, <2>6
      DEF SendsStand, WireQuiet, AnswerTo, OneFlightEach, OnTheWay, NoOp
  <1> QED
    BY <1>5, <1>6 DEF Finish

(* Every step keeps the sends and their record true.                       *)
LEMMA SendsStep ==
  ASSUME Types, Types', SendsStand, SendsToldTruly, [Next]_vars
  PROVE  SendsStand' /\ SendsToldTruly'
  <1>1. CASE Sending
    BY <1>1, ReserveSends, WriteSends, DeliverSends, AnswerSends, FinishSends DEF Sending, ServerAnswers
  <1>2. CASE ~Sending
    <2>1. Quiet
      BY <1>2, OthersAreQuiet
    <2>2. OneFlightEach' /\ \A c : OnTheWay(c)' <=> OnTheWay(c)
      BY <2>1, FlightsStay DEF Types, Shapes, SendsStand, OneFlightEach, Quiet
    <2> QED
      BY <2>1, <2>2, SendsQuiet DEF Quiet, WireQuiet
  <1> QED
    BY <1>1, <1>2

-----------------------------------------------------------------------------
(* The boundary.                                                           *)

(* A queue stays whole as more is held.                                    *)
LEMMA WholeGrows ==
  ASSUME NEW s, NEW held, NEW more, held \subseteq more, Whole(s, held)
  PROVE  Whole(s, more)
  BY DEF Whole

(* What a queue carries with one packet more,                              *)
LEMMA CarriedPushed ==
  ASSUME NEW s \in Seq(Packets), NEW p \in Packets
  PROVE  Carried(Append(s, p)) = Carried(s) \cup Of(p)
  <1>1. \A j \in DOMAIN Append(s, p) : Append(s, p)[j] = p \/ \E k \in DOMAIN s : Append(s, p)[j] = s[k]
    BY Pushing
  <1>2. \A k \in DOMAIN s : k \in DOMAIN Append(s, p) /\ Append(s, p)[k] = s[k]
    BY Pushing
  <1>3. Len(s) + 1 \in DOMAIN Append(s, p) /\ Append(s, p)[Len(s) + 1] = p
    BY Pushing
  <1> QED
    BY <1>1, <1>2, <1>3 DEF Carried

(* and with its first packet less.                                         *)
LEMMA CarriedPopped ==
  ASSUME NEW s \in Seq(Packets), s # <<>>
  PROVE  Carried(s) = Of(s[1]) \cup Carried(Tail(s))
  <1>1. \A j \in DOMAIN s : j = 1 \/ (j - 1 \in DOMAIN Tail(s) /\ Tail(s)[j - 1] = s[j])
    BY Popping
  <1>2. \A j \in DOMAIN Tail(s) : j + 1 \in DOMAIN s /\ Tail(s)[j] = s[j + 1]
    BY Popping
  <1>3. 1 \in DOMAIN s
    BY Popping
  <1>4. \A x \in Carried(s) : x \in Of(s[1]) \/ x \in Carried(Tail(s))
    BY <1>1 DEF Carried
  <1>5. \A x : x \in Of(s[1]) \/ x \in Carried(Tail(s)) => x \in Carried(s)
    BY <1>2, <1>3 DEF Carried
  <1> QED
    BY <1>4, <1>5

(* A whole queue stays whole with a packet that is no boundary,            *)
LEMMA WholePushed ==
  ASSUME NEW s \in Seq(Packets), NEW p \in Packets, NEW held, Whole(s, held),
         p.kind = "done" => 1..p.upto \subseteq held \cup Carried(s)
  PROVE  Whole(Append(s, p), held)
  <1> SUFFICES ASSUME NEW i \in DOMAIN Append(s, p), Append(s, p)[i].kind = "done",
                      NEW m \in 1..Append(s, p)[i].upto
               PROVE  m \in held \/ \E j \in 1..(i - 1) : m \in Of(Append(s, p)[j])
    BY DEF Whole
  <1>1. Len(s) \in Nat /\ DOMAIN s = 1..Len(s) /\ \A k \in DOMAIN s : Append(s, p)[k] = s[k]
    BY Pushing
  <1>2. CASE i \in DOMAIN s
    BY <1>1, <1>2 DEF Whole
  <1>3. CASE i = Len(s) + 1
    <2>1. m \in held \/ m \in Carried(s)
      BY <1>3, Pushing
    <2>2. m \in Carried(s) => \E j \in DOMAIN s : m \in Of(s[j])
      BY DEF Carried
    <2> QED
      BY <1>1, <1>3, <2>1, <2>2
  <1> QED
    BY <1>2, <1>3, Pushing

(* without its first packet, if that is held,                              *)
LEMMA WholePopped ==
  ASSUME NEW s \in Seq(Packets), s # <<>>, NEW held, Whole(s, held)
  PROVE  /\ Whole(Tail(s), held \cup Of(s[1]))
         /\ s[1].kind = "done" => 1..s[1].upto \subseteq held
  <1>1. s[1].kind = "done" => 1..s[1].upto \subseteq held
    BY Popping DEF Whole
  <1>2. Whole(Tail(s), held \cup Of(s[1]))
    <2> SUFFICES ASSUME NEW i \in DOMAIN Tail(s), Tail(s)[i].kind = "done", NEW m \in 1..Tail(s)[i].upto,
                        m \notin held, m \notin Of(s[1])
                 PROVE  \E j \in 1..(i - 1) : m \in Of(Tail(s)[j])
      BY DEF Whole
    <2>1. i + 1 \in DOMAIN s /\ Tail(s)[i] = s[i + 1] /\ i \in Nat /\ DOMAIN s = 1..Len(s) /\ Len(s) \in Nat
          /\ DOMAIN Tail(s) = 1..(Len(s) - 1)
      BY Popping
    <2>2. PICK j \in 1..i : m \in Of(s[j])
      BY <2>1 DEF Whole
    <2>3. j # 1 /\ j - 1 \in 1..(i - 1) /\ Tail(s)[j - 1] = s[j]
      BY <2>1, <2>2, Popping
    <2> QED
      BY <2>2, <2>3
  <1> QED
    BY <1>1, <1>2

(* and joined with what follows it.                                        *)
LEMMA WholeJoined ==
  ASSUME NEW s \in Seq(Packets), NEW t \in Seq(Packets), NEW held, Whole(s, held),
         \A i \in DOMAIN t : t[i].kind # "done"
  PROVE  Whole(s \o t, held) /\ Carried(t) \subseteq Carried(s \o t)
  <1>1. Whole(s \o t, held)
    <2> SUFFICES ASSUME NEW i \in DOMAIN (s \o t), (s \o t)[i].kind = "done", NEW m \in 1..(s \o t)[i].upto
                 PROVE  m \in held \/ \E j \in 1..(i - 1) : m \in Of((s \o t)[j])
      BY DEF Whole
    <2>1. i \in DOMAIN s /\ (s \o t)[i] = s[i]
      BY Joining
    <2>2. \A j \in 1..(i - 1) : (s \o t)[j] = s[j]
      BY <2>1, Joining
    <2> QED
      BY <2>1, <2>2 DEF Whole
  <1>2. \A j \in DOMAIN t : Len(s) + j \in DOMAIN (s \o t) /\ (s \o t)[Len(s) + j] = t[j]
    BY Joining
  <1> QED
    BY <1>1, <1>2 DEF Carried

(* An empty queue is whole.                                                *)
LEMMA EmptyIsWhole ==
  ASSUME wire' = <<>>, pending' = <<>>
  PROVE  QueueIsWhole'
  <1>1. DOMAIN wire' = {} /\ DOMAIN pending' = {}
    OBVIOUS
  <1> QED
    BY <1>1 DEF QueueIsWhole, Whole

(* What is safe stays safe.                                                *)
LEMMA SafeStays ==
  ASSUME Types, [Next]_vars, NEW m \in Messages, Safe(m)
  PROVE  Safe(m)'
  <1>1. gone \subseteq gone'
    BY Frames DEF Withdraw, ServerAnswers, Deliver
  <1> QED
    BY <1>1, StoredStays DEF Safe

(* What the receiver has in hand, by where it stands.                      *)
LEMMA InHandIs ==
  /\ rcv.at = "journal" => InHand = Of(rcv.packet)
  /\ rcv.at \in {"store", "ack"} => InHand = rcv.left
  /\ rcv.at \notin {"journal", "store", "ack"} => InHand = {}
  BY DEF InHand

(* The same in the next state.                                             *)
LEMMA InHandIsNext ==
  /\ rcv'.at = "journal" => InHand' = Of(rcv'.packet)
  /\ rcv'.at \in {"store", "ack"} => InHand' = rcv'.left
  /\ rcv'.at \notin {"journal", "store", "ack"} => InHand' = {}
  BY DEF InHand, Of

(* What is held stays held, unless the receiver fails.                     *)
LEMMA HeldStays ==
  ASSUME Types, AcksAreKept, [Next]_vars, rcv'.at # "failed", ~Crash
  PROVE  Held \subseteq Held'
  <1> SUFFICES ASSUME NEW m \in InHand, m \notin InHand'
               PROVE  m \in Messages /\ Safe(m)'
    BY SafeStays DEF Held
  <1> USE InHandIs, InHandIsNext
  <1>1. rcv.at \in {"journal", "store", "ack"} /\ rcv' # rcv
    BY DEF InHand, Of
  <1>2. CASE Journal
    BY <1>1, <1>2, JournalMoves DEF Of, Journal, Resting
  <1>3. CASE Store
    BY <1>1, <1>3, StoreMoves DEF Store
  <1>4. CASE Acknowledge
    <2>1. rcv.left \subseteq Messages /\ rcv.at = "ack"
      BY <1>4 DEF Acknowledge, Types, Shapes, ReceiverShape, Receivers
    <2>2. m = Min(rcv.left)
      BY <1>1, <1>4, <2>1, AcknowledgeMoves DEF Resting
    <2>3. Stored(m)
      BY <2>1, <2>2 DEF AcksAreKept
    <2> QED
      BY <2>1, <2>2, <2>3, SafeStays, LeastOf, Bounds DEF Safe
  <1>5. rcv' = rcv \/ Journal \/ Store \/ Acknowledge
    BY <1>1 DEF Next, vars, Accept, Withdraw, ServerAnswers, Deliver, Connect, ChangeLogin, SocketBreaks, Reserve,
           BeginRecall, BeginBeat, ExchangeStep, Write, ReadAnswer, TimesOut, Finish, RuntimeStep, ReadRows,
           StageRows, AckRows, Restart, ReceiverStep, StartSync, Poll, ApplyRecall, SaveCursor, Fail
  <1> QED
    BY <1>1, <1>2, <1>3, <1>4, <1>5

(* A loss ends with the socket.                                            *)
LEMMA LossEmpties ==
  ASSUME Types, SocketHolds, Losing, ~Losing', [Next]_vars
  PROVE  wire' = <<>> /\ pending' = <<>>
  <1>1. CASE Crash
    BY <1>1 DEF Crash, DropSocket, NewSession
  <1>2. CASE Fail
    <2>1. CASE SameEpoch
      BY <1>2, <2>1 DEF Fail, GiveUpSocket, DropSocket, NewSession
    <2>2. CASE ~SameEpoch
      <3>1. ~session.nim
        BY <1>2, <2>2 DEF Fail, SameEpoch, SocketHolds, Types, TypeOK
      <3> QED
        BY <1>2, <2>2, <3>1 DEF Fail, GiveUpSocket, KeepSocket, SocketHolds
    <2> QED
      BY <2>1, <2>2
  <1>3. CASE Finish
    <2>1. rcv' = rcv /\ op.at = "finish"
      BY <1>3 DEF Finish
    <2>2. GivesUp
      BY <2>1 DEF Losing
    <2> QED
      BY <1>3, <2>2 DEF Finish, DropSocket, NewSession
  <1>4. CASE rcv.at = "failed" /\ ~Crash /\ ~Fail
    <2>1. rcv' = rcv
      BY <1>4 DEF Next, vars, Accept, Withdraw, ServerAnswers, Deliver, Connect, ChangeLogin, SocketBreaks, Reserve,
           BeginRecall, BeginBeat, ExchangeStep, Write, ReadAnswer, TimesOut, Finish, RuntimeStep, ReadRows,
           StageRows, AckRows, Restart, ReceiverStep, StartSync, Poll, Journal, Store, Acknowledge, ApplyRecall,
               SaveCursor
    <2> QED
      BY <1>4, <2>1 DEF Losing
  <1>5. CASE op.at = "finish" /\ GivesUp /\ ~Crash /\ ~Finish
    <2>1. op' = op
      <3> USE DEF Accept, Withdraw, ServerAnswers, Deliver, Connect, ChangeLogin, SocketBreaks, Reserve, BeginRecall,
              BeginBeat, Write, ReadAnswer, TimesOut, ReadRows, StageRows, AckRows, Restart, StartSync, Poll, Journal,
              Store, Acknowledge, ApplyRecall, SaveCursor, Fail, Free, NoOp
      <3>1. CASE UNCHANGED vars
        BY <3>1 DEF vars
      <3>2. CASE ReceiverStep
        BY <3>2 DEF ReceiverStep
      <3>3. CASE ExchangeStep \/ RuntimeStep
        BY <1>5, <3>3 DEF ExchangeStep, RuntimeStep
      <3>4. CASE (\E c \in Clients : Reserve(c)) \/ (\E m \in Messages : BeginRecall(m)) \/ BeginBeat
        BY <1>5, <3>4
      <3>5. CASE Accept \/ (\E m \in Messages : Withdraw(m)) \/ ServerAnswers \/ Connect
                 \/ (\E in \in BOOLEAN : ChangeLogin(in)) \/ SocketBreaks \/ Restart
        BY <3>5
      <3> QED
        BY <1>5, <3>1, <3>2, <3>3, <3>4, <3>5 DEF Next
    <2> QED
      BY <1>5, <2>1 DEF Losing, GivesUp
  <1> QED
    BY <1>1, <1>2, <1>3, <1>4, <1>5 DEF Losing

(* The queue's part, in the next state.                                    *)
LEMMA QueueIsNext ==
  ASSUME NEW p, NEW w, pending' = p, wire' = w, Whole(p, Held'), Whole(w, Held' \cup Carried(p))
  PROVE  QueueIsWhole'
  BY DEF QueueIsWhole, Whole, Carried, Of

(* Taking the next packet keeps the queue whole.                           *)
LEMMA PollKeepsWhole ==
  ASSUME Types, QueueIsWhole, Poll, Held \subseteq Held'
  PROVE  /\ QueueIsWhole'
         /\ rcv'.packet.kind = "done" => 1..rcv'.packet.upto \subseteq Held
  <1>0. wire \in Seq(Packets) /\ pending \in Seq(Packets) /\ pending \o wire # <<>>
        /\ rcv'.at = "journal" /\ rcv'.packet = Head(pending \o wire)
    BY DEF Types, Shapes, SocketShape, Poll
  <1>1. Of(rcv'.packet) \subseteq Held'
    BY <1>0, InHandIsNext DEF Held
  <1>2. CASE pending # <<>>
    <2>1. pending' = Tail(pending) /\ wire' = wire /\ rcv'.packet = pending[1]
      BY <1>0, <1>2, FirstOfBoth DEF Poll
    <2>2. /\ Whole(Tail(pending), Held \cup Of(pending[1]))
          /\ pending[1].kind = "done" => 1..pending[1].upto \subseteq Held
          /\ Carried(pending) = Of(pending[1]) \cup Carried(Tail(pending))
      BY <1>0, <1>2, WholePopped, CarriedPopped DEF QueueIsWhole
    <2>3. Whole(Tail(pending), Held')
      BY <1>1, <2>1, <2>2, WholeGrows
    <2>4. Whole(wire, Held' \cup Carried(Tail(pending)))
      <3>1. Held \cup Carried(pending) \subseteq Held' \cup Carried(Tail(pending))
        BY <1>1, <2>1, <2>2
      <3> QED
        BY <3>1, WholeGrows DEF QueueIsWhole
    <2> QED
      BY <2>1, <2>2, <2>3, <2>4 DEF QueueIsWhole, Whole, Carried, Of
  <1>3. CASE pending = <<>>
    <2>1. wire' = Tail(wire) /\ pending' = pending /\ rcv'.packet = wire[1] /\ wire # <<>>
      BY <1>0, <1>3, FirstOfBoth DEF Poll
    <2>2. Carried(pending) = {}
      BY <1>3 DEF Carried
    <2>3. /\ Whole(Tail(wire), Held \cup Of(wire[1]))
          /\ wire[1].kind = "done" => 1..wire[1].upto \subseteq Held
      BY <1>0, <2>1, <2>2, WholePopped DEF QueueIsWhole
    <2>4. Whole(Tail(wire), Held' \cup Carried(pending))
      BY <1>1, <2>1, <2>3, WholeGrows
    <2>5. Whole(pending, Held')
      BY WholeGrows DEF QueueIsWhole
    <2> QED
      BY <2>1, <2>3, <2>4, <2>5 DEF QueueIsWhole, Whole, Carried, Of
  <1> QED
    BY <1>2, <1>3

(* Reading past the packets before an answer keeps the queue whole, if     *)
(* they all fit.                                                           *)
LEMMA AnswerKeepsWhole ==
  ASSUME Types, QueueIsWhole, ReadAnswer, op.kind # "recall", ~Losing', Held \subseteq Held'
  PROVE  QueueIsWhole'
  <1>0. /\ wire \in Seq(Packets) /\ pending \in Seq(Packets) /\ wire # <<>> /\ wire' = Tail(wire)
        /\ wire[1] \in Packets /\ Head(wire) = wire[1] /\ 1 \in DOMAIN wire /\ op \in Exchanges
    BY Popping DEF Types, Shapes, SocketShape, ReadAnswer, NoOp
  <1>1. /\ Whole(Tail(wire), (Held \cup Carried(pending)) \cup Of(wire[1]))
        /\ wire[1].kind = "done" => 1..wire[1].upto \subseteq Held \cup Carried(pending)
    BY <1>0, WholePopped DEF QueueIsWhole
  <1>2. CASE IsAnswer(wire[1]) /\ pending' = pending
    <2>1. wire[1].kind # "messages"
      BY <1>0, <1>2 DEF IsAnswer, Types, Shapes, SocketShape, Sound, Exchanges
    <2>2. Whole(Tail(wire), Held' \cup Carried(pending)) /\ Whole(pending, Held')
      BY <1>1, <2>1, WholeGrows DEF Of, QueueIsWhole
    <2> QED
      BY <1>0, <1>2, <2>2, QueueIsNext
  <1>3. CASE pending' = Append(pending, wire[1])
    <2>1. Whole(Append(pending, wire[1]), Held)
      BY <1>0, <1>1, WholePushed DEF QueueIsWhole
    <2>2. Carried(Append(pending, wire[1])) = Carried(pending) \cup Of(wire[1])
      BY <1>0, CarriedPushed
    <2>3. /\ Whole(Append(pending, wire[1]), Held')
          /\ Whole(Tail(wire), Held' \cup Carried(Append(pending, wire[1])))
      BY <1>1, <2>1, <2>2, WholeGrows
    <2> QED
      BY <1>0, <1>3, <2>3, QueueIsNext
  <1>4. ASSUME Ends("unknown") PROVE FALSE
    BY <1>0, <1>4 DEF Ends, Losing, GivesUp, Exchanges
  <1> QED
    BY <1>0, <1>2, <1>3, <1>4 DEF ReadAnswer

(* A packet the server adds keeps the queue whole.                         *)
LEMMA PushKeepsWhole ==
  ASSUME wire \in Seq(Packets), QueueIsWhole, NEW p \in Packets, p.kind # "done",
         wire' = Append(wire, p) \/ wire' = wire, pending' = pending, Held \subseteq Held'
  PROVE  QueueIsWhole'
  <1>1. Whole(pending, Held') /\ Whole(wire, Held' \cup Carried(pending))
    BY WholeGrows DEF QueueIsWhole
  <1>2. Whole(Append(wire, p), Held' \cup Carried(pending))
    BY <1>1, WholePushed
  <1>3. Whole(wire', Held' \cup Carried(pending))
    BY <1>1, <1>2
  <1> QED
    BY <1>1, <1>3 DEF QueueIsWhole, Whole, Carried, Of

(* The answer to a synchronisation is whole: it holds what was missed in   *)
(* front of its boundary.                                                  *)
LEMMA SyncKeepsWhole ==
  ASSUME Types, AcksAreKept, QueueIsWhole, NEW known \in {{}, acked}, NEW whole \in BOOLEAN, Sync(known, whole),
         pending' = pending, Held \subseteq Held', \A m \in 1..cursor : Safe(m)
  PROVE  QueueIsWhole'
  <1>0. case \in Cases /\ log \in 0..case.messages /\ cursor \in 0..log
    BY DEF Types, TypeOK
  <1>1. TypeOK /\ known \in SUBSET Messages /\ wire \in Seq(Packets) /\ log \in Nat /\ cursor \in Nat /\ 1..log \subseteq Messages
    <2>1. TypeOK /\ known \in SUBSET Messages /\ wire \in Seq(Packets)
      BY DEF Types, Shapes, SocketShape, TypeOK
    <2>2. log \in Nat /\ cursor \in Nat /\ 1..log \subseteq 1..MaxMessages
      BY <1>0, CasesAssumption, BoundsAssumption
    <2> QED
      BY <2>1, <2>2 DEF Messages
  <1>2. PICK parts \in Seq(Packets) :
            /\ wire' = (wire \o parts) \o <<Packet("done", {}, log, "client")>>
            /\ \A i \in DOMAIN parts : /\ parts[i].kind = "messages" /\ parts[i].to = "client"
                                       /\ parts[i].of # {} /\ parts[i].of \subseteq Messages
            /\ \A m \in Missed(known) : \E i \in DOMAIN parts : m \in parts[i].of
    BY <1>1, SyncBrings
  <1>3. PICK done : done = Packet("done", {}, log, "client")
    OBVIOUS
  <1>4. done \in Packets /\ done.kind = "done" /\ done.upto = log
    BY <1>1, <1>3 DEF Packets, Packet
  <1>5. wire \o parts \in Seq(Packets) /\ wire' = Append(wire \o parts, done)
    BY <1>1, <1>2, <1>3, <1>4
  <1>6. Whole(pending, Held') /\ Whole(wire, Held' \cup Carried(pending))
    BY WholeGrows DEF QueueIsWhole
  <1>7. Whole(wire \o parts, Held' \cup Carried(pending)) /\ Carried(parts) \subseteq Carried(wire \o parts)
    BY <1>1, <1>2, <1>6, WholeJoined
  <1>8. 1..log \subseteq Held \cup Carried(parts)
    <2> SUFFICES ASSUME NEW m \in 1..log, m \notin Held PROVE m \in Carried(parts)
      OBVIOUS
    <2>1. m \in Messages /\ ~Safe(m)
      BY <1>1 DEF Held
    <2>2. m \in Missed(known)
      BY <1>1, <2>1 DEF Safe, AcksAreKept, Missed
    <2> QED
      BY <1>2, <2>2 DEF Carried, Of
  <1>9. Whole(wire', Held' \cup Carried(pending))
    BY <1>4, <1>5, <1>7, <1>8, WholePushed
  <1> QED
    BY <1>6, <1>9 DEF QueueIsWhole, Whole, Carried, Of

-----------------------------------------------------------------------------
(* The invariant.                                                          *)

(* Every step keeps the queue whole unless its socket is about to be given *)
(* up.                                                                     *)
LEMMA QueueStep ==
  ASSUME Types, SocketHolds, AcksAreKept, [Next]_vars, "recall" \notin case.faults, op.kind # "recall",
         ~Losing', ~Losing => QueueIsWhole, \A m \in 1..cursor : Safe(m)
  PROVE  QueueIsWhole'
  <1>1. CASE Losing
    BY <1>1, LossEmpties, EmptyIsWhole
  <1>2. CASE wire' = <<>> /\ pending' = <<>>
    BY <1>2, EmptyIsWhole
  <1>3. CASE ~Losing /\ ~(wire' = <<>> /\ pending' = <<>>)
    <2>0. rcv'.at # "failed" /\ QueueIsWhole /\ wire \in Seq(Packets) /\ pending \in Seq(Packets)
      BY <1>3 DEF Losing, Types, Shapes, SocketShape
    <2>1. ~(\E new : NewSession(new)) /\ ~DropSocket /\ ~Crash
      BY <1>3 DEF NewSession, DropSocket, Crash
    <2>2. Held \subseteq Held'
      BY <2>0, <2>1, HeldStays
    <2>3. CASE UNCHANGED <<wire, pending>>
      <3>1. Whole(pending, Held') /\ Whole(wire, Held' \cup Carried(pending))
        BY <2>0, <2>2, WholeGrows DEF QueueIsWhole
      <3> QED
        BY <2>3, <3>1 DEF QueueIsWhole, Whole, Carried, Of
    <2>4. CASE Accept
      <3>0. log \in Nat
        BY CasesAssumption DEF Types, TypeOK
      <3>1. Pushed(log + 1) \in Packets
        BY <3>0 DEF Pushed, Packet, Packets
      <3>2. PICK p \in Packets : p = Pushed(log + 1)
        BY <3>1
      <3> QED
        BY <2>0, <2>2, <2>4, <3>2, PushKeepsWhole DEF Accept, Push, Pushed, Packet
    <2>5. ASSUME NEW m \in Messages, Withdraw(m) PROVE QueueIsWhole'
      <3>1. PICK p \in Packets : p = Recalled(m)
        BY Bounds DEF Recalled, Packet, Packets
      <3> QED
        BY <2>0, <2>2, <2>5, <3>1, PushKeepsWhole DEF Withdraw, Push, Recalled, Packet
    <2>6. ASSUME NEW f \in flights, NEW result \in {"accepted", "refused"}, Deliver(f, result) PROVE QueueIsWhole'
      <3>1. PICK p \in Packets : p = Answer(result, f)
        BY DEF Answer, Packet, Packets, Types, Shapes, SocketShape, Requests
      <3> QED
        BY <2>0, <2>2, <2>6, <3>1, PushKeepsWhole DEF Deliver, Answer, Packet
    <2>7. CASE StartSync
      BY <2>0, <2>1, <2>2, <2>7, SyncKeepsWhole DEF StartSync
    <2>8. CASE Poll
      BY <2>0, <2>2, <2>8, PollKeepsWhole
    <2>9. CASE ReadAnswer
      BY <2>0, <2>2, <2>9, AnswerKeepsWhole
    <2>10. \/ UNCHANGED <<wire, pending>> \/ Accept \/ (\E m \in Messages : Withdraw(m)) \/ ServerAnswers
           \/ StartSync \/ Poll \/ ReadAnswer
      BY <2>1 DEF Next, vars, Connect, ChangeLogin, SocketBreaks, ReceiverStep, Journal, Store, Acknowledge,
          KeepSocket,
             ApplyRecall, SaveCursor, Fail, GiveUpSocket, Reserve, BeginRecall, BeginBeat, ExchangeStep, Write,
                 TimesOut,
             Finish, RuntimeStep, ReadRows, StageRows, AckRows, Crash, Restart
    <2> QED
      BY <2>3, <2>4, <2>5, <2>6, <2>7, <2>8, <2>9, <2>10 DEF ServerAnswers
  <1> QED
    BY <1>1, <1>2, <1>3

(* Every step keeps the boundaries safe.                                   *)
LEMMA BoundaryStep ==
  ASSUME Types, Types', SocketHolds, AcksAreKept, BoundaryHolds, [Next]_vars
  PROVE  BoundaryHolds'
  <1> SUFFICES ASSUME "recall" \notin case.faults
               PROVE  /\ op'.kind # "recall"
                      /\ ~Losing' => QueueIsWhole'
                      /\ rcv'.at \in {"journal", "cursor"} /\ rcv'.packet.kind = "done" =>
                             \A m \in 1..rcv'.packet.upto : Safe(m)'
                      /\ \A m \in 1..cursor' : Safe(m)'
    BY Frames DEF BoundaryHolds, Safe, Stored
  <1>0. /\ op.kind # "recall"
        /\ ~Losing => QueueIsWhole
        /\ rcv.at \in {"journal", "cursor"} /\ rcv.packet.kind = "done" =>
               \A m \in 1..rcv.packet.upto : Safe(m)
        /\ \A m \in 1..cursor : Safe(m)
    BY DEF BoundaryHolds
  <1>9. log \in Nat /\ cursor <= log /\ cursor \in Nat /\ \A n \in 0..log : 1..n \subseteq Messages
    <2>1. log \in Nat /\ cursor <= log /\ cursor \in Nat /\ log <= MaxMessages
      BY CasesAssumption, BoundsAssumption DEF Types, TypeOK
    <2> QED
      BY <2>1, BoundsAssumption DEF Messages
  <1>1. op'.kind # "recall"
    <2>1. op' = op \/ Sending \/ BeginRecall(0) \/ (\E m \in Messages : BeginRecall(m)) \/ BeginBeat \/ Crash
      BY DEF Next, vars, Accept, Withdraw, Connect, ChangeLogin, SocketBreaks, ReceiverStep, StartSync, Poll,
          Journal, Store,
             Acknowledge, ApplyRecall, SaveCursor, Fail, ExchangeStep, RuntimeStep, ReadRows, StageRows, AckRows,
             Restart, Sending
    <2>2. ~BeginRecall(0) /\ ~(\E m \in Messages : BeginRecall(m))
      BY DEF BeginRecall
    <2>3. CASE Write \/ ReadAnswer \/ TimesOut
      <3>1. op \in Exchanges
        BY <2>3 DEF Write, ReadAnswer, TimesOut, NoOp, Types, Shapes
      <3>2. op' = op \/ op' = [op EXCEPT !.at = "wait"] \/ \E result : op' = [op EXCEPT !.at = "finish", !.result = result]
        BY <2>3 DEF Write, ReadAnswer, TimesOut, Ends
      <3> QED
        BY <1>0, <3>1, <3>2 DEF Exchanges
    <2>4. CASE (\E c \in Clients : Reserve(c)) \/ ServerAnswers \/ Finish
      BY <1>0, <2>4 DEF ServerAnswers, Deliver, Reserve, Begin, Finish, NoOp
    <2> QED
      BY <1>0, <2>1, <2>2, <2>3, <2>4 DEF BeginBeat, Begin, Crash, NoOp, Sending
  <1>2. ~Losing' => QueueIsWhole'
    BY <1>0, QueueStep
  <1>3. \A m \in 1..cursor' : Safe(m)'
    <2>1. CASE cursor' = cursor
      BY <1>0, <1>9, <2>1, SafeStays
    <2>2. CASE SaveCursor /\ cursor' = rcv.packet.upto
      <3>1. rcv.at = "cursor" /\ rcv.packet.kind = "done" /\ rcv.packet.upto \in 0..log
        BY <2>2 DEF SaveCursor, Types, Shapes, ReceiverShape
      <3> QED
        BY <1>0, <1>9, <2>2, <3>1, SafeStays
    <2> QED
      BY <2>1, <2>2, Frames DEF SaveCursor
  <1>4. ASSUME rcv'.at \in {"journal", "cursor"}, rcv'.packet.kind = "done"
        PROVE  \A m \in 1..rcv'.packet.upto : Safe(m)'
    <2>1. CASE Poll
      <3>1. Held \subseteq Held'
        BY <2>1, HeldStays DEF Poll, Crash, Free
      <3>2. ~Losing /\ rcv.at = "idle"
        BY <2>1 DEF Poll, Free, Losing, NoOp
      <3>3. 1..rcv'.packet.upto \subseteq Held
        BY <1>0, <1>4, <2>1, <3>1, <3>2, PollKeepsWhole
      <3>4. Held \subseteq {m \in Messages : Safe(m)}
        BY <3>2, InHandIs DEF Held
      <3> QED
        BY <3>3, <3>4, SafeStays
    <2>2. CASE rcv.at \in {"journal", "cursor"} /\ rcv'.packet = rcv.packet
      <3>1. rcv.packet.upto \in 0..log
        BY <1>4, <2>2 DEF Types, Shapes, ReceiverShape, Sound, Packets
      <3> QED
        BY <1>0, <1>9, <1>4, <2>2, <3>1, SafeStays
    <2>3. Poll \/ (rcv.at \in {"journal", "cursor"} /\ rcv'.packet = rcv.packet)
      <3>1. CASE rcv' = rcv
        BY <1>4, <3>1
      <3>2. CASE ReceiverStep /\ ~Poll
        BY <1>4, <3>2, JournalMoves, StoreMoves, AcknowledgeMoves
        DEF ReceiverStep, StartSync, Journal, ApplyRecall, SaveCursor, Fail, FailsTo, Resting, Types, Shapes,
            ReceiverShape,
            Receivers
      <3>3. CASE Crash
        BY <1>4, <3>3 DEF Crash, Resting
      <3> QED
        BY <3>1, <3>2, <3>3
        DEF Next, vars, Accept, Withdraw, ServerAnswers, Deliver, Connect, ChangeLogin, SocketBreaks, Reserve,
           BeginRecall, BeginBeat, ExchangeStep, Write, ReadAnswer, TimesOut, Finish, RuntimeStep, ReadRows,
           StageRows, AckRows, Restart
    <2> QED
      BY <2>1, <2>2, <2>3
  <1> QED
    BY <1>1, <1>2, <1>3, <1>4

-----------------------------------------------------------------------------
(* The start.                                                              *)
LEMMA InitAll == Init => IInv
  <1> SUFFICES ASSUME Init PROVE IInv
    OBVIOUS
  <1>1. Types
    BY InitTypes
  <1>2. /\ wire = <<>> /\ pending = <<>> /\ rcv = Resting /\ op = NoOp /\ rows = <<>> /\ flights = {} /\ delivered = {}
        /\ acked = {} /\ cursor = 0 /\ batch = NoBatch /\ state = [m \in Messages |-> "none"]
        /\ sends = [c \in Clients |-> "none"]
    BY DEF Init
  <1>3. SocketHolds /\ RowsStand /\ AcksAreKept
    BY <1>2 DEF SocketHolds, RowsStand, AcksAreKept, Resting, Stored
  <1>4. BatchStands
    BY <1>2 DEF BatchStands, NoBatch
  <1>5. BoundaryHolds
    BY <1>2 DEF BoundaryHolds, QueueIsWhole, Whole, NoOp, Resting
  <1>6. SendsStand /\ SendsToldTruly
    BY <1>2 DEF SendsStand, SendsToldTruly, OnTheWay, NoOp
  <1> QED
    BY <1>1, <1>3, <1>4, <1>5, <1>6 DEF IInv, Types

(* The inductive invariant of the ledger.                                  *)
THEOREM Inductive == Spec => []IInv
  <1>1. IInv /\ [Next]_vars => IInv'
    <2> SUFFICES ASSUME IInv, [Next]_vars PROVE IInv'
      OBVIOUS
    <2>1. Types'
      BY TypeStep DEF IInv, Types
    <2>2. SocketHolds' /\ RowsStand' /\ AcksAreKept' /\ BatchStands'
      BY SocketStep, RowsStep, AcksStep, BatchStep DEF IInv, Types
    <2>3. BoundaryHolds'
      BY <2>1, BoundaryStep DEF IInv, Types
    <2>4. SendsStand' /\ SendsToldTruly'
      BY <2>1, SendsStep DEF IInv, Types
    <2> QED
      BY <2>1, <2>2, <2>3, <2>4 DEF IInv, Types
  <1> QED
    BY <1>1, InitAll, PTL DEF Spec

(* Nothing that was read or lies below the boundary is lost, where no      *)
(* recall loses packets, nothing handed over is unknown to the runtime,    *)
(* and a text is called sent or rejected only if it was: through new       *)
(* logins, broken sockets, full queues, failing jobs and restarts          *)
(* (apply_packet, write_record, reserve_send, ack_inbox).                  *)
THEOREM LedgerTellsTheTruth == Spec => []LedgerIsTrue
  <1>1. IInv => LedgerIsTrue
    BY DEF IInv, BoundaryHolds, AcksAreKept, BatchStands, Safe, LedgerIsTrue, NothingReadIsLost
  <1> QED
    BY <1>1, Inductive, PTL
=============================================================================
