------------------------ MODULE ConversationLedger ------------------------
(***************************************************************************)
(* How the web host with its own protocol client receives messages: the    *)
(* message server, the socket with the packets it keeps for later, the     *)
(* receiver task, exchanges that use the same socket (sending, recalling,  *)
(* heartbeats), the conversation ledger in SQLite and the runtime that     *)
(* reads the ledger as if it were a chat client's page.                    *)
(*                                                                         *)
(* Messages of the one account are the numbers 1, 2, ... in the order in   *)
(* which the server accepts them.  A case says what may go wrong in a      *)
(* behaviour and bounds its messages.                                      *)
(***************************************************************************)
EXTENDS Integers, Sequences, SequencesExt, FiniteSetsExt

CONSTANTS
    Cases,          \* records [faults, messages, sends]
    MaxMessages,    \* bound on the messages of a case
    MaxSends,       \* bound on the texts sent in a case
    PendingLimit,   \* packets an exchange may set aside (1024 in the code)
    BatchLimit,     \* rows the runtime reads at a time (100 in the code)
    MaxLosses,      \* bound on failures of socket, database and process
    MaxEpoch        \* bound on logins and logouts

VARIABLES
    case,       \* the case of this behaviour
    losses,     \* failures so far
    up,         \* the process runs
    log,        \* messages accepted by the server
    gone,       \* messages recalled at the server
    acked,      \* messages whose acknowledgement has left the socket
    flights,    \* requests on their way to the server
    delivered,  \* client ids whose text the server has accepted
    session,    \* [in, nim, synced, epoch]: Session of protocol_login.rs
    wire,       \* packets on the way to the client
    pending,    \* packets set aside by exchanges
    rcv,        \* the receiver: [at, packet, left, epoch]
    op,         \* the exchange that holds the session's lock: [at, kind, id, result]
    rows,       \* conversation_messages in the order of their ids
    state,      \* conversation_messages.state
    cursor,     \* conversation_sync
    sends,      \* conversation_sends
    batch,      \* rows the runtime has read and not acknowledged: [at, of]
    staged      \* messages stored in the runtime's inbox

server == <<log, gone, acked, flights, delivered>>
tables == <<rows, state, cursor, sends>>
vars == <<case, losses, up, server, session, wire, pending, rcv, op, tables, batch, staged>>

ASSUME BoundsAssumption ==
    /\ MaxMessages \in Nat /\ MaxSends \in Nat
    /\ PendingLimit \in Nat \ {0} /\ BatchLimit \in Nat \ {0}
    /\ MaxLosses \in Nat /\ MaxEpoch \in Nat \ {0}

ASSUME CasesAssumption ==
    \A c \in Cases : c.messages \in 0..MaxMessages /\ c.sends \in 0..MaxSends

Messages == 1..MaxMessages
Clients == 1..MaxSends

Packet(kind, of, upto, to) == [kind |-> kind, of |-> of, upto |-> upto, to |-> to]
Pushed(m) == Packet("messages", {m}, 0, "client")
Recalled(m) == Packet("recalled", {m}, 0, "client")
Answer(result, f) == Packet(result, {f.id}, 0, f.kind)

NoPacket == Packet("none", {}, 0, "client")
Resting == [at |-> "idle", packet |-> NoPacket, left |-> {}, epoch |-> 0]
NoOp == [at |-> "none", kind |-> "none", id |-> 0, result |-> "none"]
NoBatch == [at |-> "none", of |-> {}]

Fails(f) == f \in case.faults /\ losses < MaxLosses /\ losses' = losses + 1
Stored(m) == state[m] # "none"

(* The exchange in progress holds the session's lock.                      *)
Free == up /\ op = NoOp

Init ==
    /\ case \in Cases
    /\ losses = 0 /\ up = TRUE
    /\ log = 0 /\ gone = {} /\ acked = {} /\ flights = {} /\ delivered = {}
    /\ session = [in |-> TRUE, nim |-> FALSE, synced |-> FALSE, epoch |-> 1]
    /\ wire = <<>> /\ pending = <<>> /\ rcv = Resting /\ op = NoOp
    /\ rows = <<>> /\ state = [m \in Messages |-> "none"] /\ cursor = 0
    /\ sends = [c \in Clients |-> "none"]
    /\ batch = NoBatch /\ staged = {}

-----------------------------------------------------------------------------
(* The server: it pushes what happens while a client is connected and      *)
(* answers a request for everything after a cursor with one packet or      *)
(* several and the new cursor.  Whether it leaves out what was acknowledged *)
(* is not known.                                                           *)

Push(packet) == wire' = IF session.nim THEN Append(wire, packet) ELSE wire

Accept ==
    /\ log < case.messages
    /\ log' = log + 1 /\ Push(Pushed(log + 1))
    /\ UNCHANGED <<case, losses, up, gone, acked, flights, delivered, session, pending, rcv, op,
                   tables, batch, staged>>

Withdraw(m) ==
    /\ "withdraw" \in case.faults
    /\ m <= log /\ m \notin gone
    /\ gone' = gone \cup {m} /\ Push(Recalled(m))
    /\ UNCHANGED <<case, losses, up, log, acked, flights, delivered, session, pending, rcv, op,
                   tables, batch, staged>>

Parts(missed, whole) ==
    IF missed = {} THEN {} ELSE IF whole THEN {missed} ELSE {{m} : m \in missed}

InOrder(parts) ==
    {s \in UNION {[1..n -> parts] : n \in 0..log} :
        /\ {s[i] : i \in DOMAIN s} = parts
        /\ \A i, j \in DOMAIN s : i < j => Min(s[i]) < Min(s[j])}

Missed(known) == ((cursor + 1)..log) \ (gone \cup known)

Sync(known, whole) ==
    \E s \in InOrder(Parts(Missed(known), whole)) :
        wire' = wire \o [i \in DOMAIN s |-> Packet("messages", s[i], 0, "client")]
                     \o <<Packet("done", {}, log, "client")>>

(* A request is carried out or refused; an answer needs the same socket.   *)
Deliver(f, result) ==
    /\ f \in flights /\ flights' = flights \ {f}
    /\ result = "refused" => f.kind # "beat"
    /\ delivered' = IF result = "accepted" /\ f.kind = "send" THEN delivered \cup {f.id} ELSE delivered
    /\ gone' = IF result = "accepted" /\ f.kind = "recall" THEN gone \cup {f.id} ELSE gone
    /\ wire' = IF f.live THEN Append(wire, Answer(result, f)) ELSE wire
    /\ UNCHANGED <<case, losses, up, log, acked, session, pending, rcv, op, tables, batch, staged>>

ServerAnswers == \E f \in flights, result \in {"accepted", "refused"} : Deliver(f, result)

-----------------------------------------------------------------------------
(* The socket.  Whatever it held is gone with it; so is the client's       *)
(* queue of packets set aside.                                             *)

NewSession(new) ==
    /\ session' = new
    /\ wire' = <<>> /\ pending' = <<>>
    /\ flights' = {[f EXCEPT !.live = FALSE] : f \in flights}

DropSocket == NewSession([session EXCEPT !.nim = FALSE, !.synced = FALSE])
KeepSocket == UNCHANGED <<session, wire, pending, flights>>
SameEpoch == session.in /\ session.epoch = rcv.epoch

(* Slip: a new socket is not asked for what was missed.                    *)
ConnectUnsynced ==
    /\ Free /\ session.in
    /\ session.nim => Fails("refresh")
    /\ ~session.nim => rcv.at = "idle" /\ losses' = losses
    /\ NewSession([session EXCEPT !.nim = TRUE])
    /\ UNCHANGED <<case, up, log, gone, acked, delivered, rcv, op, tables, batch, staged>>

(* maintain_connection when there is no socket, or a refresh on demand,    *)
(* which leaves the epoch as it is.                                        *)
Connect ==
    /\ Free /\ session.in
    /\ session.nim => Fails("refresh")
    /\ ~session.nim => rcv.at = "idle" /\ losses' = losses
    /\ NewSession([session EXCEPT !.nim = TRUE, !.synced = FALSE])
    /\ UNCHANGED <<case, up, log, gone, acked, delivered, rcv, op, tables, batch, staged>>

(* login, logout: both start a new epoch.                                  *)
ChangeLogin(in) ==
    /\ "login" \in case.faults
    /\ Free /\ session.epoch < MaxEpoch
    /\ NewSession([in |-> in, nim |-> FALSE, synced |-> session.synced, epoch |-> session.epoch + 1])
    /\ UNCHANGED <<case, losses, up, log, gone, acked, delivered, rcv, op, tables, batch, staged>>

SocketBreaks ==
    /\ Free /\ session.nim /\ rcv.at = "idle"
    /\ Fails("socket")
    /\ DropSocket
    /\ UNCHANGED <<case, up, log, gone, acked, delivered, rcv, op, tables, batch, staged>>

-----------------------------------------------------------------------------
(* The receiver: one packet at a time, under the lock only while it polls  *)
(* and while it acknowledges.                                              *)

StartSync ==
    /\ Free /\ rcv.at = "idle" /\ session.nim /\ ~session.synced
    /\ \/ /\ session' = [session EXCEPT !.synced = TRUE]
          /\ \E known \in {{}, acked}, whole \in BOOLEAN : Sync(known, whole)
          /\ UNCHANGED <<losses, pending, flights>>
       \/ Fails("db") /\ DropSocket
    /\ UNCHANGED <<case, up, log, gone, acked, delivered, rcv, op, tables, batch, staged>>

Poll ==
    /\ Free /\ rcv.at = "idle" /\ session.nim /\ session.synced
    /\ pending \o wire # <<>>
    /\ rcv' = [at |-> "journal", packet |-> Head(pending \o wire), left |-> {}, epoch |-> session.epoch]
    /\ IF pending # <<>> THEN pending' = Tail(pending) /\ wire' = wire
                         ELSE wire' = Tail(wire) /\ pending' = pending
    /\ UNCHANGED <<case, losses, up, server, session, op, tables, batch, staged>>

FailsTo == rcv' = [rcv EXCEPT !.at = "failed"]

(* The answer to a request that was given up: an acceptance is not handled,*)
(* a refusal does not decode.                                              *)
Decoded(packet) ==
    CASE packet.kind = "messages" -> [rcv EXCEPT !.at = "store", !.left = packet.of]
      [] packet.kind = "recalled" -> [rcv EXCEPT !.at = "recall"]
      [] packet.kind = "done"     -> [rcv EXCEPT !.at = "cursor"]
      [] packet.kind = "accepted" -> Resting
      [] packet.kind = "refused"  -> [rcv EXCEPT !.at = "failed"]

Journal ==
    /\ up /\ rcv.at = "journal"
    /\ \/ rcv' = Decoded(rcv.packet) /\ losses' = losses
       \/ (Fails("db") \/ Fails("garbled")) /\ FailsTo
    /\ UNCHANGED <<case, up, server, session, wire, pending, op, tables, batch, staged>>

(* ingest_conversation does nothing with a message it has.  A message is   *)
(* "needs_human" if it cannot be opened, its route or its sender cannot be *)
(* confirmed, or it is not text.                                           *)
Store ==
    /\ up /\ rcv.at = "store"
    /\ LET m == Min(rcv.left) IN
          \/ /\ IF Stored(m)
                THEN UNCHANGED <<rows, state>>
                ELSE /\ rows' = Append(rows, m)
                     /\ \E s \in {"pending"} \cup (IF "opaque" \in case.faults THEN {"needs_human"} ELSE {}) :
                           state' = [state EXCEPT ![m] = s]
             /\ rcv' = [rcv EXCEPT !.at = "ack"]
             /\ losses' = losses
          \/ Fails("db") /\ FailsTo /\ UNCHANGED <<rows, state>>
    /\ UNCHANGED <<case, up, server, session, wire, pending, op, cursor, sends, batch, staged>>

NextMessage ==
    LET left == rcv.left \ {Min(rcv.left)}
    IN  rcv' = IF left = {} THEN Resting ELSE [rcv EXCEPT !.at = "store", !.left = left]

(* The acknowledgement goes out on whatever socket the same login has.     *)
Acknowledge ==
    /\ Free /\ rcv.at = "ack"
    /\ \/ /\ ~(SameEpoch /\ session.nim)
          /\ NextMessage /\ KeepSocket /\ UNCHANGED <<losses, acked>>
       \/ /\ SameEpoch /\ session.nim
          /\ \/ acked' = acked \cup {Min(rcv.left)} /\ NextMessage /\ KeepSocket /\ losses' = losses
             \/ Fails("db") /\ acked' = acked \cup {Min(rcv.left)} /\ FailsTo /\ KeepSocket
             \/ Fails("socket") /\ acked' = acked /\ FailsTo /\ DropSocket
    /\ UNCHANGED <<case, up, log, gone, delivered, op, tables, batch, staged>>

Mark(m) == state' = IF Stored(m) THEN [state EXCEPT ![m] = "recalled"] ELSE state

ApplyRecall ==
    /\ up /\ rcv.at = "recall"
    /\ \/ (\A m \in rcv.packet.of : Mark(m)) /\ rcv' = Resting /\ losses' = losses
       \/ Fails("db") /\ FailsTo /\ state' = state
    /\ UNCHANGED <<case, up, server, session, wire, pending, op, rows, cursor, sends, batch, staged>>

SaveCursor ==
    /\ up /\ rcv.at = "cursor"
    /\ \/ cursor' = rcv.packet.upto /\ rcv' = Resting /\ losses' = losses
       \/ Fails("db") /\ FailsTo /\ cursor' = cursor
    /\ UNCHANGED <<case, up, server, session, wire, pending, op, rows, state, sends, batch, staged>>

(* Slip: the receiver goes on with the next packet.                        *)
GoOn == KeepSocket

(* After a failure the socket is given up, so that the server sends again  *)
(* what was consumed.                                                      *)
GiveUpSocket == IF SameEpoch THEN DropSocket ELSE KeepSocket

Fail ==
    /\ Free /\ rcv.at = "failed"
    /\ rcv' = Resting /\ GiveUpSocket
    /\ UNCHANGED <<case, losses, up, log, gone, acked, delivered, op, tables, batch, staged>>

-----------------------------------------------------------------------------
(* Exchanges: a request and the wait for its answer, packets that come     *)
(* first set aside for the receiver.                                       *)

Begin(kind, id) == op' = [at |-> "write", kind |-> kind, id |-> id, result |-> "none"]

(* send_text: the row is there before anything is written.                 *)
Reserve(c) ==
    /\ Free /\ session.nim
    /\ c <= case.sends /\ sends[c] = "none"
    /\ sends' = [sends EXCEPT ![c] = "unknown"]
    /\ Begin("send", c)
    /\ UNCHANGED <<case, losses, up, server, session, wire, pending, rcv, rows, state, cursor, batch, staged>>

(* Bound: no second recall while an answer to the first may be on its way. *)
BeginRecall(m) ==
    /\ "recall" \in case.faults
    /\ Free /\ session.nim
    /\ state[m] \notin {"none", "recalled"}
    /\ \A f \in flights : f.kind # "recall"
    /\ \A i \in DOMAIN (pending \o wire) : (pending \o wire)[i].to # "recall"
    /\ Begin("recall", m)
    /\ UNCHANGED <<case, losses, up, server, session, wire, pending, rcv, tables, batch, staged>>

(* A heartbeat is due every fifteen seconds, between some seventy polls.   *)
(* Bound: it counts with the failures.                                     *)
BeginBeat ==
    /\ Free /\ session.nim /\ rcv.at = "idle"
    /\ Fails("beat")
    /\ Begin("beat", 0)
    /\ UNCHANGED <<case, up, server, session, wire, pending, rcv, tables, batch, staged>>

Ends(result) == op' = [op EXCEPT !.at = "finish", !.result = result]

Write ==
    /\ up /\ op.at = "write"
    /\ \/ /\ flights' = flights \cup {[kind |-> op.kind, id |-> op.id, live |-> TRUE]}
          /\ op' = [op EXCEPT !.at = "wait"]
          /\ losses' = losses
       \/ Fails("socket") /\ Ends("unknown") /\ flights' = flights
    /\ UNCHANGED <<case, up, log, gone, acked, delivered, session, wire, pending, rcv, tables, batch, staged>>

IsAnswer(packet) == packet.to = op.kind /\ packet.of = {op.id}

(* read_packet and retain: a full queue ends the exchange, and the packet  *)
(* that did not fit is lost.                                               *)
ReadAnswer ==
    /\ up /\ op.at = "wait" /\ wire # <<>>
    /\ wire' = Tail(wire)
    /\ \/ IsAnswer(Head(wire)) /\ Ends(Head(wire).kind) /\ pending' = pending
       \/ /\ ~IsAnswer(Head(wire)) /\ Len(pending) < PendingLimit
          /\ pending' = Append(pending, Head(wire)) /\ op' = op
       \/ /\ ~IsAnswer(Head(wire)) /\ Len(pending) >= PendingLimit
          /\ Ends("unknown") /\ pending' = pending
    /\ UNCHANGED <<case, losses, up, server, session, rcv, tables, batch, staged>>

TimesOut ==
    /\ up /\ op.at = "wait"
    /\ Fails("late") /\ Ends("unknown")
    /\ UNCHANGED <<case, up, server, session, wire, pending, rcv, tables, batch, staged>>

(* Slip: no answer counts as a refusal.                                    *)
SendStateKnown == IF op.result = "accepted" THEN "sent" ELSE "rejected"

SendState == CASE op.result = "accepted" -> "sent" [] op.result = "refused" -> "rejected" [] OTHER -> "unknown"

(* A send or a heartbeat without an answer gives up the socket; a recall   *)
(* does not.                                                               *)
GivesUp == op.result = "unknown" /\ op.kind \in {"send", "beat"}

Finish ==
    /\ up /\ op.at = "finish"
    /\ op' = NoOp
    /\ IF GivesUp THEN DropSocket ELSE KeepSocket
    /\ \/ /\ op.kind = "send"
          /\ \/ sends' = [sends EXCEPT ![op.id] = SendState] /\ losses' = losses
             \/ Fails("db") /\ sends' = sends
          /\ state' = state
       \/ /\ op.kind = "recall"
          /\ \/ /\ IF op.result = "accepted" THEN Mark(op.id) ELSE state' = state
                /\ losses' = losses
             \/ Fails("db") /\ state' = state
          /\ sends' = sends
       \/ op.kind = "beat" /\ UNCHANGED <<losses, sends, state>>
    /\ UNCHANGED <<case, up, log, gone, acked, delivered, rcv, rows, cursor, batch, staged>>

-----------------------------------------------------------------------------
(* The runtime reads the ledger like a page: a batch in the order of the   *)
(* rows, its own inbox, then an acknowledgement up to the last row.        *)

Place(m) == CHOOSE i \in DOMAIN rows : rows[i] = m
Readable == {m \in Messages : state[m] = "pending"}
Before(m) == {k \in Readable : Place(k) < Place(m)}

ReadRows ==
    /\ up /\ session.in /\ batch = NoBatch
    /\ Readable # {}
    /\ batch' = [at |-> "stage", of |-> {m \in Readable : Cardinality(Before(m)) < BatchLimit}]
    /\ UNCHANGED <<case, losses, up, server, session, wire, pending, rcv, op, tables, staged>>

StageRows ==
    /\ up /\ batch.at = "stage"
    /\ \/ staged' = staged \cup batch.of /\ batch' = [batch EXCEPT !.at = "ack"] /\ losses' = losses
       \/ Fails("db") /\ batch' = NoBatch /\ staged' = staged
    /\ UNCHANGED <<case, up, server, session, wire, pending, rcv, op, tables>>

(* Slip: acknowledges up to the newest row.                                *)
CoversNewest(m) == TRUE

Covers(m) == \E b \in batch.of : Place(m) <= Place(b)

AckRows ==
    /\ up /\ batch.at = "ack"
    /\ batch' = NoBatch
    /\ state' = IF session.in
                THEN [m \in Messages |-> IF m \in Readable /\ Covers(m) THEN "queued" ELSE state[m]]
                ELSE state
    /\ UNCHANGED <<case, losses, up, server, session, wire, pending, rcv, op, rows, cursor, sends, staged>>

-----------------------------------------------------------------------------
(* A new process takes the saved session from the vault.                   *)

Crash ==
    /\ up /\ Fails("crash")
    /\ up' = FALSE
    /\ DropSocket
    /\ rcv' = Resting /\ op' = NoOp /\ batch' = NoBatch
    /\ UNCHANGED <<case, log, gone, acked, delivered, tables, staged>>

Restart ==
    /\ ~up /\ up' = TRUE
    /\ UNCHANGED <<case, losses, server, session, wire, pending, rcv, op, tables, batch, staged>>

ReceiverStep ==
    StartSync \/ Poll \/ Journal \/ Store \/ Acknowledge \/ ApplyRecall \/ SaveCursor \/ Fail

ExchangeStep == Write \/ ReadAnswer \/ TimesOut \/ Finish

RuntimeStep == ReadRows \/ StageRows \/ AckRows

Next ==
    \/ Accept \/ (\E m \in Messages : Withdraw(m))
    \/ ServerAnswers
    \/ Connect \/ (\E in \in BOOLEAN : ChangeLogin(in)) \/ SocketBreaks
    \/ ReceiverStep
    \/ (\E c \in Clients : Reserve(c)) \/ (\E m \in Messages : BeginRecall(m)) \/ BeginBeat
    \/ ExchangeStep
    \/ RuntimeStep
    \/ Crash \/ Restart

(* The receiver ticks every 200 ms and takes the lock if it is free; the   *)
(* lock's queue is fair to the acknowledgement; exchanges are bounded in   *)
(* time; the server answers.                                               *)
Fairness ==
    /\ SF_vars(ReceiverStep) /\ SF_vars(Connect)
    /\ WF_vars(ExchangeStep)
    /\ WF_vars(ServerAnswers)
    /\ WF_vars(RuntimeStep) /\ WF_vars(Restart)

Spec == Init /\ [][Next]_vars /\ Fairness

-----------------------------------------------------------------------------
States == {"none", "pending", "needs_human", "queued", "recalled"}

TypeOK ==
    /\ case \in Cases /\ losses \in 0..MaxLosses /\ up \in BOOLEAN
    /\ log \in 0..case.messages /\ cursor \in 0..log
    /\ gone \subseteq Messages /\ acked \subseteq Messages
    /\ delivered \subseteq Clients
    /\ session \in [in : BOOLEAN, nim : BOOLEAN, synced : BOOLEAN, epoch : 1..MaxEpoch]
    /\ session.nim => session.in
    /\ Len(pending) <= PendingLimit
    /\ state \in [Messages -> States]
    /\ {rows[i] : i \in DOMAIN rows} = {m \in Messages : Stored(m)}
    /\ sends \in [Clients -> {"none", "unknown", "sent", "rejected"}]
    /\ staged \subseteq Messages

(* What was read stays somewhere until it is handed over.  The sync        *)
(* boundary never moves past a lost message: all the saved cursor covers   *)
(* is in the ledger, or was recalled at the server (receive, the comment   *)
(* before it gives up the socket); nothing is acknowledged before it is    *)
(* kept, at the server not before it is in the ledger, in the ledger not   *)
(* before it is in the runtime's inbox.  Only the exchange of a recall may *)
(* lose a packet and keep the socket (recall_group, retain with a full     *)
(* queue): where messages are recalled the boundary is not promised.       *)
NothingReadIsLost ==
    /\ "recall" \notin case.faults => \A m \in 1..cursor : Stored(m) \/ m \in gone
    /\ \A m \in acked : Stored(m)
    /\ \A m \in Messages : state[m] = "queued" => m \in staged

(* What the table of sends says of a text is true, whatever was lost: a    *)
(* text without a row was never written and a refused one is never         *)
(* delivered (reserve_conversation_send, finish_conversation_send).        *)
SendsToldTruly ==
    \A c \in Clients :
        /\ sends[c] = "none" => c \notin delivered /\ \A f \in flights : f.kind = "send" => f.id # c
        /\ sends[c] = "sent" => c \in delivered
        /\ sends[c] = "rejected" => c \notin delivered /\ \A f \in flights : f.kind = "send" => f.id # c

(* The ledger loses nothing it has read and tells the truth of its sends.  *)
LedgerIsTrue == NothingReadIsLost /\ SendsToldTruly

(* As long as the account stays logged in, every message accepted by the   *)
(* server reaches the runtime, needs a human or is recalled, through       *)
(* broken sockets, failing jobs and restarts.                              *)
Ended(m) == m \in gone \/ state[m] \in {"queued", "needs_human", "recalled"}

EveryMessageIsHandedOver ==
    <>[](session.in) => <>[](\A m \in 1..log : Ended(m))
=============================================================================
