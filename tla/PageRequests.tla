---------------------------- MODULE PageRequests ----------------------------
(***************************************************************************)
(* The requests to the chat client's page (CdpClient): the gate that lets  *)
(* one through at a time, the page looked up and kept for a second, the    *)
(* socket to it that outlives a request, and the answers, told apart by    *)
(* their ids.  A call is an evaluation, made once; a check is a call of    *)
(* diagnose, which looks for the page before it asks who is logged in.     *)
(***************************************************************************)
EXTENDS Integers, FiniteSets

CONSTANTS
    Callers,
    Checks,         \* the callers of diagnose
    MaxWaiters,     \* GATE_MAX_WAITERS (64 in the code)
    MaxLoads        \* bounds the restarts of the chat client

VARIABLES
    client,         \* the chat client: who listens on the port, which load of the page, the login
    cache,          \* page_cache: a load of the page, 0 for none
    snapshot,       \* diagnostic_cache: "none", or the state it shows
    session,        \* the load of the page the kept socket leads to, 0 for no session
    wire,           \* on that socket: requests of the page and answers not yet read
    nextId,
    waiters,        \* GatewayRequestGateState.waiters
    place, goal, id, got,   \* of each caller: where it is, its page, its request, its answer
    executed        \* the callers whose expression ran in the page

gateVars == <<waiters>>
pageVars == <<client, cache, snapshot>>
socketVars == <<session, wire, nextId>>
callVars == <<goal, id, got>>
vars == <<client, cache, snapshot, session, wire, nextId, waiters, place, goal, id, got, executed>>

Answer(c, in) == [by |-> c, in |-> in]
Nothing == Answer(0, FALSE)
EmptyWire == [asked |-> {}, told |-> {}]

Init ==
    /\ client = [port |-> "page", load |-> 1, in |-> TRUE]
    /\ cache = 0 /\ snapshot = "none"
    /\ session = 0 /\ wire = EmptyWire /\ nextId = 1
    /\ waiters = 0
    /\ place = [c \in Callers |-> "idle"] /\ goal = [c \in Callers |-> 0]
    /\ id = [c \in Callers |-> 0] /\ got = [c \in Callers |-> Nothing]
    /\ executed = {}

Goes(c, p) == place' = [place EXCEPT ![c] = p]
In(places) == {c \in Callers : place[c] \in places}
Connected == session = client.load /\ client.port = "page"

(* A check that ends leaves what it saw for the next second.               *)
Shows(c, state) == snapshot' = IF c \in Checks THEN state ELSE snapshot

-----------------------------------------------------------------------------
(* The gate. *)

(* diagnose: a state seen within the last second answers the check; else   *)
(* it looks for the page before it asks.                                   *)
Check(c) ==
    /\ c \in Checks /\ place[c] = "idle"
    /\ IF snapshot # "none"
       THEN Goes(c, "shown") /\ UNCHANGED <<cache, snapshot>>
       ELSE \/ cache # 0 /\ Goes(c, "looked") /\ UNCHANGED <<cache, snapshot>>
            \/ cache = 0 /\ client.port = "page" /\ cache' = client.load
               /\ Goes(c, "looked") /\ UNCHANGED snapshot
            \/ cache = 0 /\ client.port # "page" /\ Shows(c, client.port)
               /\ Goes(c, "refused") /\ UNCHANGED cache
    /\ UNCHANGED <<client, gateVars, socketVars, callVars, executed>>

Enter(c) ==
    /\ place[c] = IF c \in Checks THEN "looked" ELSE "idle"
    /\ IF waiters >= MaxWaiters
       THEN Goes(c, "refused") /\ Shows(c, "not ready") /\ waiters' = waiters
       ELSE Goes(c, "queued") /\ waiters' = waiters + 1 /\ UNCHANGED snapshot
    /\ UNCHANGED <<client, cache, socketVars, callVars, executed>>

Inside == In({"pause", "inside", "connect", "sent"})

(* The lock is taken first; the pause and the count come after.            *)
Lock(c) ==
    /\ place[c] = "queued" /\ Inside = {}
    /\ Goes(c, "pause") /\ UNCHANGED <<pageVars, gateVars, socketVars, callVars, executed>>

GiveUp(c) ==
    /\ place[c] = "queued"
    /\ Goes(c, "refused") /\ Shows(c, "not ready") /\ waiters' = waiters - 1
    /\ UNCHANGED <<client, cache, socketVars, callVars, executed>>

Start(c) ==
    /\ place[c] = "pause"
    /\ Goes(c, "inside") /\ waiters' = waiters - 1
    /\ UNCHANGED <<pageVars, socketVars, callVars, executed>>

-----------------------------------------------------------------------------
(* The request, inside the gate. *)

(* page: the kept one, else the client's page is looked up and kept; a     *)
(* request ends here when nobody or another program has the port.          *)
Look(c) ==
    /\ place[c] = "inside"
    /\ IF cache # 0 \/ client.port = "page"
       THEN LET found == IF cache # 0 THEN cache ELSE client.load IN
            /\ cache' = found /\ goal' = [goal EXCEPT ![c] = found]
            /\ id' = [id EXCEPT ![c] = nextId] /\ nextId' = nextId + 1
            /\ Goes(c, "connect") /\ UNCHANGED snapshot
       ELSE /\ Goes(c, "refused") /\ Shows(c, "not ready")
            /\ UNCHANGED <<cache, goal, id, nextId>>
    /\ UNCHANGED <<client, gateVars, session, wire, got, executed>>

(* A socket to another load of the page is replaced.  A connection that    *)
(* fails ends the request and leaves what is kept as it is.                *)
Connect(c) ==
    /\ place[c] = "connect" /\ session # goal[c]
    /\ IF goal[c] = client.load /\ client.port = "page"
       THEN session' = goal[c] /\ wire' = EmptyWire /\ UNCHANGED <<place, snapshot>>
       ELSE Goes(c, "refused") /\ Shows(c, "not ready") /\ UNCHANGED <<session, wire>>
    /\ UNCHANGED <<client, cache, gateVars, nextId, callVars, executed>>

Forget(c, p) ==
    /\ session' = 0 /\ wire' = EmptyWire /\ cache' = 0
    /\ snapshot' = IF c \in Checks THEN "not ready" ELSE "none"
    /\ Goes(c, p) /\ UNCHANGED <<client, gateVars, nextId, callVars, executed>>

(* Writing to a socket that is gone may fail at once, and everything kept  *)
(* is dropped; or the request goes nowhere.                                *)
Send(c) ==
    /\ place[c] = "connect" /\ session = goal[c]
    /\ \/ /\ wire' = IF Connected
                      THEN [wire EXCEPT !.asked = @ \cup {[id |-> id[c], by |-> c]}] ELSE wire
          /\ Goes(c, "sent")
          /\ UNCHANGED <<pageVars, session, nextId, gateVars, callVars, executed>>
       \/ ~Connected /\ Forget(c, "refused")

(* Slip: the first answer read is taken for one's own.                     *)
OwnOrNot(c, a) == TRUE

Own(c, a) == a.id = id[c]

Ended(c, state) ==
    /\ Goes(c, "done") /\ Shows(c, state)

(* Answers to earlier requests, whose callers were dropped, are passed     *)
(* over.                                                                   *)
Read(c) ==
    /\ place[c] = "sent"
    /\ \E a \in wire.told :
          /\ wire' = [wire EXCEPT !.told = @ \ {a}]
          /\ IF Own(c, a)
             THEN /\ got' = [got EXCEPT ![c] = a.is]
                  /\ Ended(c, IF a.is.in THEN "ready" ELSE "not ready")
             ELSE UNCHANGED <<got, place, snapshot>>
    /\ UNCHANGED <<client, cache, session, nextId, gateVars, goal, id, executed>>

(* An exception in the page, a closed socket, or no answer for 25 seconds. *)
Fail(c) == place[c] = "sent" /\ Forget(c, "failed")

(* The caller's future is dropped where it waits: its lock goes; its count *)
(* in the gate, and its request in the page, stay.                         *)
Drop(c) ==
    /\ \/ place[c] \in {"queued", "pause"} /\ Goes(c, "gone")
       \/ place[c] \in {"looked", "inside", "connect", "sent"} /\ Goes(c, "dropped")
    /\ UNCHANGED <<pageVars, gateVars, socketVars, callVars, executed>>

-----------------------------------------------------------------------------
(* The chat client, and the time. *)

(* The page runs what it was asked in any order.                           *)
Execute ==
    /\ Connected
    /\ \E r \in wire.asked :
          /\ wire' = [asked |-> wire.asked \ {r},
                      told |-> wire.told \cup {[id |-> r.id, is |-> Answer(r.by, client.in)]}]
          /\ executed' = executed \cup {r.by}
    /\ UNCHANGED <<pageVars, session, nextId, gateVars, place, callVars>>

Reload ==
    /\ client.load < MaxLoads
    /\ \E port \in {"page", "absent", "other"}, in \in BOOLEAN :
          client' = [port |-> port, load |-> client.load + 1, in |-> in]
    /\ wire' = [wire EXCEPT !.asked = {}]
    /\ UNCHANGED <<cache, snapshot, session, nextId, gateVars, place, callVars, executed>>

(* A second passes for the page or for the state that was kept.            *)
Expire ==
    /\ \/ cache # 0 /\ cache' = 0 /\ UNCHANGED snapshot
       \/ snapshot # "none" /\ snapshot' = "none" /\ UNCHANGED cache
    /\ UNCHANGED <<client, socketVars, gateVars, place, callVars, executed>>

Next ==
    \/ \E c \in Callers :
          \/ Check(c) \/ Enter(c) \/ Lock(c) \/ GiveUp(c) \/ Start(c)
          \/ Look(c) \/ Connect(c) \/ Send(c) \/ Read(c) \/ Fail(c) \/ Drop(c)
    \/ Execute \/ Reload \/ Expire

Spec == Init /\ [][Next]_vars

-----------------------------------------------------------------------------
(* A caller that gets an answer gets the one to its own expression, though *)
(* the socket still carries the answers to requests whose callers went     *)
(* away; one that was turned away has not run in the page, so asking again *)
(* repeats nothing; and the gate counts those who wait and, for ever,      *)
(* those dropped while they waited (acquire, evaluate_persistent,          *)
(* evaluate_cdp_session).                                                  *)
RequestsAreServedTruly ==
    /\ \A c \in In({"done"}) : got[c].by = c
    /\ In({"refused"}) \cap executed = {}
    /\ waiters = Cardinality(In({"queued", "pause", "gone"}))
=============================================================================
