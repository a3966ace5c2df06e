---------------------------- MODULE WorkTracker ----------------------------
(***************************************************************************)
(* The runtime's record of what it is working on and the page that shows   *)
(* it (runtime_work.rs): every change of the record asks for a snapshot to *)
(* be sent, at most one snapshot is on order, and finished work disappears *)
(* after a while.  Percentages and texts are left out.                     *)
(***************************************************************************)
EXTENDS Naturals, Sequences, FiniteSets

CONSTANTS
    Items, Rank,   \* Rank[i]: the priority of an item's kind
    Callers,       \* threads that report on their work
    Emitters,      \* tasks that send snapshots
    MaxTracked,    \* MAX_TRACKED_ITEMS (200)
    MaxChanges,    \* bound on the reports
    Nobody

VARIABLES
    tracked,       \* ids with an entry, the oldest first
    entry,         \* of each id: state, queued, and whether it is old enough to go
    pinned,        \* pinned_active
    pending,       \* emit_pending
    calling,       \* callers that have changed the record and not yet called changed()
    timers,        \* ids whose success is to be looked at again
    at, snap,      \* of each emitter
    shown,         \* what the page shows
    attached, changes

record == <<tracked, entry, pinned>>
emission == <<at, snap, shown>>
vars == <<record, pending, calling, timers, emission, attached, changes>>

Fresh == [state |-> "queued", queued |-> 0, old |-> FALSE]
Tracked(order) == {order[n] : n \in DOMAIN order}

(* snapshot_from_state.                                                    *)
View(order, e, p) ==
    [items |-> {<<i, e[i].state, e[i].queued>> : i \in Tracked(order)}, active |-> p]
Blank == [items |-> {}, active |-> Nobody]

Init ==
    /\ tracked = <<>> /\ entry = [i \in Items |-> Fresh] /\ pinned = Nobody
    /\ pending = FALSE /\ calling = {} /\ timers = {}
    /\ at = [e \in Emitters |-> "free"]
    /\ snap = [e \in Emitters |-> Blank] /\ shown = Blank
    /\ attached = FALSE /\ changes = 0

-----------------------------------------------------------------------------
Terminal(x) == x.state \in {"succeeded", "failed", "unknown"}

(* prune: what has succeeded goes after five seconds.                      *)
Pruned(order, e) == SelectSeq(order, LAMBDA i : ~(e[i].state = "succeeded" /\ e[i].old))

(* enforce_bound: the oldest that have ended go first, then the oldest.    *)
OldestOf(order, Test(_)) == LET s == SelectSeq(order, Test) IN IF s = <<>> THEN {} ELSE {Head(s)}

Bounded(order, e) ==
    IF Len(order) <= MaxTracked THEN order
    ELSE LET ended == OldestOf(order, LAMBDA i : Terminal(e[i]))
             gone == IF ended # {} THEN ended ELSE {Head(order)}
         IN SelectSeq(order, LAMBDA i : i \notin gone)

(* choose_active: the pinned item while it runs, or the first that does.   *)
Position(order, i) == CHOOSE n \in DOMAIN order : order[n] = i

Chosen(order, e, p) ==
    LET running == {i \in Tracked(order) : e[i].state = "running"}
    IN IF p \in running THEN p
       ELSE IF running = {} THEN Nobody
       ELSE CHOOSE i \in running : \A j \in running :
                Rank[i] < Rank[j] \/ (Rank[i] = Rank[j] /\ Position(order, i) <= Position(order, j))

(* mutate: prune, update, bound and choose under the lock; the caller asks *)
(* for a snapshot afterwards.  One report may add one item only.           *)
Mutates(c, order, e, p) ==
    /\ changes < MaxChanges /\ changes' = changes + 1
    /\ calling' = calling \cup {c}
    /\ tracked' = Bounded(order, e)
    /\ entry' = e
    /\ pinned' = Chosen(tracked', e, p)

Reports(c) == c \notin calling

Now == Pruned(tracked, entry)

Requeued(x) == IF Terminal(x) THEN [x EXCEPT !.state = "queued", !.old = FALSE] ELSE x

Enqueue(c, i) ==
    /\ Reports(c)
    /\ LET known == i \in Tracked(Now)
           x == IF known THEN Requeued(entry[i]) ELSE Fresh
       IN Mutates(c, IF known THEN Now ELSE Append(Now, i),
                  [entry EXCEPT ![i] = [x EXCEPT !.queued = @ + 1]], pinned)
    /\ UNCHANGED <<pending, timers, emission, attached>>

(* What the database says is waiting (seed_queued_count).                  *)
Seed(c, i) ==
    /\ Reports(c)
    /\ LET known == i \in Tracked(Now)
           x == IF known THEN Requeued(entry[i]) ELSE Fresh
           waiting == IF x.state = "running" THEN 0 ELSE 1
       IN Mutates(c, IF known THEN Now ELSE Append(Now, i),
                  [entry EXCEPT ![i] = [x EXCEPT !.queued = IF @ > waiting THEN @ ELSE waiting]],
                  pinned)
    /\ UNCHANGED <<pending, timers, emission, attached>>

Less(n) == IF n > 0 THEN n - 1 ELSE 0

Start(c, i) ==
    /\ Reports(c) /\ i \in Tracked(Now)
    /\ Mutates(c, Now, [entry EXCEPT ![i] = [state |-> "running", queued |-> Less(@.queued), old |-> FALSE]],
               IF pinned = Nobody THEN i ELSE pinned)
    /\ UNCHANGED <<pending, timers, emission, attached>>

Unpinned(i) == IF pinned = i THEN Nobody ELSE pinned

RejectEnqueue(c, i) ==
    /\ Reports(c) /\ i \in Tracked(Now)
    /\ LET left == Less(entry[i].queued)
       IN Mutates(c, Now, [entry EXCEPT ![i].queued = left, ![i].state =
                     IF left = 0 /\ @ # "running" THEN "failed" ELSE @], pinned)
    /\ UNCHANGED <<pending, timers, emission, attached>>

(* Nothing asks whether the item runs: two tasks may report under one id.  *)
Retrying(c, i) ==
    /\ Reports(c) /\ i \in Tracked(Now)
    /\ Mutates(c, Now, [entry EXCEPT ![i].state = "retrying",
                                     ![i].queued = IF @ = 0 THEN 1 ELSE @], Unpinned(i))
    /\ UNCHANGED <<pending, timers, emission, attached>>

(* Work that has been asked for again meanwhile goes on.  Bound: the page  *)
(* is attached before work ends, so that a success has its timer.          *)
Finish(c, i) ==
    /\ Reports(c) /\ attached /\ i \in Tracked(Now)
    /\ \E outcome \in {"succeeded", "failed", "unknown"} :
          /\ Mutates(c, Now, [entry EXCEPT ![i] =
                IF @.queued > 0 /\ outcome = "succeeded" THEN [@ EXCEPT !.state = "queued"]
                ELSE [@ EXCEPT !.state = outcome, !.old = FALSE]], Unpinned(i))
          /\ timers' = IF outcome = "succeeded" THEN timers \cup {i} ELSE timers
    /\ UNCHANGED <<pending, emission, attached>>

AcknowledgeFailures(c, i) ==
    /\ Reports(c) /\ i \in Tracked(Now) /\ entry[i].state \in {"failed", "unknown"}
    /\ Mutates(c, SelectSeq(Now, LAMBDA j : j # i), entry, pinned)
    /\ UNCHANGED <<pending, timers, emission, attached>>

-----------------------------------------------------------------------------
(* changed(): orders a snapshot unless one is on order.                    *)
Orders ==
    IF pending \/ ~attached' THEN UNCHANGED <<pending, at>>
    ELSE /\ pending' = TRUE
         /\ \E e \in Emitters : at[e] = "free" /\ at' = [at EXCEPT ![e] = "waits"]

Changed(c) ==
    /\ c \in calling /\ calling' = calling \ {c}
    /\ attached' = attached /\ Orders
    /\ UNCHANGED <<record, timers, snap, shown, changes>>

Attach ==
    /\ ~attached /\ attached' = TRUE /\ Orders
    /\ UNCHANGED <<record, calling, timers, snap, shown, changes>>

(* Five seconds pass, and the timer of the success rings.                  *)
Ages(i) ==
    /\ i \in Tracked(tracked) /\ entry[i].state = "succeeded" /\ ~entry[i].old
    /\ entry' = [entry EXCEPT ![i].old = TRUE]
    /\ UNCHANGED <<tracked, pinned, pending, calling, timers, emission, attached, changes>>

TimerRings(i) ==
    /\ i \in timers /\ (entry[i].state = "succeeded" => entry[i].old)
    /\ timers' = timers \ {i}
    /\ attached' = attached /\ Orders
    /\ UNCHANGED <<record, calling, snap, shown, changes>>

(* Bound: a snapshot is sent within the 100 ms the next one waits.         *)
Quick(e) == \A d \in Emitters \ {e} : at[d] \in {"free", "waits"}

(* Slip: the order is taken back once the snapshot has been sent.          *)
TakesBackWhenSent(where) == where = "sends"

TakesBackOrder(where) == where = "waits"

Wakes(e) ==
    /\ at[e] = "waits" /\ Quick(e)
    /\ pending' = (pending /\ ~TakesBackOrder(at[e]))
    /\ at' = [at EXCEPT ![e] = "reads"]
    /\ UNCHANGED <<record, calling, timers, snap, shown, attached, changes>>

Reads(e) ==
    /\ at[e] = "reads"
    /\ tracked' = Now /\ entry' = entry /\ pinned' = Chosen(Now, entry, pinned)
    /\ snap' = [snap EXCEPT ![e] = View(tracked', entry, pinned')]
    /\ at' = [at EXCEPT ![e] = "sends"]
    /\ UNCHANGED <<pending, calling, timers, shown, attached, changes>>

Sends(e) ==
    /\ at[e] = "sends"
    /\ shown' = snap[e] /\ snap' = [snap EXCEPT ![e] = Blank]
    /\ pending' = (pending /\ ~TakesBackOrder(at[e]))
    /\ at' = [at EXCEPT ![e] = "free"]
    /\ UNCHANGED <<record, calling, timers, attached, changes>>

-----------------------------------------------------------------------------
Report(c, i) ==
    \/ Enqueue(c, i) \/ Seed(c, i) \/ Start(c, i) \/ RejectEnqueue(c, i)
    \/ Retrying(c, i) \/ Finish(c, i) \/ AcknowledgeFailures(c, i)

Emit(e) == Wakes(e) \/ Reads(e) \/ Sends(e)

Next ==
    \/ \E c \in Callers, i \in Items : Report(c, i)
    \/ \E c \in Callers : Changed(c)
    \/ \E i \in Items : Ages(i) \/ TimerRings(i)
    \/ \E e \in Emitters : Emit(e)
    \/ Attach

Fairness ==
    /\ WF_vars(Attach)
    /\ \A c \in Callers : WF_vars(Changed(c))
    /\ \A i \in Items : WF_vars(Ages(i) \/ TimerRings(i))
    /\ \A e \in Emitters : WF_vars(Emit(e))

Spec == Init /\ [][Next]_vars /\ Fairness

-----------------------------------------------------------------------------
(* In the end the page shows the record: no change goes unseen, and what   *)
(* has succeeded disappears.                                               *)
PageCatchesUp == <>[](shown = View(tracked, entry, pinned)
                      /\ \A i \in Tracked(tracked) : entry[i].state # "succeeded")
=============================================================================
