---------------------------- MODULE Predictions ----------------------------
(***************************************************************************)
(* The prediction app: a message that asks for it is answered from the     *)
(* draws a public source has published, at once with a text made by rule,  *)
(* or with the model's wording of the same draws when that is in store.    *)
(* One reader at a time asks the source for a game; its result is kept for *)
(* a while.  The app is switched on after a look at the source.            *)
(***************************************************************************)
EXTENDS Integers, Sequences, FiniteSets

CONSTANTS
    Messages,     \* messages that ask for a prediction
    Checks,       \* calls of get_business_app_health
    Enables,      \* calls of set_business_app_enabled(true)
    StaleAfter,   \* stale_after
    Ttl,          \* live_cache_ttl
    QueueLimit,   \* prediction_narration_tx's capacity
    MaxDraws,     \* bound on draws
    Horizon,      \* bound on the clock
    FaultSets     \* what may go wrong, one of these sets

Callers == Messages \cup Checks \cup Enables

AllFaults == {"source",   \* a source is down or its page lacks draws
              "model",    \* the model fails or leaves a field out
              "offline",  \* no connection to a model is set up
              "db",       \* a write to the database fails
              "switch",   \* its owner looks after the app: health, on and off
              "crash"}    \* the program ends and starts again

VARIABLES
    faults, now,
    opened,     \* opening times of the draws, one after the other
    cache,      \* live_cache and history_cache of the game
    lock,       \* the game's request lock
    app,        \* the row of business_apps
    at, got,    \* of each caller: where it is, what it was given
    runs,       \* business_app_runs
    replies,    \* what each message's effect says
    worded,     \* prediction_narration_cache: the snapshots in words
    pending, queue, job

source == <<faults, opened>>
narration == <<worded, pending, queue, job>>
vars == <<faults, now, opened, cache, lock, app, at, got, runs, replies, worded, pending, queue, job>>

-----------------------------------------------------------------------------
(* A snapshot is the set of the draws on a page; its first is the newest.  *)

None == {}
Draws == 1..MaxDraws
Latest(rows) == CHOOSE d \in rows : \A e \in rows : e <= d

Freshness(rows) == IF now - opened[Latest(rows)] <= StaleAfter THEN "fresh" ELSE "stale"
FromSnapshot(rows) == [status |-> Freshness(rows), rows |-> rows]
Failed == [status |-> "error", rows |-> None]
Results == [status : {"fresh", "stale", "error"}, rows : SUBSET Draws]

(* A page is refused when no row of it can be read.                        *)
Pages == IF "source" \in faults THEN SUBSET (1..Len(opened)) ELSE {1..Len(opened)}
ReadPage(page) == IF page = {} THEN Failed ELSE FromSnapshot(page)

(* The official archive, and the public mirror where that fails.           *)
FetchNetwork == {ReadPage(page) : page \in Pages}
                \cup IF "source" \in faults THEN {Failed} ELSE {}

CachedResult(s) == [at |-> now, result |-> s]
NoCache == [at |-> 0, result |-> Failed]
CacheStays == cache.result # Failed
CacheHolds == cache.result # Failed /\ now - cache.at < Ttl

-----------------------------------------------------------------------------

RunStates == {"none", "processing", "succeeded", "fallback", "stale", "unavailable", "failed"}

Silent == [kind |-> "none", rows |-> None, said |-> 0]
Says(kind, rows) == [kind |-> kind, rows |-> rows, said |-> now]

TypeOK ==
    /\ faults \in FaultSets /\ faults \subseteq AllFaults /\ now \in 0..Horizon
    /\ opened \in Seq(0..Horizon) /\ Len(opened) \in 1..MaxDraws
    /\ cache \in [at : 0..Horizon, result : Results]
    /\ lock \in SUBSET Callers /\ Cardinality(lock) <= 1
    /\ app \in [enabled : BOOLEAN, status : {"unchecked", "ready", "stale", "unavailable"}]
    /\ at \in [Callers -> {"idle", "routed", "looks", "waits", "fetches", "got", "worded",
                           "queued", "fails", "checked", "done"}]
    /\ got \in [Callers -> Results] /\ runs \in [Messages -> RunStates]
    /\ replies \in [Messages -> [kind : {"none", "rule", "model", "stale", "unavailable"},
                                 rows : SUBSET Draws, said : 0..Horizon]]
    /\ worded \subseteq SUBSET Draws /\ pending \subseteq SUBSET Draws
    /\ queue \in Seq(SUBSET Draws) /\ job \in SUBSET (SUBSET Draws)

Init ==
    /\ faults \in FaultSets /\ now = 0 /\ opened = <<0>>
    /\ cache = NoCache /\ lock = {}
    /\ app = IF "switch" \in faults THEN [enabled |-> FALSE, status |-> "unchecked"]
                                    ELSE [enabled |-> TRUE, status |-> "ready"]
    /\ at = [c \in Callers |-> "idle"] /\ got = [c \in Callers |-> Failed]
    /\ runs = [m \in Messages |-> "none"] /\ replies = [m \in Messages |-> Silent]
    /\ worded = {} /\ pending = {} /\ queue = <<>> /\ job = {}

Goes(c, p) == at' = [at EXCEPT ![c] = p]

-----------------------------------------------------------------------------
(* The source.                                                             *)

(* What follows a look at the source takes no time by this clock.          *)
Tick ==
    /\ now < Horizon /\ (\A m \in Messages : at[m] # "got") /\ now' = now + 1
    /\ UNCHANGED <<source, cache, lock, app, at, got, runs, replies, narration>>

Drawn ==
    /\ Len(opened) < MaxDraws /\ opened' = Append(opened, now)
    /\ UNCHANGED <<faults, now, cache, lock, app, at, got, runs, replies, narration>>

Given(c, s) == got' = [got EXCEPT ![c] = s] /\ Goes(c, "got")

(* A first look, before the game's lock is asked for.                      *)
Look(c) ==
    /\ at[c] = "looks"
    /\ \/ CacheHolds /\ Given(c, cache.result)
       \/ ~CacheHolds /\ Goes(c, "waits") /\ UNCHANGED got
    /\ UNCHANGED <<source, now, cache, lock, app, runs, replies, narration>>

(* A second look under the lock: another may have read meanwhile.          *)
TakeLock(c) ==
    /\ at[c] = "waits" /\ lock = {}
    /\ \/ CacheHolds /\ Given(c, cache.result) /\ UNCHANGED lock
       \/ ~CacheHolds /\ lock' = {c} /\ Goes(c, "fetches") /\ UNCHANGED got
    /\ UNCHANGED <<source, now, cache, app, runs, replies, narration>>

(* A failure is not kept: the next who waits asks again.                   *)
Fetch(c) ==
    /\ at[c] = "fetches"
    /\ \E s \in FetchNetwork :
          /\ cache' = IF s = Failed THEN cache ELSE CachedResult(s)
          /\ Given(c, s)
    /\ lock' = {}
    /\ UNCHANGED <<source, now, app, runs, replies, narration>>

-----------------------------------------------------------------------------
(* A message.                                                              *)

Route(m) ==
    /\ at[m] = "idle"
    /\ Goes(m, IF app.enabled THEN "routed" ELSE "done")
    /\ UNCHANGED <<source, now, cache, lock, app, got, runs, replies, narration>>

(* A run claimed before, even by a process since ended, is left alone.     *)
Claim(m) ==
    /\ at[m] = "routed"
    /\ \/ runs[m] = "none" /\ runs' = [runs EXCEPT ![m] = "processing"] /\ Goes(m, "looks")
       \/ runs[m] # "none" /\ Goes(m, "done") /\ UNCHANGED runs
    /\ UNCHANGED <<source, now, cache, lock, app, got, replies, narration>>

NarrationKey(rows) == rows

(* validate_prediction_narration: the words name the draws they are of.    *)
Validates(words, rows) == words = rows

Composes(m, reply) == replies' = [replies EXCEPT ![m] = reply] /\ Goes(m, "worded")

(* The words in store, if they are of the same draws.                      *)
UseWords(m) ==
    /\ at[m] = "got" /\ got[m].status = "fresh" /\ "offline" \notin faults
    /\ \E words \in worded :
          /\ NarrationKey(words) = NarrationKey(got[m].rows)
          /\ IF Validates(words, got[m].rows)
                THEN Composes(m, Says("model", words)) /\ UNCHANGED worded
                ELSE Composes(m, Says("rule", got[m].rows)) /\ worded' = worded \ {words}
    /\ UNCHANGED <<source, now, cache, lock, app, got, runs, pending, queue, job>>

(* The rule's own text, while words are made for the next who asks.        *)
UseRule(m) ==
    /\ at[m] = "got" /\ got[m].status = "fresh"
    /\ LET key == NarrationKey(got[m].rows) IN
          /\ "offline" \in faults \/ \A words \in worded : NarrationKey(words) # key
          /\ IF "offline" \in faults \/ key \in pending \/ Len(queue) = QueueLimit
                THEN UNCHANGED <<pending, queue>>
                ELSE pending' = pending \cup {key} /\ queue' = Append(queue, got[m].rows)
    /\ Composes(m, Says("rule", got[m].rows))
    /\ UNCHANGED <<source, now, cache, lock, app, got, runs, worded, job>>

ComposeOther(m) ==
    /\ at[m] = "got" /\ got[m].status # "fresh"
    /\ Composes(m, Says(IF got[m].status = "stale" THEN "stale" ELSE "unavailable", got[m].rows))
    /\ UNCHANGED <<source, now, cache, lock, app, got, runs, narration>>

Fallible == IF "db" \in faults THEN BOOLEAN ELSE {FALSE}

(* enqueue_text_effect: what failed to be queued was never said.           *)
Enqueue(m) ==
    /\ at[m] = "worded"
    /\ \E fails \in Fallible :
          /\ Goes(m, IF fails THEN "fails" ELSE "queued")
          /\ replies' = IF fails THEN [replies EXCEPT ![m] = Silent] ELSE replies
    /\ UNCHANGED <<source, now, cache, lock, app, got, runs, narration>>

FinalStatus(m) ==
    CASE replies[m].kind = "model" -> "succeeded"
      [] replies[m].kind = "rule" -> "fallback"
      [] OTHER -> replies[m].kind

FinishRun(m) ==
    /\ at[m] = "queued"
    /\ \E fails \in Fallible :
          /\ Goes(m, IF fails THEN "fails" ELSE "done")
          /\ runs' = IF fails THEN runs ELSE [runs EXCEPT ![m] = FinalStatus(m)]
    /\ UNCHANGED <<source, now, cache, lock, app, got, replies, narration>>

(* An error is written to the run, if that can be written.                 *)
FailRun(m) ==
    /\ at[m] = "fails" /\ Goes(m, "done")
    /\ \E fails \in Fallible : runs' = IF fails THEN runs ELSE [runs EXCEPT ![m] = "failed"]
    /\ UNCHANGED <<source, now, cache, lock, app, got, replies, narration>>

-----------------------------------------------------------------------------
(* prediction_narration_loop: one text at a time.                          *)

KeyStays(rows) == pending
KeyIsFree(rows) == pending \ {NarrationKey(rows)}

TakeJob ==
    /\ job = {} /\ queue # <<>>
    /\ job' = {Head(queue)} /\ queue' = Tail(queue)
    /\ UNCHANGED <<source, now, cache, lock, app, at, got, runs, replies, worded, pending>>

FinishJob ==
    /\ \E rows \in job :
          /\ \/ worded' = worded \cup {rows}
             \/ "model" \in faults /\ UNCHANGED worded
          /\ pending' = KeyIsFree(rows)
    /\ job' = {}
    /\ UNCHANGED <<source, now, cache, lock, app, at, got, runs, replies, queue>>

-----------------------------------------------------------------------------
(* The switch.  A look at the source comes before it is set.               *)

Switches == Checks \cup Enables

AskHealth(c) ==
    /\ "switch" \in faults /\ at[c] = "idle" /\ Goes(c, "looks")
    /\ UNCHANGED <<source, now, cache, lock, app, got, runs, replies, narration>>

Health(s) == CASE s.status = "fresh" -> "ready" [] s.status = "stale" -> "stale"
               [] OTHER -> "unavailable"

RecordHealth(c) ==
    /\ at[c] = "got"
    /\ \E fails \in Fallible :
          /\ Goes(c, IF fails THEN "done" ELSE "checked")
          /\ app' = IF fails THEN app ELSE [app EXCEPT !.status = Health(got[c])]
    /\ UNCHANGED <<source, now, cache, lock, got, runs, replies, narration>>

SetEnabled(c) ==
    /\ at[c] = "checked" /\ Goes(c, "done")
    /\ app' = [app EXCEPT !.enabled =
                 IF Health(got[c]) # "ready" THEN FALSE ELSE IF c \in Enables THEN TRUE ELSE @]
    /\ UNCHANGED <<source, now, cache, lock, got, runs, replies, narration>>

SwitchOff ==
    /\ "switch" \in faults /\ app.enabled /\ app' = [app EXCEPT !.enabled = FALSE]
    /\ UNCHANGED <<source, now, cache, lock, at, got, runs, replies, narration>>

(* The database stays; a message under way is processed again.             *)
Crash ==
    /\ "crash" \in faults /\ \E c \in Callers : at[c] \notin {"idle", "done"}
    /\ cache' = NoCache /\ lock' = {}
    /\ at' = [c \in Callers |-> IF c \in Messages /\ at[c] # "done" THEN "idle" ELSE "done"]
    /\ got' = [c \in Callers |-> Failed]
    /\ replies' = [m \in Messages |-> IF at[m] = "worded" THEN Silent ELSE replies[m]]
    /\ worded' = {} /\ pending' = {} /\ queue' = <<>> /\ job' = {}
    /\ UNCHANGED <<source, now, app, runs>>

Next ==
    \/ Tick \/ Drawn \/ TakeJob \/ FinishJob \/ SwitchOff \/ Crash
    \/ \E c \in Callers : Look(c) \/ TakeLock(c) \/ Fetch(c)
    \/ \E m \in Messages : \/ Route(m) \/ Claim(m) \/ UseWords(m) \/ UseRule(m) \/ ComposeOther(m)
                           \/ Enqueue(m) \/ FinishRun(m) \/ FailRun(m)
    \/ \E c \in Switches : AskHealth(c) \/ RecordHealth(c) \/ SetEnabled(c)

Spec == Init /\ [][Next]_vars

-----------------------------------------------------------------------------
(* A direction is given only of draws that are recent, up to the time the  *)
(* cache keeps what was fresh (PublicLotterySource::fetch_live).           *)
DirectionsAreRecent ==
    \A m \in Messages : replies[m].kind \in {"rule", "model"} =>
        replies[m].said - opened[Latest(replies[m].rows)] <= StaleAfter + Ttl

(* What the list of runs says of a message is what its group is told.      *)
RunsTellReplies ==
    \A m \in Messages :
        /\ runs[m] \notin {"none", "processing", "failed"} => runs[m] = FinalStatus(m)
        /\ at[m] \in {"queued", "done"} /\ replies[m].kind # "none" => runs[m] # "none"

(* Words being made are made by somebody: no key blocks its own renewal.   *)
WordsAreUnderWay ==
    pending = {NarrationKey(rows) : rows \in job \cup {queue[i] : i \in DOMAIN queue}}

(* The answers of the prediction app: process_business_app with the source *)
(* of the draws and the loop that has the model word them.                 *)
PredictionsAreHonest == DirectionsAreRecent /\ RunsTellReplies /\ WordsAreUnderWay

(* An app that is switched on was found ready when it was last looked at   *)
(* (docs/FEATURE-CATALOG.md: it stays off while its source fails).         *)
EnabledMeansReady ==
    (\A c \in Switches : at[c] # "checked") /\ app.enabled => app.status = "ready"
=============================================================================
