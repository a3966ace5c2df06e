# TLA+ models of DH BOT

This directory holds the formal model of DH BOT 3.0: TLA+ modules, the TLC
configurations that check them and proofs for TLAPS. `PROJECT.json` is the
machine-readable index: components, runs, mutants, the source lines every
definition stands for, findings, hazards and theorems.

    tlc -workers 2 -config EffectOutbox_safety.cfg MCEffectOutbox.tla
    tlapm EffectOutboxProofs.tla

Paths below are relative to `src/tauri3/src-tauri/src/` unless they start
otherwise.

## 1. The system

DH BOT listens to the group chats of an account, stores what it hears in
SQLite, evaluates rules, AI and schedules, and answers with side effects
(messages, recalls, mutes, renames, removals). It runs as a Windows desktop
program (Tauri) or behind a web host (`src/crates/dh-server`) that reuses the
same business code with a pure Rust protocol client.

| Part | State it keeps | Operations | What makes it correct |
|---|---|---|---|
| Message intake (`runtime/mod.rs`, `gateway.rs`, `database.rs`) | queue inside the chat client's page, tables `gateway_inbox` and `messages`, one worker and bounded channel per group | hear, read a batch, store, acknowledge at the source, commit, retry scan, process, restart | nothing acknowledged is lost, nothing is processed before it is acknowledged, every message comes to an end |
| Effect outbox and dispatcher (`runtime/mod.rs`, `queue_kernel.rs`, `repository.rs`, `database.rs`) | table `effect_outbox`, actions and audit records, lane permits, order-key locks, the write permit | enqueue, claim, chain, call, archive, follow up, retry, exit, recover | at most one execution of an uncertain write, honest outcomes, exclusion, progress |
| Member events and roster (`runtime/roster.rs`, `database.rs`) | members, presence, violation counters, expected renames | apply events, compare full lists, count, restore | absence only from a complete list, only renames by outsiders count, the roster comes right |
| Gateway (`gateway.rs`) | session identity and epoch, group and member caches, single-flight requests, request slots, page socket, capability table | diagnose, read, write and read back, probe | no cache of an old session, callers come back, receipts are true, a capability is proven before it is used |
| Activities (`activities.rs`, `runtime/activity.rs`, `repository.rs`) | plans with their next moment, runs with unique keys | save, delete, publish at once, generate, claim, prepare, finish | no moment passed over, one effect per run, honest outcomes |
| Group schedules, task reminders (`scheduler.rs`, `repository.rs`) | plans, runs | evaluate, claim, finish | the group follows its plan, a boundary acts once |
| AI (`ai.rs`, `ai_pipeline.rs`, `runtime/mod.rs`, `runtime/summary.rs`) | deferred jobs in memory, AI and summary runs, connections, excerpt and answer caches, cooling | claim, call, fall back, finish | an action happens once, accepted mentions are answered, an answer fits its question, one summary a day |
| Card names (`cardnames.rs`, `runtime/card.rs`) | `card_rename_jobs`, expected renames | enqueue, claim, rename, welcome | a locked name was worn, one welcome per member |
| Moderation (`moderation.rs`, `runtime/mod.rs`) | rules, recent events, violation counters | evaluate, merge, queue | decisions follow the rules' order and thresholds |
| Business apps (`prediction.rs`, `runtime/mod.rs`) | draw cache, app row, runs, narrations | look, answer, narrate, switch | nobody is told a draw that is not the latest known |
| Database (`database.rs`) | one thread, FIFO of 256 jobs; the file, its snapshots | execute, shut down; check, snapshot, migrate, recover | accepted jobs run, none after the end; a start keeps what is stored |
| Runtime work (`runtime_work.rs`) | record of work, pinned item, snapshot on order | start, progress, finish, emit | the page catches up |
| Calibration (`calibration.rs`, developer builds) | recorder, permits, baselines | begin, write, read, finalise, export | an export tells what was restored |
| Start script of the client (`platform.rs`) | script, backup, manifest | patch, restore | the original is kept |
| Web host (`src/crates/dh-server`, `src/crates/dh-protocol`) | login epochs, vault file, socket, ledger, group and member caches | log in, renew, log out, receive, send, manage groups | logins are kept apart, no message is skipped, a write is permitted by its own roster |

The parts interact through the tables (the intake writes `messages`, a worker
turns a message into rows of `effect_outbox`, the dispatcher turns rows into
calls and tells tasks, runs and card jobs about their outcome), through
channels (one per group), and through the gateway's session, whose epoch
aborts workers when the account or the listener changes.

Hard behaviours: two steps that cannot be atomic (call and archive; source
acknowledgement and commit), detached tasks that outlive the loop that started
them, an exit with a deadline, the page that may reload at any moment, and an
account that may change between any two steps. `PROJECT.json` lists the
hazards at their lines.

## 2. Modules

| Module | Role |
|---|---|
| `EffectOutbox` | the outbox, the dispatcher loop with its chain, the dispatch tasks, exit, crash and recovery, calibration |
| `EffectDelivery` | abstract: what the outbox promises a producer about one intent |
| `EffectClient` | the outbox as a producer of planned work sees it, refining `EffectDelivery` |
| `ActivityRuns` | planned publications and publications at once of an activity, on top of `EffectClient` |
| `GroupSchedules` | the plan of a group, its runs and the group's mute |
| `UniqueRuns`, `DailySummaries` | the run tables with one row per key; the daily summaries on top of them |
| `MemberNames` | one member: events, roster synchronisation, violations, locked names, rename and welcome jobs |
| `AiReplies` | from a stored message to the queued answer, apology or action |
| `AiProviders` | connections, provider pool, routes, excerpts and answers kept |
| `Moderation` | machine and AI rules on the messages and renames of one author |
| `Predictions` | the prediction app: look, text, run, reply, narration, health, switch |
| `GatewayInbox` | the page's queue, the connection loop, the tables, the workers |
| `GatewayWrites` | every write to a group with its check, its second way and what it reads back |
| `MemberReads` | the shared read of a group's members |
| `PageRequests` | the request gate and the socket to the client's page |
| `Capabilities` | the table of capabilities, its probes, its rows and what the dispatcher does by it |
| `Calibration` | calibration sessions |
| `ClientScript` | the patch of the chat client's start script |
| `DatabaseJobs`, `DatabaseFile` | the database thread; the database file over its starts |
| `WorkTracker` | the record of work and its page |
| `ConversationLedger` | the web host's ledger, its socket and login epochs |
| `Credentials` | the credential coordinator of the protocol client |
| `LoginSession`, `WebLogin`, `WebWrites` | abstract: a login of the web edition and its epoch; the login handlers, refining it; the group management over HTTP, on top of it |
| `EffectOutboxProofs`, `GroupSchedulesProofs`, `ConversationLedgerProofs`, `GatewayInboxProofs` | the inductive invariant and the theorems of the module of that name, see section 5; `GroupSchedulesProofs` has those of `DailySummaries` too |
| `GroupWorkProofs` | the same for `MemberNames` and for the answers in `MCGroupWork`, whose constants stay open |
| `LocalServicesProofs`, `BotServicesProofs`, `ClientServicesProofs` | the same for the services of `MCLocalServices`, whose constants stay open: writes, credentials, page, web login, web writes, database file and intake (by way of `GatewayInboxProofs`, to cite its theorem); calibration, prediction app, start script and activity runs; capabilities, models and the rules of a group |
| `MC...` | instances for TLC |

Four runs follow several components that share no state: `MCPlannedWork`, `MCGroupWork`,
`MCHostServices` and `MCLocalServices`. The variable `focus` chooses one of them at the
start; the others rest in their initial states or, where only invariants are
checked, have no state at all (`0`).

Definitions whose comment begins with "Slip:" are variants a plausible bug
would produce; no specification uses them. They exist to show that each
property notices the bug named in `PROJECT.json`.

### 2.1 EffectOutbox

A row is a natural number, its SQLite id; `state`, `attempts` and `due` are its
columns. `record` is the outcome told by the newest action and audit record,
`tied` the outcome written to the task or run behind the effect. `phase` says
where the process is with a claimed row: the loop owns it from `claimed` to
`permit` (expiry, lane, order key, write permit, in the order of
`QueueKernel::run_chain`), a detached task from `dispatch` to `follow`. `ran`
counts executions by the remote since a producer or an operator last queued
the row; no code reads it.

- `ClaimEffects` is the transaction of `claim_effect_outbox`; the loop claims
  only when the previous batch has left the chain (`LoopIdle`), and works on
  the rows of a batch one after the other (`Head`).
- The gateway call is split at the remote's execution (`Execute`), so that a
  crash, an exit or a lost answer can fall on either side. Calls that read
  the group back after a write are the set `ReadBack`: only they can end in a
  retryable error after the execution.
- `Archive` is one transaction that does nothing when the row is no longer
  `processing`; `FollowUp` stands for the jobs after it.
- `ExitTimeout` is the branch of `request_graceful_exit` that aborts the
  workers; detached tasks live on. `Stop` is the end of the process, orderly or
  not. `Restart` is `Database::open` with `recover_processing_effects`.
- Not looked into: what an effect does, payloads, the rename bookkeeping around
  a rename call (planned with the card jobs), the work tracker.

`OperatorRetry` is the database operation `retry_effect_outbox`; at this commit
only tests call it. It is assumed not to fall between the archive and the
follow-ups of the same row.

### 2.2 GatewayInbox

`page` is `window.__dhBridgeMessages`: records with consecutive sequence
numbers per listener session, a set of remembered events and the `dropped`
flag. `inbox` and `msg` are the tables. `loop` holds the locals of
`connection_loop`: where it is, the session and acknowledgement of the last
batch, the batch and its acknowledgeable events, the claimed row. `jobs` and
`busy` are the channel and the worker of each group.

One action stands for one await point: `Connect`, `Scan` (pending messages, then
one row of the inbox), `TakeItem`, `AckItem`, `CommitItem`, `ReadBatch` or
`ReadFails`, `ApplyMembers`, `AckBatch`, `CommitBatch`, `StartJob`, `FinishJob`.
Crashes, reloads and everything heard may come between any two. `Faults` names
what may go wrong in a run. Events are members' events, messages, or ignorable
records (echoes, private chats, connection changes); a message may be `Late`:
its group is not in the list until `MapGroup`.

Abstractions: attempts are counted up to `MaxAttempts` only; a member event is
applied as a whole; the order in which `list_pending_messages` returns messages of
equal sequence is the order of their inbox rows; `account_id` is fixed.

### 2.3 EffectClient and ActivityRuns

A producer cares about the row of its dedupe key, not about lanes or loops.
`EffectClient` has one operator per step of the queue that changes that row
(`Insert`, `Start`, `Perform`, `Postpone`, `Report`, `Recover`) and `told`, the
outcome a dispatch task has archived and is about to tell the producer's table.
`EffectOutbox` and `EffectClient` both refine `EffectDelivery`; modules of
producers use the smaller one.

`ActivityRuns` has one activity, whose plan is a set of moments of a clock in
place of dates, weekdays and times of day. `activity` is its row (`next` is
`next_run_at`), `run` the table `activity_runs`, keyed as `scheduled_run_key`
does; `draft` and `asked` are commands between their read and their write, while
they ask for permissions. `place` and `batch` are the locals of
`activity_loop`: `Generate`, `ClaimRuns`, then `QueueRun` or `GiveUpRun` for every
claimed run, in any order, as `join_all` runs them. `FollowUp` is the last
part of `dispatch_effect_permitted`. `from` is a history variable.

Not looked into: what is published, AI wording (it falls back to the fixed
text and changes no state), groups that are added or removed, the limit
of twenty activities per round, activities that business apps import.

### 2.4 Planned work and members

`GroupSchedules`: one plan, a day of three steps; `open` and `close` are moments of the
day, a run is keyed by day and boundary as `schedule_runs` is. `BeginPass`,
`Decide`, `Claim`, `Enqueue` follow `schedule_loop`; the queue is `EffectClient` with the
mute of the group as its effect. Administrators edit and delete between any two steps.

`UniqueRuns` is `claim_unique_run` and `finish_unique_run` with their retry times.
`DailySummaries` adds the loop that claims, generates, saves and finishes, and
summaries asked for by hand.

`MemberNames`: one member, one or two names DH may give. Events of the member, the steps
of their handler, the roster synchronisation (list, compare, store, plan), the
card worker (claim, rename, read back, lock, welcome), expectations and
administrators' renames. A case bounds the events. Database jobs of the synchronisation
fail, too: a member whose row cannot be written is not among those it saw. Left out: suffixes and names of
other members, blacklisted members that come back, the rules a violation triggers.

### 2.5 Messages, rules and models

`AiReplies`: one group; one action per message stands for the list a model returns.
The message worker, the replier and the judge are three processes whose jobs
live in memory; permits, runs and `record_action` with its conflict clause are as in
the code. A crash empties the channel (`accepted`); what a message is offered again with is
the run the crash left. The fault "effects" lets the queue move meanwhile. The fate of texts and
suggested activities are left out.

`AiProviders`: one account and one question many ask; connections with their
order, cooling and routes, a revision of the documents as the code computes it, the
two caches. Whether an answer may be kept at all is a free choice; testing a
whole chain and adding connections are left out.

`Moderation`: one author, one group, four tables of rules. Matches and scores are free
choices; `Considered`, levels and merging are as in the code. What rules ask for is a set: the
order in which they are asked decides only the wording, and the order in which actions are
queued is that of their kinds (`Rank`). One edit at most; the clock moves only with the fault "late"; AI judgement comes after the
message is done. Records of evaluations and audits are left out.

`Predictions`: one game; a snapshot is the set of draws on a page, and what follows a
look takes no time. The arithmetic of a prediction and texts are data. A
request gate of two never binds with one game.

### 2.6 The gateway and the client

`GatewayWrites`: one member, one announcement; every field is "yes" or "no". A write
checks, executes at the remote, and is read back through caches that other
readers fill; changes by others are bounded. HTTP's account state does not tell
mutes. The run has calls in pairs.

`MemberReads`: one group; a caller asks once; its request is entered (`Call`) before the epoch
is read (`TakeEpoch`); the leader of a shared read can be aborted and the account can change. Reads pass the transport's gate one by one.

`PageRequests`: each caller asks once; answers already received can be read after
the page has reloaded. The ages of caches and the waits of 10 and 25 seconds are free
choices.

`Capabilities`: four kinds stand for eight; the fingerprint of a client is its version
with the parts that are ready. Two rounds of the probe loop, one dispatched text.

`Calibration` (feature `fixture`): two writes of one state and an automatic write; no
changes by others, receipts left out; no write is under way when a session begins.

`ClientScript`: crash, client update and restore; one program at a time in the passing
run. A backup is written whole, a manifest in one step.

### 2.7 The host

`DatabaseJobs` is the channel, gate and thread of `DatabaseExecutor` with cancellation and
shutdown. `DatabaseFile` follows the file over two starts: one group, rule (with
the members it exempts, in its column and in `rule_whitelist_members`), task and
activity, columns as "old" or "new", the queries of `prepare` as one step.

`WorkTracker`: reports of two callers, the bound on the record, the coalesced snapshots
and the page. The bound `Quick` says that a snapshot is sent within the 100 ms the
next one waits; the page is attached before work ends.

`ConversationLedger`: one account, messages as numbers; a packet set aside during an
exchange, heartbeats (their counts as failures), recalls with the mute exchange
standing in for others; cases bound what goes wrong together, and the case of recalls
has one message, so that the queue of set-aside packets does not overflow.

`Credentials`: refreshes that share one request, cancelled at any wait, with logins in
between. `LoginSession` says what a login, its epoch and its file promise. `WebLogin` is
`protocol_login.rs`: a tick is a minute (the window of attempts and of another text
message), waits of a reconnection are free choices, the session and password files
are numbers, a challenge that does not fit changes nothing, a vault write either
happens or fails before its rename, handlers can be cancelled at their waits.
`WebWrites` is the management of a group over HTTP: one group, one member, at most
three calls; the age of a cache is a free choice, one request under a lock is one step;
pages of members are read at once; a role changes once.

## 3. Runs

Bounds that apply everywhere: two attempts stand for the five of the code (one
that is retried and one that is the last), batches and queues of one to three
records for 100 and 5000, one or two permits for four. Two or three rows are
enough to have one in the loop, one in a task and one waiting; two listener
sessions are enough for a record of an old one. `ActivityRuns` has two moments (one
may be passed while the other is handled), one of them with a publication at
once, one run claimed per round instead of eight, a clock of three or four. The
other components have the least instance in which their hazards occur: two
callers, messages, requests or members' names, one of each thing that only one
process at a time touches, and sets of faults ("cases") that say what goes wrong
together. Deadlock is checked in the runs of `EffectOutbox`, `ActivityRuns` and
`GatewayInbox`; the others end when what their bounds allow has happened.

| Run | Shows |
|---|---|
| `EffectOutbox_safety` | `OwnerHoldsRow`, `ExecutedAtMostOnce`, `DispatchesWithinLimits` (order keys and calibrations) and `ImplementsDelivery` (the outbox refines `EffectDelivery`), with crashes, exits, failing database jobs and calibrations |
| `EffectOutbox_progress` | `SettledRowsAreRecorded`; `QueuedEffectsSettle` and `TiedHearsOutcome` under fairness, with a lane of one permit; the production build, without calibration and expiring rows |
| `ActivityRuns_plan` | `EveryMomentIsDecided` through re-planning and absences; `OpenRunsAreDecided` under fairness; `QueueKeepsToDelivery` |
| `PlannedWork` | `BoundariesActOnce` (a boundary acts once and as its run says), `OneSummaryPerDay`, `PlannedWorkIsDone` (a group follows its schedule, every group gets its summary or uses up its attempts) |
| `GroupWork` | `MemberRowIsTrue` (violations counted once, locked names were worn, a queued welcome is owed until it is said), `SnapshotsSpareNewcomers`, `RosterComesRight`; `AnswersAreTrue` (actions happen once, runs keep their word), `AcceptedMentionsAreAnswered` (also through crashes) |
| `HostServices` | `LedgerIsTrue`, `EveryMessageIsHandedOver` (web host); `HeardMessagesSettle` (intake, with a group that becomes known late, lost acknowledgements and crashes); `CallersComeBack` (member reads); `AcceptedJobsRun` (database thread); `PageCatchesUp` (record of work) |
| `LocalServices` | `RunAndEffectAgree`, `OutcomesAreTrue` (activities, with publications at once and every fault); `ReceiptsAreTrue` (gateway writes); `RefreshKeepsToItsLogin`; `OriginalIsKept` (start script); `AnswersFit` (models); `CapturesAreHonest` (calibration); `PredictionsAreHonest`; `RulesDecideRightly`; `RequestsAreServedTruly` (page requests); `StartsKeepWhatIsStored` (database file); `IntakeLosesNothing`; `CapabilitiesAreProven`; `LoginsAreKeptApart`, `ImplementsSession` (web login refines `LoginSession`); `WebWritesAreTrue` |

The other runs are expected to be violated. Each checks what a document, a
comment or a message of the program says, and its trace shows what the code
does instead (`PROJECT.json`, "findings"):

| Run | Trace |
|---|---|
| `EffectOutbox_repeats` | a read-back that times out makes a write be sent again |
| `GatewayInbox_withheld` | a withheld message heard again by a new session is acknowledged away |
| `MemberNames_manual` | a rename DH asked for itself is counted against the member by the roster synchronisation |
| `AiProviders_edited` | an edited document keeps its hash, and a question is answered from the old text |
| `Moderation_levels` | a machine rule acts although an AI rule of a higher level decides the same message later |

Further disagreements met while modelling, seen in the model or in the code but
not kept as runs:

- An effect that meets a running capability probe ends `unknown` although nothing was
  sent and the error text (`runtime/mod.rs:655`) announces a retry: the error is
  retryable but carries no gateway metadata (`CapabilityProbing`).
- In builds with the developer calibration, rows whose permit is refused, and in
  all builds rows that expire, are settled without action and audit records,
  where the flow chart of `docs/ARCHITECTURE.md` promises "状态 + 审计".
- A crash between source acknowledgement and local commit lets the next batch
  commit a higher sequence first ("不跳过更低序号的 ACK",
  `docs/TECHNICAL-DESIGN.md`); the retry scan closes the lower one later, so
  messages of one group may be processed out of order.
- A job that does not fit into a full channel is left to the scan and is
  overtaken by later messages; after a reload, `list_pending_messages` mixes the
  sequences of two sessions.
- A message that used up its inbox attempts while it waited for its group, and
  whose process ends just after the source acknowledgement, is never processed; and its
  row holds back the rows behind it in its session (`prior.state`, `database.rs:3613`), so
  that one of them whose acknowledgement was heard and not committed is not processed
  either. `HeardMessagesSettle` excepts the two (`HeldBack`).
- A second and later retry of a schedule run reuses the key `schedule:{run_key}`,
  so its insert is ignored.

Outbox and intake:

- A row that waits in its lane while the account changes is sent in the session of the
  new account (`runtime/mod.rs:617`; `PROTOCOL-CONTRACT.md:132`).
- A message stored but not acknowledged before the page reloads is never processed
  (`runtime/mod.rs:1636`; `WINDOWS-ACCEPTANCE.md:277`, `:279`).
- After one overflow of the page's queue every read ends in a reconnection
  (`runtime/mod.rs:1796`, `gateway.rs:4559`).
- A passing disconnection aborts the workers and leaves a claimed message
  `processing` until the next start (`runtime/mod.rs:1438`, comment at 1496).
- The number of waiters at the request gate is not given back when a waiting future is
  dropped (`gateway.rs:280-333`); a busy gate makes the health check say that NIM
  is not ready (`gateway.rs:540`).

Planned work and members:

- A crash between the claim of a schedule run and its effect strands the run
  (`docs/DH使用手册.md:137` promises a correction after a restart). An older close can
  be executed after a newer open (no order key); times edited back reuse spent
  keys; one group in two plans is not excluded.
- A scheduled summary overwrites one made by hand. A crash during the fifth attempt
  of a run leaves `retry` with five attempts, which nobody claims.
- An error of `finish_card_job` is ignored: the job stays `processing` and blocks its
  group's queue until the next start; a failed job blocks automatic restoration; the
  key `card-welcome:{id}` keeps a re-queued job from a second welcome; a crash
  between finish and welcome loses the welcome; a plan with another DH name
  counts as a violation and restores the old name.
- A member whose `upsert_member` fails at a synchronisation is passed over, left out of the
  ids that are present, and is marked absent although the list has it
  (`runtime/roster.rs:152`, `:272`), where `docs/DATABASE-SCHEMA.md:104` has absence only from
  a complete list. `RosterComesRight` therefore asks that database jobs do not fail.
- `card_queue_loop` writes no expectation before its rename. When two names were planned
  for a member one after the other, the rename of the second job counts as the member's
  own violation (`runtime/mod.rs:4303-4305`: only changes by outsiders count). Seen with
  two names, the fault "move", four events and four changes; the run has one name.
- Followers of an aborted leader of a shared member read hang, and the dead request
  stays until the account changes (`gateway.rs:2582-2656`). A stale roster can be
  put into the cache between its clearing and the next epoch.

Messages, rules and models:

- A reply and an apology are both sent when `session_identity` fails after the reply was
  queued (`runtime/mod.rs:3853`, `:3971`). `record_action` overwrites a succeeded
  action with "failed" (`repository.rs:1169`). A business run claimed by a
  process that ends stays `processing` and its message is never answered; nor is a
  mention whose message was `processed` already when the process ended with its job in
  memory. `AcceptedMentionsAreAnswered` speaks of the mentions offered since the last start,
  and excepts the first and runs whose attempts crashes have spent (`LeftBehind`).
- Intents of AI rules are merged before permissions are looked at, so that mute and
  removal together do nothing when only mute is permitted; a "reply" of an AI rule is
  never executed; AI rules captured with a message act after they were switched
  off; a crash between the violation counter and its rules loses their actions.
- An enabling call whose health check was good enables the app after a concurrent
  check has disabled it (`EnabledMeansReady` in `Predictions`).
- After a probe of the Responses route that fails otherwise, or is dropped, all later
  requests use Chat Completions; two deletions at once can delete the last
  connection; secrets are loaded, changed and saved without a lock.

Gateway, capabilities, calibration:

- An unmute read back while NIM's member pages fail is "verified" from an account state
  that does not tell mutes (`gateway.rs:4307-4320`); a lost answer to an added
  announcement is an error, and repeating it adds a second one.
- The probe loop overwrites a verification made by hand meanwhile; a failing read of
  the notice list overwrites the row; a mark can be made under the fingerprint of
  another client (`lib.rs:602-612`, see "Capabilities" in section 5); texts are given up while NIM is not ready
  (`PROTOCOL-CONTRACT.md:91`); announcements in a batch are published without asking
  for the capability (`commands/messaging.rs:163-200`).
- A new notice in a session has no baseline and is exported as restored
  (`gateway.rs:3493`, `calibration.rs:612`; `README-Developer.md:49`); a mute whose
  first state cannot be told gets its baseline from a later write.

Database file, start script, record of work:

- Edited times of a migrated activity come back at every start
  (`database.rs:2217-2221`); snapshots are taken only below version 8
  (`database.rs:2497`; `docs/DATABASE-SCHEMA.md:18`), and a new one is pruned at once
  when three of a higher version exist; default rules miss their type and
  level until the next start.
- A backup cut off by a crash is taken for whole (`platform.rs:1077`); two programs at
  once lose the manifest or garble the script; a restore after an update of the
  client puts the older script over the newer one.
- Without `Quick`, an older snapshot of the record of work can overwrite a newer one; an
  aborted worker leaves its item "running".

Web host:

- A full queue of set-aside packets loses one while the cursor moves past it
  (`nim_client.rs:255-262`; comment at `conversations.rs:259`: "A consumed packet must
  be replayed … Never advance the old socket's sync boundary after losing part of a
  batch"). A recall or a mute that meets the full queue ends unknown and, unlike
  `send_text` (`rust_gateway.rs:404`), keeps the socket, so the next `SyncDone` moves the
  cursor past the lost message. Seen with the fault "recall", three messages and
  `PendingLimit = 1`, by the first part of `LedgerIsTrue` without its condition; an undecodable packet
  reconnects the account every 200 ms; a message first stored as `needs_human` is not
  upgraded on replay.
- A page that hangs up, or a failing write, between forgetting an expired login and
  clearing its file leaves the file, and the next start restores the expired
  login (`protocol_login.rs:497-503`).
- A roster read before another write's invalidation can be cached after it
  (`rust_gateway.rs:314`), and a rename accepted but not carried out is then
  "verified". A mute asked under one login may be carried out by the next.

## 4. Fairness

`EffectOutbox`: weak fairness of the claim, of each row's loop and task steps and
of its retry time. The loop is a task that only sleeps a bounded time, every
gateway call has a timeout, tokio runs what is ready. Nothing is assumed of
restarts, logins, calibrations or operators; `QueuedEffectsSettle` therefore
speaks of executions in which the session eventually stays.

`GatewayInbox`: weak fairness of the loop's steps as a whole, of the workers, of
retry times and of the restart (the service or the user starts the program
again); strong fairness of the scan, which is skipped on most rounds but is due
every two seconds. The liveness properties assume that the process eventually
stays up and that the group list eventually knows the groups; reads and database jobs
succeed in those runs. Answers to acknowledgements may be lost: strong fairness of the
acknowledgement of a batch that is heard says only that not every one is.

`ActivityRuns`: weak fairness of the loop (a round every fifteen seconds, every
await returns) and of the restart. Nothing is assumed of the queue, the commands
or the session; `OpenRunsAreDecided` speaks of executions that stay online.
A run that was turned into an effect may stay `queued` for ever: the outcome is
told once, by jobs whose failure is ignored.

`GroupSchedules`, `DailySummaries`: weak fairness of the rounds, of the steps of a run, of
the clock and the restart; strong fairness of the report of the queue, which is only
possible while the process is up.

`MemberNames`: weak fairness of the handler, the synchronisation (begun every minute),
the card worker, of due jobs and of the queue's effects. `AiReplies`: weak
fairness of the two background workers; `AcceptedMentionsAreAnswered` speaks of
executions in which models fail, the account cannot be read and the process ends, not of
aborted workers and failing database jobs.

`ConversationLedger`: strong fairness of the receiver and of connecting, which failing
sockets interrupt but do not prevent for ever; weak fairness of exchanges, the
server's answers, the runtime's reading and the restart. `MemberReads`, `DatabaseJobs`,
`WorkTracker`: weak fairness of every task and timer: tokio runs what is ready and
timers ring.

## 5. Proofs

TLAPS proves the theorems below for every value of the constants that satisfies
their named assumptions: numbers are natural and bounds are not zero
(`BoundsAssumption`, `LimitAssumption`, `ClockAssumption`, `MomentAssumption`), a case
names known faults and stays within its bounds (`CasesAssumption`,
`FaultAssumption`), the names DH gives are not the mark for "none"
(`NamesAssumption`, `AccountsAssumption`), the calls made together are of the kinds there are
(`ProgramAssumption`), a calibration's writes give a state one of the two values it has
(`AimAssumption`), ages are numbers and a call asks for a prediction or is about the switch
(`DrawAssumption`), who probes is one of the loop and the dispatchers (`ProberAssumption`), and
the ids of connections are numbers (`ConnectionAssumption`). `GatewayInbox` and the other services
of `MCLocalServices` assume nothing of their constants. Each proof has an inductive invariant `IInv` (or one
named for its component), one lemma or step per action, and temporal steps by PTL at the
end. Some sets of faults are excluded by a hypothesis of the theorem or a condition in
the property; they are those where the code breaks its promise or where the property
does not apply, and each is named here.

| Property | Theorem | Of |
|---|---|---|
| `OwnerHoldsRow` | `OwnersHoldTheirRows` | `EffectOutboxProofs` |
| `ExecutedAtMostOnce` | `AtMostOnce` | |
| `DispatchesWithinLimits` | `CallsKeepWithinLimits` | |
| `ImplementsDelivery` | `QueueImplementsDelivery` | |
| `SettledRowsAreRecorded` | `RecordsAreTrue`, without calibration and expiring rows | |
| `RunAndEffectAgree`, `OutcomesAreTrue`, `EveryMomentIsDecided` | `RunsAndEffectsAgree`, `OutcomesAreTold`, `NoMomentIsPassedOver` | `BotServicesProofs` |
| `QueueKeepsToDelivery` | `QueueIsUsedAsPromised` | |
| `CapturesAreHonest` | `CapturesStayHonest`, where sessions can be told of what they stand on (`SessionsAreTold`) | |
| `PredictionsAreHonest` | `PredictionsStayHonest` | |
| `OriginalIsKept` | `OriginalStaysKept`, for one program at a time and backups not cut off (`ToolsWorkAlone`) | |
| `CapabilitiesAreProven` | `CapabilitiesStayProven`, where the client does not change while questions of its structure fail (`QuestionsAreAnswered`) | `ClientServicesProofs` |
| `AnswersFit` | `AnswersStayFit`, for documents saved with their hash (`EditsAreHashed`) | |
| `RulesDecideRightly` | `RulesStayRight` | |
| `BoundariesActOnce` | `OneActPerBoundary` | `GroupSchedulesProofs` |
| `OneSummaryPerDay` | `SummariesStaySingle` | |
| `LedgerIsTrue` | `LedgerTellsTheTruth` | `ConversationLedgerProofs` |
| `MemberRowIsTrue`, `SnapshotsSpareNewcomers` | `MemberRowTellsTheTruth`, `NewcomersAreSpared` | `GroupWorkProofs` |
| `AnswersAreTrue` | `AnswersTellTheTruth` | |
| `IntakeLosesNothing` | `NothingIsLost`, without old events heard again; `MessagesAreNotLost` for the run's instance | `GatewayInboxProofs`, `LocalServicesProofs` |
| `RefreshKeepsToItsLogin` | `RefreshesKeepToTheirLogin` | `LocalServicesProofs` |
| `RequestsAreServedTruly` | `RequestsGetTheirAnswers` | |
| `LoginsAreKeptApart`, `ImplementsSession` | `LoginsStayApart`, `LoginImplementsSession` | |
| `WebWritesAreTrue` | `WebWritesTellTheTruth` | |
| `StartsKeepWhatIsStored` | `StartsKeepTheStore` | |
| `ReceiptsAreTrue` | `ReceiptsTellTheTruth` | |

**EffectOutbox.** None of the properties is inductive alone. The invariant ties them
together: a claimed row has had its attempt counted; a row that may be claimed
again has not been executed since it was queued (unless it is read back); a task
between `dispatch` and its archive has executed the row at most as often as its
phase says; a result of `succeeded` comes from an execution. `CallsKeepWithinLimits`
adds that a row past its order key holds it. For the refinement every action is
shown to be a step of the delivery of its row and to leave the rows of others alone;
recovery moves all rows it touches by the same step of the abstract specification.
`RecordsAreTrue` carries the record of each settled row through the actions that
settle one. `TypeCorrect`, `SuccessIsTrue` and `LastAttemptIsLast` are proved on the
way.

**ActivityRuns.** `RunAndEffectAgree` and `OutcomesAreTrue` need each other and three
facts about who may still write a run: the loop holds runs in preparation only, an
outcome about to be told is the one the settled row has, and a restart takes no
batch away. For `EveryMomentIsDecided` the lemma `NextOccurrenceIsNext` (from the
well-foundedness of the natural numbers) shows that only the moment just handled lies
between the old and the new `next_run_at`; `RunsStayStep` that no step takes a run away;
and a draft starts at its own next moment, however old it is when it is written.

**GroupSchedules.** `TwoDecisionsAgree` is about the calendar alone: the last boundary
of a plan, over midnight and around the week, and the window a moment falls into say
the same, which is why `schedule_loop` and a plan's first evaluation do not fight. The
invariant for `OneActPerBoundary` says when a boundary's effect may be asked for again:
a run that may be claimed, or has been, has no effect that may still act, whatever an
edit, a deletion or a late outcome does in between.

**DailySummaries.** That nothing is written twice rests on two facts about the pass: a group it
has still to visit, or is asking about, has no summary of the loop, and the group in hand is in
the batch no more. A run succeeds only from the place behind the save (`Traces`).

**ConversationLedger.** The boundary is safe because of the order of packets: in the
set-aside packets and on the socket a new boundary is preceded by every message it
covers that is not in the ledger, recalled or in the receiver's hand
(`QueueIsWhole`). It holds on a socket that stays; one that has lost a packet is about
to be given up (`Losing`). Recalls are excepted, as in the property (section 3,
"Web host"). The sends part says where a text can be: at most one request under way,
no answer on the wire that contradicts the server.

**MemberNames.** That a violation is counted once needs a count of what may still be
counted: the events that tell of a foreign card and have not been spent
(`Open`), `row.count + Cardinality(Open) < nextId`. A handled event is spent as soon as
the row has its card or has had it, which makes a crash between count and removal
harmless. That no more is counted than outsiders changed is stated for one DH name and
without the synchronisation and administrators' renames: with them the code does count
its own renames (run `MemberNames_manual`, section 3). For the names that were worn the invariant
follows a job from the rename that was answered to the lock (`WornStands`); for the welcome it says that
who is about to queue one has a job that is marked, and that only an outcome of a message that was
sent takes the mark away (`OwedStands`).

**GatewayInbox.** The page's queue is ordered by its numbers; what is in hand lies
behind closed rows only (`ItemStands`); what may be acknowledged of a batch is stored,
and the batch holds everything of the queue up to its last record (`BatchStands`); what
waits for a worker is acknowledged (`MessagesStand`). `NothingIsLost` assumes that no old
event is heard again by a new session: with it the trace of `GatewayInbox_withheld`
exists. `MessagesPassWhole` needs no such assumption. Least elements come from the
well-foundedness of the natural numbers (`WFMin`), not from induction.

**The answers.** `GroupWorkProofs` says for every spot of the replier what it owes:
it holds the run, past `consider` the text is queued, at `failed` the apology is. Only the
replier finishes runs, no step loses a row of the queue, and the three workers use one
key per action, so that an action is executed at most once.

**Services.** A refresh that still has the revision it noted has the pair it noted;
a request and its answer bear the number of one caller, who has got as far as sending
it, and the gate counts the callers that wait; the login in use and that of the file
are not among the ended ones. For the refinement every handler is a step of
`LoginSession` or leaves its epochs alone.

**WebWrites.** What a call has seen of the group was read by the login that is in use while
the epoch is the one the call noted, so the check before the write makes the roster that
permitted it the writer's own. For the receipt the invariant says of every cache, and of
everything on its way to one, that it tells a call that reads back nothing which has not
come about since its write; only a card read back late is excepted, as in the property.

**DatabaseFile.** `migrate` runs at every start; what the administrator saved survives it because
a saved row fits the migration, which leaves such rows as they are (`ReshapedIs`), and because the
row of a file that has been migrated has the reminder's time and group already (`CarriedIs`,
`ActivityOK`). `BackupsOK` says that a snapshot is a file before its migration and that, unless an
older file is put back ("older", excepted in the property), all snapshots are of one version and the
newest is the last by its name, so that the three that are kept hold the one just made. "retime",
the administrator moving such an activity, is excepted from `EditsSurviveStarts` alone.

**GatewayWrites.** `Undisturbed` says that what a call asked for stands once it has been carried
out, until somebody else changes it; from that the second way to rename can only be reached when
the first was not carried out or no longer stands. `WriteTrue` carries what has stood since the
call was sent from the write to the receipt, one fact for each place a call may be at. What a
roster may say of the member (`RosterIs`) decides what a read-back may call verified; an unmute
read back without the pages of NIM is the exception the property names.

**Calibration.** What a session has touched has the baseline the session found, a state without a
baseline is as the session found it (`BaselinesStand`), and while it is read for the last time no
write runs (`ReadingIsFrozen`), so the export compares what there was with what there is.
`SessionsAreTold` names what the code cannot tell: a session that begins while a manual write runs
("early"), a new notice, which has no baseline, and a mute whose state cannot be read ("blind");
see section 3.

**Predictions.** The age of the draws is followed from the source through the cache to the call and
to what is said (`CacheIsRecent`, `GivenIsRecent`, `SaidIsRecent`); this is where the two ages add up
to `StaleAfter + Ttl`. A message under way has a run that is `processing`; every wording pending is
in the queue or with the loop, in one place only (`WordsStand`). No fault is excepted.

**Start script.** Each place a program may be at says which file it relies on (`ToolStands`): the
backup is whole before the manifest is written, the manifest names the version before the script
changes, and the new text is whole next to the script before it is moved. With two programs, or a
backup cut off by a crash, the original can be lost (section 3), so `ToolsWorkAlone` excludes the
two faults "together" and "torn".

**Capabilities.** What a table says of sending, muting and removing follows from the page it was probed
at, also in the copies the loop and the dispatchers hold (`TablesStand`), and a decision is made on
such a copy (`DecisionsStand`). That announcements are opened only under a fingerprint that was read
back needs what the probes know of the page (`ReceiptsStand`, `OneClient`, `LoopStands`). The proof
attempt showed where this fails: the loop keeps the announcement of the table before, a dispatcher
probes a new client meanwhile, and when questions of its structure fail the mark after a publication
(`lib.rs:602-612`) opens the announcement of the table of now, which has another fingerprint. Hence
`QuestionsAreAnswered`: a case with "change" has neither "read" nor "failed", and none has "hasty". The
run keeps to these cases.

**Models.** A connection has one content at a time of its writing. `ContentsFit` says so with a function
that gives the content for id and time, which every write extends and none changes (`WriteKeeps`), so
that two requests with the same revision have the same connections in their chains and an answer kept
under a revision was made by one of them. The lemma `ChainGoesThroughAll` shows that the chain
goes through exactly the connections enabled: their places are an injection into as many numbers,
hence a bijection. A hash stands for one text (`TextsStand`), except for documents edited in the page
("rewrite"), which keep the hash of the text before: that is the run `AiProviders_edited`. A probe
gives the route up for all others before it asks (`ProbesStand`).

**Moderation.** Three lemmas follow a decision from the rules to its actions: the intents of the
highest level are those of the deciding rules (`TopIsDeciding`), those of one kind come from the
rules that demand it and ask for the same times (`TopOfKind`), and the merged intents are what is
due, no more and no less (`EvaluateIsRight`). The invariant says that what is queued or still
planned is due by a decision recorded of its message, and, unless the program ends, that what is
due is queued, recorded or planned. The proof attempt corrected the property: a rule may ask for
nothing (`normalize_and_validate_rule` lets its list be empty), and as the code takes the highest level
among the intents, such a rule keeps no other from acting. `Deciding` passes over it now, and the run
has a table with one (`Silent`).

Only model-checked, and why:

- Liveness, under the fairness of section 4, and `ENABLED`: TLAPS does not treat them here. These are
  `QueuedEffectsSettle`, `TiedHearsOutcome`, `OpenRunsAreDecided`, `PlannedWorkIsDone`,
  `RosterComesRight`, `AcceptedMentionsAreAnswered`,
  `EveryMessageIsHandedOver`, `HeardMessagesSettle`, `CallersComeBack`, `AcceptedJobsRun` and
  `PageCatchesUp`.
- The runs that are expected to be violated.

## 6. Plan

Every safety invariant and action property of the passing runs is proved. What is left is more of
the database and the gateway's reads.

Not modelled, with the reason per component in `PROJECT.json`: the accounts of the
web host's administrators (plain rows behind one lock), task reminders (one timer
and one row), test modules and fixtures, wrappers that pass a call to the database
thread, data types, codecs and cryptography, the user interface, platform
integration, packaging, the content of AI answers.
