----------------------------- MODULE Moderation -----------------------------
(***************************************************************************)
(* Rules of a group and what becomes of one author's messages under them.  *)
(* The worker of the group reads a message with its rules, decides by the  *)
(* machine rules and queues their actions one after the other; the AI      *)
(* rules, as they were read, are judged later by a model and decide for    *)
(* themselves.  A change of the author's name in the group is an event the *)
(* machine rules decide on too.                                            *)
(***************************************************************************)
EXTENDS Integers, Sequences, FiniteSets, SequencesExt

CONSTANTS
    Rules,        \* their ids
    Tables,       \* what the owner may make of them, functions of Rules
    Messages,
    Window,       \* window_seconds of the rules that count
    RecentLimit,  \* messages read with a message
    MaxEdits,     \* bound on edits of the rules and switches
    Horizon,      \* bound on the clock
    FaultSets     \* what may go wrong, one of these sets

AllFaults == {"crash",     \* the program ends and starts again
              "model",     \* the model fails
              "refused",   \* the account has no rank in the group, or a job fails
              "calibration",
              "late",      \* messages are dealt with long after they were sent
              "edit",      \* the owner changes the rules
              "switches"}  \* the owner switches parts off and on

ActionKinds == {"recall", "remove", "mute", "blacklist", "notify", "reply"}

VARIABLES
    faults, now, edits,
    table,        \* the rules: on, and in force in this group, when `on'
    group,        \* switches of the group, and of the automation
    allowed,      \* what AI rules may do here
    author,       \* black-listed? how often renamed?
    kind, hits,   \* of each message: what it is, rules whose pattern it has
    sent, stored, \* its time; messages in the order of their storing
    at, plan,     \* where it is, actions still to be queued
    deferred,     \* AI rules and their messages waiting for the model
    rows,         \* effects queued
    refused,      \* actions recorded as failed
    made          \* decisions made, of each message (history)

input == <<kind, hits, sent, stored>>
owner == <<edits, table, group, allowed, author>>
vars == <<faults, now, edits, table, group, allowed, author, kind, hits, sent, stored,
          at, plan, deferred, rows, refused, made>>

-----------------------------------------------------------------------------
(* The decision.                                                           *)

Recent == {stored[i] : i \in {j \in DOMAIN stored : j > Len(stored) - RecentLimit}}
Pictures == Cardinality({m \in Recent : kind[m] = "image" /\ sent[m] >= now - Window})

Matches(t, r, m) ==
    CASE t[r].matcher = "pattern" -> r \in hits[m]
      [] t[r].matcher = "image" -> kind[m] = "image" /\ Pictures >= t[r].times
      [] t[r].matcher = "blacklist" -> author.blacklisted
      [] t[r].matcher = "rename" -> kind[m] = "rename" /\ author.renames >= t[r].times
      [] OTHER -> FALSE

Considered(t, ai) == {r \in Rules : t[r].on /\ t[r].ai = ai}
Matched(t, rs, m) == {r \in rs : ~t[r].spares /\ Matches(t, r, m)}

(* Intents are a set: who asks first decides nothing but the wording.      *)
IntentsOf(t, r) ==
    {[kind |-> t[r].does[i].kind, seconds |-> t[r].does[i].seconds, rule |-> r, level |-> t[r].level] :
        i \in DOMAIN t[r].does}

Asking(intents, k) == {i \in intents : i.kind = k}
AtTop(intents) == {i \in intents : \A j \in intents : j.level <= i.level}
Undisputed(intents) ==
    {i \in intents :
        /\ i.kind \in {"mute", "reply"} => Asking(intents, "remove") = {}
        /\ i.kind = "reply" => Asking(intents, "mute") = {}}

(* Slip: the first mute is kept.                                           *)
JoinKeepsFirst(intents, k) ==
    LET first == CHOOSE i \in intents : \A j \in intents : i.rule <= j.rule
    IN  [kind |-> k, by |-> {i.rule : i \in intents}, level |-> first.level,
         seconds |-> IF k = "mute" THEN first.seconds ELSE 0]

(* The intents of one kind become one, of the longest mute.                *)
Join(intents, k) ==
    [kind |-> k, by |-> {i.rule : i \in intents},
     level |-> CHOOSE l \in {i.level : i \in intents} : TRUE,
     seconds |-> IF k = "mute" THEN Max({i.seconds : i \in intents}) ELSE 0]

MergeActionIntents(intents) ==
    LET due == Undisputed(AtTop(intents))
    IN  {Join(Asking(due, k), k) : k \in {i.kind : i \in due}}

(* Rules that only observe are matched and ask for nothing.                *)
Evaluate(t, matched) ==
    MergeActionIntents(UNION {IntentsOf(t, r) : r \in {s \in matched : t[s].auto}})

Rank(k) == CASE k = "recall" -> 0 [] k = "remove" -> 1 [] k = "mute" -> 2
             [] k = "blacklist" -> 3 [] k = "notify" -> 4 [] OTHER -> 5

-----------------------------------------------------------------------------

(* A rule is saved only if it is the model that judges the semantic ones,  *)
(* and these alone, and if it mutes for some time.                         *)
RuleType ==
    {r \in [ai : BOOLEAN, on : BOOLEAN, auto : BOOLEAN, level : 1..3, spares : BOOLEAN,
            matcher : {"pattern", "image", "blacklist", "rename", "semantic"}, times : Nat \ {0},
            does : Seq([kind : ActionKinds, seconds : Nat])] :
        /\ r.ai <=> r.matcher = "semantic"
        /\ \A i \in DOMAIN r.does : r.does[i].kind = "mute" => r.does[i].seconds > 0}

AllOn == [enabled |-> TRUE, machine |-> TRUE, ai |-> TRUE, takeover |-> FALSE, paused |-> FALSE]

TypeOK ==
    /\ faults \in FaultSets /\ faults \subseteq AllFaults
    /\ now \in 0..Horizon /\ edits \in 0..MaxEdits
    /\ table \in Tables /\ \A r \in Rules : table[r] \in RuleType
    /\ DOMAIN group = DOMAIN AllOn /\ \A s \in DOMAIN AllOn : group[s] \in BOOLEAN
    /\ allowed \subseteq {"recall", "mute", "remove", "reply"}
    /\ author \in [blacklisted : BOOLEAN, renames : 0..Cardinality(Messages)]
    /\ kind \in [Messages -> {"none", "text", "image", "rename"}]
    /\ hits \in [Messages -> SUBSET Rules] /\ sent \in [Messages -> 0..Horizon]
    /\ stored \in Seq(Messages) /\ IsInjective(stored)
    /\ at \in [Messages -> {"absent", "stored", "counted", "acting", "done"}]
    /\ \A m \in Messages : plan[m] # {} => at[m] \in {"acting", "done"}
    /\ \A d \in deferred : d.message \in Messages /\ d.rules \subseteq Rules
    /\ \A r \in rows : r.message \in Messages /\ r.kind \in ActionKinds

Init ==
    /\ faults \in FaultSets /\ now = 0 /\ edits = 0
    /\ table \in Tables /\ group = AllOn
    /\ allowed = {"recall", "mute", "remove", "reply"}
    /\ author \in [blacklisted : BOOLEAN, renames : {0}]
    /\ kind = [m \in Messages |-> "none"] /\ hits = [m \in Messages |-> {}]
    /\ sent = [m \in Messages |-> 0] /\ stored = <<>>
    /\ at = [m \in Messages |-> "absent"] /\ plan = [m \in Messages |-> {}]
    /\ deferred = {} /\ rows = {} /\ refused = {} /\ made = [m \in Messages |-> {}]

Goes(m, p) == at' = [at EXCEPT ![m] = p]

-----------------------------------------------------------------------------
(* The owner.                                                              *)

Edits == edits < MaxEdits /\ edits' = edits + 1

SaveRule ==
    /\ "edit" \in faults /\ Edits /\ table' \in Tables \ {table}
    /\ UNCHANGED <<faults, now, group, allowed, author, input, at, plan, deferred, rows, refused, made>>

SetGroupRuleFeatures ==
    /\ "switches" \in faults /\ Edits
    /\ \/ \E s \in DOMAIN group : group' = [group EXCEPT ![s] = ~@] /\ UNCHANGED allowed
       \/ allowed' \in SUBSET {"mute", "remove"} /\ UNCHANGED group
    /\ UNCHANGED <<faults, now, table, author, input, at, plan, deferred, rows, refused, made>>

Tick ==
    /\ "late" \in faults /\ now < Horizon /\ now' = now + 1
    /\ UNCHANGED <<faults, owner, input, at, plan, deferred, rows, refused, made>>

-----------------------------------------------------------------------------
(* Messages and changes of name.                                           *)

Store(m) ==
    /\ at[m] = "absent" /\ Goes(m, "stored")
    /\ sent' = [sent EXCEPT ![m] = now] /\ stored' = Append(stored, m)
    /\ \/ kind' = [kind EXCEPT ![m] = "image"] /\ UNCHANGED hits
       \/ /\ kind' = [kind EXCEPT ![m] = "text"]
          /\ \E rs \in SUBSET {r \in Rules : table[r].matcher = "pattern"} : hits' = [hits EXCEPT ![m] = rs]
    /\ UNCHANGED <<faults, now, owner, plan, deferred, rows, refused, made>>

(* The count is written, then the rules are asked: a crash lies between.   *)
CountRename(m) ==
    /\ at[m] = "absent" /\ Goes(m, "counted")
    /\ \A n \in Messages : kind[n] = "rename" => at[n] = "done"
    /\ kind' = [kind EXCEPT ![m] = "rename"]
    /\ author' = [author EXCEPT !.renames = @ + 1]
    /\ UNCHANGED <<faults, now, edits, table, group, allowed, hits, sent, stored,
                   plan, deferred, rows, refused, made>>

(* execute_rule_actions is left when nothing is automatic or a calibration *)
(* is on.                                                                  *)
Calibrating == IF "calibration" \in faults THEN BOOLEAN ELSE {FALSE}

Decides(m, source, t, matched, intents) ==
    \E calibrating \in Calibrating :
        /\ plan' = [plan EXCEPT ![m] = @ \cup IF calibrating THEN {} ELSE intents]
        /\ made' = [made EXCEPT ![m] = @ \cup {[source |-> source, table |-> t, matched |-> matched,
                                                asked |-> ~calibrating]}]

(* One at a time: a group has one worker.                                  *)
Process(m) ==
    /\ at[m] = "stored" /\ (\A n \in Messages : at[n] # "acting" \/ kind[n] = "rename") /\ Goes(m, "acting")
    /\ \/ /\ group.machine /\ ~group.paused
          /\ LET matched == Matched(table, Considered(table, FALSE), m)
             IN  Decides(m, "machine", table, matched, Evaluate(table, matched))
       \/ (~group.machine \/ group.paused) /\ UNCHANGED <<plan, made>>
    /\ deferred' = IF /\ group.ai /\ group.enabled /\ ~group.takeover /\ ~group.paused
                      /\ kind[m] = "text" /\ Considered(table, TRUE) # {}
                      THEN deferred \cup {[message |-> m, rules |-> Considered(table, TRUE), table |-> table]}
                      ELSE deferred
    /\ UNCHANGED <<faults, now, owner, input, rows, refused>>

(* There is no message to recall.                                          *)
NoRecall(intents) == {i \in intents : i.kind # "recall"}

ProcessRename(m) ==
    /\ at[m] = "counted" /\ Goes(m, "acting")
    /\ \/ /\ group.enabled /\ group.machine
          /\ LET rs == {r \in Considered(table, FALSE) : table[r].matcher = "rename"}
                 matched == Matched(table, rs, m)
             IN  Decides(m, "machine", table, matched, NoRecall(Evaluate(table, matched)))
       \/ ~(group.enabled /\ group.machine) /\ UNCHANGED <<plan, made>>
    /\ UNCHANGED <<faults, now, owner, input, deferred, rows, refused>>

-----------------------------------------------------------------------------
(* The model's judgement of one message under all its AI rules.            *)

Permits(k) == CASE k = "recall" -> "recall" \in allowed [] k = "mute" -> "mute" \in allowed
                [] k \in {"remove", "blacklist"} -> "remove" \in allowed
                [] k = "notify" -> "reply" \in allowed [] OTHER -> FALSE
FilterAiRuleIntents(intents) == {i \in intents : Permits(i.kind)}

Judge(d) ==
    /\ d \in deferred /\ at[d.message] = "done" /\ plan[d.message] = {}
    /\ deferred' = deferred \ {d}
    /\ \/ \E scored \in SUBSET d.rules :
             LET matched == {r \in scored : ~d.table[r].spares}
             IN  Decides(d.message, "ai", d.table, matched,
                         FilterAiRuleIntents(Evaluate(d.table, matched)))
       \/ "model" \in faults /\ UNCHANGED <<plan, made>>
    /\ UNCHANGED <<faults, now, owner, input, at, rows, refused>>

-----------------------------------------------------------------------------
(* The next action of a plan.                                              *)

Row(m, i) == [message |-> m, kind |-> i.kind, seconds |-> i.seconds, by |-> i.by, level |-> i.level]
Queued(m, k) == \E r \in rows : r.message = m /\ r.kind = k

(* The dedupe key is made of the message and the kind of action.           *)
EnqueueEffect(m, i) ==
    /\ rows' = IF Queued(m, i.kind) THEN rows ELSE rows \cup {Row(m, i)}
    /\ UNCHANGED refused

RecordFailure(m, i) == refused' = refused \cup {<<m, i.kind>>} /\ UNCHANGED rows

ExecuteRuleAction(m) ==
    /\ \E i \in plan[m] :
          /\ \A j \in plan[m] : Rank(i.kind) <= Rank(j.kind)
          /\ EnqueueEffect(m, i) \/ ("refused" \in faults /\ RecordFailure(m, i))
          /\ plan' = [plan EXCEPT ![m] = @ \ {i}]
    /\ UNCHANGED <<faults, now, owner, input, at, deferred, made>>

Finish(m) ==
    /\ at[m] = "acting" /\ plan[m] = {} /\ Goes(m, "done")
    /\ UNCHANGED <<faults, now, owner, input, plan, deferred, rows, refused, made>>

(* A message is processed again, by the rules of then.  A name already     *)
(* counted is not counted again, nor asked about; AI rules are not judged. *)
Crash ==
    /\ "crash" \in faults /\ \E m \in Messages : at[m] \in {"counted", "acting"}
    /\ at' = [m \in Messages |-> CASE at[m] = "counted" -> "done"
                                   [] at[m] = "acting" -> IF kind[m] = "rename" THEN "done" ELSE "stored"
                                   [] OTHER -> at[m]]
    /\ plan' = [m \in Messages |-> {}] /\ deferred' = {}
    /\ UNCHANGED <<faults, now, owner, input, rows, refused, made>>

Next ==
    \/ SaveRule \/ SetGroupRuleFeatures \/ Tick \/ Crash
    \/ \E m \in Messages : \/ Store(m) \/ CountRename(m) \/ Process(m) \/ ProcessRename(m)
                           \/ ExecuteRuleAction(m) \/ Finish(m)
    \/ \E d \in deferred : Judge(d)

Spec == Init /\ [][Next]_vars

-----------------------------------------------------------------------------
(* What a decision asks for, by its rules: those that act by themselves,   *)
(* ask for something and have the highest level; a removal makes a mute    *)
(* and a reply needless, a mute a reply.                                   *)

Deciding(e) ==
    LET automatic == {r \in e.matched : e.table[r].auto /\ DOMAIN e.table[r].does # {}}
    IN  {r \in automatic : \A s \in automatic : e.table[s].level <= e.table[r].level}
Demands(e, r, k) == \E i \in DOMAIN e.table[r].does : e.table[r].does[i].kind = k
Demanding(e, k) == {r \in Deciding(e) : Demands(e, r, k)}
Due(e, k) ==
    /\ Demanding(e, k) # {}
    /\ k \in {"mute", "reply"} => Demanding(e, "remove") = {}
    /\ k = "reply" => Demanding(e, "mute") = {}
Longest(e, k) ==
    Max(UNION {{e.table[r].does[i].seconds :
                   i \in {j \in DOMAIN e.table[r].does : e.table[r].does[j].kind = k}} :
               r \in Demanding(e, k)})

(* Every action that is queued is due by a decision made of its message    *)
(* and names the rules that decided it; no rule acts that observes, spares *)
(* the author or is off (merge_action_intents).                            *)
ActionsAreDue ==
    \A r \in rows : \E e \in made[r.message] :
        /\ e.asked /\ Due(e, r.kind) /\ r.by = Demanding(e, r.kind)
        /\ r.kind = "mute" => r.seconds = Longest(e, "mute")
        /\ \A id \in r.by : e.table[id].on /\ ~e.table[id].spares

(* What was due of a message that is dealt with was queued or recorded as  *)
(* failed, unless a crash came between.                                    *)
DueActionsAreTaken ==
    "crash" \notin faults =>
        \A m \in Messages : at[m] = "done" /\ plan[m] = {} =>
            \A e \in made[m], k \in ActionKinds :
                /\ e.asked /\ e.source = "machine" /\ Due(e, k)
                /\ ~(k = "recall" /\ kind[m] = "rename")
                => Queued(m, k) \/ <<m, k>> \in refused

(* Rules decide as they say (moderation::evaluate, execute_rule_actions).  *)
RulesDecideRightly == ActionsAreDue /\ DueActionsAreTaken

(* A message is acted upon by the rules of one level alone                 *)
(* (docs/ENGINEERING-STANDARDS.md, docs/DH使用手册.md).                        *)
OneLevelActs ==
    "crash" \notin faults => \A r, s \in rows : r.message = s.message => r.level = s.level
=============================================================================
