---------------------------- MODULE AiProviders ----------------------------
(***************************************************************************)
(* Questions to the models: the connections an operator keeps, the pool of *)
(* providers with its pauses after failures, the chain of at most two      *)
(* tries, the choice between the Responses and the Chat Completions route, *)
(* the executor in front, and the caches of knowledge and of answers       *)
(* (ai.rs, ai_pipeline.rs, runtime/mod.rs, commands/ai.rs).  One account   *)
(* and one question that many ask; what is answered is left out.           *)
(***************************************************************************)
EXTENDS Naturals, Sequences, FiniteSets, SequencesExt

CONSTANTS
    Endpoints,      \* ids of connections, in the order of their priority
    FaultSets,      \* sets of what may happen besides: "save", "delete", "test",
                    \* "edit", "rewrite", "age", "drop"
    Responses,      \* those set to the Responses route
    Requests,
    ConversationOf,
    Permits,        \* of the executor (4)
    Capacity,       \* of the cache of answers (512)
    MaxStamp,       \* bound on the changes of connections
    MaxDocs         \* bound on the changes of documents

VARIABLES
    faults,
    rows,           \* id -> [enabled, config, stamp], of the rows there are
    stamp,          \* the last time written
    removals,       \* deletions past their check
    docs,           \* the documents of the group: [text, hash]
    cooling,        \* providers that pause after a failure
    given,          \* responses_route_unavailable of each provider
    knowledge,      \* ai_knowledge_cache: <<key, text>>
    answers,        \* ai_reply_cache, the least recently used first
    request

store == <<rows, stamp, removals, docs>>
pool == <<cooling, given>>
caches == <<knowledge, answers>>
vars == <<faults, store, pool, caches, request>>

(* A provider is one per content of a connection (config_fingerprint).     *)
Provider(e, config) == <<e, config>>
Enabled == {e \in DOMAIN rows : rows[e].enabled}
AtPlace(n) == CHOOSE e \in Enabled : Cardinality({f \in Enabled : f <= e}) = n
Chain == [n \in 1..Cardinality(Enabled) |-> Provider(AtPlace(n), rows[AtPlace(n)].config)]
Revision == {<<e, rows[e].stamp>> : e \in Enabled}

NoAnswer == [text |-> 0, by |-> <<>>]
Idle == [at |-> "idle", chain |-> <<>>, revision |-> {}, docs |-> [text |-> 0, hash |-> 0], text |-> 0,
         next |-> 1, tried |-> 0, probes |-> FALSE, answer |-> NoAnswer]

Row(config, s) == [enabled |-> TRUE, config |-> config, stamp |-> s]

Init ==
    /\ faults \in FaultSets
    /\ rows = [e \in Endpoints |-> Row(0, 0)] /\ stamp = 0 /\ removals = {}
    /\ docs = [text |-> 0, hash |-> 0] /\ cooling = {} /\ given = {}
    /\ knowledge = {} /\ answers = <<>>
    /\ request = [r \in Requests |-> Idle]

-----------------------------------------------------------------------------
(* The operator's commands.                                                *)
Stamps == stamp < MaxStamp /\ stamp' = stamp + 1

WriteEndpoint(e, on) ==
    rows' = [rows EXCEPT ![e] = [enabled |-> on, config |-> stamp', stamp |-> stamp']]

SaveEndpoint(e) ==
    /\ "save" \in faults /\ e \in DOMAIN rows /\ Stamps
    /\ \E on \in BOOLEAN : WriteEndpoint(e, on)
    /\ UNCHANGED <<faults, removals, docs, pool, caches, request>>

(* The last connection is kept; the check and the deletion are two jobs.   *)
CheckDelete(e) ==
    /\ "delete" \in faults /\ Cardinality(DOMAIN rows) > 1 /\ e \in DOMAIN rows
    /\ removals' = removals \cup {e}
    /\ UNCHANGED <<faults, rows, stamp, docs, pool, caches, request>>

RemoveEndpoint(e) == rows' = [f \in DOMAIN rows \ {e} |-> rows[f]]

DeleteEndpoint(e) ==
    /\ e \in removals /\ removals' = removals \ {e} /\ RemoveEndpoint(e)
    /\ UNCHANGED <<faults, stamp, docs, pool, caches, request>>

(* A test asks the provider itself and writes its health, which is a       *)
(* change of the row; it may leave the Responses route given up.           *)
WriteHealth(e) == rows' = [rows EXCEPT ![e].stamp = stamp']

TestEndpoint(e) ==
    /\ "test" \in faults /\ e \in Enabled /\ Stamps /\ WriteHealth(e)
    /\ LET p == Provider(e, rows[e].config)
       IN given' \in {given, IF e \in Responses THEN given \cup {p} ELSE given}
    /\ UNCHANGED <<faults, removals, docs, cooling, caches, request>>

(* A document saved without a hash gets the one of its content; the page   *)
(* sends the hash of what it has opened along with the new content.        *)
HashOf(text) == text

SaveDocument ==
    /\ docs.text < MaxDocs
    /\ \/ "edit" \in faults /\ docs' = [text |-> docs.text + 1, hash |-> HashOf(docs.text + 1)]
       \/ "rewrite" \in faults /\ docs' = [docs EXCEPT !.text = @ + 1]
    /\ UNCHANGED <<faults, rows, stamp, removals, pool, caches, request>>

-----------------------------------------------------------------------------
(* process_ai: the connections are made anew if there are none, and listed. *)
EnsureEndpoints(r) ==
    /\ request[r].at = "idle"
    /\ IF DOMAIN rows = {} THEN stamp' = stamp + 1 /\ rows' = [e \in {1} |-> Row(0, stamp')]
       ELSE UNCHANGED <<rows, stamp>>
    /\ request' = [request EXCEPT ![r].at = "lists"]
    /\ UNCHANGED <<faults, removals, docs, pool, caches>>

ListEndpoints(r) ==
    /\ request[r].at = "lists"
    /\ request' = [request EXCEPT ![r] =
          IF Enabled = {} THEN [Idle EXCEPT !.at = "done"]
          ELSE [Idle EXCEPT !.at = "reads", !.chain = Chain, !.revision = Revision]]
    /\ UNCHANGED <<faults, store, pool, caches>>

(* Slip: the excerpts are kept by the question alone.                      *)
KnowledgeByQuestion(hash) == 0

KnowledgeKey(hash) == hash

(* The excerpts come from the cache or from the documents read.            *)
ReadDocuments(r) ==
    /\ request[r].at = "reads"
    /\ LET key == KnowledgeKey(docs.hash)
           known == {k \in knowledge : k[1] = key}
           text == IF known = {} THEN docs.text ELSE (CHOOSE k \in known : TRUE)[2]
       IN /\ knowledge' = knowledge \cup {<<key, text>>}
          /\ request' = [request EXCEPT ![r].at = "looks", ![r].docs = docs, ![r].text = text]
    /\ UNCHANGED <<faults, store, pool, answers>>

AnswerKey(r) == <<request[r].docs.hash, request[r].revision>>
Found(r) == {n \in DOMAIN answers : answers[n].key = AnswerKey(r)}
Without(key) == RemoveFirstMatch(answers, LAMBDA a : a.key = key)

(* Only questions that do not depend on the context use the answers kept.  *)
LookUp(r) ==
    /\ request[r].at = "looks"
    /\ \/ /\ Found(r) # {}
          /\ LET a == answers[CHOOSE n \in Found(r) : TRUE]
             IN /\ answers' = Append(Without(a.key), a)
                /\ request' = [request EXCEPT ![r].at = "done", ![r].answer = a.answer]
       \/ answers' = answers /\ request' = [request EXCEPT ![r].at = "lock"]
    /\ UNCHANGED <<faults, store, pool, knowledge>>

Working == {r \in Requests : request[r].at \in {"chain", "asks"}}

(* ModelExecutor: one question of a conversation at a time, then a permit. *)
TakeSession(r) ==
    /\ request[r].at = "lock"
    /\ \A q \in Requests \ {r} : ConversationOf[q] = ConversationOf[r] =>
          request[q].at \notin {"permit", "chain", "asks"}
    /\ request' = [request EXCEPT ![r].at = "permit"]
    /\ UNCHANGED <<faults, store, pool, caches>>

TakePermit(r) ==
    /\ request[r].at = "permit" /\ Cardinality(Working) < Permits
    /\ request' = [request EXCEPT ![r].at = "chain"]
    /\ UNCHANGED <<faults, store, pool, caches>>

-----------------------------------------------------------------------------
(* PooledProviderChain: a pause is kept to unless there is no choice.      *)
Left(r) ==
    LET c == request[r].chain
    IN {n \in request[r].next..Len(c) : c[n] \notin cooling \/ Len(c) = 1}

TryNext(r) ==
    /\ request[r].at = "chain" /\ request[r].tried < 2 /\ Left(r) # {}
    /\ LET n == CHOOSE k \in Left(r) : \A j \in Left(r) : k <= j
           p == request[r].chain[n]
           probes == p[1] \in Responses /\ p \notin given
       IN /\ given' = IF probes THEN given \cup {p} ELSE given
          /\ request' = [request EXCEPT ![r].at = "asks", ![r].next = n + 1,
                                        ![r].tried = @ + 1, ![r].probes = probes]
    /\ UNCHANGED <<faults, store, cooling, caches>>

(* The chain is at its end, or the time for all tries is over.             *)
GivesUp(r) ==
    /\ request[r].at = "chain"
    /\ request[r].tried >= 1 \/ Left(r) = {}
    /\ request' = [request EXCEPT ![r].at = "done"]
    /\ UNCHANGED <<faults, store, pool, caches>>

Asked(r) == request[r].chain[request[r].next - 1]

(* The Responses route answers with 404, 502, 503 or not within five       *)
(* seconds: the same try goes on with Chat Completions.                    *)
FallsBack(r) ==
    /\ request[r].at = "asks" /\ request[r].probes
    /\ request' = [request EXCEPT ![r].probes = FALSE]
    /\ UNCHANGED <<faults, store, pool, caches>>

Fails(r) ==
    /\ request[r].at = "asks"
    /\ cooling' = cooling \cup {Asked(r)}
    /\ request' = [request EXCEPT ![r].at = "chain", ![r].probes = FALSE]
    /\ UNCHANGED <<faults, store, given, caches>>

Kept(key, answer) ==
    LET more == Append(Without(key), [key |-> key, answer |-> answer])
    IN IF Len(more) > Capacity THEN Tail(more) ELSE more

(* Answers with actions or tasks are not kept.                             *)
Answers(r) ==
    /\ request[r].at = "asks"
    /\ cooling' = cooling \ {Asked(r)}
    /\ given' = IF request[r].probes THEN given \ {Asked(r)} ELSE given
    /\ LET answer == [text |-> request[r].text, by |-> Asked(r)]
       IN /\ request' = [request EXCEPT ![r].at = "done", ![r].answer = answer,
                                        ![r].probes = FALSE]
          /\ answers' \in {answers, Kept(AnswerKey(r), answer)}
    /\ UNCHANGED <<faults, store, knowledge>>

(* The 45 seconds of the executor are over, the worker is aborted or the   *)
(* program stops: the call is dropped where it is.                         *)
Dropped(r) ==
    /\ "drop" \in faults
    /\ request[r].at \in {"lock", "permit", "chain", "asks"}
    /\ request' = [request EXCEPT ![r].at = "done", ![r].probes = FALSE]
    /\ UNCHANGED <<faults, store, pool, caches>>

-----------------------------------------------------------------------------
PauseEnds ==
    /\ \E p \in cooling : cooling' = cooling \ {p}
    /\ UNCHANGED <<faults, store, given, caches, request>>

(* After a minute and after ten.                                           *)
KnowledgeAges ==
    /\ "age" \in faults
    /\ \E k \in knowledge : knowledge' = knowledge \ {k}
    /\ UNCHANGED <<faults, store, pool, answers, request>>

AnswerAges ==
    /\ "age" \in faults
    /\ \E n \in DOMAIN answers : answers' = Without(answers[n].key)
    /\ UNCHANGED <<faults, store, pool, knowledge, request>>

Command ==
    \/ SaveDocument
    \/ \E e \in Endpoints :
          SaveEndpoint(e) \/ CheckDelete(e) \/ DeleteEndpoint(e) \/ TestEndpoint(e)

Step(r) ==
    \/ EnsureEndpoints(r) \/ ListEndpoints(r) \/ ReadDocuments(r) \/ LookUp(r) \/ TakeSession(r) \/ TakePermit(r)
    \/ TryNext(r) \/ GivesUp(r) \/ FallsBack(r) \/ Fails(r) \/ Answers(r) \/ Dropped(r)

Next ==
    \/ Command
    \/ PauseEnds \/ KnowledgeAges \/ AnswerAges
    \/ \E r \in Requests : Step(r)

Spec == Init /\ [][Next]_vars

-----------------------------------------------------------------------------
(* Every answer, a kept one too, was made from the documents this request  *)
(* has read (the schema's documentation: an update of a document makes the *)
(* old caches lapse).                                                      *)
AnswersAreCurrent ==
    \A r \in Requests : request[r].answer # NoAnswer => request[r].answer.text = request[r].docs.text

(* And it was made by a connection the request has found enabled; only one *)
(* question at a time probes the Responses route of a provider (comment of *)
(* ConfiguredProvider's decide).                                           *)
AnswersFit ==
    /\ AnswersAreCurrent
    /\ \A r \in Requests : LET q == request[r] IN
          /\ q.answer # NoAnswer => q.answer.by \in Range(q.chain)
          /\ q.probes => \A s \in Requests \ {r} : ~(request[s].probes /\ Asked(s) = Asked(r))
=============================================================================
