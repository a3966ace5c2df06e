------------------------ MODULE LocalServicesProofs ------------------------
(***************************************************************************)
(* Proofs about the services of MCLocalServices, for all values of the     *)
(* constants that are left open there: the credentials, the requests to    *)
(* the chat client's page, the login of the web edition; and what          *)
(* GatewayInboxProofs proves of the intake, for the instance the run has.  *)
(***************************************************************************)
EXTENDS MCLocalServices, FiniteSetTheorems, TLAPS

mcVars == <<focus, vars, writesVars, secretsVars, scriptVars, modelsVars, captureVars,
            drawsVars, rulingVars, pageVars, storageVars, intakeVars, ableVars, webVars, postsVars>>

(* A step of the whole is a step of one service at most.                   *)
LEMMA Steps ==
  ASSUME [MCNext]_mcVars
  PROVE  /\ UNCHANGED focus
         /\ [Secrets!Next]_(Secrets!vars)
         /\ focus = "page" => [Page!Next]_(Page!vars)
         /\ [Intake!Next]_(Intake!vars)
         /\ [Web!Next]_(Web!vars)
         /\ focus = "writes" => [Writes!Next]_writesVars
         /\ focus = "posts" => [Posts!Next]_(Posts!vars)
         /\ focus = "storage" => [Storage!Next]_(Storage!vars)
  BY DEF MCNext, mcVars, secretsVars, Secrets!vars, pageVars, Page!vars, intakeVars, Intake!vars,
         webVars, Web!vars, postsVars, Posts!vars, Posts!sessionVars,
         storageVars, Storage!vars, writesVars, Writes!vars, Writes!observed

-----------------------------------------------------------------------------
(* The pair of secrets, and what a caller notes of it.                     *)
Secret == [business : Nat, nim : Nat]
Noted == [generation : Nat, revision : Nat, current : Secret]

(* A refresh that still has the revision it noted has the pair it noted.   *)
SecretsInv ==
    /\ cGeneration \in Nat /\ cRevision \in Nat /\ cCurrent \in Secret
    /\ cObserved \in [Refreshers -> Noted] /\ cBefore \in [Refreshers -> Noted]
    /\ cPlace \in [Refreshers -> {"idle", "observed", "asks", "done"}]
    /\ \A r \in Refreshers : cPlace[r] = "asks" =>
          /\ cBefore[r].revision <= cRevision
          /\ cBefore[r].revision = cRevision => cBefore[r].current = cCurrent

(* It holds at the start.                                                  *)
LEMMA SecretsStart == Secrets!Init => SecretsInv
  BY DEF Secrets!Init, SecretsInv, Secret, Noted, Secrets!LoggedOut, Secrets!NoSnapshot

(* Every step keeps it, and changes a secret within a login only by a      *)
(* result for the pair in force.                                           *)
LEMMA SecretsStep ==
  ASSUME SecretsInv, [Secrets!Next]_(Secrets!vars)
  PROVE  /\ SecretsInv'
         /\ cGeneration' = cGeneration /\ cCurrent' # cCurrent =>
              \E r \in Refreshers :
                 /\ cPlace[r] = "asks" /\ cBefore[r].current = cCurrent /\ cBefore[r].generation = cGeneration
                 /\ \A k \in Secrets!Kinds \ {KindOf[r]} : cCurrent'[k] = cCurrent[k]
  <1> USE DEF SecretsInv
  <1>1. CASE UNCHANGED Secrets!vars
    BY <1>1 DEF Secrets!vars
  <1>2. CASE Secrets!Login \/ Secrets!Logout
    <2>1. /\ cGeneration' = cGeneration + 1 /\ cRevision' = cRevision + 1 /\ cCurrent' \in Secret
          /\ UNCHANGED <<cPlace, cObserved, cBefore>>
      BY <1>2 DEF Secrets!Login, Secrets!Logout, Secrets!Change, Secrets!LoggedOut, Secret
    <2>2. \A r \in Refreshers : cBefore[r].revision \in Nat
      BY DEF Noted
    <2> QED
      BY <2>1, <2>2
  <1>3. ASSUME NEW r \in Refreshers, Secrets!Observe(r) PROVE SecretsInv' /\ UNCHANGED cCurrent
    <2>1. Secrets!Snapshot \in Noted
      BY DEF Secrets!Snapshot, Noted
    <2> QED
      BY <1>3, <2>1 DEF Secrets!Observe, Secrets!Goes
  <1>4. ASSUME NEW r \in Refreshers, Secrets!Begin(r) PROVE SecretsInv' /\ UNCHANGED cCurrent
    <2>1. Secrets!Snapshot \in Noted /\ Secrets!Snapshot.current = cCurrent /\ Secrets!Snapshot.revision = cRevision
      BY DEF Secrets!Snapshot, Noted
    <2> QED
      BY <1>4, <2>1 DEF Secrets!Begin, Secrets!Goes
  <1>5. ASSUME NEW r \in Refreshers, Secrets!ProviderFails(r) PROVE SecretsInv' /\ UNCHANGED cCurrent
    BY <1>5 DEF Secrets!ProviderFails, Secrets!Goes
  <1>6. ASSUME NEW r \in Refreshers, Secrets!End(r), ~Secrets!Current(r) PROVE SecretsInv' /\ UNCHANGED cCurrent
    BY <1>6 DEF Secrets!End, Secrets!Goes
  <1>7. ASSUME NEW r \in Refreshers, Secrets!End(r), Secrets!Current(r)
        PROVE  /\ SecretsInv'
               /\ cPlace[r] = "asks" /\ cBefore[r].current = cCurrent /\ cBefore[r].generation = cGeneration
               /\ \A k \in Secrets!Kinds \ {KindOf[r]} : cCurrent'[k] = cCurrent[k]
    <2>1. cCurrent' \in Secret
      BY <1>7 DEF Secrets!End, Secret
    <2>2. cBefore[r].current = cCurrent /\ cBefore[r].generation = cGeneration /\ cPlace[r] = "asks"
      BY <1>7 DEF Secrets!End, Secrets!Current
    <2>3. \A k \in Secrets!Kinds \ {KindOf[r]} : cCurrent'[k] = cCurrent[k]
      BY <1>7 DEF Secrets!End, Secrets!Kinds, Secret
    <2>4. cRevision' = cRevision + 1 /\ UNCHANGED <<cGeneration, cObserved, cBefore>>
          /\ cPlace' = [cPlace EXCEPT ![r] = "done"]
      BY <1>7 DEF Secrets!End, Secrets!Goes
    <2>5. \A s \in Refreshers : cBefore[s].revision \in Nat
      BY DEF Noted
    <2> QED
      BY <2>1, <2>2, <2>3, <2>4, <2>5
  <1> QED
    BY <1>1, <1>2, <1>3, <1>4, <1>5, <1>6, <1>7 DEF Secrets!Next

(* Within a login a secret is replaced only by one derived from the pair   *)
(* in force, the other stays and no logout is undone (credentials.rs),     *)
(* whatever the refreshes, the kinds and the number of logins.             *)
THEOREM RefreshesKeepToTheirLogin == MCSpec => RefreshKeepsToItsLogin
  <1>1. MCInit => SecretsInv
    BY SecretsStart DEF MCInit
  <1>2. SecretsInv /\ [MCNext]_mcVars => SecretsInv'
    BY Steps, SecretsStep
  <1>3. SecretsInv /\ [MCNext]_mcVars =>
          [cGeneration' = cGeneration /\ cCurrent' # cCurrent =>
              \E r \in Refreshers :
                 /\ cPlace[r] = "asks" /\ cBefore[r].current = cCurrent /\ cBefore[r].generation = cGeneration
                 /\ \A k \in Secrets!Kinds \ {KindOf[r]} : cCurrent'[k] = cCurrent[k]]_(Secrets!vars)
    BY Steps, SecretsStep
  <1> QED
    BY <1>1, <1>2, <1>3, PTL DEF MCSpec, mcVars, RefreshKeepsToItsLogin, Secrets!RefreshKeepsToItsLogin

-----------------------------------------------------------------------------
(* Where a caller may be once its request is sent, and before; those the   *)
(* gate counts.                                                            *)
Late == {"sent", "done", "failed", "dropped"}
Early == {"idle", "shown", "looked", "queued", "pause", "inside", "connect", "gone", "refused"}
Counted == {c \in Evaluations : qPlace[c] \in {"queued", "pause", "gone"}}

(* A request and its answer bear the number of the caller they belong to,  *)
(* which has got as far as sending it; the gate counts those who wait.     *)
PageInv ==
    /\ qPlace \in [Evaluations -> Early \cup Late]
    /\ qWire = [asked |-> qWire.asked, told |-> qWire.told]
    /\ qId \in [Evaluations -> Nat] /\ qNextId \in Nat \ {0}
    /\ DOMAIN qGot = Evaluations
    /\ \A c \in Evaluations : qId[c] < qNextId
    /\ \A c, d \in Evaluations : qId[c] = qId[d] /\ qId[c] # 0 => c = d
    /\ \A x \in qWire.asked : x.by \in Evaluations /\ qPlace[x.by] \in Late /\ x.id = qId[x.by] /\ x.id # 0
    /\ \A x \in qWire.told :
          x.is.by \in Evaluations /\ qPlace[x.is.by] \in Late /\ x.id = qId[x.is.by] /\ x.id # 0
    /\ \A c \in Evaluations : qPlace[c] \in {"connect", "sent"} => qId[c] # 0
    /\ \A c \in qExecuted : c \in Evaluations /\ qPlace[c] \in Late
    /\ \A c \in Evaluations : qPlace[c] = "done" => qGot[c].by = c
    /\ IsFiniteSet(Counted) /\ qWaiters = Cardinality(Counted)

(* It holds at the start.                                                  *)
LEMMA PageStart == Page!Init => PageInv
  <1> SUFFICES ASSUME Page!Init PROVE PageInv
    OBVIOUS
  <1>1. Counted = {}
    BY DEF Counted, Page!Init
  <1>2. IsFiniteSet(Counted) /\ qWaiters = Cardinality(Counted)
    BY <1>1, FS_EmptySet DEF Page!Init
  <1>3. qWire.asked = {} /\ qWire.told = {} /\ qWire = [asked |-> qWire.asked, told |-> qWire.told]
    BY DEF Page!Init, Page!EmptyWire
  <1> QED
    BY <1>2, <1>3 DEF Page!Init, PageInv, Early, Late

(* What a caller's way from p to q leaves of the count.                    *)
LEMMA Waits ==
  ASSUME PageInv, NEW c \in Evaluations, NEW q, qPlace' = [qPlace EXCEPT ![c] = q]
  PROVE  /\ c \in Counted /\ c \in Counted' => Counted' = Counted
         /\ c \notin Counted /\ c \notin Counted' => Counted' = Counted
         /\ c \notin Counted /\ c \in Counted' => Counted' = Counted \cup {c}
         /\ c \in Counted /\ c \notin Counted' => Counted' = Counted \ {c}
  BY DEF PageInv, Counted

(* The count goes with the callers that wait.                              *)
LEMMA Count ==
  ASSUME PageInv, NEW c \in Evaluations, NEW q, qPlace' = [qPlace EXCEPT ![c] = q],
         \/ /\ c \in Counted <=> c \in Counted'
            /\ qWaiters' = qWaiters
         \/ c \notin Counted /\ c \in Counted' /\ qWaiters' = qWaiters + 1
         \/ c \in Counted /\ c \notin Counted' /\ qWaiters' = qWaiters - 1
  PROVE  IsFiniteSet(Counted') /\ qWaiters' = Cardinality(Counted')
  <1>1. IsFiniteSet(Counted) /\ qWaiters = Cardinality(Counted)
    BY DEF PageInv
  <1>2. CASE (c \in Counted <=> c \in Counted') /\ qWaiters' = qWaiters
    BY <1>1, <1>2, Waits
  <1>3. CASE c \notin Counted /\ c \in Counted' /\ qWaiters' = qWaiters + 1
    <2>1. Counted' = Counted \cup {c}
      BY <1>3, Waits
    <2>2. IsFiniteSet(Counted \cup {c}) /\ Cardinality(Counted \cup {c}) = Cardinality(Counted) + 1
      BY <1>1, <1>3, FS_AddElement
    <2> QED
      BY <1>1, <1>3, <2>1, <2>2
  <1>4. CASE c \in Counted /\ c \notin Counted' /\ qWaiters' = qWaiters - 1
    BY <1>1, <1>4, Waits, FS_RemoveElement
  <1> QED
    BY <1>2, <1>3, <1>4

(* A caller that moves on, with its request and answers untouched.         *)
LEMMA Moves ==
  ASSUME PageInv, NEW c \in Evaluations, NEW q \in Early \cup Late, qPlace' = [qPlace EXCEPT ![c] = q],
         qPlace[c] \in Late => q \in Late, q # "done", q \in {"connect", "sent"} => qPlace[c] \in {"connect", "sent"},
         IsFiniteSet(Counted') /\ qWaiters' = Cardinality(Counted'),
         UNCHANGED <<qId, qNextId, qGot, qExecuted>>, qWire' = [asked |-> qWire'.asked, told |-> qWire'.told],
         qWire'.asked \subseteq qWire.asked \cup {[id |-> qId[c], by |-> c]},
         qWire'.asked \subseteq qWire.asked \/ (qPlace[c] = "connect" /\ q \in Late),
         qWire'.told \subseteq qWire.told
  PROVE  PageInv'
  <1>1. \A d \in Evaluations : /\ qPlace[d] \in Late => qPlace'[d] \in Late
                               /\ qPlace'[d] = "done" => qPlace[d] = "done"
                               /\ qPlace'[d] \in {"connect", "sent"} => qPlace[d] \in {"connect", "sent"}
    BY DEF PageInv
  <1>2. qPlace' \in [Evaluations -> Early \cup Late]
    BY DEF PageInv
  <1>3. ASSUME NEW x \in qWire'.asked
        PROVE  x.by \in Evaluations /\ qPlace'[x.by] \in Late /\ x.id = qId[x.by] /\ x.id # 0
    <2>1. CASE x \in qWire.asked
      BY <1>1, <2>1 DEF PageInv
    <2>2. CASE x \notin qWire.asked
      <3>1. x = [id |-> qId[c], by |-> c] /\ qPlace[c] = "connect" /\ q \in Late
        BY <2>2
      <3> QED
        BY <3>1 DEF PageInv
    <2> QED
      BY <2>1, <2>2
  <1> QED
    BY <1>1, <1>2, <1>3 DEF PageInv

(* A caller waits at the gate, by its place.                               *)
Waiting(p) == p \in {"queued", "pause", "gone"}

(* A caller goes on to q, and at most its own request is added.            *)
MovesTo(c, q) ==
    /\ q \in Early \cup Late /\ qPlace' = [qPlace EXCEPT ![c] = q]
    /\ qPlace[c] \in Late => q \in Late
    /\ q # "done" /\ (q \in {"connect", "sent"} => qPlace[c] \in {"connect", "sent"})
    /\ UNCHANGED <<qId, qNextId, qGot, qExecuted>>
    /\ qWire' = [asked |-> qWire'.asked, told |-> qWire'.told]
    /\ qWire'.asked \subseteq qWire.asked \cup {[id |-> qId[c], by |-> c]}
    /\ qWire'.asked \subseteq qWire.asked \/ (qPlace[c] = "connect" /\ q \in Late)
    /\ qWire'.told \subseteq qWire.told
    /\ \/ (Waiting(qPlace[c]) <=> Waiting(q)) /\ qWaiters' = qWaiters
       \/ ~Waiting(qPlace[c]) /\ Waiting(q) /\ qWaiters' = qWaiters + 1
       \/ Waiting(qPlace[c]) /\ ~Waiting(q) /\ qWaiters' = qWaiters - 1

(* Such a step keeps the invariant.                                        *)
LEMMA MovesToKeeps ==
  ASSUME PageInv, NEW c \in Evaluations, NEW q, MovesTo(c, q)
  PROVE  PageInv'
  <1>1. (c \in Counted <=> Waiting(qPlace[c])) /\ (c \in Counted' <=> Waiting(q))
    BY DEF MovesTo, Counted, PageInv, Waiting
  <1>2. IsFiniteSet(Counted') /\ qWaiters' = Cardinality(Counted')
    BY <1>1, Count DEF MovesTo
  <1> QED
    BY <1>2, Moves DEF MovesTo

(* The steps of a caller that are of that kind.                            *)
LEMMA CallerSteps ==
  ASSUME PageInv, NEW c \in Evaluations,
         \/ Page!Check(c) \/ Page!Enter(c) \/ Page!Lock(c) \/ Page!GiveUp(c) \/ Page!Start(c)
         \/ (Page!Connect(c) /\ qPlace' # qPlace) \/ Page!Send(c) \/ Page!Fail(c) \/ Page!Drop(c)
  PROVE  PageInv'
  <1> USE DEF Page!Goes, Page!callVars, Page!socketVars, Page!gateVars, Page!pageVars
  <1> USE DEF Waiting, Early, Late, MovesTo
  <1>0. qWire = [asked |-> qWire.asked, told |-> qWire.told]
    BY DEF PageInv
  <1>1. CASE Page!Check(c)
    <2>1. MovesTo(c, "shown") \/ MovesTo(c, "looked") \/ MovesTo(c, "refused")
      BY <1>0, <1>1 DEF Page!Check
    <2> QED
      BY <2>1, MovesToKeeps
  <1>2. CASE Page!Enter(c)
    <2>1. qPlace[c] \in {"idle", "looked"}
      BY <1>0, <1>2 DEF Page!Enter
    <2>2. CASE qPlace' = [qPlace EXCEPT ![c] = "refused"] /\ qWaiters' = qWaiters
      <3>1. MovesTo(c, "refused")
        BY <1>0, <1>2, <2>1, <2>2 DEF Page!Enter
      <3> QED
        BY <3>1, MovesToKeeps
    <2>3. CASE qPlace' = [qPlace EXCEPT ![c] = "queued"] /\ qWaiters' = qWaiters + 1
      <3>1. MovesTo(c, "queued")
        BY <1>0, <1>2, <2>1, <2>3 DEF Page!Enter
      <3> QED
        BY <3>1, MovesToKeeps
    <2> QED
      BY <1>0, <1>2, <2>2, <2>3 DEF Page!Enter
  <1>3. CASE Page!Lock(c)
    <2>1. MovesTo(c, "pause")
      BY <1>0, <1>3 DEF Page!Lock
    <2> QED
      BY <2>1, MovesToKeeps
  <1>4. CASE Page!GiveUp(c)
    <2>1. MovesTo(c, "refused")
      BY <1>0, <1>4 DEF Page!GiveUp
    <2> QED
      BY <2>1, MovesToKeeps
  <1>5. CASE Page!Start(c)
    <2>1. MovesTo(c, "inside")
      BY <1>0, <1>5 DEF Page!Start
    <2> QED
      BY <2>1, MovesToKeeps
  <1>6. CASE Page!Connect(c) /\ qPlace' # qPlace
    <2>1. MovesTo(c, "refused")
      BY <1>6 DEF Page!Connect, PageInv
    <2> QED
      BY <2>1, MovesToKeeps
  <1>7. CASE Page!Send(c)
    <2>1. CASE Page!Forget(c, "refused")
      <3>1. MovesTo(c, "refused")
        BY <1>0, <1>7, <2>1 DEF Page!Send, Page!Forget, Page!EmptyWire
      <3> QED
        BY <3>1, MovesToKeeps
    <2>2. CASE ~Page!Forget(c, "refused")
      <3>1. MovesTo(c, "sent")
        BY <1>0, <1>7, <2>2 DEF Page!Send
      <3> QED
        BY <3>1, MovesToKeeps
    <2> QED
      BY <2>1, <2>2
  <1>8. CASE Page!Fail(c)
    <2>1. MovesTo(c, "failed")
      BY <1>0, <1>8 DEF Page!Fail, Page!Forget, Page!EmptyWire
    <2> QED
      BY <2>1, MovesToKeeps
  <1>9. CASE Page!Drop(c)
    <2>1. MovesTo(c, "gone") \/ MovesTo(c, "dropped")
      BY <1>0, <1>9 DEF Page!Drop
    <2> QED
      BY <2>1, MovesToKeeps
  <1> QED
    BY <1>1, <1>2, <1>3, <1>4, <1>5, <1>6, <1>7, <1>8, <1>9

(* Every step keeps the invariant.                                         *)
LEMMA PageStep ==
  ASSUME PageInv, [Page!Next]_(Page!vars)
  PROVE  PageInv'
  <1>1. CASE UNCHANGED Page!vars
    BY <1>1 DEF Page!vars, PageInv, Counted
  <1>2. ASSUME NEW c \in Evaluations, Page!Look(c) PROVE PageInv'
    <2>1. qPlace[c] = "inside" /\ UNCHANGED <<qWire, qGot, qExecuted, qWaiters>>
      BY <1>2 DEF Page!Look, Page!gateVars
    <2>2. PICK q \in {"connect", "refused"} :
            /\ qPlace' = [qPlace EXCEPT ![c] = q]
            /\ q = "refused" => UNCHANGED <<qId, qNextId>>
            /\ q = "connect" => qId' = [qId EXCEPT ![c] = qNextId] /\ qNextId' = qNextId + 1
      BY <1>2 DEF Page!Look, Page!Goes
    <2>3. Counted' = Counted /\ qPlace' \in [Evaluations -> Early \cup Late]
      BY <2>1, <2>2 DEF Counted, PageInv, Early, Late
    <2>4. /\ qPlace'[c] = q /\ qPlace[c] \notin Late
          /\ \A d \in Evaluations \ {c} : qPlace'[d] = qPlace[d]
      BY <2>1, <2>2 DEF PageInv, Late
    <2>5. CASE q = "refused"
      <3>1. MovesTo(c, q)
        BY <2>1, <2>2, <2>5 DEF MovesTo, Waiting, Early, Late, PageInv
      <3> QED
        BY <3>1, MovesToKeeps
    <2>6. CASE q = "connect"
      <3>1. /\ qId' \in [Evaluations -> Nat] /\ qNextId' \in Nat \ {0} /\ qId'[c] = qNextId
            /\ \A d \in Evaluations \ {c} : qId'[d] = qId[d]
            /\ \A d \in Evaluations : qId[d] < qNextId
        BY <2>2, <2>6 DEF PageInv
      <3>2. \A d \in Evaluations : qId'[d] < qNextId'
        BY <2>2, <2>6, <3>1 DEF PageInv
      <3>3. \A d, e \in Evaluations : qId'[d] = qId'[e] /\ qId'[d] # 0 => d = e
        BY <3>1 DEF PageInv
      <3>4. \A x \in qWire.asked : x.by # c /\ qPlace'[x.by] = qPlace[x.by] /\ qId'[x.by] = qId[x.by]
        BY <2>4, <3>1 DEF PageInv
      <3>5. \A x \in qWire.told : x.is.by # c /\ qPlace'[x.is.by] = qPlace[x.is.by] /\ qId'[x.is.by] = qId[x.is.by]
        BY <2>4, <3>1 DEF PageInv
      <3>6. \A d \in qExecuted : qPlace'[d] = qPlace[d]
        BY <2>4 DEF PageInv
      <3>7. \A d \in Evaluations : /\ qPlace'[d] \in {"connect", "sent"} => qId'[d] # 0
                                   /\ qPlace'[d] = "done" => qPlace[d] = "done"
        BY <2>2, <2>4, <3>1 DEF PageInv
      <3>8. IsFiniteSet(Counted') /\ qWaiters' = Cardinality(Counted')
        BY <2>1, <2>3 DEF PageInv
      <3> QED
        BY <2>1, <2>3, <3>1, <3>2, <3>3, <3>4, <3>5, <3>6, <3>7, <3>8 DEF PageInv
    <2> QED
      BY <2>2, <2>5, <2>6
  <1>3. ASSUME NEW c \in Evaluations, Page!Connect(c), qPlace' = qPlace PROVE PageInv'
    <2>1. qWire' \in {qWire, [asked |-> {}, told |-> {}]}
          /\ UNCHANGED <<qId, qNextId, qGot, qExecuted, qWaiters>> /\ Counted' = Counted
      BY <1>3 DEF Page!Connect, Page!EmptyWire, Page!gateVars, Page!callVars, Counted
    <2>2. CASE UNCHANGED qWire
      BY <1>3, <2>1, <2>2 DEF PageInv
    <2>3. CASE qWire' = [asked |-> {}, told |-> {}]
      BY <1>3, <2>1, <2>3 DEF PageInv
    <2> QED
      BY <2>1, <2>2, <2>3
  <1>4. ASSUME NEW c \in Evaluations, Page!Read(c) PROVE PageInv'
    <2>1. PICK a \in qWire.told :
            /\ qWire' = [qWire EXCEPT !.told = @ \ {a}]
            /\ IF Page!Own(c, a)
               THEN qGot' = [qGot EXCEPT ![c] = a.is] /\ qPlace' = [qPlace EXCEPT ![c] = "done"]
               ELSE UNCHANGED <<qGot, qPlace>>
      BY <1>4 DEF Page!Read, Page!Ended, Page!Goes
    <2>2. qPlace[c] = "sent" /\ UNCHANGED <<qId, qNextId, qExecuted, qWaiters>>
      BY <1>4 DEF Page!Read, Page!gateVars
    <2>3. Page!Own(c, a) => a.is.by = c
      BY <2>2 DEF PageInv, Page!Own
    <2>4. qPlace' \in [Evaluations -> Early \cup Late]
          /\ \A d \in Evaluations : qPlace'[d] = qPlace[d] \/ (d = c /\ qPlace'[d] = "done" /\ Page!Own(c, a))
      BY <2>1, <2>2 DEF PageInv, Late
    <2>5. Counted' = Counted
      BY <2>2, <2>4 DEF Counted
    <2>6. DOMAIN qGot' = Evaluations /\ \A d \in Evaluations : qPlace'[d] = "done" => qGot'[d].by = d
      BY <2>1, <2>2, <2>3, <2>4 DEF PageInv
    <2>7. qWire'.asked = qWire.asked \/ qWire'.asked \subseteq qWire.asked
      BY <2>1
    <2> QED
      BY <2>1, <2>2, <2>4, <2>5, <2>6 DEF PageInv, Late
  <1>5. CASE Page!Execute
    <2>1. PICK r \in qWire.asked :
            /\ qWire' = [asked |-> qWire.asked \ {r},
                         told |-> qWire.told \cup {[id |-> r.id, is |-> Page!Answer(r.by, qClient.in)]}]
            /\ qExecuted' = qExecuted \cup {r.by}
      BY <1>5 DEF Page!Execute
    <2>2. UNCHANGED <<qId, qNextId, qWaiters, qPlace, qGot>> /\ Counted' = Counted
      BY <1>5 DEF Page!Execute, Page!gateVars, Page!callVars, Counted
    <2>3. \A x \in qWire'.told : x \in qWire.told \/ (x.id = r.id /\ x.is.by = r.by)
      BY <2>1 DEF Page!Answer
    <2> QED
      BY <2>1, <2>2, <2>3 DEF PageInv
  <1>6. CASE Page!Reload
    BY <1>6 DEF Page!Reload, Page!gateVars, Page!callVars, PageInv, Counted
  <1>7. CASE Page!Expire
    BY <1>7 DEF Page!Expire, Page!gateVars, Page!callVars, Page!socketVars, PageInv, Counted
  <1> QED
    BY <1>1, <1>2, <1>3, <1>4, <1>5, <1>6, <1>7, CallerSteps DEF Page!Next

(* A caller gets the answer to its own request, one that was turned away   *)
(* has not run in the page, and the gate counts those who wait (CdpClient  *)
(* in gateway.rs), whatever the callers, the checks, the reloads and the   *)
(* requests dropped half-way.                                              *)
THEOREM RequestsGetTheirAnswers == MCSpec => []RequestsAreServedTruly
  <1> DEFINE Served == focus = "page" => PageInv
  <1>1. MCInit => Served
    BY PageStart DEF MCInit
  <1>2. Served /\ [MCNext]_mcVars => Served'
    BY Steps, PageStep
  <1>3. Served => RequestsAreServedTruly
    <2>1. ASSUME PageInv PROVE Page!RequestsAreServedTruly
      <3>1. Page!In({"queued", "pause", "gone"}) = Counted
        BY DEF Page!In, Counted
      <3>2. qWaiters = Cardinality(Counted)
        BY <2>1 DEF PageInv
      <3>3. /\ \A c \in Page!In({"done"}) : qGot[c].by = c
            /\ Page!In({"refused"}) \cap qExecuted = {}
        BY <2>1 DEF PageInv, Page!In, Late
      <3>4. qWaiters = Page!Cardinality(Page!In({"queued", "pause", "gone"}))
        BY <3>1, <3>2 DEF Cardinality, Page!Cardinality
      <3> QED
        BY <3>3, <3>4 DEF Page!RequestsAreServedTruly
    <2> QED
      BY <2>1 DEF RequestsAreServedTruly
  <1> QED
    BY <1>1, <1>2, <1>3, PTL DEF MCSpec, mcVars

-----------------------------------------------------------------------------
(* A code that was sent to a telephone.                                    *)
Codes == [open : BOOLEAN, recent : BOOLEAN, age : Nat]

(* The login in use and the one of the file are of those there have been   *)
(* and not of those ended; an account that is known is that of the file;   *)
(* codes are asked for where there is no login, and one that has been      *)
(* asked for counts as an attempt.                                         *)
WebInv ==
    /\ lClient \in Nat /\ lKept \in Nat /\ lMade \in Nat /\ lEpoch \in Nat
    /\ lClient <= lMade /\ lKept <= lMade /\ \A l \in lEnded : l \in Nat \ {0} /\ l <= lMade
    /\ lChallenge \in Codes /\ lAttempts \in Nat /\ lAsked \in Nat
    /\ lAccount \in BOOLEAN /\ (lAccount => lKept = lClient)
    /\ lAt \in {"business", "device", "start", "resend", "verify", "groups", "forget"} => lClient = 0
    /\ lAt = "forget" => ~lAccount
    /\ lAt = "renew" => lClient # 0
    /\ lSocket # 0 => lSocket = lClient /\ lAccount
    /\ lChallenge.open => lClient = 0
    /\ lClient \notin lEnded /\ lKept \notin lEnded
    /\ lSaved = lSavedFile
    /\ lAsked <= 1 /\ (lAsked = 1 => lAttempts >= 1) /\ (lAsked = 1 /\ lChallenge.open => lChallenge.recent)

(* What LoginSession speaks of, and a step that it allows.                 *)
SessionState == <<lClient, lEpoch, lKept, lMade>>
Meets == WebInv' /\ [Web!Promise!SessionNext]_SessionState

(* The two codes the handlers write.                                       *)
LEMMA CodesAre ==
  /\ Web!NoChallenge \in Codes /\ ~Web!NoChallenge.open /\ ~Web!NoChallenge.recent
  /\ Web!Sent \in Codes /\ Web!Sent.open /\ Web!Sent.recent
  BY DEF Web!NoChallenge, Web!Sent, Codes

(* It holds at the start.                                                  *)
LEMMA WebStart == Web!Init => WebInv
  <1> SUFFICES ASSUME Web!Init PROVE WebInv
    OBVIOUS
  <1>1. ~lAccount /\ lAccount \in BOOLEAN
    BY Zenon DEF Web!Init
  <1>2. lChallenge = Web!NoChallenge /\ lAttempts = 0 /\ lAsked = 0 /\ lSaved = lSavedFile /\ lEnded = {}
        /\ lClient = 0 /\ lKept = 0 /\ lMade = 0 /\ lEpoch = 1 /\ lSocket = 0 /\ lAt = "free"
    BY DEF Web!Init
  <1> QED
    BY <1>1, <1>2, CodesAre DEF WebInv

(* What the end of a login by its user changes.                            *)
LEMMA UserEndsIs ==
  ASSUME WebInv, Web!UserEnds
  PROVE  /\ Web!Promise!End
         /\ lClient' = 0 /\ ~lAccount' /\ lAccount' \in BOOLEAN /\ lSocket' = 0 /\ lEpoch' = lEpoch + 1
         /\ lKept' = 0 /\ lMade' = lMade /\ lChallenge' = Web!NoChallenge
         /\ \A l \in lEnded' : l \in Nat \ {0} /\ l <= lMade
  <1>1. ~lAccount' /\ lAccount' \in BOOLEAN
    BY Zenon DEF Web!UserEnds, Web!LoggedOut
  <1> QED
    BY <1>1 DEF WebInv, Web!UserEnds, Web!LoggedOut, Web!Promise!End

(* Every step of the handlers keeps the invariant and the promise of       *)
(* LoginSession.                                                           *)
LEMMA WebStep ==
  ASSUME WebInv, [Web!Next]_(Web!vars)
  PROVE  Meets
  <1> USE DEF Meets, Web!Service, Web!Passwords, Web!Clock, SessionState
  <1>1. CASE UNCHANGED Web!vars
    BY <1>1 DEF Web!vars, WebInv
  <1>2. ASSUME NEW remember \in BOOLEAN, NEW useSaved \in BOOLEAN, Web!Login(remember, useSaved) PROVE Meets
    <2>1. lAttempts' = lAttempts + 1 /\ UNCHANGED <<lMinutes, lAsked>> /\ lSaved' = lSavedFile'
      BY <1>2 DEF Web!Login, WebInv
    <2>2. CASE Web!UserEnds /\ lAt' = "business"
      BY <2>1, <2>2, UserEndsIs, CodesAre DEF WebInv, Web!Promise!SessionNext
    <2>3. CASE UNCHANGED <<Web!Service, lChallenge, lAt>>
      BY <2>1, <2>3 DEF WebInv
    <2> QED
      BY <1>2, <2>2, <2>3 DEF Web!Login
  <1>3. CASE Web!BusinessAnswers
    BY <1>3 DEF Web!BusinessAnswers, WebInv
  <1>4. CASE Web!DeviceAnswers
    BY <1>4, CodesAre DEF Web!DeviceAnswers, WebInv
  <1>5. CASE Web!GroupsAnswer
    <2>1. CASE lAt' = "free" /\ UNCHANGED <<Web!Service, lChallenge>>
      BY <1>5, <2>1 DEF Web!GroupsAnswer, WebInv
    <2>2. CASE ~(lAt' = "free" /\ UNCHANGED <<Web!Service, lChallenge>>)
      <3>1. /\ lAt = "groups" /\ lMade < MaxLogins /\ lChallenge' = Web!NoChallenge
            /\ UNCHANGED <<lEpoch, lSocket, lEnded, lAttempts, lSaved, lSavedFile, lAsked>>
        BY <1>5, <2>2 DEF Web!GroupsAnswer
      <3>2. PICK known \in BOOLEAN, written \in BOOLEAN, token \in BOOLEAN :
              IF ~known \/ written
              THEN /\ lMade' = lMade + 1 /\ lClient' = lMade' /\ lAccount' = known
                   /\ lKept' = IF known THEN lMade' ELSE lKept
                   /\ lAt' = IF token THEN "connect" ELSE "free"
              ELSE /\ lClient' = 0 /\ lAccount' = FALSE /\ lAt' = "free"
                   /\ UNCHANGED <<lMade, lKept>>
        BY <1>5, <2>2 DEF Web!GroupsAnswer
      <3>3. lClient = 0 /\ lSocket = 0
        BY <3>1 DEF WebInv
      <3>4. CASE ~known \/ written
        BY <3>1, <3>2, <3>3, <3>4, CodesAre DEF WebInv, Web!Promise!SessionNext, Web!Promise!Begin
      <3>5. CASE ~(~known \/ written)
        BY <3>1, <3>2, <3>3, <3>5, CodesAre DEF WebInv
      <3> QED
        BY <3>4, <3>5
    <2> QED
      BY <2>1, <2>2
  <1>6. CASE Web!Connects
    BY <1>6 DEF Web!Connects, WebInv
  <1>7. CASE Web!Maintain
    BY <1>7 DEF Web!Maintain, WebInv
  <1>8. CASE Web!Refresh
    BY <1>8 DEF Web!Refresh, WebInv
  <1>9. CASE Web!RenewAnswers
    <2>1. CASE ~Web!LoggedOut
      BY <1>9, <2>1 DEF Web!RenewAnswers, WebInv
    <2>2. CASE Web!LoggedOut
      <3>1. ~lAccount' /\ lAccount' \in BOOLEAN /\ lClient' = 0 /\ lSocket' = 0 /\ lEpoch' = lEpoch + 1
        BY <2>2, Zenon DEF Web!LoggedOut
      <3> QED
        BY <1>9, <3>1 DEF Web!RenewAnswers, WebInv, Web!Promise!SessionNext, Web!Promise!Expire
    <2> QED
      BY <2>1, <2>2
  <1>10. CASE Web!FileForgets
    BY <1>10 DEF Web!FileForgets, WebInv, Web!Promise!SessionNext, Web!Promise!Clear
  <1>11. CASE Web!StartSms
    BY <1>11, CodesAre DEF Web!StartSms, WebInv
  <1>12. CASE Web!StartAnswers
    BY <1>12, CodesAre DEF Web!StartAnswers, WebInv
  <1>13. CASE Web!ResendSms
    <2>1. CASE lChallenge' = Web!NoChallenge /\ UNCHANGED <<lAttempts, lAt, lAsked>>
      BY <1>13, <2>1, CodesAre DEF Web!ResendSms, WebInv
    <2>2. CASE /\ ~lChallenge.recent /\ lChallenge' = [lChallenge EXCEPT !.recent = TRUE]
               /\ lAttempts' = lAttempts + 1 /\ lAt' = "resend" /\ lAsked' = lAsked + 1
      <3>1. lChallenge' \in Codes /\ lChallenge'.recent /\ lChallenge'.open = lChallenge.open
        BY <2>2 DEF WebInv, Codes
      <3> QED
        BY <1>13, <2>2, <3>1 DEF Web!ResendSms, WebInv
    <2> QED
      BY <1>13, <2>1, <2>2 DEF Web!ResendSms
  <1>14. CASE Web!VerifySms
    BY <1>14, CodesAre DEF Web!VerifySms, WebInv
  <1>15. CASE Web!SmsAnswers
    BY <1>15 DEF Web!SmsAnswers, WebInv
  <1>16. CASE Web!Logout
    BY <1>16, UserEndsIs, CodesAre DEF Web!Logout, WebInv, Web!Promise!SessionNext
  <1>17. CASE Web!ForgetLogin
    BY <1>17 DEF Web!ForgetLogin, WebInv
  <1>18. CASE Web!Cancel
    BY <1>18 DEF Web!Cancel, WebInv
  <1>19. CASE Web!Tick
    <2>1. lChallenge' \in Codes /\ (lChallenge'.open => lChallenge.open)
      <3>1. PICK o \in BOOLEAN, r \in BOOLEAN, a \in Nat : lChallenge = [open |-> o, recent |-> r, age |-> a]
        BY DEF WebInv, Codes
      <3>2. lChallenge' \in {lChallenge, [open |-> o, recent |-> FALSE, age |-> a + 1]}
        BY <1>19, <3>1 DEF Web!Tick
      <3>3. lChallenge \in Codes /\ [open |-> o, recent |-> FALSE, age |-> a + 1] \in Codes
        BY <3>1 DEF Codes
      <3>4. lChallenge.open = o /\ [open |-> o, recent |-> FALSE, age |-> a + 1].open = o
        BY <3>1
      <3> QED
        BY <3>2, <3>3, <3>4
    <2> QED
      BY <1>19, <2>1 DEF Web!Tick, WebInv
  <1>20. CASE Web!CrashAndRestart
    BY <1>20, CodesAre DEF Web!CrashAndRestart, WebInv, Web!Promise!SessionNext, Web!Promise!Restart
  <1> QED
    BY <1>1, <1>2, <1>3, <1>4, <1>5, <1>6, <1>7, <1>8, <1>9, <1>10, <1>11, <1>12, <1>13, <1>14,
       <1>15, <1>16, <1>17, <1>18, <1>19, <1>20 DEF Web!Next

(* A connection belongs to the login in use, a login the user has ended is *)
(* never in use or restored again, and codes are asked for once a minute   *)
(* (protocol_login.rs), through hang-ups, crashes and files that cannot be *)
(* written.                                                                *)
THEOREM LoginsStayApart == MCSpec => []LoginsAreKeptApart
  <1>1. MCInit => WebInv
    BY WebStart DEF MCInit
  <1>2. WebInv /\ [MCNext]_mcVars => WebInv'
    BY Steps, WebStep DEF Meets
  <1>3. WebInv => LoginsAreKeptApart
    BY DEF WebInv, LoginsAreKeptApart, Web!LoginsAreKeptApart
  <1> QED
    BY <1>1, <1>2, <1>3, PTL DEF MCSpec, mcVars

(* The handlers keep what LoginSession promises to those who note an       *)
(* epoch: every step is one of its steps or leaves it alone.               *)
THEOREM LoginImplementsSession == MCSpec => ImplementsSession
  <1>1. MCInit => WebInv /\ Web!Promise!SessionInit
    BY WebStart DEF MCInit, Web!Init, Web!Promise!SessionInit
  <1>2. WebInv /\ [MCNext]_mcVars => WebInv' /\ [Web!Promise!SessionNext]_SessionState
    BY Steps, WebStep DEF Meets
  <1>3. WebInv /\ [MCNext]_mcVars => [Web!Promise!SessionNext]_(Web!Promise!sessionVars)
    BY <1>2 DEF SessionState, Web!Promise!sessionVars
  <1> QED
    BY <1>1, <1>2, <1>3, PTL DEF MCSpec, mcVars, ImplementsSession, Web!ImplementsSession, Web!Promise!SessionSpec

-----------------------------------------------------------------------------
(* The group management of the web edition: what is read and noted.        *)
Rosters == [value : BOOLEAN, managers : SUBSET Nat, plain : BOOLEAN]
Kept == [epoch : Nat, by : Nat, group : Rosters]
Hands == [first : Nat, noted : Nat, listed : Nat, write : Nat, seen : Kept]
Spots == {"idle", "members", "groups", "list", "pages", "keep", "notices", "have", "queue", "send", "clear",
          "cleared", "nim", "done"}

(* What was read in this epoch was read by the login in use.               *)
OfItsEpoch(x) == x.epoch <= oEpoch /\ (x.epoch = oEpoch => oClient # 0 /\ x.by = oClient)

Allows(c, login, roster) ==
    login \in roster.managers /\ (oKind[c] \in {"card", "mute", "remove"} => roster.plain)

(* The group has been as the call asks, or a roster kept late deceives it. *)
Deceived(c) == "late" \in oFaults /\ oKind[c] = "card"
Came(c) == oWas[c] \/ Deceived(c)

(* What holds of a call that stands at p, reads for s, has noted h and was *)
(* answered r.                                                             *)
CallOK(c, p, s, h, r) ==
    /\ OfItsEpoch(h.seen) /\ h.write <= oEpoch
    /\ p = "idle" => s = "ask"
    /\ p \in {"send", "clear", "cleared"} => s = "permit"
    /\ p \in {"nim", "notices"} => s = "back"
    /\ s = "back" \/ p \in {"clear", "cleared"} => oExecuted[c] # 0
    /\ s = "permit" /\ p \in {"keep", "have", "send"} => h.seen.epoch >= h.write
    /\ p = "send" /\ oEpoch = h.write => Allows(c, oClient, h.seen.group)
    /\ p \in {"clear", "cleared"} => oExecuted[c] = h.seen.by /\ Allows(c, oExecuted[c], h.seen.group)
    /\ s = "back" /\ p = "members" => oKind[c] = "card"
    /\ p = "keep" => "late" \in oFaults
    /\ s = "back" /\ p \in {"keep", "have"} /\ h.seen.group.value = Posts!Wanted(c) => Came(c)
    /\ r = "verified" => Came(c)

PostTypes ==
    /\ oEpoch \in Nat \ {0} /\ oClient \in Nat /\ oMade \in Nat /\ oGroup \in Rosters
    /\ oAt \in [WebCalls -> Spots] /\ oStage \in [WebCalls -> {"ask", "permit", "back"}]
    /\ oHand \in [WebCalls -> Hands] /\ oReceipt \in [WebCalls -> {"none", "error", "unknown", "verified"}]
    /\ oExecuted \in [WebCalls -> Nat] /\ oWas \in [WebCalls -> BOOLEAN]

(* A cache tells a call that reads back nothing that has not come about,   *)
(* but for the roster that is kept late.                                   *)
TellsTruly(x, c) == x.epoch # 0 /\ x.group.value = Posts!Wanted(c) => oWas[c]
GroupsTell == \A c \in WebCalls : oStage[c] = "back" \/ oAt[c] = "cleared" => TellsTruly(oGroups, c)
MembersTell == \A c \in WebCalls : oStage[c] = "back" /\ "late" \notin oFaults => TellsTruly(oMembers, c)

CachesInv ==
    /\ oGroups \in Kept /\ OfItsEpoch(oGroups) /\ GroupsTell
    /\ oMembers \in Kept /\ OfItsEpoch(oMembers) /\ MembersTell

CallsInv == \A c \in WebCalls : CallOK(c, oAt[c], oStage[c], oHand[c], oReceipt[c])

(* A group that is as a carried out write asks has come to be so.          *)
WasInv == \A c \in WebCalls : oExecuted[c] # 0 /\ oGroup.value = Posts!Wanted(c) => oWas[c]

PostsInv == PostTypes /\ CachesInv /\ CallsInv /\ WasInv

(* The records the handlers write.                                         *)
LEMMA HandsAre ==
  ASSUME PostTypes, NEW c \in WebCalls
  PROVE  /\ Posts!Uncached \in Kept /\ Posts!Uncached.epoch = 0
         /\ Posts!Empty \in Hands /\ Posts!Empty.write = 0 /\ Posts!Empty.seen = Posts!Uncached
         /\ \A x \in Kept : /\ [Posts!Rest(c) EXCEPT !.seen = x] \in Hands
                            /\ [Posts!Rest(c) EXCEPT !.seen = x].seen = x
                            /\ [Posts!Rest(c) EXCEPT !.seen = x].write = oHand[c].write
         /\ Posts!Rest(c) \in Hands /\ Posts!Rest(c).seen = Posts!Uncached
         /\ Posts!Rest(c).write = oHand[c].write
         /\ \A e \in Nat : Posts!Read(e) \in Kept /\ Posts!Read(e).epoch = e /\ Posts!Read(e).by = oClient
                           /\ Posts!Read(e).group = oGroup
  <1>1. oHand[c] \in Hands /\ oGroup \in Rosters /\ oClient \in Nat
    BY DEF PostTypes
  <1>2. Posts!Uncached \in Kept /\ Posts!Uncached.epoch = 0
    BY DEF Posts!Uncached, Kept, Rosters
  <1>3. Posts!Empty \in Hands /\ Posts!Empty.write = 0 /\ Posts!Empty.seen = Posts!Uncached
    BY <1>2 DEF Posts!Empty, Hands
  <1>4. oHand[c].first \in Nat /\ oHand[c].write \in Nat
    BY <1>1 DEF Hands
  <1>5. /\ Posts!Rest(c) \in Hands /\ Posts!Rest(c).seen = Posts!Uncached
        /\ Posts!Rest(c).write = oHand[c].write
    BY <1>3, <1>4 DEF Posts!Rest, Hands
  <1>6. \A x \in Kept : /\ [Posts!Rest(c) EXCEPT !.seen = x] \in Hands
                        /\ [Posts!Rest(c) EXCEPT !.seen = x].seen = x
                        /\ [Posts!Rest(c) EXCEPT !.seen = x].write = oHand[c].write
    BY <1>5 DEF Hands
  <1>7. \A e \in Nat : Posts!Read(e) \in Kept /\ Posts!Read(e).epoch = e /\ Posts!Read(e).by = oClient
                       /\ Posts!Read(e).group = oGroup
    BY <1>1 DEF Posts!Read, Kept
  <1> QED
    BY <1>2, <1>3, <1>5, <1>6, <1>7

Resting == UNCHANGED <<oClient, oEpoch, oKept, oMade, oFaults, oKind, oGroup, oExecuted, oWas>>

Stands(c, p, s, h, r) ==
    /\ oAt' = [oAt EXCEPT ![c] = p] /\ oStage' = [oStage EXCEPT ![c] = s]
    /\ oHand' = [oHand EXCEPT ![c] = h] /\ oReceipt' = [oReceipt EXCEPT ![c] = r]
    /\ p \in Spots /\ s \in {"ask", "permit", "back"} /\ h \in Hands
    /\ r \in {"none", "error", "unknown", "verified"}

(* What was just read.                                                     *)
Fresh(x) == x \in Kept /\ x.epoch = oEpoch /\ x.by = oClient /\ x.group = oGroup /\ oClient # 0

(* The caches stay, are emptied or filled afresh.                          *)
LEMMA CachesKeep ==
  ASSUME PostsInv, Resting, NEW c \in WebCalls, NEW p, NEW s, NEW h, NEW r, Stands(c, p, s, h, r),
         oGroups' = oGroups \/ oGroups' = Posts!Uncached \/ Fresh(oGroups'),
         \/ oMembers' = oMembers \/ oMembers' = Posts!Uncached \/ Fresh(oMembers')
         \/ "late" \in oFaults /\ oMembers' \in Kept /\ OfItsEpoch(oMembers'),
         p = "cleared" => oGroups' = Posts!Uncached /\ oExecuted[c] # 0,
         s = "back" => oStage[c] = "back" \/ (oMembers' = Posts!Uncached /\ oAt[c] = "cleared")
  PROVE  CachesInv'
  <1>1. PostTypes /\ CachesInv /\ CallsInv /\ WasInv
    BY DEF PostsInv
  <1>2. Posts!Uncached \in Kept /\ Posts!Uncached.epoch = 0
    BY <1>1, HandsAre
  <1>3. /\ oGroups' \in Kept /\ OfItsEpoch(oGroups)'
        /\ oMembers' \in Kept /\ OfItsEpoch(oMembers)'
    BY <1>1, <1>2 DEF CachesInv, OfItsEpoch, Resting, PostTypes, Fresh
  <1>4. ASSUME NEW d \in WebCalls, oStage'[d] = "back" \/ oAt'[d] = "cleared"
        PROVE  /\ TellsTruly(oGroups, d)'
               /\ oStage'[d] = "back" /\ "late" \notin oFaults => TellsTruly(oMembers, d)'
    <2>1. d # c => oStage'[d] = oStage[d] /\ oAt'[d] = oAt[d]
      BY <1>1 DEF Stands, PostTypes
    <2>2. d = c => oStage'[d] = s /\ oAt'[d] = p
      BY <1>1 DEF Stands, PostTypes
    <2>3. oExecuted[d] # 0
      BY <1>1, <1>4, <2>1, <2>2 DEF CallsInv, CallOK
    <2>4. oGroup.value = Posts!Wanted(d) => oWas[d]
      BY <1>1, <2>3 DEF WasInv
    <2>5. TellsTruly(oGroups, d)'
      BY <1>1, <1>2, <1>4, <2>1, <2>2, <2>4 DEF CachesInv, GroupsTell, TellsTruly, Fresh, Resting
    <2>6. oStage'[d] = "back" /\ "late" \notin oFaults => TellsTruly(oMembers, d)'
      BY <1>1, <1>2, <1>4, <2>1, <2>2, <2>4 DEF CachesInv, MembersTell, TellsTruly, Fresh, Resting
    <2> QED
      BY <2>5, <2>6
  <1> QED
    BY <1>3, <1>4 DEF CachesInv, GroupsTell, MembersTell, Resting

(* One call takes a step that carries nothing out.                         *)
LEMMA CallMoves ==
  ASSUME PostsInv, Resting, NEW c \in WebCalls, NEW p, NEW s, NEW h, NEW r, Stands(c, p, s, h, r),
         CallOK(c, p, s, h, r), CachesInv'
  PROVE  PostsInv'
  <1>1. PostTypes'
    BY DEF PostsInv, PostTypes, Resting, Stands
  <1>2. WasInv'
    BY DEF PostsInv, WasInv, Resting
  <1>3. CallsInv'
    <2> SUFFICES ASSUME NEW d \in WebCalls PROVE CallOK(d, oAt[d], oStage[d], oHand[d], oReceipt[d])'
      BY DEF CallsInv
    <2>1. \E p1, s1, h1, r1 : /\ oAt'[d] = p1 /\ oStage'[d] = s1 /\ oHand'[d] = h1 /\ oReceipt'[d] = r1
                              /\ CallOK(d, p1, s1, h1, r1)
      <3>1. CASE d = c
        BY <3>1 DEF PostsInv, PostTypes, Stands
      <3>2. CASE d # c
        BY <3>2 DEF PostsInv, PostTypes, CallsInv, Stands
      <3> QED
        BY <3>1, <3>2
    <2> QED
      BY <2>1 DEF CallOK, OfItsEpoch, Allows, Came, Deceived, Resting
  <1> QED
    BY <1>1, <1>2, <1>3 DEF PostsInv

(* A call that ends keeps nothing in hand.                                 *)
LEMMA EndsIs ==
  ASSUME PostsInv, NEW c \in WebCalls, NEW answer \in {"none", "error", "unknown", "verified"},
         Posts!Ends(c, answer)
  PROVE  /\ oStage' = oStage => Stands(c, "done", oStage[c], Posts!Empty, answer)
         /\ oStage' = [oStage EXCEPT ![c] = "back"] => Stands(c, "done", "back", Posts!Empty, answer)
  BY HandsAre DEF Posts!Ends, Posts!Goes, Stands, PostsInv, PostTypes, Spots

(* Ending without having been carried out truly says nothing.              *)
LEMMA EndedIsOK ==
  ASSUME PostsInv, NEW c \in WebCalls, NEW s, NEW r, s = "back" => oExecuted[c] # 0, r = "verified" => Came(c)
  PROVE  CallOK(c, "done", s, Posts!Empty, r)
  <1>1. PostTypes
    BY DEF PostsInv
  <1>2. Posts!Empty.write = 0 /\ Posts!Empty.seen.epoch = 0
    BY <1>1, HandsAre
  <1> QED
    BY <1>1, <1>2 DEF CallOK, OfItsEpoch, PostTypes

(* A call that ends without writing keeps what holds.                      *)
LEMMA EndsKeeps ==
  ASSUME PostsInv, Resting, NEW c \in WebCalls, NEW answer \in {"none", "error", "unknown", "verified"},
         Posts!Ends(c, answer), oStage' = oStage, UNCHANGED <<oGroups, oMembers>>,
         answer = "verified" => Came(c)
  PROVE  PostsInv'
  <1>1. Stands(c, "done", oStage[c], Posts!Empty, answer)
    BY EndsIs
  <1>2. oStage[c] = "back" => oExecuted[c] # 0
    BY DEF PostsInv, CallsInv, CallOK
  <1>3. CallOK(c, "done", oStage[c], Posts!Empty, answer)
    BY <1>2, EndedIsOK
  <1>4. CachesInv'
    BY <1>1, CachesKeep
  <1> QED
    BY <1>1, <1>3, <1>4, CallMoves

(* So does one that fails.                                                 *)
LEMMA FailsKeeps ==
  ASSUME PostsInv, Resting, NEW c \in WebCalls, Posts!Fails(c), oStage' = oStage,
         UNCHANGED <<oGroups, oMembers>>
  PROVE  PostsInv'
  BY EndsKeeps DEF Posts!Fails

(* It holds at the start.                                                  *)
LEMMA PostsStart == Posts!Init => PostsInv
  <1> SUFFICES ASSUME Posts!Init PROVE PostsInv
    OBVIOUS
  <1>1. PostTypes
    <2>1. Posts!Empty \in Hands
      BY DEF Posts!Empty, Posts!Uncached, Hands, Kept, Rosters
    <2>2. oGroup \in Rosters
      <3>1. /\ oGroup = [value |-> oGroup.value, managers |-> oGroup.managers, plain |-> oGroup.plain]
            /\ oGroup.value \in BOOLEAN /\ oGroup.managers = {1, 2} /\ oGroup.plain = TRUE
        BY DEF Posts!Init
      <3>2. oGroup.managers \in SUBSET Nat
        BY <3>1
      <3> QED
        BY <3>1, <3>2 DEF Rosters
    <2> QED
      BY <2>1, <2>2 DEF Posts!Init, PostTypes, Spots
  <1>2. \A c \in WebCalls : /\ oAt[c] = "idle" /\ oStage[c] = "ask" /\ oReceipt[c] = "none"
                            /\ oHand[c] = Posts!Empty /\ oExecuted[c] = 0
    BY DEF Posts!Init
  <1>3. /\ Posts!Uncached \in Kept /\ Posts!Uncached.epoch = 0
        /\ Posts!Empty.write = 0 /\ Posts!Empty.seen = Posts!Uncached
    BY DEF Posts!Empty, Posts!Uncached, Kept, Rosters
  <1>4. CachesInv
    BY <1>2, <1>3 DEF Posts!Init, CachesInv, OfItsEpoch, GroupsTell, MembersTell, TellsTruly
  <1>5. CallsInv
    BY <1>2, <1>3 DEF Posts!Init, CallsInv, CallOK, OfItsEpoch
  <1> QED
    BY <1>1, <1>2, <1>4, <1>5 DEF PostsInv, WasInv

(* A call begins.                                                          *)
LEMMA AskKeeps ==
  ASSUME PostsInv, NEW c \in WebCalls, Posts!Ask(c)
  PROVE  PostsInv'
  <1>1. /\ PostTypes /\ CachesInv /\ CallOK(c, oAt[c], oStage[c], oHand[c], oReceipt[c])
        /\ oAt[c] = "idle" /\ oHand[c] \in Hands
    BY DEF PostsInv, CallsInv, PostTypes, Posts!Ask
  <1>2. [oHand[c] EXCEPT !.first = oEpoch] \in Hands
        /\ [oHand[c] EXCEPT !.first = oEpoch].seen = oHand[c].seen
        /\ [oHand[c] EXCEPT !.first = oEpoch].write = oHand[c].write
    BY <1>1 DEF Hands, PostTypes
  <1>3. PICK p \in {"members", "queue"} :
          Stands(c, p, oStage[c], [oHand[c] EXCEPT !.first = oEpoch], oReceipt[c])
    BY <1>1, <1>2 DEF Posts!Ask, Posts!Goes, Posts!Notes, Posts!Told, Stands, PostTypes, Spots
  <1>4. Resting /\ UNCHANGED <<oGroups, oMembers>>
    BY DEF Posts!Ask, Posts!Others, Posts!sessionVars, Posts!Told, Resting
  <1>5. CallOK(c, p, oStage[c], [oHand[c] EXCEPT !.first = oEpoch], oReceipt[c])
    BY <1>1, <1>2 DEF CallOK
  <1>6. CachesInv'
    BY <1>3, <1>4, CachesKeep
  <1> QED
    BY <1>3, <1>4, <1>5, <1>6, CallMoves

(* A call that only reads, with what it has in hand.                       *)
LEMMA Fetches ==
  ASSUME PostsInv, Resting, NEW c \in WebCalls, NEW p \in Spots, NEW h \in Hands,
         oAt' = [oAt EXCEPT ![c] = p], oHand' = [oHand EXCEPT ![c] = h],
         UNCHANGED <<oStage, oReceipt>>, p # "cleared",
         oGroups' = oGroups \/ Fresh(oGroups'),
         \/ oMembers' = oMembers \/ Fresh(oMembers')
         \/ "late" \in oFaults /\ oMembers' \in Kept /\ OfItsEpoch(oMembers'),
         CallOK(c, p, oStage[c], h, oReceipt[c])
  PROVE  PostsInv'
  <1>1. Stands(c, p, oStage[c], h, oReceipt[c])
    BY DEF Stands, PostsInv, PostTypes
  <1>2. CachesInv'
    BY <1>1, CachesKeep
  <1> QED
    BY <1>1, <1>2, CallMoves

(* list_members finds its roster in the cache, or not.                     *)
LEMMA MembersAreListed ==
  ASSUME PostsInv, NEW c \in WebCalls, Posts!ListMembers(c)
  PROVE  PostsInv'
  <1>1. /\ PostTypes /\ CachesInv /\ CallOK(c, oAt[c], oStage[c], oHand[c], oReceipt[c])
        /\ oAt[c] = "members" /\ oHand[c] \in Hands
    BY DEF PostsInv, CallsInv, PostTypes, Posts!ListMembers
  <1>2. /\ Resting /\ UNCHANGED <<oGroups, oMembers, oStage, oReceipt>>
    BY DEF Posts!ListMembers, Posts!Others, Posts!sessionVars, Posts!Told, Resting
  <1>3. CASE Posts!Cached(oMembers) /\ Posts!Has(c, oMembers)
    <2> DEFINE h == [Posts!Rest(c) EXCEPT !.seen = oMembers]
    <2>1. h \in Hands /\ h.seen = oMembers /\ h.write = oHand[c].write
      BY <1>1, HandsAre DEF CachesInv
    <2>2. oAt' = [oAt EXCEPT ![c] = "have"] /\ oHand' = [oHand EXCEPT ![c] = h]
      BY <1>3 DEF Posts!Has, Posts!Goes
    <2>3. oMembers.epoch = oEpoch /\ oEpoch # 0
      BY <1>1, <1>3 DEF Posts!Cached, PostTypes
    <2>4. oStage[c] = "back" /\ oMembers.group.value = Posts!Wanted(c) => Came(c)
      BY <1>1, <2>3 DEF CachesInv, MembersTell, TellsTruly, Came, Deceived, CallOK
    <2> HIDE DEF h
    <2>5. CallOK(c, "have", oStage[c], h, oReceipt[c])
      BY <1>1, <2>1, <2>3, <2>4 DEF CallOK, CachesInv, OfItsEpoch, PostTypes, Hands
    <2> QED
      BY <1>2, <2>1, <2>2, <2>5, Fetches DEF Spots
  <1>4. CASE Posts!Notes(c, "noted", oEpoch) /\ Posts!Goes(c, "groups")
    <2> DEFINE h == [oHand[c] EXCEPT !.noted = oEpoch]
    <2>1. h \in Hands /\ h.seen = oHand[c].seen /\ h.write = oHand[c].write
      BY <1>1 DEF Hands, PostTypes
    <2>2. oAt' = [oAt EXCEPT ![c] = "groups"] /\ oHand' = [oHand EXCEPT ![c] = h]
      BY <1>1, <1>4 DEF Posts!Notes, Posts!Goes, PostTypes
    <2> HIDE DEF h
    <2>3. CallOK(c, "groups", oStage[c], h, oReceipt[c])
      BY <1>1, <2>1 DEF CallOK
    <2> QED
      BY <1>2, <2>1, <2>2, <2>3, Fetches DEF Spots
  <1> QED
    BY <1>3, <1>4 DEF Posts!ListMembers

(* With the groups x at hand, as they are now.                             *)
LEMMA GroupsTold ==
  ASSUME PostsInv, Resting, NEW c \in WebCalls, NEW x \in Kept, Posts!AfterGroups(c, x),
         oAt[c] \in {"groups", "list"}, UNCHANGED <<oStage, oReceipt, oMembers>>,
         oGroups' = oGroups \/ Fresh(oGroups'), OfItsEpoch(x), x.epoch = oEpoch,
         oStage[c] = "back" /\ x.group.value = Posts!Wanted(c) => oWas[c]
  PROVE  PostsInv'
  <1>1. PostTypes /\ CallOK(c, oAt[c], oStage[c], oHand[c], oReceipt[c]) /\ oHand[c] \in Hands
    BY DEF PostsInv, CallsInv, PostTypes
  <1>2. CASE oStage[c] = "back" /\ oKind[c] = "close"
    <2> DEFINE h == [Posts!Rest(c) EXCEPT !.seen = x]
    <2>1. h \in Hands /\ h.seen = x /\ h.write = oHand[c].write
      BY <1>1, HandsAre
    <2>2. oAt' = [oAt EXCEPT ![c] = "have"] /\ oHand' = [oHand EXCEPT ![c] = h]
      BY <1>2 DEF Posts!AfterGroups, Posts!Has, Posts!Goes
    <2> HIDE DEF h
    <2>3. CallOK(c, "have", oStage[c], h, oReceipt[c])
      BY <1>1, <1>2, <2>1 DEF CallOK, Came
    <2> QED
      BY <2>1, <2>2, <2>3, Fetches DEF Spots
  <1>3. CASE ~(oStage[c] = "back" /\ oKind[c] = "close")
    <2> DEFINE h == [oHand[c] EXCEPT !.listed = 0]
    <2>1. h \in Hands /\ h.seen = oHand[c].seen /\ h.write = oHand[c].write
      BY <1>1 DEF Hands
    <2>2. PICK p \in {"notices", "pages"} :
            /\ oAt' = [oAt EXCEPT ![c] = p] /\ oHand' = [oHand EXCEPT ![c] = h]
            /\ p = "notices" => oStage[c] = "back"
      BY <1>1, <1>3 DEF Posts!AfterGroups, Posts!Goes, PostTypes
    <2> HIDE DEF h
    <2>3. CallOK(c, p, oStage[c], h, oReceipt[c])
      BY <1>1, <2>1, <2>2 DEF CallOK
    <2> QED
      BY <2>1, <2>2, <2>3, Fetches DEF Spots
  <1> QED
    BY <1>2, <1>3

(* group_data finds the groups in its cache, or not.                       *)
LEMMA GroupsAreLookedUp ==
  ASSUME PostsInv, NEW c \in WebCalls, Posts!LookUpGroups(c)
  PROVE  PostsInv'
  <1>1. /\ PostTypes /\ CachesInv /\ CallOK(c, oAt[c], oStage[c], oHand[c], oReceipt[c])
        /\ oAt[c] = "groups" /\ oHand[c] \in Hands
    BY DEF PostsInv, CallsInv, PostTypes, Posts!LookUpGroups
  <1>2. /\ Resting /\ UNCHANGED <<oGroups, oMembers, oStage, oReceipt>>
    BY DEF Posts!LookUpGroups, Posts!Others, Posts!sessionVars, Posts!Told, Resting
  <1>3. CASE Posts!Cached(oGroups) /\ Posts!AfterGroups(c, oGroups)
    <2>1. oGroups.epoch = oEpoch /\ oEpoch # 0
      BY <1>1, <1>3 DEF Posts!Cached, PostTypes
    <2>2. oStage[c] = "back" /\ oGroups.group.value = Posts!Wanted(c) => oWas[c]
      BY <1>1, <2>1 DEF CachesInv, GroupsTell, TellsTruly
    <2> QED
      BY <1>1, <1>2, <1>3, <2>1, <2>2, GroupsTold DEF CachesInv
  <1>4. CASE Posts!Notes(c, "listed", oEpoch) /\ Posts!Goes(c, "list")
    <2> DEFINE h == [oHand[c] EXCEPT !.listed = oEpoch]
    <2>1. h \in Hands /\ h.seen = oHand[c].seen /\ h.write = oHand[c].write
      BY <1>1 DEF Hands, PostTypes
    <2>2. oAt' = [oAt EXCEPT ![c] = "list"] /\ oHand' = [oHand EXCEPT ![c] = h]
      BY <1>1, <1>4 DEF Posts!Notes, Posts!Goes, PostTypes
    <2> HIDE DEF h
    <2>3. CallOK(c, "list", oStage[c], h, oReceipt[c])
      BY <1>1, <2>1 DEF CallOK
    <2> QED
      BY <1>2, <2>1, <2>2, <2>3, Fetches DEF Spots
  <1> QED
    BY <1>3, <1>4 DEF Posts!LookUpGroups

(* It reads them.                                                          *)
LEMMA GroupsAreRead ==
  ASSUME PostsInv, NEW c \in WebCalls, Posts!ReadGroups(c)
  PROVE  PostsInv'
  <1>1. /\ PostTypes /\ CallOK(c, oAt[c], oStage[c], oHand[c], oReceipt[c]) /\ WasInv
        /\ oAt[c] = "list" /\ oHand[c] \in Hands
    BY DEF PostsInv, CallsInv, PostTypes, Posts!ReadGroups
  <1>2. /\ Resting /\ UNCHANGED <<oMembers, oStage>>
    BY DEF Posts!ReadGroups, Posts!Others, Posts!sessionVars, Resting
  <1>3. CASE oClient = 0 \/ oEpoch # oHand[c].listed
    BY <1>2, <1>3, FailsKeeps DEF Posts!ReadGroups
  <1>4. CASE ~(oClient = 0 \/ oEpoch # oHand[c].listed)
    <2> DEFINE x == Posts!Read(oHand[c].listed)
    <2>1. oHand[c].listed = oEpoch
      BY <1>4
    <2>2. oGroups' = x /\ Posts!AfterGroups(c, x) /\ UNCHANGED oReceipt
      BY <1>4 DEF Posts!ReadGroups, Posts!AfterGroups, Posts!Has, Posts!Goes
    <2>3. x \in Kept /\ x.epoch = oEpoch /\ x.by = oClient /\ x.group = oGroup
      BY <1>1, <2>1, HandsAre DEF PostTypes
    <2>4. Fresh(x)
      BY <1>4, <2>3 DEF Fresh
    <2>5. oStage[c] = "back" /\ x.group.value = Posts!Wanted(c) => oWas[c]
      BY <1>1, <2>3 DEF WasInv, CallOK
    <2> HIDE DEF x
    <2>6. OfItsEpoch(x)
      BY <1>1, <1>4, <2>3 DEF OfItsEpoch, PostTypes
    <2>7. Fresh(oGroups')
      BY <2>2, <2>4 DEF Fresh
    <2> QED
      BY <1>1, <1>2, <2>2, <2>3, <2>5, <2>6, <2>7, GroupsTold
  <1> QED
    BY <1>3, <1>4

(* What is read now, and kept in hand or in the cache.                     *)
LEMMA HasRead ==
  ASSUME PostsInv, Resting, NEW c \in WebCalls, NEW p \in {"have", "keep"}, NEW x, Fresh(x),
         NEW h \in Hands, h.seen = x, h.write = oHand[c].write, oAt[c] \in {"pages", "notices"},
         oAt' = [oAt EXCEPT ![c] = p], oHand' = [oHand EXCEPT ![c] = h],
         UNCHANGED <<oStage, oReceipt, oGroups>>, oMembers' = oMembers \/ oMembers' = x,
         p = "keep" => "late" \in oFaults
  PROVE  PostsInv'
  <1>1. /\ PostTypes /\ CallOK(c, oAt[c], oStage[c], oHand[c], oReceipt[c]) /\ WasInv
    BY DEF PostsInv, CallsInv
  <1>2. oStage[c] = "back" /\ x.group.value = Posts!Wanted(c) => Came(c)
    BY <1>1 DEF Fresh, WasInv, CallOK, Came
  <1>3. CallOK(c, p, oStage[c], h, oReceipt[c])
    BY <1>1, <1>2 DEF CallOK, OfItsEpoch, Fresh, PostTypes
  <1>4. oMembers' = oMembers \/ Fresh(oMembers')
    OBVIOUS
  <1> QED
    BY <1>3, <1>4, Fetches DEF Spots

(* The pages of the roster are read.                                       *)
LEMMA PagesAreRead ==
  ASSUME PostsInv, NEW c \in WebCalls, Posts!ReadPages(c)
  PROVE  PostsInv'
  <1>1. /\ PostTypes /\ oAt[c] = "pages" /\ oHand[c] \in Hands
    BY DEF PostsInv, PostTypes, Posts!ReadPages
  <1>2. /\ Resting /\ UNCHANGED <<oGroups, oStage>>
    BY DEF Posts!ReadPages, Posts!Others, Posts!sessionVars, Resting
  <1>3. CASE oClient = 0 \/ oEpoch # oHand[c].noted
    BY <1>2, <1>3, FailsKeeps DEF Posts!ReadPages
  <1>4. CASE ~(oClient = 0 \/ oEpoch # oHand[c].noted)
    <2> DEFINE x == Posts!Read(oEpoch)
    <2>1. x \in Kept /\ x.epoch = oEpoch /\ x.by = oClient /\ x.group = oGroup
      BY <1>1, HandsAre DEF PostTypes
    <2>2. Fresh(x)
      BY <1>4, <2>1 DEF Fresh
    <2>3. UNCHANGED oReceipt
      BY <1>4 DEF Posts!ReadPages
    <2>4. CASE "late" \in oFaults /\ Posts!Notes(c, "seen", x) /\ Posts!Goes(c, "keep") /\ UNCHANGED oMembers
      <3> DEFINE h == [oHand[c] EXCEPT !.seen = x]
      <3> HIDE DEF x
      <3>1. h \in Hands /\ h.seen = x /\ h.write = oHand[c].write
        BY <1>1, <2>1 DEF Hands
      <3>2. oAt' = [oAt EXCEPT ![c] = "keep"] /\ oHand' = [oHand EXCEPT ![c] = h]
        BY <1>1, <2>4 DEF Posts!Notes, Posts!Goes, PostTypes
      <3> HIDE DEF h
      <3> QED
        BY <1>1, <1>2, <2>2, <2>3, <2>4, <3>1, <3>2, HasRead
    <2>5. CASE oMembers' = x /\ Posts!Has(c, x)
      <3> DEFINE h == [Posts!Rest(c) EXCEPT !.seen = x]
      <3> HIDE DEF x
      <3>1. h \in Hands /\ h.seen = x /\ h.write = oHand[c].write
        BY <1>1, <2>1, HandsAre
      <3>2. oAt' = [oAt EXCEPT ![c] = "have"] /\ oHand' = [oHand EXCEPT ![c] = h]
        BY <2>5 DEF Posts!Has, Posts!Goes
      <3> HIDE DEF h
      <3> QED
        BY <1>1, <1>2, <2>2, <2>3, <2>5, <3>1, <3>2, HasRead
    <2> QED
      BY <1>4, <2>4, <2>5 DEF Posts!ReadPages, Posts!Has, Posts!Goes
  <1> QED
    BY <1>3, <1>4

(* The notices are read.                                                   *)
LEMMA NoticesAreRead ==
  ASSUME PostsInv, NEW c \in WebCalls, Posts!ReadNotices(c)
  PROVE  PostsInv'
  <1>1. /\ PostTypes /\ oAt[c] = "notices" /\ oHand[c] \in Hands
    BY DEF PostsInv, PostTypes, Posts!ReadNotices
  <1>2. /\ Resting /\ UNCHANGED <<oGroups, oMembers, oStage>>
    BY DEF Posts!ReadNotices, Posts!Others, Posts!sessionVars, Resting
  <1>3. CASE oClient = 0 \/ oEpoch # oHand[c].noted
    BY <1>2, <1>3, FailsKeeps DEF Posts!ReadNotices
  <1>4. CASE ~(oClient = 0 \/ oEpoch # oHand[c].noted)
    <2> DEFINE x == Posts!Read(oEpoch)
               h == [Posts!Rest(c) EXCEPT !.seen = x]
    <2>1. x \in Kept /\ x.epoch = oEpoch /\ x.by = oClient /\ x.group = oGroup
      BY <1>1, HandsAre DEF PostTypes
    <2>2. Fresh(x)
      BY <1>4, <2>1 DEF Fresh
    <2>3. UNCHANGED oReceipt /\ oAt' = [oAt EXCEPT ![c] = "have"] /\ oHand' = [oHand EXCEPT ![c] = h]
      BY <1>4 DEF Posts!ReadNotices, Posts!Has, Posts!Goes
    <2> HIDE DEF x
    <2>4. h \in Hands /\ h.seen = x /\ h.write = oHand[c].write
      BY <1>1, <2>1, HandsAre
    <2> HIDE DEF h
    <2> QED
      BY <1>1, <1>2, <2>2, <2>3, <2>4, HasRead
  <1> QED
    BY <1>3, <1>4

(* A roster is kept late.                                                  *)
LEMMA RostersAreKept ==
  ASSUME PostsInv, NEW c \in WebCalls, Posts!KeepRoster(c)
  PROVE  PostsInv'
  <1> DEFINE x == oHand[c].seen
             h == [Posts!Rest(c) EXCEPT !.seen = x]
  <1>1. /\ PostTypes /\ CallOK(c, oAt[c], oStage[c], oHand[c], oReceipt[c])
        /\ oAt[c] = "keep" /\ oHand[c] \in Hands
    BY DEF PostsInv, CallsInv, PostTypes, Posts!KeepRoster
  <1>2. x \in Kept /\ OfItsEpoch(x) /\ "late" \in oFaults
    BY <1>1 DEF Hands, CallOK
  <1>3. /\ Resting /\ UNCHANGED <<oGroups, oStage, oReceipt>> /\ oMembers' = x
        /\ oAt' = [oAt EXCEPT ![c] = "have"] /\ oHand' = [oHand EXCEPT ![c] = h]
    BY DEF Posts!KeepRoster, Posts!Others, Posts!sessionVars, Posts!Told, Resting, Posts!Has, Posts!Goes
  <1>4. h \in Hands /\ h.seen = x /\ h.write = oHand[c].write
    BY <1>1, <1>2, HandsAre
  <1> HIDE DEF h
  <1>5. CallOK(c, "have", oStage[c], h, oReceipt[c])
    BY <1>1, <1>4 DEF CallOK
  <1> QED
    BY <1>2, <1>3, <1>4, <1>5, Fetches DEF Spots

(* A call has looked up what it wanted.                                    *)
LEMMA LooksEnd ==
  ASSUME PostsInv, NEW c \in WebCalls, Posts!LookedUp(c)
  PROVE  PostsInv'
  <1>1. /\ PostTypes /\ CallOK(c, oAt[c], oStage[c], oHand[c], oReceipt[c])
        /\ oStage[c] = "ask"
    BY DEF PostsInv, CallsInv, Posts!LookedUp
  <1>2. /\ Resting /\ UNCHANGED <<oGroups, oMembers, oStage, oReceipt>>
        /\ oHand' = [oHand EXCEPT ![c] = Posts!Rest(c)]
    BY DEF Posts!LookedUp, Posts!Others, Posts!sessionVars, Posts!Told, Resting
  <1>3. PICK p \in {"done", "queue"} : oAt' = [oAt EXCEPT ![c] = p]
    BY DEF Posts!LookedUp, Posts!Goes
  <1>4. /\ Posts!Rest(c) \in Hands /\ Posts!Rest(c).seen.epoch = 0
        /\ Posts!Rest(c).write = oHand[c].write
    BY <1>1, HandsAre
  <1>5. CallOK(c, p, oStage[c], Posts!Rest(c), oReceipt[c])
    BY <1>1, <1>4 DEF CallOK, OfItsEpoch, PostTypes
  <1> QED
    BY <1>2, <1>3, <1>4, <1>5, Fetches DEF Spots

(* The write is queued: from now on only what is read afresh counts.       *)
LEMMA QueueKeeps ==
  ASSUME PostsInv, NEW c \in WebCalls, Posts!Queue(c)
  PROVE  PostsInv'
  <1> DEFINE h == [oHand[c] EXCEPT !.write = oEpoch]
  <1>1. /\ PostTypes /\ CallOK(c, oAt[c], oStage[c], oHand[c], oReceipt[c])
        /\ oAt[c] = "queue" /\ oHand[c] \in Hands
    BY DEF PostsInv, CallsInv, PostTypes, Posts!Queue
  <1>2. h \in Hands /\ h.seen = oHand[c].seen /\ h.write = oEpoch
    BY <1>1 DEF Hands, PostTypes
  <1>3. Stands(c, "members", "permit", h, oReceipt[c])
    BY <1>1, <1>2 DEF Posts!Queue, Posts!Goes, Posts!Notes, Posts!Told, Stands, PostTypes, Spots
  <1> HIDE DEF h
  <1>4. Resting /\ oGroups' = oGroups /\ oMembers' = Posts!Uncached
    BY DEF Posts!Queue, Posts!Others, Posts!sessionVars, Posts!Told, Resting
  <1>5. CallOK(c, "members", "permit", h, oReceipt[c])
    BY <1>1, <1>2 DEF CallOK, PostTypes
  <1>6. CachesInv'
    BY <1>3, <1>4, CachesKeep
  <1> QED
    BY <1>3, <1>4, <1>5, <1>6, CallMoves

(* The roster is looked at.                                                *)
LEMMA PermitKeeps ==
  ASSUME PostsInv, NEW c \in WebCalls, Posts!Permit(c)
  PROVE  PostsInv'
  <1>1. /\ PostTypes /\ CallOK(c, oAt[c], oStage[c], oHand[c], oReceipt[c])
        /\ oAt[c] = "have" /\ oStage[c] = "permit" /\ oHand[c] \in Hands
    BY DEF PostsInv, CallsInv, PostTypes, Posts!Permit
  <1>2. /\ Resting /\ UNCHANGED <<oGroups, oMembers, oStage>>
    BY DEF Posts!Permit, Posts!Others, Posts!sessionVars, Resting
  <1>3. CASE Allows(c, oClient, oHand[c].seen.group) /\ Posts!Goes(c, "send") /\ UNCHANGED <<oHand, oReceipt>>
    <2>1. oAt' = [oAt EXCEPT ![c] = "send"] /\ oHand' = [oHand EXCEPT ![c] = oHand[c]]
      BY <1>1, <1>3 DEF Posts!Goes, PostTypes
    <2>2. CallOK(c, "send", oStage[c], oHand[c], oReceipt[c])
      BY <1>1, <1>3 DEF CallOK
    <2> QED
      BY <1>1, <1>2, <1>3, <2>1, <2>2, Fetches DEF Spots
  <1>4. CASE Posts!Fails(c)
    BY <1>2, <1>4, FailsKeeps
  <1> QED
    BY <1>3, <1>4 DEF Posts!Permit, Allows

(* The cache of the groups is emptied.                                     *)
LEMMA ClearKeeps ==
  ASSUME PostsInv, NEW c \in WebCalls, Posts!ClearGroups(c)
  PROVE  PostsInv'
  <1>1. /\ PostTypes /\ CallOK(c, oAt[c], oStage[c], oHand[c], oReceipt[c])
        /\ oAt[c] = "clear" /\ oHand[c] \in Hands
    BY DEF PostsInv, CallsInv, PostTypes, Posts!ClearGroups
  <1>2. Stands(c, "cleared", oStage[c], oHand[c], oReceipt[c])
    BY <1>1 DEF Posts!ClearGroups, Posts!Goes, Posts!Told, Stands, PostTypes, Spots
  <1>3. Resting /\ oMembers' = oMembers /\ oGroups' = Posts!Uncached
    BY DEF Posts!ClearGroups, Posts!Others, Posts!sessionVars, Posts!Told, Resting
  <1>4. CallOK(c, "cleared", oStage[c], oHand[c], oReceipt[c]) /\ oExecuted[c] # 0
    BY <1>1 DEF CallOK
  <1>5. CachesInv'
    BY <1>2, <1>3, <1>4, CachesKeep
  <1> QED
    BY <1>2, <1>3, <1>4, <1>5, CallMoves

(* That of the members too, and the call begins to read back.              *)
LEMMA ReadBackKeeps ==
  ASSUME PostsInv, NEW c \in WebCalls, Posts!ReadBack(c)
  PROVE  PostsInv'
  <1>1. /\ PostTypes /\ CallOK(c, oAt[c], oStage[c], oHand[c], oReceipt[c])
        /\ oAt[c] = "cleared" /\ oHand[c] \in Hands /\ oExecuted[c] # 0
    BY DEF PostsInv, CallsInv, PostTypes, Posts!ReadBack, CallOK
  <1>2. /\ Resting /\ oMembers' = Posts!Uncached /\ oGroups' = oGroups
        /\ oStage' = [oStage EXCEPT ![c] = "back"]
    BY DEF Posts!ReadBack, Posts!Others, Posts!sessionVars, Resting
  <1>3. CASE oKind[c] = "remove"
    <2>1. Posts!Ends(c, "unknown")
      BY <1>3 DEF Posts!ReadBack
    <2>2. Stands(c, "done", "back", Posts!Empty, "unknown")
      BY <1>2, <2>1, EndsIs
    <2>3. CallOK(c, "done", "back", Posts!Empty, "unknown")
      BY <1>1, EndedIsOK
    <2>4. CachesInv'
      BY <1>1, <1>2, <2>2, CachesKeep
    <2> QED
      BY <1>2, <2>2, <2>3, <2>4, CallMoves
  <1>4. CASE oKind[c] # "remove"
    <2> DEFINE h == [Posts!Rest(c) EXCEPT !.noted = oEpoch]
    <2>1. h \in Hands /\ h.seen.epoch = 0 /\ h.write = oHand[c].write
      <3>1. Posts!Rest(c) \in Hands /\ Posts!Rest(c).seen.epoch = 0 /\ Posts!Rest(c).write = oHand[c].write
        BY <1>1, HandsAre
      <3> QED
        BY <1>1, <3>1 DEF Hands, PostTypes
    <2>2. PICK p \in {"members", "nim", "groups"} :
            Stands(c, p, "back", h, oReceipt[c]) /\ (p = "members" => oKind[c] = "card")
      <3>1. /\ oHand' = [oHand EXCEPT ![c] = h] /\ oReceipt' = [oReceipt EXCEPT ![c] = oReceipt[c]]
        BY <1>1, <1>4 DEF Posts!ReadBack, PostTypes
      <3> HIDE DEF h
      <3>2. \E p \in {"members", "nim", "groups"} :
              oAt' = [oAt EXCEPT ![c] = p] /\ (p = "members" => oKind[c] = "card")
        BY <1>4 DEF Posts!ReadBack, Posts!Goes
      <3> QED
        BY <1>1, <1>2, <2>1, <3>1, <3>2 DEF Stands, Spots, PostTypes
    <2> HIDE DEF h
    <2>3. CallOK(c, p, "back", h, oReceipt[c])
      BY <1>1, <2>1, <2>2 DEF CallOK, OfItsEpoch, PostTypes
    <2>4. CachesInv'
      BY <1>1, <1>2, <2>2, CachesKeep
    <2> QED
      BY <1>2, <2>2, <2>3, <2>4, CallMoves
  <1> QED
    BY <1>3, <1>4

(* What was read back is compared.                                         *)
LEMMA CompareKeeps ==
  ASSUME PostsInv, NEW c \in WebCalls, Posts!Compare(c)
  PROVE  PostsInv'
  <1>1. CallOK(c, oAt[c], oStage[c], oHand[c], oReceipt[c]) /\ oAt[c] = "have" /\ oStage[c] = "back"
    BY DEF PostsInv, CallsInv, Posts!Compare
  <1>2. /\ Resting /\ UNCHANGED <<oGroups, oMembers>> /\ oStage' = oStage
    BY DEF Posts!Compare, Posts!Others, Posts!sessionVars, Resting
  <1>3. CASE oHand[c].seen.group.value = Posts!Wanted(c)
    <2>1. Posts!Ends(c, "verified") /\ Came(c)
      BY <1>1, <1>3 DEF Posts!Compare, CallOK
    <2> QED
      BY <1>2, <2>1, EndsKeeps
  <1>4. CASE oHand[c].seen.group.value # Posts!Wanted(c)
    <2>1. Posts!Ends(c, "unknown")
      BY <1>4 DEF Posts!Compare
    <2> QED
      BY <1>2, <2>1, EndsKeeps
  <1> QED
    BY <1>3, <1>4

(* A call is dropped.                                                      *)
LEMMA CancelKeeps ==
  ASSUME PostsInv, NEW c \in WebCalls, Posts!Cancel(c)
  PROVE  PostsInv'
  <1>1. /\ Resting /\ UNCHANGED <<oGroups, oMembers>> /\ oStage' = oStage /\ Posts!Ends(c, "none")
    BY DEF Posts!Cancel, Posts!Others, Posts!sessionVars, Resting
  <1> QED
    BY <1>1, EndsKeeps

(* Something is done to the group, for c or by itself.                     *)
LEMMA BecomesIs ==
  ASSUME PostsInv, NEW v \in BOOLEAN, Posts!Becomes(v), oExecuted' \in [WebCalls -> Nat]
  PROVE  /\ oGroup' \in Rosters /\ oWas' \in [WebCalls -> BOOLEAN] /\ WasInv'
         /\ \A d \in WebCalls : oWas[d] => oWas'[d]
         /\ \A d \in WebCalls : oExecuted'[d] # 0 /\ Posts!Wanted(d) = v => oWas'[d]
  <1>1. oGroup \in Rosters /\ oWas \in [WebCalls -> BOOLEAN]
    BY DEF PostsInv, PostTypes
  <1>2. oGroup' \in Rosters /\ oGroup'.value = v
    BY <1>1 DEF Posts!Becomes, Rosters
  <1>3. \A d \in WebCalls : oWas'[d] = (oWas[d] \/ (oExecuted'[d] # 0 /\ Posts!Wanted(d) = v))
    BY DEF Posts!Becomes
  <1>4. oWas' \in [WebCalls -> BOOLEAN]
    <2>1. oWas' = [d \in WebCalls |-> oWas[d] \/ (oExecuted'[d] # 0 /\ Posts!Wanted(d) = v)]
      BY DEF Posts!Becomes
    <2> QED
      BY <2>1
  <1>5. \A d \in WebCalls : (oWas[d] => oWas'[d]) /\ (oExecuted'[d] # 0 /\ Posts!Wanted(d) = v => oWas'[d])
    BY <1>3, Zenon
  <1>6. WasInv'
    BY <1>2, <1>5 DEF WasInv, Posts!Wanted
  <1> QED
    BY <1>2, <1>4, <1>5, <1>6

(* A step that changes the group and where c stands.                       *)
LEMMA WriteMoves ==
  ASSUME PostsInv, NEW c \in WebCalls, NEW p, NEW h, NEW r, NEW v \in BOOLEAN, Posts!Becomes(v),
         Stands(c, p, oStage[c], h, r), p \in {"clear", "done"},
         UNCHANGED <<oClient, oEpoch, oMade, oFaults, oKind, oGroups, oMembers>>,
         oExecuted' \in [WebCalls -> Nat], \A d \in WebCalls \ {c} : oExecuted'[d] = oExecuted[d],
         oStage[c] = "back" => oExecuted'[c] = oExecuted[c],
         CallOK(c, p, oStage[c], h, r)'
  PROVE  PostsInv'
  <1>1. PostTypes /\ CachesInv /\ CallsInv
    BY DEF PostsInv
  <1>2. /\ oGroup' \in Rosters /\ oWas' \in [WebCalls -> BOOLEAN] /\ WasInv'
        /\ \A d \in WebCalls : oWas[d] => oWas'[d]
    BY BecomesIs
  <1>3. PostTypes'
    BY <1>1, <1>2 DEF PostTypes, Stands
  <1>4. CachesInv'
    <2>1. /\ oGroups' \in Kept /\ OfItsEpoch(oGroups)'
          /\ oMembers' \in Kept /\ OfItsEpoch(oMembers)'
      BY <1>1 DEF CachesInv, OfItsEpoch
    <2>2. \A d \in WebCalls : /\ oStage'[d] = oStage[d]
                              /\ oAt'[d] = "cleared" => oAt[d] = "cleared"
      BY <1>1 DEF Stands, PostTypes
    <2>3. \A d \in WebCalls : /\ TellsTruly(oGroups, d) => TellsTruly(oGroups, d)'
                              /\ TellsTruly(oMembers, d) => TellsTruly(oMembers, d)'
      BY <1>2 DEF TellsTruly, Posts!Wanted
    <2>4. GroupsTell' /\ MembersTell'
      BY <1>1, <2>2, <2>3 DEF CachesInv, GroupsTell, MembersTell
    <2> QED
      BY <2>1, <2>4 DEF CachesInv
  <1>5. CallsInv'
    <2> SUFFICES ASSUME NEW d \in WebCalls PROVE CallOK(d, oAt[d], oStage[d], oHand[d], oReceipt[d])'
      BY DEF CallsInv
    <2>1. CASE d = c
      <3>1. oAt'[d] = p /\ oStage'[d] = oStage[c] /\ oHand'[d] = h /\ oReceipt'[d] = r
        BY <1>1, <2>1 DEF Stands, PostTypes
      <3>2. oStage'[c] = oStage[c]
        BY <2>1, <3>1
      <3> QED
        BY <1>1, <2>1, <3>1, <3>2 DEF CallOK, OfItsEpoch, Allows, Came, Deceived
    <2>2. CASE d # c
      <3>1. oAt'[d] = oAt[d] /\ oStage'[d] = oStage[d] /\ oHand'[d] = oHand[d] /\ oReceipt'[d] = oReceipt[d]
            /\ oExecuted'[d] = oExecuted[d]
        BY <1>1, <2>2 DEF Stands, PostTypes
      <3>2. CallOK(d, oAt[d], oStage[d], oHand[d], oReceipt[d])
        BY <1>1 DEF CallsInv
      <3>3. Came(d) => Came(d)'
        BY <1>2 DEF Came, Deceived
      <3> QED
        BY <3>1, <3>2, <3>3 DEF CallOK, OfItsEpoch, Allows, Posts!Wanted
    <2> QED
      BY <2>1, <2>2
  <1> QED
    BY <1>2, <1>3, <1>4, <1>5 DEF PostsInv

(* The login that sends is the one whose roster permits it.                *)
LEMMA SendKeeps ==
  ASSUME PostsInv, NEW c \in WebCalls, Posts!Send(c)
  PROVE  PostsInv'
  <1>1. /\ PostTypes /\ CallOK(c, oAt[c], oStage[c], oHand[c], oReceipt[c])
        /\ oAt[c] = "send" /\ oHand[c] \in Hands /\ oStage[c] = "permit"
    BY DEF PostsInv, CallsInv, PostTypes, Posts!Send, CallOK
  <1>2. /\ UNCHANGED <<oClient, oEpoch, oKept, oMade, oFaults, oKind, oGroups, oMembers>> /\ oStage' = oStage
    BY DEF Posts!Send, Posts!Others, Posts!sessionVars
  <1>3. CASE oClient = 0 \/ oEpoch # oHand[c].write
    <2>1. Posts!Fails(c) /\ UNCHANGED <<oGroup, oExecuted, oWas>>
      BY <1>3 DEF Posts!Send
    <2> QED
      BY <1>2, <2>1, FailsKeeps DEF Resting
  <1>4. CASE ~(oClient = 0 \/ oEpoch # oHand[c].write)
    <2>1. PICK v \in BOOLEAN : Posts!Becomes(v)
      <3>1. Posts!Wanted(c) \in BOOLEAN /\ oGroup.value \in BOOLEAN
        BY <1>1 DEF Posts!Wanted, PostTypes, Rosters
      <3> QED
        BY <1>4, <3>1 DEF Posts!Send
    <2>2. /\ oExecuted' = [oExecuted EXCEPT ![c] = oClient]
          /\ (Posts!Goes(c, "clear") /\ UNCHANGED <<oHand, oReceipt>>) \/ Posts!Fails(c)
      BY <1>4 DEF Posts!Send
    <2>3. /\ oExecuted' \in [WebCalls -> Nat] /\ oExecuted'[c] = oClient
          /\ \A d \in WebCalls \ {c} : oExecuted'[d] = oExecuted[d]
      BY <1>1, <2>2 DEF PostTypes
    <2>4. oHand[c].seen.by = oClient /\ Allows(c, oClient, oHand[c].seen.group)
      BY <1>1, <1>4 DEF CallOK, OfItsEpoch, PostTypes, Hands, Kept
    <2>5. Came(c) => Came(c)'
      BY <1>2, <2>1, <2>3, BecomesIs DEF Came, Deceived
    <2>6. CASE Posts!Goes(c, "clear") /\ UNCHANGED <<oHand, oReceipt>>
      <3>1. Stands(c, "clear", oStage[c], oHand[c], oReceipt[c])
        BY <1>1, <1>2, <2>6 DEF Posts!Goes, Stands, PostTypes, Spots
      <3>2. CallOK(c, "clear", oStage[c], oHand[c], oReceipt[c])'
        BY <1>1, <1>2, <1>4, <2>3, <2>4, <2>5, <2>6 DEF CallOK, OfItsEpoch, Allows
      <3> QED
        BY <1>1, <1>2, <2>1, <2>3, <2>6, <3>1, <3>2, WriteMoves
    <2>7. CASE Posts!Fails(c)
      <3>1. Posts!Ends(c, "error")
        BY <1>1, <2>7 DEF Posts!Fails
      <3>2. Stands(c, "done", oStage[c], Posts!Empty, "error")
        BY <1>2, <3>1, EndsIs
      <3>3. Posts!Empty.write = 0 /\ Posts!Empty.seen.epoch = 0
        BY <1>1, HandsAre
      <3>4. Posts!Empty' = Posts!Empty
        BY DEF Posts!Empty, Posts!Uncached
      <3>5. CallOK(c, "done", oStage[c], Posts!Empty, "error")'
        BY <1>1, <1>2, <3>3, <3>4 DEF CallOK, OfItsEpoch, PostTypes
      <3> QED
        BY <1>1, <1>2, <2>1, <2>3, <3>2, <3>5, WriteMoves
    <2> QED
      BY <2>2, <2>6, <2>7
  <1> QED
    BY <1>3, <1>4

(* A mute is done at the connection for messages.                          *)
LEMMA MuteKeeps ==
  ASSUME PostsInv, NEW c \in WebCalls, Posts!MuteAtNim(c)
  PROVE  PostsInv'
  <1>1. /\ PostTypes /\ CallOK(c, oAt[c], oStage[c], oHand[c], oReceipt[c])
        /\ oAt[c] = "nim" /\ oExecuted[c] # 0
    BY DEF PostsInv, CallsInv, Posts!MuteAtNim, CallOK
  <1>2. /\ UNCHANGED <<oClient, oEpoch, oKept, oMade, oFaults, oKind, oGroups, oMembers, oExecuted>>
        /\ oStage' = oStage
    BY DEF Posts!MuteAtNim, Posts!Others, Posts!sessionVars
  <1>3. CASE UNCHANGED <<oGroup, oWas>> /\ Posts!Ends(c, "unknown")
    BY <1>2, <1>3, EndsKeeps DEF Resting
  <1>4. CASE Posts!Becomes(Posts!Wanted(c)) /\ Posts!Ends(c, "verified")
    <2>1. Posts!Wanted(c) \in BOOLEAN
      BY DEF Posts!Wanted
    <2>2. oExecuted' \in [WebCalls -> Nat] /\ oExecuted' = oExecuted
      BY <1>1, <1>2 DEF PostTypes
    <2>3. Stands(c, "done", oStage[c], Posts!Empty, "verified")
      BY <1>2, <1>4, EndsIs
    <2>4. oWas'[c]
      BY <1>1, <1>4, <2>1, <2>2, BecomesIs
    <2>5. Posts!Empty.write = 0 /\ Posts!Empty.seen.epoch = 0 /\ Posts!Empty' = Posts!Empty
      BY <1>1, HandsAre DEF Posts!Empty, Posts!Uncached
    <2>6. CallOK(c, "done", oStage[c], Posts!Empty, "verified")'
      BY <1>1, <1>2, <2>2, <2>4, <2>5 DEF CallOK, OfItsEpoch, PostTypes, Came
    <2> QED
      BY <1>2, <1>4, <2>1, <2>2, <2>3, <2>6, WriteMoves
  <1> QED
    BY <1>3, <1>4 DEF Posts!MuteAtNim

(* The login ends or another one begins: what was read before is stale.    *)
LEMMA SessionKeeps ==
  ASSUME PostsInv, Posts!SessionMoves
  PROVE  PostsInv'
  <1>1. PostTypes /\ CachesInv /\ CallsInv /\ WasInv
    BY DEF PostsInv
  <1>2. UNCHANGED <<oFaults, oKind, oGroup, oGroups, oMembers, oAt, oStage, oHand, oReceipt, oExecuted, oWas>>
    BY DEF Posts!SessionMoves, Posts!Told
  <1>3. /\ oClient' \in Nat /\ oMade' \in Nat /\ oEpoch' \in Nat \ {0}
        /\ \/ oClient = 0 /\ oClient' # 0 /\ oEpoch' = oEpoch
           \/ oEpoch' = oEpoch + 1
    BY <1>1 DEF Posts!SessionMoves, Posts!Begin, Posts!End, Posts!Expire, PostTypes
  <1>4. PostTypes'
    BY <1>1, <1>2, <1>3 DEF PostTypes
  <1>5. \A x \in Kept : OfItsEpoch(x) => x.epoch <= oEpoch' /\ (x.epoch = oEpoch' => FALSE)
    BY <1>1, <1>3 DEF OfItsEpoch, PostTypes, Kept
  <1>6. CachesInv'
    BY <1>1, <1>2, <1>5 DEF CachesInv, OfItsEpoch, GroupsTell, MembersTell, TellsTruly, Posts!Wanted
  <1>7. CallsInv'
    <2> SUFFICES ASSUME NEW c \in WebCalls PROVE CallOK(c, oAt[c], oStage[c], oHand[c], oReceipt[c])'
      BY DEF CallsInv
    <2>1. CallOK(c, oAt[c], oStage[c], oHand[c], oReceipt[c]) /\ oHand[c] \in Hands
      BY <1>1 DEF CallsInv, PostTypes
    <2>2. oHand[c].seen \in Kept /\ oHand[c].seen.epoch \in Nat /\ oHand[c].write \in Nat
      BY <2>1 DEF Hands, Kept
    <2>3. OfItsEpoch(oHand[c].seen)' /\ oHand[c].seen.epoch # oEpoch' /\ oHand[c].write <= oEpoch'
      BY <1>1, <1>2, <1>3, <1>5, <2>1, <2>2 DEF CallOK, OfItsEpoch, PostTypes
    <2>4. ~(oAt[c] = "send" /\ oEpoch' = oHand[c].write)
      BY <1>1, <1>3, <2>1, <2>2, <2>3 DEF CallOK, PostTypes, OfItsEpoch
    <2>5. Came(c)' <=> Came(c)
      BY <1>2 DEF Came, Deceived
    <2> QED
      BY <1>2, <2>1, <2>3, <2>4, <2>5 DEF CallOK, Allows, Posts!Wanted
  <1> QED
    BY <1>1, <1>2, <1>4, <1>6, <1>7 DEF PostsInv, WasInv, Posts!Wanted

(* The roles in the group change.                                          *)
LEMMA RolesKeep ==
  ASSUME PostsInv, Posts!RolesChange
  PROVE  PostsInv'
  <1>1. PostTypes /\ CachesInv /\ CallsInv /\ WasInv
    BY DEF PostsInv
  <1>2. UNCHANGED <<oClient, oEpoch, oMade, oFaults, oKind, oGroups, oMembers, oAt, oStage, oHand, oReceipt,
                    oExecuted, oWas>>
    BY DEF Posts!RolesChange, Posts!Others, Posts!sessionVars, Posts!Told
  <1>3. oGroup' \in Rosters /\ oGroup'.value = oGroup.value
    <2>1. {2} \in SUBSET Nat
      OBVIOUS
    <2> QED
      BY <1>1, <2>1 DEF Posts!RolesChange, PostTypes, Rosters
  <1>4. PostTypes'
    BY <1>1, <1>2, <1>3 DEF PostTypes
  <1>5. CachesInv'
    BY <1>1, <1>2 DEF CachesInv, OfItsEpoch, GroupsTell, MembersTell, TellsTruly, Posts!Wanted
  <1>6. CallsInv'
    BY <1>1, <1>2 DEF CallsInv, CallOK, OfItsEpoch, Allows, Came, Deceived, Posts!Wanted
  <1> QED
    BY <1>1, <1>2, <1>3, <1>4, <1>5, <1>6 DEF PostsInv, WasInv, Posts!Wanted

(* Every step keeps it.                                                    *)
LEMMA PostsStep ==
  ASSUME PostsInv, [Posts!Next]_(Posts!vars)
  PROVE  PostsInv'
  <1>1. CASE UNCHANGED Posts!vars
    BY <1>1 DEF Posts!vars, Posts!sessionVars, PostsInv, PostTypes, CachesInv, CallsInv, WasInv, OfItsEpoch,
       GroupsTell, MembersTell, TellsTruly, CallOK, Allows, Came, Deceived, Posts!Wanted
  <1>2. ASSUME NEW c \in WebCalls,
               \/ Posts!Ask(c) \/ Posts!ListMembers(c) \/ Posts!LookUpGroups(c) \/ Posts!ReadGroups(c)
               \/ Posts!ReadPages(c) \/ Posts!KeepRoster(c) \/ Posts!LookedUp(c)
        PROVE  PostsInv'
    BY <1>2, AskKeeps, MembersAreListed, GroupsAreLookedUp, GroupsAreRead, PagesAreRead, RostersAreKept, LooksEnd
  <1>3. ASSUME NEW c \in Posts!Writers,
               \/ Posts!ReadNotices(c) \/ Posts!Queue(c) \/ Posts!Permit(c) \/ Posts!Send(c)
               \/ Posts!ClearGroups(c) \/ Posts!ReadBack(c) \/ Posts!MuteAtNim(c) \/ Posts!Compare(c)
               \/ Posts!Cancel(c)
        PROVE  PostsInv'
    <2>1. c \in WebCalls
      BY DEF Posts!Writers
    <2> QED
      BY <1>3, <2>1, NoticesAreRead, QueueKeeps, PermitKeeps, SendKeeps, ClearKeeps, ReadBackKeeps, MuteKeeps,
         CompareKeeps, CancelKeeps
  <1> QED
    BY <1>1, <1>2, <1>3, SessionKeeps, RolesKeep DEF Posts!Next

(* A write in the web edition is carried out by the login whose roster     *)
(* permitted it, and called verified only if the group has been as it asks *)
(* since then, though it is read through caches that other calls fill and  *)
(* logins come and go meanwhile (rust_gateway.rs); a rename may be         *)
(* deceived by a roster that is kept late.  For any number of calls.       *)
THEOREM WebWritesTellTheTruth == MCSpec => []WebWritesAreTrue
  <1> DEFINE I == focus = "posts" => PostsInv
  <1>1. MCInit => I
    BY PostsStart DEF MCInit
  <1>2. I /\ [MCNext]_mcVars => I'
    BY Steps, PostsStep
  <1>3. I => WebWritesAreTrue
    <2> SUFFICES ASSUME PostsInv PROVE Posts!WebWritesAreTrue
      BY DEF WebWritesAreTrue
    <2> SUFFICES ASSUME NEW c \in WebCalls, CallOK(c, oAt[c], oStage[c], oHand[c], oReceipt[c])
                 PROVE  /\ oExecuted[c] # 0 /\ oAt[c] \in {"clear", "cleared"} =>
                             /\ oExecuted[c] = oHand[c].seen.by
                             /\ oExecuted[c] \in oHand[c].seen.group.managers
                             /\ oKind[c] \in {"card", "mute", "remove"} => oHand[c].seen.group.plain
                        /\ oReceipt[c] = "verified" => oWas[c] \/ ("late" \in oFaults /\ oKind[c] = "card")
      BY DEF PostsInv, CallsInv, Posts!WebWritesAreTrue, Posts!PermittedByItsOwnRoster, Posts!VerifiedTruly,
             Posts!Writers
    <2> QED
      BY DEF CallOK, Allows, Came, Deceived
  <1> QED
    BY <1>1, <1>2, <1>3, PTL DEF MCSpec, mcVars

-----------------------------------------------------------------------------
(* The database file over the starts: what its rows are like.              *)
RuleRows == [there : {TRUE}, matcher : {"word", "semantic"}, type : {"ai", "machine"},
             level : {"low", "medium", "high"}, priority : Nat, scope : {"global", "selected"},
             first : {0, 1}, groups : SUBSET {1, 2}, exempt : SUBSET {1}, spared : SUBSET {1}]
Switches == [there : {TRUE}, old : BOOLEAN, new : BOOLEAN]
ActivityRows == [there : {TRUE}, on : BOOLEAN, times : SUBSET {1, 2}, groups : SUBSET {1, 2}, deleted : BOOLEAN]
Files == [version : {0, 6, 11, 14, 15}, damaged : BOOLEAN, rule : RuleRows \cup {Storage!NoRow},
          ready : BOOLEAN, switch : Switches, reminder : {"none", "open", "sent"},
          activity : ActivityRows \cup {Storage!NoRow}, claimed : {"no", "processing", "recovered"}]
SavedRows == [rule : RuleRows \cup {Storage!NoRow}, switch : Switches \cup {Storage!NoRow},
              activity : ActivityRows \cup {Storage!NoRow}]

(* The old columns of a rule fit the new ones.                             *)
Fits(r) ==
    /\ r.type = IF r.matcher = "semantic" THEN "ai" ELSE "machine"
    /\ r.scope = IF r.first = 0 THEN "global" ELSE "selected"
    /\ r.level = IF r.priority < 100 THEN "low" ELSE IF r.priority < 200 THEN "medium" ELSE "high"
    /\ {r.first} \ {0} \subseteq r.groups
    /\ r.exempt \subseteq r.spared

(* What has been migrated is kept as it is by another migration.           *)
ActivityOK(f) ==
    /\ f.version # 14 \/ f.reminder = "none" => f.activity = Storage!NoRow
    /\ f.version = 14 /\ f.reminder # "none" =>
          /\ f.activity \in ActivityRows
          /\ "retime" \notin dFaults => 1 \in f.activity.times /\ 1 \in f.activity.groups

(* What the administrator saved is as it was saved, in a migrated file; a  *)
(* reminder that nobody has touched is enabled.                            *)
SavedOK(f, s) ==
    /\ s.rule \in RuleRows => f.version = 14 /\ f.rule = s.rule /\ Fits(s.rule)
    /\ s.switch \in Switches => f.version = 14 /\ f.switch = s.switch /\ s.switch.new = s.switch.old
    /\ s.activity \in ActivityRows => f.version = 14 /\ ("retime" \notin dFaults => f.activity = s.activity)
    /\ f.version = 14 /\ f.reminder = "open" /\ s.activity = Storage!NoRow =>
          f.activity.on = TRUE /\ f.activity.deleted = FALSE

FileOK == dDb \in Files /\ ActivityOK(dDb) /\ dSaved \in SavedRows /\ SavedOK(dDb, dSaved)

(* A snapshot is a file before its migration; the last one is the last by  *)
(* name too.                                                               *)
BackupsOK ==
    \A s \in dBackups :
        /\ s.db \in Files /\ s.db.version \in {0, 6, 11} /\ s.db.damaged = FALSE
        /\ s.db.activity = Storage!NoRow
        /\ "older" \notin dFaults =>
              /\ s.version = 6 /\ s.nr \in Nat /\ s.nr <= dStarts + 3
              /\ dAt = "checked" => s.nr < dStarts + 3

StorageInv ==
    /\ FileOK /\ BackupsOK
    /\ dStarts \in Nat /\ dAt \in {"down", "checked", "safe", "migrated", "up"}
    /\ dAt \in {"checked", "safe"} => dOld = dDb.version
    /\ dAt \in {"migrated", "up"} => dDb.version = 14
    /\ dDb.damaged => dAt = "down"
    /\ "older" \notin dFaults => Storage!SnapshotsComeFirst

(* A row is there or not.                                                  *)
LEMMA RowsAre ==
  /\ Storage!NoRow.there = FALSE
  /\ \A r \in RuleRows : r.there = TRUE
  /\ \A s \in Switches : s.there = TRUE
  /\ \A a \in ActivityRows : a.there = TRUE
  BY DEF Storage!NoRow, RuleRows, Switches, ActivityRows

(* Rows are equal when their columns are.                                  *)
LEMMA RowsEqual ==
  /\ \A r, q \in RuleRows :
        /\ r.matcher = q.matcher /\ r.type = q.type /\ r.level = q.level /\ r.priority = q.priority
        /\ r.scope = q.scope /\ r.first = q.first /\ r.groups = q.groups
        /\ r.exempt = q.exempt /\ r.spared = q.spared
        => r = q
  /\ \A s, q \in Switches : s.old = q.old /\ s.new = q.new => s = q
  /\ \A a, b \in ActivityRows :
        a.on = b.on /\ a.times = b.times /\ a.groups = b.groups /\ a.deleted = b.deleted => a = b
  <1>1. ASSUME NEW r \in RuleRows
        PROVE  r = [there |-> TRUE, matcher |-> r.matcher, type |-> r.type, level |-> r.level,
                    priority |-> r.priority, scope |-> r.scope, first |-> r.first, groups |-> r.groups,
                    exempt |-> r.exempt, spared |-> r.spared]
    BY DEF RuleRows
  <1>2. ASSUME NEW s \in Switches PROVE s = [there |-> TRUE, old |-> s.old, new |-> s.new]
    BY DEF Switches
  <1>3. ASSUME NEW a \in ActivityRows
        PROVE  a = [there |-> TRUE, on |-> a.on, times |-> a.times, groups |-> a.groups, deleted |-> a.deleted]
    BY DEF ActivityRows
  <1>4. ASSUME NEW r \in RuleRows, NEW q \in RuleRows,
               r.matcher = q.matcher /\ r.type = q.type /\ r.level = q.level /\ r.priority = q.priority,
               r.scope = q.scope /\ r.first = q.first /\ r.groups = q.groups,
               r.exempt = q.exempt /\ r.spared = q.spared
        PROVE  r = q
    BY <1>1, <1>4
  <1>5. ASSUME NEW s \in Switches, NEW q \in Switches, s.old = q.old /\ s.new = q.new PROVE s = q
    BY <1>2, <1>5
  <1>6. ASSUME NEW a \in ActivityRows, NEW b \in ActivityRows,
               a.on = b.on /\ a.times = b.times /\ a.groups = b.groups /\ a.deleted = b.deleted
        PROVE  a = b
    BY <1>3, <1>6
  <1> QED
    BY <1>4, <1>5, <1>6

(* The rows of a file through the migration.                               *)
LEMMA ReshapedIs ==
  ASSUME NEW f \in Files
  PROVE  /\ Storage!Reshaped(f) \in Files
         /\ Storage!Reshaped(f).version = f.version /\ Storage!Reshaped(f).damaged = f.damaged
         /\ Storage!Reshaped(f).reminder = f.reminder /\ Storage!Reshaped(f).activity = f.activity
         /\ f.rule \in RuleRows /\ Fits(f.rule) => Storage!Reshaped(f).rule = f.rule
         /\ f.switch.new = f.switch.old => Storage!Reshaped(f).switch = f.switch
  <1> DEFINE r == f.rule
             fitted == [r EXCEPT
                             !.type = IF r.matcher = "semantic" THEN "ai" ELSE "machine",
                             !.scope = IF r.first = 0 THEN "global" ELSE "selected",
                             !.level = IF r.priority < 100 THEN "low"
                                       ELSE IF r.priority < 200 THEN "medium" ELSE "high",
                             !.groups = @ \cup ({r.first} \ {0}),
                             !.spared = @ \cup r.exempt]
             rule == IF ~r.there THEN r ELSE fitted
             switch == [f.switch EXCEPT !.new = @ \/ f.switch.old]
  <1>0. r \in RuleRows \cup {Storage!NoRow} /\ f.switch \in Switches
    BY DEF Files
  <1>1. Storage!Reshaped(f) = [f EXCEPT !.rule = rule, !.switch.new = @ \/ f.switch.old]
    BY DEF Storage!Reshaped
  <1>2. r \in RuleRows => /\ fitted \in RuleRows
                          /\ Fits(r) => fitted = r
    <2> SUFFICES ASSUME r \in RuleRows PROVE fitted \in RuleRows /\ (Fits(r) => fitted = r)
      OBVIOUS
    <2> DEFINE type == IF r.matcher = "semantic" THEN "ai" ELSE "machine"
               scope == IF r.first = 0 THEN "global" ELSE "selected"
               level == IF r.priority < 100 THEN "low" ELSE IF r.priority < 200 THEN "medium" ELSE "high"
               groups == r.groups \cup ({r.first} \ {0})
               spared == r.spared \cup r.exempt
    <2>0. /\ type \in {"ai", "machine"} /\ scope \in {"global", "selected"} /\ level \in {"low", "medium", "high"}
          /\ groups \in SUBSET {1, 2} /\ spared \in SUBSET {1}
      BY DEF RuleRows
    <2>3. fitted = [r EXCEPT !.type = type, !.scope = scope, !.level = level, !.groups = groups,
                             !.spared = spared]
      BY DEF RuleRows
    <2> HIDE DEF type, scope, level, groups, spared, fitted
    <2>1. /\ fitted \in RuleRows
          /\ fitted.matcher = r.matcher /\ fitted.priority = r.priority /\ fitted.first = r.first
          /\ fitted.type = type /\ fitted.scope = scope /\ fitted.level = level /\ fitted.groups = groups
          /\ fitted.exempt = r.exempt /\ fitted.spared = spared
      BY <2>0, <2>3 DEF RuleRows
    <2>2. ASSUME Fits(r) PROVE fitted = r
      <3>1. r.groups \cup ({r.first} \ {0}) = r.groups /\ r.spared \cup r.exempt = r.spared
        BY <2>2 DEF Fits
      <3>2. type = r.type /\ scope = r.scope /\ level = r.level /\ groups = r.groups /\ spared = r.spared
        BY <2>2, <3>1 DEF Fits, type, scope, level, groups, spared
      <3> QED
        BY <2>1, <3>2, RowsEqual
    <2> QED
      BY <2>1, <2>2
  <1> HIDE DEF fitted
  <1>3. rule \in RuleRows \cup {Storage!NoRow} /\ (r \in RuleRows /\ Fits(r) => rule = r)
    BY <1>0, <1>2, RowsAre
  <1>4. switch \in Switches /\ (f.switch.new = f.switch.old => switch = f.switch)
    <2>1. switch \in Switches /\ switch.old = f.switch.old /\ switch.new = (f.switch.new \/ f.switch.old)
      BY <1>0 DEF Switches
    <2>2. f.switch.new \in BOOLEAN /\ f.switch.old \in BOOLEAN
      BY <1>0 DEF Switches
    <2> HIDE DEF switch
    <2>3. f.switch.new = f.switch.old => switch.new = f.switch.new
      BY <2>1, <2>2, Zenon
    <2> QED
      BY <1>0, <2>1, <2>3, RowsEqual
  <1> HIDE DEF rule
  <1>5. Storage!Reshaped(f) = [[f EXCEPT !.rule = rule] EXCEPT !.switch = switch]
    BY <1>1 DEF Files
  <1> HIDE DEF switch
  <1> QED
    BY <1>3, <1>4, <1>5 DEF Files

(* A reminder's activity has its time and its group, and what is there     *)
(* already stays.                                                          *)
LEMMA CarriedIs ==
  ASSUME NEW f \in Files, ActivityOK(f)
  PROVE  /\ Storage!Carried(f) \in Files
         /\ Storage!Carried(f).version = f.version /\ Storage!Carried(f).damaged = f.damaged
         /\ Storage!Carried(f).reminder = f.reminder /\ Storage!Carried(f).rule = f.rule
         /\ Storage!Carried(f).switch = f.switch
         /\ f.reminder = "none" => Storage!Carried(f).activity = Storage!NoRow
         /\ f.reminder # "none" =>
              /\ Storage!Carried(f).activity \in ActivityRows
              /\ 1 \in Storage!Carried(f).activity.times /\ 1 \in Storage!Carried(f).activity.groups
              /\ f.version # 14 => ~Storage!Carried(f).activity.on /\ ~Storage!Carried(f).activity.deleted
              /\ f.version = 14 => /\ Storage!Carried(f).activity.on = f.activity.on
                                   /\ Storage!Carried(f).activity.deleted = f.activity.deleted
                                   /\ "retime" \notin dFaults => Storage!Carried(f).activity = f.activity
  <1>1. CASE f.reminder = "none"
    BY <1>1 DEF Storage!Carried, ActivityOK
  <1>2. CASE f.reminder # "none"
    <2> DEFINE a == IF f.activity.there THEN f.activity ELSE Storage!Activity(FALSE, {}, {}, FALSE)
               b == [a EXCEPT !.times = @ \cup {1}, !.groups = @ \cup {1}]
    <2>1. Storage!Activity(FALSE, {}, {}, FALSE) \in ActivityRows
          /\ ~Storage!Activity(FALSE, {}, {}, FALSE).on /\ ~Storage!Activity(FALSE, {}, {}, FALSE).deleted
      BY DEF Storage!Activity, ActivityRows
    <2>2. /\ a \in ActivityRows
          /\ f.version # 14 => ~a.on /\ ~a.deleted
          /\ f.version = 14 => a = f.activity
      BY <1>2, <2>1, RowsAre DEF ActivityOK
    <2>3. Storage!Carried(f) = [f EXCEPT !.activity = b]
      BY <1>2 DEF Storage!Carried
    <2> HIDE DEF a
    <2>4. /\ b \in ActivityRows /\ b.on = a.on /\ b.deleted = a.deleted
          /\ b.times = a.times \cup {1} /\ b.groups = a.groups \cup {1}
      BY <2>2 DEF ActivityRows
    <2> HIDE DEF b
    <2>5. ASSUME f.version = 14, "retime" \notin dFaults PROVE b = f.activity
      <3>1. 1 \in a.times /\ 1 \in a.groups
        BY <1>2, <2>2, <2>5 DEF ActivityOK
      <3>2. a.times \cup {1} = a.times /\ a.groups \cup {1} = a.groups
        BY <3>1
      <3>3. b = a
        BY <2>2, <2>4, <3>2, RowsEqual
      <3> QED
        BY <2>2, <2>5, <3>3
    <2>6. [f EXCEPT !.activity = b] \in Files /\ [f EXCEPT !.activity = b].activity = b
          /\ [f EXCEPT !.activity = b].version = f.version /\ [f EXCEPT !.activity = b].damaged = f.damaged
          /\ [f EXCEPT !.activity = b].reminder = f.reminder /\ [f EXCEPT !.activity = b].rule = f.rule
          /\ [f EXCEPT !.activity = b].switch = f.switch
      BY <2>4 DEF Files
    <2>7. 1 \in b.times /\ 1 \in b.groups
      BY <2>4
    <2> QED
      BY <1>2, <2>2, <2>3, <2>4, <2>5, <2>6, <2>7
  <1> QED
    BY <1>1, <1>2

(* The migration of a file.                                                *)
LEMMA MigratedIs ==
  ASSUME NEW f \in Files, ActivityOK(f), f.version # 15
  PROVE  LET g == Storage!Migrated(f, f.version)
         IN  /\ g \in Files /\ g.version = 14 /\ g.damaged = f.damaged /\ g.reminder = f.reminder
             /\ ActivityOK(g)
             /\ f.rule \in RuleRows /\ Fits(f.rule) => g.rule = f.rule
             /\ f.switch.new = f.switch.old => g.switch = f.switch
             /\ f.version = 14 /\ f.reminder # "none" =>
                  /\ g.activity.on = f.activity.on /\ g.activity.deleted = f.activity.deleted
             /\ f.version = 14 /\ "retime" \notin dFaults => g.activity = f.activity
             /\ f.version # 14 /\ f.reminder = "open" => g.activity.on = TRUE /\ g.activity.deleted = FALSE
  <1> DEFINE d == Storage!Reshaped(f)
             c == Storage!Carried(d)
             e == Storage!Reminding(c, f.version)
             g == [e EXCEPT !.version = 14]
  <1>1. /\ d \in Files /\ d.version = f.version /\ d.damaged = f.damaged /\ d.reminder = f.reminder
        /\ d.activity = f.activity
        /\ f.rule \in RuleRows /\ Fits(f.rule) => d.rule = f.rule
        /\ f.switch.new = f.switch.old => d.switch = f.switch
    BY ReshapedIs
  <1> HIDE DEF d
  <1>2. ActivityOK(d)
    BY <1>1 DEF ActivityOK
  <1>3. /\ c \in Files /\ c.version = f.version /\ c.damaged = f.damaged /\ c.reminder = f.reminder
        /\ c.rule = d.rule /\ c.switch = d.switch
        /\ f.reminder = "none" => c.activity = Storage!NoRow
        /\ f.reminder # "none" =>
              /\ c.activity \in ActivityRows /\ 1 \in c.activity.times /\ 1 \in c.activity.groups
              /\ f.version # 14 => ~c.activity.on /\ ~c.activity.deleted
              /\ f.version = 14 => /\ c.activity.on = f.activity.on /\ c.activity.deleted = f.activity.deleted
                                   /\ "retime" \notin dFaults => c.activity = f.activity
    BY <1>1, <1>2, CarriedIs
  <1> HIDE DEF c
  <1>4. f.version \in {0, 6, 11, 14} /\ (f.version < 13 <=> f.version # 14)
    BY DEF Files
  <1>5. /\ e \in Files /\ e.damaged = f.damaged /\ e.reminder = f.reminder
        /\ e.rule = d.rule /\ e.switch = d.switch
        /\ f.reminder = "none" => e.activity = Storage!NoRow
        /\ f.reminder # "none" =>
              /\ e.activity \in ActivityRows /\ 1 \in e.activity.times /\ 1 \in e.activity.groups
              /\ f.version # 14 => e.activity.deleted = FALSE /\ (f.reminder = "open" => e.activity.on = TRUE)
              /\ f.version = 14 => e.activity = c.activity
    <2>1. CASE f.version # 14 /\ c.reminder = "open" /\ ~c.activity.deleted
      <3> DEFINE a == [c.activity EXCEPT !.on = TRUE]
      <3>1. e = [c EXCEPT !.activity.on = TRUE]
        BY <1>4, <2>1 DEF Storage!Reminding
      <3>2. c.activity \in ActivityRows
        BY <1>3, <2>1
      <3>3. /\ a \in ActivityRows /\ a.on = TRUE /\ a.deleted = c.activity.deleted
            /\ a.times = c.activity.times /\ a.groups = c.activity.groups
        BY <3>2 DEF ActivityRows
      <3>4. e = [c EXCEPT !.activity = a]
        BY <1>3, <3>1 DEF Files
      <3>6. c.activity.deleted = FALSE
        BY <2>1, <3>2 DEF ActivityRows
      <3> HIDE DEF a, e
      <3>5. e \in Files /\ e.activity = a /\ e.damaged = c.damaged /\ e.reminder = c.reminder /\ e.rule = c.rule
            /\ e.switch = c.switch
        BY <1>3, <3>3, <3>4 DEF Files
      <3> QED
        BY <1>3, <2>1, <3>3, <3>5, <3>6
    <2>2. CASE ~(f.version # 14 /\ c.reminder = "open" /\ ~c.activity.deleted)
      <3>1. e = c
        BY <1>4, <2>2 DEF Storage!Reminding
      <3>2. c.activity \in ActivityRows => c.activity.deleted \in BOOLEAN
        BY DEF ActivityRows
      <3> HIDE DEF e
      <3> QED
        BY <1>3, <2>2, <3>1, <3>2
    <2> QED
      BY <2>1, <2>2
  <1> HIDE DEF e
  <1>6. /\ g \in Files /\ g.version = 14 /\ g.damaged = e.damaged /\ g.reminder = e.reminder
        /\ g.rule = e.rule /\ g.switch = e.switch /\ g.activity = e.activity
    BY <1>5 DEF Files
  <1>7. Storage!Migrated(f, f.version) = g
    BY DEF Storage!Migrated, e, c, d
  <1> HIDE DEF g
  <1>8. ActivityOK(g)
    BY <1>5, <1>6 DEF ActivityOK
  <1>9. f.reminder # "none" \/ f.version = 14 => (f.version = 14 /\ "retime" \notin dFaults => g.activity = f.activity)
    BY <1>3, <1>5, <1>6 DEF ActivityOK
  <1> QED
    BY <1>1, <1>3, <1>5, <1>6, <1>7, <1>8, <1>9

(* It holds at the start.                                                  *)
LEMMA StorageStart == Storage!Init => StorageInv
  <1> SUFFICES ASSUME Storage!Init PROVE StorageInv
    OBVIOUS
  <1> DEFINE E == Storage!Empty
  <1>1. /\ E \in Files /\ E.version = 0 /\ ~E.damaged /\ E.damaged = FALSE /\ E.activity = Storage!NoRow
        /\ E.reminder = "none"
    BY DEF Storage!Empty, Files, Switches
  <1>2. ASSUME NEW v \in {6, 11, 15}, NEW r \in {"open", "sent"}
        PROVE  /\ Storage!OldFile(v, r) \in Files /\ Storage!OldFile(v, r).version = v
               /\ Storage!OldFile(v, r).damaged = FALSE /\ Storage!OldFile(v, r).activity = Storage!NoRow
    <2> DEFINE row == [Storage!Rule("word", "machine", "medium", 200, "global", 1, {}, Storage!Members)
                          EXCEPT !.spared = {}]
    <2>1. row \in RuleRows
      BY DEF Storage!Rule, Storage!Members, RuleRows
    <2> HIDE DEF row
    <2> DEFINE switch == [E.switch EXCEPT !.old = TRUE]
    <2>2. switch \in Switches
      BY DEF Storage!Empty, Switches
    <2>3. Storage!OldFile(v, r) =
            [E EXCEPT !.version = v, !.reminder = r, !.claimed = "processing", !.switch = switch, !.rule = row]
      <3>1. Storage!OldFile(v, r) =
              [E EXCEPT !.version = v, !.reminder = r, !.claimed = "processing",
                        !.switch.old = TRUE, !.rule = row]
        BY DEF Storage!OldFile, row
      <3> HIDE DEF E
      <3> QED
        BY <1>1, <3>1 DEF Files
    <2> DEFINE aged == [E EXCEPT !.version = v, !.reminder = r, !.claimed = "processing"]
               file == [aged EXCEPT !.switch = switch, !.rule = row]
    <2>4. file = Storage!OldFile(v, r)
      BY <2>3
    <2> HIDE DEF E, switch
    <2>5. aged \in Files /\ aged.version = v /\ aged.damaged = FALSE /\ aged.activity = Storage!NoRow
      BY <1>1 DEF Files
    <2> HIDE DEF aged
    <2>6. file \in Files /\ file.version = v /\ file.damaged = FALSE /\ file.activity = Storage!NoRow
      BY <2>1, <2>2, <2>5 DEF Files
    <2> QED
      BY <2>4, <2>6
  <1>3. dDb \in Files /\ dDb.damaged = FALSE /\ dDb.activity = Storage!NoRow /\ dDb.version # 14
    <2>1. CASE dDb = E
      BY <1>1, <2>1
    <2>2. CASE dDb # E
      <3>1. PICK v \in {6, 11, 15}, r \in {"open", "sent"} : dDb = Storage!OldFile(v, r)
        BY <2>2 DEF Storage!Init
      <3>2. /\ Storage!OldFile(v, r) \in Files /\ Storage!OldFile(v, r).version = v
            /\ Storage!OldFile(v, r).damaged = FALSE /\ Storage!OldFile(v, r).activity = Storage!NoRow
        BY <1>2
      <3> QED
        BY <3>1, <3>2
    <2> QED
      BY <2>1, <2>2
  <1>4. dSaved \in SavedRows /\ dSaved.rule = Storage!NoRow /\ dSaved.switch = Storage!NoRow
        /\ dSaved.activity = Storage!NoRow
    BY DEF Storage!Init, Storage!Untouched, SavedRows
  <1>5. FileOK
    BY <1>3, <1>4, RowsAre DEF FileOK, ActivityOK, SavedOK
  <1>6. BackupsOK
    BY <1>1 DEF BackupsOK, Storage!Init
  <1> QED
    BY <1>3, <1>5, <1>6 DEF StorageInv, Storage!Init, Storage!SnapshotsComeFirst

(* The file as it is found is noted.                                       *)
LEMMA CheckKeeps ==
  ASSUME StorageInv, Storage!Check
  PROVE  StorageInv'
  <1>1. FileOK'
    BY DEF StorageInv, FileOK, ActivityOK, SavedOK, Storage!Check
  <1>2. BackupsOK'
    <2>1. dStarts \in Nat /\ dStarts' = dStarts + 1 /\ UNCHANGED <<dFaults, dBackups>>
      BY DEF StorageInv, Storage!Check
    <2> QED
      BY <2>1 DEF StorageInv, BackupsOK
  <1> QED
    BY <1>1, <1>2 DEF StorageInv, Storage!Check, Storage!SnapshotsComeFirst

(* A snapshot is taken; the ones before it are earlier by name.            *)
LEMMA SnapshotKeeps ==
  ASSUME StorageInv, Storage!Snapshot
  PROVE  StorageInv'
  <1>1. FileOK' /\ UNCHANGED <<dFaults, dOld, dStarts, dSaved, dDb>>
    BY DEF StorageInv, FileOK, ActivityOK, SavedOK, Storage!Snapshot, Storage!Goes
  <1>2. dAt = "checked" /\ dOld = dDb.version /\ dStarts \in Nat /\ ~dDb.damaged /\ dDb \in Files
    BY DEF StorageInv, FileOK, Storage!Snapshot
  <1>3. dDb.version \in {0, 6, 11, 14, 15} /\ dDb.damaged \in BOOLEAN
    BY <1>2 DEF Files
  <1>4. CASE dOld \in 1..7 /\ dAt' = "safe"
             /\ dBackups' = Storage!LastThree(dBackups \cup {[version |-> dOld, nr |-> dStarts + 3, db |-> dDb]})
    <2> DEFINE s == [version |-> dOld, nr |-> dStarts + 3, db |-> dDb]
               all == dBackups \cup {s}
    <2>1. dOld = 6 /\ dDb.activity = Storage!NoRow /\ dDb.damaged = FALSE
      BY <1>2, <1>3, <1>4 DEF StorageInv, FileOK, ActivityOK
    <2>2. s.version = 6 /\ s.nr = dStarts + 3 /\ s.db = dDb
      BY <2>1
    <2> HIDE DEF s
    <2>3. dBackups' \subseteq all
      BY <1>4 DEF Storage!LastThree, s
    <2>4. \A t \in all : /\ t.db \in Files /\ t.db.version \in {0, 6, 11} /\ t.db.damaged = FALSE
                         /\ t.db.activity = Storage!NoRow
                         /\ "older" \notin dFaults => t.version = 6 /\ t.nr \in Nat /\ t.nr <= dStarts + 3
      <3>1. /\ s.db \in Files /\ s.db.version \in {0, 6, 11} /\ s.db.damaged = FALSE
            /\ s.db.activity = Storage!NoRow /\ s.version = 6 /\ s.nr \in Nat /\ s.nr <= dStarts + 3
        <4>1. s.db \in Files /\ s.db.version = 6 /\ s.db.damaged = FALSE /\ s.db.activity = Storage!NoRow
          BY <1>2, <2>1, <2>2
        <4>2. s.nr \in Nat /\ s.nr <= dStarts + 3
          BY <1>2, <2>2
        <4> QED
          BY <2>2, <4>1, <4>2
      <3>2. ASSUME NEW t \in dBackups
            PROVE  /\ t.db \in Files /\ t.db.version \in {0, 6, 11} /\ t.db.damaged = FALSE
                   /\ t.db.activity = Storage!NoRow
                   /\ "older" \notin dFaults => t.version = 6 /\ t.nr \in Nat /\ t.nr < dStarts + 3
        BY <1>2 DEF StorageInv, BackupsOK
      <3>3. ASSUME NEW t \in all
            PROVE  /\ t.db \in Files /\ t.db.version \in {0, 6, 11} /\ t.db.damaged = FALSE
                   /\ t.db.activity = Storage!NoRow
                   /\ "older" \notin dFaults => t.version = 6 /\ t.nr \in Nat /\ t.nr <= dStarts + 3
        <4>1. CASE t = s
          BY <3>1, <4>1
        <4>2. CASE t \in dBackups
          <5>1. "older" \notin dFaults => t.version = 6 /\ t.nr \in Nat /\ t.nr < dStarts + 3
            BY <3>2, <4>2
          <5>2. "older" \notin dFaults => t.nr <= dStarts + 3
            BY <1>2, <5>1
          <5> QED
            BY <3>2, <4>2, <5>1, <5>2
        <4> QED
          BY <4>1, <4>2
      <3> QED
        BY <3>3
    <2>5. BackupsOK'
      BY <1>1, <1>4, <2>3, <2>4 DEF BackupsOK
    <2>6. "older" \notin dFaults => s \in dBackups'
      <3> SUFFICES ASSUME "older" \notin dFaults PROVE s \in dBackups'
        OBVIOUS
      <3>1. \A t \in all : ~Storage!Earlier(s, t)
        BY <1>2, <2>2, <2>4 DEF Storage!Earlier
      <3>2. {t \in all : Storage!Earlier(s, t)} = {}
        BY <3>1
      <3>3. Cardinality({t \in all : Storage!Earlier(s, t)}) = 0
        BY <3>2, FS_EmptySet
      <3>4. s \in all
        OBVIOUS
      <3>5. dBackups' = Storage!LastThree(all)
        BY <1>4 DEF s
      <3> HIDE DEF all
      <3>6. Cardinality({t \in all : Storage!Earlier(s, t)}) < 3
        BY <3>3
      <3>7. Storage!Cardinality({t \in all : Storage!Earlier(s, t)}) = Cardinality({t \in all : Storage!Earlier(s, t)})
        BY DEF Storage!Cardinality, Cardinality
      <3>8. s \in Storage!LastThree(all)
        BY <3>4, <3>6, <3>7, Zenon DEF Storage!LastThree
      <3> QED
        BY <3>5, <3>8
    <2>7. "older" \notin dFaults => Storage!SnapshotsComeFirst'
      BY <1>1, <2>1, <2>2, <2>6 DEF Storage!SnapshotsComeFirst
    <2> QED
      BY <1>1, <1>2, <1>4, <2>5, <2>7 DEF StorageInv
  <1>5. CASE dOld \notin 1..7 /\ dAt' = "safe" /\ UNCHANGED dBackups
    <2>1. BackupsOK' /\ Storage!SnapshotsComeFirst'
      BY <1>1, <1>5 DEF StorageInv, BackupsOK, Storage!SnapshotsComeFirst
    <2> QED
      BY <1>1, <1>2, <1>5, <2>1 DEF StorageInv
  <1>6. CASE dAt' = "down" /\ UNCHANGED dBackups
    <2>1. BackupsOK' /\ Storage!SnapshotsComeFirst'
      BY <1>1, <1>6 DEF StorageInv, BackupsOK, Storage!SnapshotsComeFirst
    <2> QED
      BY <1>1, <1>2, <1>6, <2>1 DEF StorageInv
  <1> QED
    BY <1>4, <1>5, <1>6 DEF Storage!Snapshot, Storage!Goes

(* What only moves the program on keeps it.                                *)
LEMMA PlaceKeeps ==
  ASSUME StorageInv, dAt' \in {"down", "up", "migrated"}, FileOK', UNCHANGED <<dFaults, dBackups, dOld, dStarts>>,
         dAt' # "down" => dDb'.version = 14 /\ ~dDb'.damaged
  PROVE  StorageInv'
  <1>1. BackupsOK'
    BY DEF StorageInv, BackupsOK
  <1> QED
    BY <1>1 DEF StorageInv, Storage!SnapshotsComeFirst

(* The migration keeps what was saved.                                     *)
LEMMA MigrateKeeps ==
  ASSUME StorageInv, Storage!Migrate
  PROVE  StorageInv'
  <1>1. /\ dDb \in Files /\ ActivityOK(dDb) /\ dSaved \in SavedRows /\ SavedOK(dDb, dSaved)
        /\ dOld = dDb.version /\ ~dDb.damaged /\ dAt = "safe" /\ UNCHANGED <<dFaults, dBackups, dOld, dStarts, dSaved>>
    BY DEF StorageInv, FileOK, Storage!Migrate, Storage!Goes
  <1>2. CASE UNCHANGED dDb /\ dAt' = "down"
    <2>1. FileOK'
      BY <1>1, <1>2 DEF FileOK, ActivityOK, SavedOK
    <2> QED
      BY <1>1, <1>2, <2>1, PlaceKeeps
  <1>3. CASE dOld <= 14 /\ dDb' = Storage!Migrated(dDb, dOld) /\ dAt' = "migrated"
    <2>1. dDb.version # 15 /\ dDb' = Storage!Migrated(dDb, dDb.version)
      BY <1>1, <1>3
    <2>2. /\ dDb' \in Files /\ dDb'.version = 14 /\ dDb'.damaged = dDb.damaged /\ dDb'.reminder = dDb.reminder
          /\ ActivityOK(dDb')
          /\ dDb.rule \in RuleRows /\ Fits(dDb.rule) => dDb'.rule = dDb.rule
          /\ dDb.switch.new = dDb.switch.old => dDb'.switch = dDb.switch
          /\ dDb.version = 14 /\ dDb.reminder # "none" =>
               dDb'.activity.on = dDb.activity.on /\ dDb'.activity.deleted = dDb.activity.deleted
          /\ dDb.version = 14 /\ "retime" \notin dFaults => dDb'.activity = dDb.activity
          /\ dDb.version # 14 /\ dDb.reminder = "open" => dDb'.activity.on = TRUE /\ dDb'.activity.deleted = FALSE
      BY <1>1, <2>1, MigratedIs
    <2>3. SavedOK(dDb, dSaved)'
      BY <1>1, <2>2 DEF SavedOK, Fits
    <2>4. FileOK'
      BY <1>1, <2>2, <2>3 DEF FileOK, ActivityOK
    <2> QED
      BY <1>1, <1>3, <2>2, <2>4, PlaceKeeps
  <1> QED
    BY <1>2, <1>3 DEF Storage!Migrate, Storage!Goes

(* What the last process left is recovered, or being worked on again.      *)
LEMMA ClaimedKeeps ==
  ASSUME StorageInv, NEW x \in {"no", "processing", "recovered"}, dDb' = [dDb EXCEPT !.claimed = x],
         UNCHANGED <<dFaults, dSaved>>
  PROVE  FileOK' /\ dDb'.version = dDb.version /\ dDb'.damaged = dDb.damaged
  <1>1. dDb \in Files
    BY DEF StorageInv, FileOK
  <1>2. /\ dDb' \in Files /\ dDb'.version = dDb.version /\ dDb'.damaged = dDb.damaged
        /\ dDb'.rule = dDb.rule /\ dDb'.switch = dDb.switch /\ dDb'.reminder = dDb.reminder
        /\ dDb'.activity = dDb.activity
    BY <1>1 DEF Files
  <1> QED
    BY <1>2 DEF StorageInv, FileOK, ActivityOK, SavedOK, Fits

(* So at every start.                                                      *)
LEMMA PrepareKeeps ==
  ASSUME StorageInv, Storage!Prepare
  PROVE  StorageInv'
  <1>1. dDb \in Files /\ dAt = "migrated" /\ dDb.version = 14 /\ ~dDb.damaged
    BY DEF StorageInv, FileOK, Storage!Prepare
  <1>2. /\ dAt' = "up" /\ UNCHANGED <<dFaults, dBackups, dOld, dStarts, dSaved>>
    BY DEF Storage!Prepare, Storage!Goes
  <1>3. PICK x \in {"no", "processing", "recovered"} : dDb' = [dDb EXCEPT !.claimed = x]
    <2>1. dDb.claimed \in {"no", "processing", "recovered"}
      BY <1>1 DEF Files
    <2> DEFINE y == IF dDb.claimed = "processing" THEN "recovered" ELSE dDb.claimed
    <2>2. dDb' = [dDb EXCEPT !.claimed = y]
      BY DEF Storage!Prepare
    <2>3. y \in {"no", "processing", "recovered"}
      BY <2>1
    <2> HIDE DEF y
    <2> QED
      BY <2>2, <2>3
  <1>4. FileOK' /\ dDb'.version = 14 /\ ~dDb'.damaged
    BY <1>1, <1>2, <1>3, ClaimedKeeps
  <1> QED
    BY <1>2, <1>4, PlaceKeeps

(* What is done while the program is up.                                   *)
LEMMA UpKeeps ==
  ASSUME StorageInv, Storage!Up, FileOK', dDb'.version = 14, dDb'.damaged = dDb.damaged
  PROVE  StorageInv'
  <1>1. dAt' = "up" /\ UNCHANGED <<dFaults, dBackups, dOld, dStarts>> /\ ~dDb.damaged
    BY DEF StorageInv, Storage!Up
  <1> QED
    BY <1>1, PlaceKeeps

(* So while something is being worked on.                                  *)
LEMMA WorkKeeps ==
  ASSUME StorageInv, Storage!Work
  PROVE  StorageInv'
  <1>1. Storage!Up /\ dDb.version = 14 /\ dDb' = [dDb EXCEPT !.claimed = "processing"] /\ UNCHANGED <<dFaults, dSaved>>
    BY DEF StorageInv, Storage!Work, Storage!Up
  <1>2. FileOK' /\ dDb'.version = dDb.version /\ dDb'.damaged = dDb.damaged
    BY <1>1, ClaimedKeeps
  <1> QED
    BY <1>1, <1>2, UpKeeps

(* The defaults of an account touch nothing that is there.                 *)
LEMMA DefaultsKeep ==
  ASSUME StorageInv, Storage!EnsureAccountDefaults
  PROVE  StorageInv'
  <1>1. /\ Storage!Up /\ dDb \in Files /\ dDb.version = 14 /\ UNCHANGED <<dFaults, dSaved>>
    BY DEF StorageInv, FileOK, Storage!EnsureAccountDefaults, Storage!Up
  <1>2. PICK matcher \in {"word", "semantic"}, priority \in {50, 100, 200} :
          dDb' = [dDb EXCEPT !.ready = TRUE,
                             !.rule = IF @.there THEN @
                                      ELSE Storage!Rule(matcher, "machine", "medium", priority, "global", 0, {}, {})]
    BY DEF Storage!EnsureAccountDefaults
  <1> DEFINE new == Storage!Rule(matcher, "machine", "medium", priority, "global", 0, {}, {})
             row == IF dDb.rule.there THEN dDb.rule ELSE new
  <1>3. new \in RuleRows
    BY DEF Storage!Rule, RuleRows
  <1>4. dDb' = [dDb EXCEPT !.ready = TRUE, !.rule = row]
    BY <1>1, <1>2 DEF Files
  <1> HIDE DEF new
  <1>5. row \in RuleRows /\ (dDb.rule \in RuleRows => row = dDb.rule)
    BY <1>1, <1>3, RowsAre DEF Files
  <1> HIDE DEF row
  <1>6. /\ dDb' \in Files /\ dDb'.version = dDb.version /\ dDb'.damaged = dDb.damaged
        /\ dDb'.rule = row /\ dDb'.switch = dDb.switch /\ dDb'.reminder = dDb.reminder
        /\ dDb'.activity = dDb.activity
    BY <1>1, <1>4, <1>5 DEF Files
  <1>7. FileOK'
    BY <1>1, <1>5, <1>6 DEF StorageInv, FileOK, ActivityOK, SavedOK, Fits
  <1> QED
    BY <1>1, <1>6, <1>7, UpKeeps

(* A rule is saved with old columns that fit.                              *)
LEMMA RuleKeeps ==
  ASSUME StorageInv, Storage!SaveRule
  PROVE  StorageInv'
  <1>1. /\ Storage!Up /\ dDb \in Files /\ dDb.version = 14 /\ dSaved \in SavedRows /\ UNCHANGED dFaults
    BY DEF StorageInv, FileOK, Storage!SaveRule, Storage!Up
  <1>2. PICK matcher \in {"word", "semantic"}, level \in {"low", "medium", "high"}, groups \in {{}, {1}, {1, 2}},
             members \in SUBSET {1} :
          LET rule == Storage!Rule(matcher, IF matcher = "semantic" THEN "ai" ELSE "machine", level,
                           Storage!PriorityOf(level), IF groups = {} THEN "global" ELSE "selected",
                           IF groups = {} THEN 0 ELSE 1, groups, members)
          IN  dDb' = [dDb EXCEPT !.rule = rule] /\ dSaved' = [dSaved EXCEPT !.rule = rule]
    BY DEF Storage!SaveRule, Storage!Levels, Storage!Members
  <1> DEFINE type == IF matcher = "semantic" THEN "ai" ELSE "machine"
             scope == IF groups = {} THEN "global" ELSE "selected"
             first == IF groups = {} THEN 0 ELSE 1
             row == Storage!Rule(matcher, type, level, Storage!PriorityOf(level), scope, first, groups,
                                 members)
  <1>3. Storage!PriorityOf(level) \in Nat
        /\ level = IF Storage!PriorityOf(level) < 100 THEN "low"
                   ELSE IF Storage!PriorityOf(level) < 200 THEN "medium" ELSE "high"
    <2>1. CASE level = "low"
      BY <2>1 DEF Storage!PriorityOf
    <2>2. CASE level = "medium"
      BY <2>2 DEF Storage!PriorityOf
    <2>3. CASE level = "high"
      BY <2>3 DEF Storage!PriorityOf
    <2> QED
      BY <2>1, <2>2, <2>3
  <1>4. /\ type \in {"ai", "machine"} /\ scope \in {"global", "selected"} /\ first \in {0, 1}
        /\ groups \in SUBSET {1, 2} /\ {first} \ {0} \subseteq groups
        /\ scope = IF first = 0 THEN "global" ELSE "selected"
    OBVIOUS
  <1>5. dDb' = [dDb EXCEPT !.rule = row] /\ dSaved' = [dSaved EXCEPT !.rule = row]
    BY <1>2
  <1>6. row \in RuleRows /\ Fits(row)
    <2>1. /\ row = [there |-> TRUE, matcher |-> matcher, type |-> type, level |-> level,
                    priority |-> Storage!PriorityOf(level), scope |-> scope, first |-> first, groups |-> groups,
                    exempt |-> members, spared |-> members]
          /\ type = IF matcher = "semantic" THEN "ai" ELSE "machine"
      BY DEF Storage!Rule
    <2> HIDE DEF row, type, scope, first
    <2>2. /\ row \in RuleRows /\ row.matcher = matcher /\ row.type = type /\ row.level = level
          /\ row.priority = Storage!PriorityOf(level) /\ row.scope = scope /\ row.first = first
          /\ row.groups = groups /\ row.exempt = members /\ row.spared = members
      BY <1>3, <1>4, <2>1 DEF RuleRows
    <2> QED
      BY <1>3, <1>4, <2>1, <2>2 DEF Fits
  <1> HIDE DEF row
  <1>7. /\ dDb' \in Files /\ dDb'.version = dDb.version /\ dDb'.damaged = dDb.damaged
        /\ dDb'.rule = row /\ dDb'.switch = dDb.switch /\ dDb'.reminder = dDb.reminder
        /\ dDb'.activity = dDb.activity
    BY <1>1, <1>5, <1>6 DEF Files
  <1>8. dSaved' \in SavedRows /\ dSaved'.rule = row /\ dSaved'.switch = dSaved.switch
        /\ dSaved'.activity = dSaved.activity
    BY <1>1, <1>5, <1>6 DEF SavedRows
  <1>9. FileOK'
    BY <1>1, <1>6, <1>7, <1>8 DEF StorageInv, FileOK, ActivityOK, SavedOK, Fits
  <1> QED
    BY <1>1, <1>7, <1>9, UpKeeps

(* Both switches are set.                                                  *)
LEMMA FeaturesKeep ==
  ASSUME StorageInv, Storage!SetFeatures
  PROVE  StorageInv'
  <1>1. /\ Storage!Up /\ dDb \in Files /\ dDb.version = 14 /\ dSaved \in SavedRows /\ UNCHANGED dFaults
    BY DEF StorageInv, FileOK, Storage!SetFeatures, Storage!Up
  <1>2. PICK x \in Switches : /\ x.new = x.old
                              /\ dDb' = [dDb EXCEPT !.switch = x] /\ dSaved' = [dSaved EXCEPT !.switch = x]
    <2>1. PICK on \in BOOLEAN : /\ dDb' = [dDb EXCEPT !.switch = [there |-> TRUE, old |-> on, new |-> on]]
                                /\ dSaved' = [dSaved EXCEPT !.switch = [there |-> TRUE, old |-> on, new |-> on]]
      BY DEF Storage!SetFeatures
    <2> DEFINE x == [there |-> TRUE, old |-> on, new |-> on]
    <2>2. x \in Switches /\ x.new = x.old
      BY DEF Switches
    <2> QED
      BY <2>1, <2>2
  <1>3. /\ dDb' \in Files /\ dDb'.version = dDb.version /\ dDb'.damaged = dDb.damaged
        /\ dDb'.rule = dDb.rule /\ dDb'.switch = x /\ dDb'.reminder = dDb.reminder
        /\ dDb'.activity = dDb.activity
    BY <1>1, <1>2 DEF Files
  <1>4. dSaved' \in SavedRows /\ dSaved'.rule = dSaved.rule /\ dSaved'.switch = x
        /\ dSaved'.activity = dSaved.activity
    BY <1>1, <1>2 DEF SavedRows
  <1>5. FileOK'
    BY <1>1, <1>2, <1>3, <1>4 DEF StorageInv, FileOK, ActivityOK, SavedOK, Fits
  <1> QED
    BY <1>1, <1>3, <1>5, UpKeeps

(* An activity is saved; only who retimes it moves it.                     *)
LEMMA ActivityKeeps ==
  ASSUME StorageInv, Storage!SaveActivity
  PROVE  StorageInv'
  <1>1. /\ Storage!Up /\ dDb \in Files /\ dDb.version = 14 /\ dSaved \in SavedRows /\ UNCHANGED dFaults
        /\ dDb.activity.there
    BY DEF StorageInv, FileOK, Storage!SaveActivity, Storage!Up
  <1>2. dDb.activity \in ActivityRows /\ dDb.reminder # "none"
        /\ ("retime" \notin dFaults => 1 \in dDb.activity.times /\ 1 \in dDb.activity.groups)
    BY <1>1, RowsAre DEF StorageInv, FileOK, ActivityOK, Files
  <1>3. PICK a \in ActivityRows :
          /\ "retime" \notin dFaults => a.times = dDb.activity.times /\ a.groups = dDb.activity.groups
          /\ dDb' = [dDb EXCEPT !.activity = a] /\ dSaved' = [dSaved EXCEPT !.activity = a]
    <2>1. PICK on \in BOOLEAN, deleted \in BOOLEAN, times \in SUBSET {1, 2}, groups \in SUBSET {1, 2} :
            /\ "retime" \notin dFaults => times = dDb.activity.times /\ groups = dDb.activity.groups
            /\ dDb' = [dDb EXCEPT !.activity = Storage!Activity(on, times, groups, deleted)]
            /\ dSaved' = [dSaved EXCEPT !.activity = Storage!Activity(on, times, groups, deleted)]
      BY DEF Storage!SaveActivity, Storage!Times, Storage!GroupCodes
    <2> DEFINE a == Storage!Activity(on, times, groups, deleted)
    <2>2. a \in ActivityRows /\ a.times = times /\ a.groups = groups
      BY DEF Storage!Activity, ActivityRows
    <2> QED
      BY <2>1, <2>2
  <1>4. /\ dDb' \in Files /\ dDb'.version = dDb.version /\ dDb'.damaged = dDb.damaged
        /\ dDb'.rule = dDb.rule /\ dDb'.switch = dDb.switch /\ dDb'.reminder = dDb.reminder
        /\ dDb'.activity = a
    BY <1>1, <1>3 DEF Files
  <1>5. dSaved' \in SavedRows /\ dSaved'.rule = dSaved.rule /\ dSaved'.switch = dSaved.switch
        /\ dSaved'.activity = a
    BY <1>1, <1>3 DEF SavedRows
  <1>6. a # Storage!NoRow
    BY RowsAre
  <1>7. ActivityOK(dDb)'
    BY <1>1, <1>2, <1>3, <1>4 DEF ActivityOK
  <1>8. SavedOK(dDb, dSaved)'
    BY <1>1, <1>4, <1>5, <1>6 DEF StorageInv, FileOK, SavedOK, Fits
  <1> QED
    BY <1>1, <1>4, <1>5, <1>7, <1>8, UpKeeps DEF FileOK

(* The program stops or crashes.                                           *)
LEMMA DownKeeps ==
  ASSUME StorageInv, Storage!Stop \/ Storage!Crash
  PROVE  StorageInv'
  <1>1. dAt' = "down" /\ UNCHANGED <<dFaults, dBackups, dOld, dStarts, dSaved, dDb>>
    BY DEF Storage!Stop, Storage!Crash, Storage!Goes
  <1>2. FileOK'
    BY <1>1 DEF StorageInv, FileOK, ActivityOK, SavedOK
  <1> QED
    BY <1>1, <1>2, PlaceKeeps

(* The file is damaged.                                                    *)
LEMMA DamageKeeps ==
  ASSUME StorageInv, Storage!Damage
  PROVE  StorageInv'
  <1>1. dDb \in Files /\ dDb' = [dDb EXCEPT !.damaged = TRUE]
        /\ dAt' = "down" /\ UNCHANGED <<dFaults, dBackups, dOld, dStarts, dSaved>>
    BY DEF StorageInv, FileOK, Storage!Damage
  <1>2. /\ dDb' \in Files /\ dDb'.version = dDb.version
        /\ dDb'.rule = dDb.rule /\ dDb'.switch = dDb.switch /\ dDb'.reminder = dDb.reminder
        /\ dDb'.activity = dDb.activity
    BY <1>1 DEF Files
  <1>3. FileOK'
    BY <1>1, <1>2 DEF StorageInv, FileOK, ActivityOK, SavedOK, Fits
  <1> QED
    BY <1>1, <1>3, PlaceKeeps

(* A snapshot is put back.                                                 *)
LEMMA RestoreKeeps ==
  ASSUME StorageInv, Storage!Restore
  PROVE  StorageInv'
  <1>1. PICK s \in dBackups : dDb' = s.db
    BY DEF Storage!Restore
  <1>2. dAt' = "down" /\ UNCHANGED <<dFaults, dBackups, dOld, dStarts>>
    BY DEF Storage!Restore
  <1>3. dSaved' \in SavedRows /\ dSaved'.rule = Storage!NoRow /\ dSaved'.switch = Storage!NoRow
        /\ dSaved'.activity = Storage!NoRow
    BY DEF Storage!Restore, Storage!Untouched, SavedRows
  <1>4. dDb' \in Files /\ dDb'.version # 14 /\ dDb'.activity = Storage!NoRow
    BY <1>1 DEF StorageInv, BackupsOK
  <1>5. FileOK'
    BY <1>3, <1>4, RowsAre DEF FileOK, ActivityOK, SavedOK
  <1> QED
    BY <1>2, <1>5, PlaceKeeps

(* Every step keeps it.                                                    *)
LEMMA StorageStep ==
  ASSUME StorageInv, [Storage!Next]_(Storage!vars)
  PROVE  StorageInv'
  <1>1. CASE UNCHANGED Storage!vars
    <2>1. FileOK' /\ BackupsOK'
      BY <1>1 DEF Storage!vars, StorageInv, FileOK, ActivityOK, SavedOK, BackupsOK
    <2> QED
      BY <1>1, <2>1 DEF Storage!vars, StorageInv, Storage!SnapshotsComeFirst
  <1> QED
    BY <1>1, CheckKeeps, SnapshotKeeps, MigrateKeeps, PrepareKeeps, WorkKeeps, DefaultsKeep, RuleKeeps,
       FeaturesKeep, ActivityKeeps, DownKeeps, DamageKeeps, RestoreKeeps DEF Storage!Next

(* A start leaves what the administrator has saved as it was saved, though *)
(* the migration runs each time; a reminder that is still to be sent is    *)
(* carried over enabled; a file of the first versions is changed only when *)
(* a snapshot of it is there, and a damaged one never (Database::open),    *)
(* through crashes, failing disks and restored snapshots, for any number   *)
(* of starts.                                                              *)
THEOREM StartsKeepTheStore == MCSpec => []StartsKeepWhatIsStored
  <1> DEFINE I == focus = "storage" => StorageInv
  <1>1. MCInit => I
    BY StorageStart DEF MCInit
  <1>2. I /\ [MCNext]_mcVars => I'
    BY Steps, StorageStep
  <1>3. I => StartsKeepWhatIsStored
    <2> SUFFICES ASSUME StorageInv PROVE Storage!StartsKeepWhatIsStored
      BY DEF StartsKeepWhatIsStored
    <2>1. dSaved.rule \in RuleRows \cup {Storage!NoRow} /\ dSaved.switch \in Switches \cup {Storage!NoRow}
          /\ dSaved.activity \in ActivityRows \cup {Storage!NoRow}
      BY DEF StorageInv, FileOK, SavedRows
    <2>2. "retime" \notin dFaults => Storage!EditsSurviveStarts
      BY <2>1, RowsAre DEF StorageInv, FileOK, SavedOK, Storage!EditsSurviveStarts, Storage!Same
    <2>3. Storage!UpgradesCarryOver
      BY <2>1, RowsAre DEF StorageInv, FileOK, ActivityOK, SavedOK, Storage!UpgradesCarryOver
    <2> QED
      BY <2>2, <2>3 DEF StorageInv, Storage!StartsKeepWhatIsStored
  <1> QED
    BY <1>1, <1>2, <1>3, PTL DEF MCSpec, mcVars

-----------------------------------------------------------------------------
(* The writes behind the gateway.                                          *)
WriteKinds == {"rename", "mute", "unmute", "remove", "close", "open", "recall", "send", "announce", "amend",
               "withdraw"}
Fields == {"card", "muted", "present", "closed", "recalled", "said", "notice"}
Values == {"dh", "own", "yes", "no", "none", "old", "new"}
Unsent == {"start", "check", "act"}
Awaited == {"read", "fallback", "spread"}

(* What somebody has asked for and nobody has disturbed stands.            *)
Undisturbed(c) ==
    wExecuted[c] > 0 /\ ~wDisturbed[c] =>
        Writes!Stands(c, wRemote) /\ (wKind[c] = "rename" => wRemote["present"] = "yes")

WriteTrue(c) ==
    /\ Writes!SaysWhatStood(c) /\ Writes!NotRepeated(c)
    /\ wAt[c] \in Unsent => wExecuted[c] = 0
    /\ wAt[c] \in Awaited /\ Writes!Stands(c, wRemote) => wStood[c]
    /\ wAt[c] = "spread" => wStood[c]
    /\ wAt[c] = "fallback" => wKind[c] = "rename" /\ (wExecuted[c] = 0 \/ wDisturbed[c])

WritesTypes ==
    /\ wKind \in [Calls -> WriteKinds]
    /\ wRemote \in [Fields -> Values] /\ wRemote["muted"] \in {"yes", "no"}
    /\ wAt \in [Calls -> Unsent \cup Awaited \cup {"done"}]
    /\ wReceipt \in [Calls -> {"none", "verified", "succeeded", "unknown", "error"}]
    /\ wExecuted \in [Calls -> Nat] /\ wDisturbed \in [Calls -> BOOLEAN] /\ wStood \in [Calls -> BOOLEAN]

WritesInv == WritesTypes /\ \A c \in Calls : Undisturbed(c) /\ WriteTrue(c)

(* What the kinds of calls are about.                                      *)
LEMMA WantedIs ==
  ASSUME WritesTypes, NEW c \in Calls
  PROVE  /\ Writes!Field(c) \in Fields /\ Writes!Wanted[wKind[c]].to \in Values
         /\ wKind[c] = "rename" => Writes!Field(c) = "card" /\ Writes!Wanted[wKind[c]].to = "dh"
         /\ wKind[c] = "mute" => Writes!Field(c) = "muted" /\ Writes!Wanted[wKind[c]].to = "yes"
         /\ wKind[c] = "unmute" => Writes!Field(c) = "muted" /\ Writes!Wanted[wKind[c]].to = "no"
         /\ wKind[c] = "remove" => Writes!Field(c) = "present" /\ Writes!Wanted[wKind[c]].to = "no"
         /\ wKind[c] = "recall" => Writes!Field(c) = "recalled" /\ Writes!Wanted[wKind[c]].to = "yes"
         /\ Writes!Field(c) = "muted" => Writes!Wanted[wKind[c]].to \in {"yes", "no"}
  <1>1. wKind[c] \in WriteKinds
    BY DEF WritesTypes
  <1> QED
    BY <1>1 DEF Writes!Field, Writes!Wanted, WriteKinds, Fields, Values

(* It holds at the start.                                                  *)
LEMMA WritesStart == Writes!Init => WritesInv
  <1> SUFFICES ASSUME Writes!Init PROVE WritesInv
    OBVIOUS
  <1>1. wKind \in [Calls -> WriteKinds]
    BY ProgramAssumption DEF Writes!Init, WriteKinds
  <1>2. wRemote \in [Fields -> Values] /\ wRemote["muted"] \in {"yes", "no"}
    <2>1. PICK c \in Calls, v \in Values : v \in Writes!Domain[Writes!Field(c)]
                                          /\ wRemote = [Writes!Quiet EXCEPT ![Writes!Field(c)] = v]
      BY DEF Writes!Init, Values
    <2>2. Writes!Quiet \in [Fields -> Values] /\ Writes!Quiet["muted"] = "no"
      BY DEF Writes!Quiet, Fields, Values
    <2>3. Writes!Domain["muted"] = {"yes", "no"}
      BY DEF Writes!Domain
    <2> QED
      BY <2>1, <2>2, <2>3 DEF Fields
  <1> QED
    BY <1>1, <1>2 DEF Writes!Init, WritesInv, WritesTypes, WriteTrue, Undisturbed, Unsent, Awaited,
       Writes!SaysWhatStood, Writes!NotRepeated

(* One call goes on by itself.                                             *)
LEMMA GoesOn ==
  ASSUME WritesInv, NEW c \in Calls, NEW p \in Unsent \cup Awaited \cup {"done"},
         NEW r \in {"none", "verified", "succeeded", "unknown", "error"},
         wAt' = [wAt EXCEPT ![c] = p], wReceipt' = [wReceipt EXCEPT ![c] = r],
         UNCHANGED <<wKind, wFaults, wRemote, wExecuted, wDisturbed, wStood>>,
         p \in Unsent => wAt[c] \in Unsent, p \in Awaited => wAt[c] = "read",
         p = "spread" => wStood[c],
         p = "fallback" => wKind[c] = "rename" /\ (wExecuted[c] = 0 \/ wDisturbed[c]),
         \/ r = wReceipt[c]
         \/ r = "verified" \/ (r = "succeeded" /\ wKind[c] = "remove")
              => wStood[c] \/ (wKind[c] = "unmute" /\ "nim" \in wFaults)
  PROVE  WritesInv'
  <1>1. WritesTypes'
    BY DEF WritesInv, WritesTypes
  <1>2. ASSUME NEW d \in Calls PROVE Undisturbed(d)' /\ WriteTrue(d)'
    <2>1. Undisturbed(d) /\ WriteTrue(d) /\ WriteTrue(c)
      BY DEF WritesInv
    <2>2. Undisturbed(d)'
      BY <2>1 DEF Undisturbed, Writes!Stands, Writes!Field
    <2>3. CASE d # c
      <3>1. wAt'[d] = wAt[d] /\ wReceipt'[d] = wReceipt[d]
        BY <2>3 DEF WritesInv, WritesTypes
      <3> QED
        BY <2>1, <2>2, <3>1 DEF WriteTrue, Writes!SaysWhatStood, Writes!NotRepeated, Writes!Stands, Writes!Field
    <2>4. CASE d = c
      <3>1. wAt'[d] = p /\ wReceipt'[d] = r
        BY <2>4 DEF WritesInv, WritesTypes
      <3> QED
        BY <2>1, <2>2, <2>4, <3>1
           DEF WriteTrue, Writes!SaysWhatStood, Writes!NotRepeated, Writes!Stands, Writes!Field, Unsent, Awaited
    <2> QED
      BY <2>3, <2>4
  <1> QED
    BY <1>1, <1>2 DEF WritesInv

(* A field comes to a value, by a call or by somebody else.                *)
LEMMA ChangesIs ==
  ASSUME WritesInv, NEW f \in Fields, NEW v \in Values, NEW by \in SUBSET Calls, Writes!Changes(f, v, by),
         wKind' = wKind, f = "muted" => v \in {"yes", "no"},
         \A d \in by : /\ Writes!Field(d) = f /\ Writes!Wanted[wKind[d]].to = v
                       /\ wKind[d] = "rename" => wRemote["present"] = "yes"
  PROVE  /\ wRemote' \in [Fields -> Values] /\ wRemote'["muted"] \in {"yes", "no"}
         /\ wExecuted' \in [Calls -> Nat] /\ wDisturbed' \in [Calls -> BOOLEAN]
         /\ \A d \in Calls : /\ Undisturbed(d)' /\ (wDisturbed[d] => wDisturbed'[d])
                             /\ wExecuted'[d] = IF d \in by THEN wExecuted[d] + 1 ELSE wExecuted[d]
  <1>1. WritesTypes
    BY DEF WritesInv
  <1>2. wRemote' = [wRemote EXCEPT ![f] = v]
    BY DEF Writes!Changes
  <1>3. wRemote' \in [Fields -> Values] /\ wRemote'["muted"] \in {"yes", "no"}
    BY <1>1, <1>2 DEF WritesTypes, Fields
  <1>4. wExecuted' \in [Calls -> Nat]
        /\ \A d \in Calls : wExecuted'[d] = IF d \in by THEN wExecuted[d] + 1 ELSE wExecuted[d]
    BY <1>1 DEF WritesTypes, Writes!Changes
  <1>5. \A d \in Calls :
          wDisturbed'[d] = (wDisturbed[d] \/ (d \notin by /\ f \in Writes!Concerns(d) /\ wExecuted[d] > 0
                                              /\ wRemote[f] # v))
    BY DEF Writes!Changes
  <1>6. wDisturbed' \in [Calls -> BOOLEAN]
    <2>1. wDisturbed' = [d \in Calls |->
            wDisturbed[d] \/ (d \notin by /\ f \in Writes!Concerns(d) /\ wExecuted[d] > 0 /\ wRemote[f] # v)]
      BY DEF Writes!Changes
    <2> QED
      BY <2>1
  <1>7. ASSUME NEW d \in Calls PROVE wDisturbed[d] => wDisturbed'[d]
    BY <1>5, Zenon
  <1>8. ASSUME NEW d \in Calls PROVE Undisturbed(d)'
    <2>1. Writes!Field(d)' = Writes!Field(d) /\ Writes!Field(d) \in Fields
          /\ (wKind[d] = "rename" => Writes!Field(d) = "card")
      BY <1>1, WantedIs DEF Writes!Field
    <2>2. CASE d \in by
      <3>1. wRemote'[f] = v /\ Writes!Field(d) = f /\ Writes!Wanted[wKind[d]].to = v
        BY <1>1, <1>2, <2>2 DEF WritesTypes
      <3>2. wKind[d] = "rename" => wRemote'["present"] = "yes"
        BY <1>1, <1>2, <2>1, <2>2, <3>1 DEF WritesTypes, Fields
      <3> QED
        BY <2>1, <3>1, <3>2 DEF Undisturbed, Writes!Stands
    <2>3. CASE d \notin by
      <3> SUFFICES ASSUME wExecuted[d] > 0, ~wDisturbed'[d]
                   PROVE  Writes!Stands(d, wRemote)' /\ (wKind[d] = "rename" => wRemote'["present"] = "yes")
        BY <1>4, <2>3 DEF Undisturbed
      <3>1. ~wDisturbed[d] /\ ~(f \in Writes!Concerns(d) /\ wRemote[f] # v)
        BY <1>5, <2>3, Zenon
      <3>2. Writes!Stands(d, wRemote) /\ (wKind[d] = "rename" => wRemote["present"] = "yes")
        BY <3>1 DEF WritesInv, Undisturbed
      <3>3. ASSUME NEW g \in Writes!Concerns(d), g \in Fields PROVE wRemote'[g] = wRemote[g]
        BY <1>1, <1>2, <3>1, <3>3 DEF WritesTypes
      <3>4. Writes!Field(d) \in Writes!Concerns(d) /\ (wKind[d] = "rename" => "present" \in Writes!Concerns(d))
        BY DEF Writes!Concerns
      <3>5. "present" \in Fields
        BY DEF Fields
      <3> QED
        BY <2>1, <3>2, <3>3, <3>4, <3>5 DEF Writes!Stands
    <2> QED
      BY <2>2, <2>3
  <1> QED
    BY <1>3, <1>4, <1>6, <1>7, <1>8

(* Something happens at the chat client, and c may go on.                  *)
LEMMA Happens ==
  ASSUME WritesInv, NEW c \in Calls, NEW p \in Unsent \cup Awaited \cup {"done"},
         NEW r \in {"none", "verified", "succeeded", "unknown", "error"},
         wAt' = [wAt EXCEPT ![c] = p], wReceipt' = [wReceipt EXCEPT ![c] = r],
         UNCHANGED <<wKind, wFaults>>, Writes!Witness,
         wRemote' \in [Fields -> Values], wRemote'["muted"] \in {"yes", "no"},
         wExecuted' \in [Calls -> Nat], wDisturbed' \in [Calls -> BOOLEAN],
         \A d \in Calls : Undisturbed(d)' /\ (wDisturbed[d] => wDisturbed'[d]),
         \A d \in Calls \ {c} : wExecuted'[d] = wExecuted[d],
         wAt[c] \in {"act", "fallback"} \/ (p = wAt[c] /\ r = wReceipt[c] /\ wExecuted'[c] = wExecuted[c]),
         p \notin Unsent \/ p = wAt[c], p \in Unsent => wExecuted'[c] = wExecuted[c],
         p = "spread" => wAt[c] = "spread",
         p = "fallback" => wKind[c] = "rename" /\ (wExecuted'[c] = 0 \/ wDisturbed'[c]),
         wExecuted'[c] > 1 => wDisturbed'[c],
         \/ r = wReceipt[c]
         \/ r = "verified" => wStood'[c]
                              \/ (wKind[c] = "unmute" /\ "nim" \in wFaults),
         r = wReceipt[c] \/ r # "succeeded" \/ wKind[c] # "remove"
  PROVE  WritesInv'
  <1>1. WritesTypes
    BY DEF WritesInv
  <1>2. \A d \in Calls : wStood'[d] = (wStood[d] \/ (wAt'[d] \in Writes!Later /\ Writes!Stands(d, wRemote')))
    BY DEF Writes!Witness
  <1>3. wStood' \in [Calls -> BOOLEAN]
    <2>1. wStood' = [d \in Calls |-> wStood[d] \/ (wAt'[d] \in Writes!Later /\ Writes!Stands(d, wRemote'))]
      BY DEF Writes!Witness
    <2> QED
      BY <2>1
  <1>4. WritesTypes'
    BY <1>1, <1>3 DEF WritesTypes
  <1>5. ASSUME NEW d \in Calls PROVE WriteTrue(d)'
    <2>1. WriteTrue(d) /\ WriteTrue(c)
      BY DEF WritesInv
    <2>2. (wStood[d] => wStood'[d]) /\ (wAt'[d] \in Awaited /\ Writes!Stands(d, wRemote') => wStood'[d])
      <3>1. wAt'[d] \in Awaited => wAt'[d] \in Writes!Later
        BY DEF Awaited, Writes!Later
      <3> QED
        BY <1>2, <3>1, Zenon
    <2>3. Writes!Stands(d, wRemote)' <=> Writes!Stands(d, wRemote')
      BY DEF Writes!Stands, Writes!Field
    <2>4. CASE d # c
      <3>1. wAt'[d] = wAt[d] /\ wReceipt'[d] = wReceipt[d] /\ wExecuted'[d] = wExecuted[d]
            /\ (wDisturbed[d] => wDisturbed'[d])
        BY <1>1, <2>4 DEF WritesTypes
      <3> QED
        BY <2>1, <2>2, <2>3, <3>1 DEF WriteTrue, Writes!SaysWhatStood, Writes!NotRepeated
    <2>5. CASE d = c
      <3>1. wAt'[d] = p /\ wReceipt'[d] = r
        BY <1>1, <2>5 DEF WritesTypes
      <3>2. Writes!SaysWhatStood(d)'
        BY <2>1, <2>2, <2>5, <3>1 DEF WriteTrue, Writes!SaysWhatStood
      <3>3. Writes!NotRepeated(d)'
        BY <2>5 DEF Writes!NotRepeated
      <3>4. wAt'[d] \in Unsent => wExecuted'[d] = 0
        BY <2>1, <2>5, <3>1 DEF WriteTrue
      <3>5. wAt'[d] = "spread" => wStood'[d]
        BY <2>1, <2>2, <2>5, <3>1 DEF WriteTrue
      <3>6. wAt'[d] = "fallback" => wKind'[d] = "rename" /\ (wExecuted'[d] = 0 \/ wDisturbed'[d])
        BY <2>5, <3>1
      <3> QED
        BY <2>2, <2>3, <3>2, <3>3, <3>4, <3>5, <3>6 DEF WriteTrue
    <2> QED
      BY <2>4, <2>5
  <1> QED
    BY <1>4, <1>5 DEF WritesInv

(* A roster shows the member as the chat client has it; without the pages  *)
(* of NIM it may miss that the member is muted.                            *)
LEMMA RosterIs ==
  ASSUME WritesTypes, NEW r \in Writes!Rosters
  PROVE  /\ r.card = wRemote["card"] /\ r.present = wRemote["present"]
         /\ r.muted = "yes" => wRemote["muted"] = "yes"
         /\ r.muted = "no" => wRemote["muted"] = "no" \/ "nim" \in wFaults
  <1>1. PICK s \in ((IF wRemote["muted"] = "yes" THEN {"yes"} ELSE {"no", "unseen"}) \X {TRUE})
                     \cup (IF "nim" \in wFaults THEN {"no", "unseen"} \X {FALSE} ELSE {}) :
          r = [present |-> wRemote["present"], card |-> wRemote["card"], muted |-> s[1], whole |-> s[2]]
    BY DEF Writes!Rosters, Writes!Unmuted
  <1>2. wRemote["muted"] \in {"yes", "no"}
    BY DEF WritesTypes
  <1>3. s[1] \in (IF wRemote["muted"] = "yes" THEN {"yes"} ELSE {"no", "unseen"}) \/ "nim" \in wFaults
    BY <1>1
  <1>4. s[1] = "yes" => wRemote["muted"] = "yes"
    BY <1>1
  <1> QED
    BY <1>1, <1>2, <1>3, <1>4

(* What a call does before it writes and when it reads back.               *)
LEMMA CallReads ==
  ASSUME WritesInv, NEW c \in Calls,
         \/ Writes!Begin(c) \/ Writes!Check(c) \/ Writes!ReadFails(c) \/ Writes!VerifyMember(c)
         \/ Writes!VerifyTeam(c) \/ Writes!VerifyNotice(c) \/ Writes!ConfirmNotice(c) \/ Writes!SpreadNotice(c)
  PROVE  WritesInv'
  <1> USE DEF Unsent, Awaited, Writes!observed
  <1>1. WritesTypes /\ Undisturbed(c) /\ WriteTrue(c)
    BY DEF WritesInv
  <1>2. wReceipt[c] \in {"none", "verified", "succeeded", "unknown", "error"}
        /\ wReceipt = [wReceipt EXCEPT ![c] = wReceipt[c]]
    BY <1>1 DEF WritesTypes
  <1>3. wAt[c] \in Awaited /\ Writes!Stands(c, wRemote) => wStood[c]
    BY <1>1 DEF WriteTrue
  <1>4. CASE Writes!Begin(c)
    BY <1>2, <1>4, GoesOn DEF Writes!Begin, Writes!Goes, Writes!Ends
  <1>5. CASE Writes!Check(c)
    <2>1. wAt[c] = "check" /\ UNCHANGED <<wKind, wFaults, wRemote, wExecuted, wDisturbed, wStood>>
          /\ (Writes!Goes(c, "act") \/ Writes!Ends(c, "error"))
      BY <1>5 DEF Writes!Check
    <2> QED
      BY <1>2, <2>1, GoesOn DEF Writes!Goes, Writes!Ends
  <1>6. CASE Writes!ReadFails(c)
    BY <1>2, <1>6, GoesOn DEF Writes!ReadFails, Writes!Ends
  <1>7. CASE Writes!VerifyTeam(c)
    <2>1. wAt[c] = "read" /\ UNCHANGED <<wKind, wFaults, wRemote, wExecuted, wDisturbed, wStood>>
          /\ \/ Writes!Stands(c, wRemote) /\ Writes!Ends(c, "verified")
             \/ Writes!Goes(c, "read") \/ Writes!Ends(c, "unknown")
      BY <1>7 DEF Writes!VerifyTeam
    <2> QED
      BY <1>2, <1>3, <2>1, GoesOn DEF Writes!Goes, Writes!Ends
  <1>8. CASE Writes!VerifyNotice(c)
    BY <1>2, <1>3, <1>8, GoesOn DEF Writes!VerifyNotice, Writes!Ends
  <1>9. CASE Writes!ConfirmNotice(c)
    BY <1>2, <1>3, <1>9, GoesOn DEF Writes!ConfirmNotice, Writes!Goes, Writes!Ends
  <1>10. CASE Writes!SpreadNotice(c)
    <2>1. wAt[c] = "spread" /\ wStood[c]
      BY <1>1, <1>10 DEF Writes!SpreadNotice, WriteTrue
    <2> QED
      BY <1>2, <1>10, <2>1, GoesOn DEF Writes!SpreadNotice, Writes!Ends
  <1>11. CASE Writes!VerifyMember(c)
    <2>1. /\ wAt[c] = "read" /\ wKind[c] \in Writes!MemberWrites
          /\ UNCHANGED <<wKind, wFaults, wRemote, wExecuted, wDisturbed, wStood>>
      BY <1>11 DEF Writes!VerifyMember
    <2>2. PICK r \in Writes!Rosters :
            \/ wKind[c] = "rename" /\ Writes!VerifyRename(c, r)
            \/ wKind[c] \in {"mute", "unmute"} /\ Writes!VerifyMute(c, r)
            \/ wKind[c] = "remove" /\ Writes!VerifyRemoval(c, r)
      BY <1>11, <2>1 DEF Writes!VerifyMember, Writes!RostersReadBack, Writes!MemberWrites
    <2>3. /\ r.card = wRemote["card"] /\ r.present = wRemote["present"]
          /\ r.muted = "yes" => wRemote["muted"] = "yes"
          /\ r.muted = "no" => wRemote["muted"] = "no" \/ "nim" \in wFaults
      BY <1>1, RosterIs
    <2>4. /\ wKind[c] = "rename" => Writes!Field(c) = "card" /\ Writes!Wanted[wKind[c]].to = "dh"
          /\ wKind[c] = "mute" => Writes!Field(c) = "muted" /\ Writes!Wanted[wKind[c]].to = "yes"
          /\ wKind[c] = "unmute" => Writes!Field(c) = "muted" /\ Writes!Wanted[wKind[c]].to = "no"
          /\ wKind[c] = "remove" => Writes!Field(c) = "present" /\ Writes!Wanted[wKind[c]].to = "no"
      BY <1>1, WantedIs
    <2>5. CASE wKind[c] = "rename" /\ Writes!VerifyRename(c, r)
      <3>1. \/ r.present = "yes" /\ r.card = "dh" /\ Writes!Ends(c, "verified")
            \/ ~(r.present = "yes" /\ r.card = "dh") /\ Writes!Goes(c, "fallback")
            \/ Writes!Ends(c, "error")
        BY <2>5 DEF Writes!VerifyRename
      <3>2. Writes!Stands(c, wRemote) <=> wRemote["card"] = "dh"
        BY <2>4, <2>5 DEF Writes!Stands
      <3>3. CASE r.present = "yes" /\ r.card = "dh" /\ Writes!Ends(c, "verified")
        BY <1>3, <2>1, <2>3, <3>2, <3>3, GoesOn DEF Writes!Ends
      <3>4. CASE ~(r.present = "yes" /\ r.card = "dh") /\ Writes!Goes(c, "fallback")
        <4>1. wExecuted[c] = 0 \/ wDisturbed[c]
          BY <1>1, <2>3, <2>5, <3>2, <3>4 DEF Undisturbed, WritesTypes
        <4> QED
          BY <1>2, <2>1, <2>5, <3>4, <4>1, GoesOn DEF Writes!Goes
      <3>5. CASE Writes!Ends(c, "error")
        BY <2>1, <3>5, GoesOn DEF Writes!Ends
      <3> QED
        BY <3>1, <3>3, <3>4, <3>5
    <2>6. CASE wKind[c] \in {"mute", "unmute"} /\ Writes!VerifyMute(c, r)
      <3>1. \/ Writes!Ends(c, "unknown") \/ Writes!Ends(c, "error")
            \/ r.muted = Writes!Wanted[wKind[c]].to /\ Writes!Ends(c, "verified")
        BY <2>6 DEF Writes!VerifyMute
      <3>2. r.muted = Writes!Wanted[wKind[c]].to =>
              Writes!Stands(c, wRemote) \/ (wKind[c] = "unmute" /\ "nim" \in wFaults)
        BY <2>3, <2>4, <2>6 DEF Writes!Stands
      <3> QED
        BY <1>3, <2>1, <3>1, <3>2, GoesOn DEF Writes!Ends
    <2>7. CASE wKind[c] = "remove" /\ Writes!VerifyRemoval(c, r)
      <3>1. \/ Writes!Ends(c, "unknown") \/ Writes!Ends(c, "error")
            \/ r.present = "no" /\ Writes!Ends(c, "succeeded")
        BY <2>7 DEF Writes!VerifyRemoval
      <3>2. r.present = "no" => Writes!Stands(c, wRemote)
        BY <2>3, <2>4, <2>7 DEF Writes!Stands
      <3> QED
        BY <1>3, <2>1, <3>1, <3>2, GoesOn DEF Writes!Ends
    <2> QED
      BY <2>2, <2>5, <2>6, <2>7
  <1> QED
    BY <1>4, <1>5, <1>6, <1>7, <1>8, <1>9, <1>10, <1>11

(* The chat client carries out a call or does not.                         *)
LEMMA DoneIs ==
  ASSUME WritesInv, NEW c \in Calls, wKind' = wKind, Writes!Executes(c) \/ Writes!NotExecuted
  PROVE  /\ wRemote' \in [Fields -> Values] /\ wRemote'["muted"] \in {"yes", "no"}
         /\ wExecuted' \in [Calls -> Nat] /\ wDisturbed' \in [Calls -> BOOLEAN]
         /\ \A d \in Calls : Undisturbed(d)' /\ (wDisturbed[d] => wDisturbed'[d])
         /\ \A d \in Calls \ {c} : wExecuted'[d] = wExecuted[d]
         /\ wExecuted'[c] \in {wExecuted[c], wExecuted[c] + 1}
         /\ Writes!NotExecuted => wExecuted'[c] = wExecuted[c]
  <1>1. WritesTypes
    BY DEF WritesInv
  <1>2. CASE Writes!NotExecuted
    <2>1. ASSUME NEW d \in Calls PROVE Undisturbed(d)'
      <3>1. Undisturbed(d)
        BY DEF WritesInv
      <3> QED
        BY <1>2, <3>1 DEF Undisturbed, Writes!Stands, Writes!Field, Writes!NotExecuted
    <2> QED
      BY <1>1, <1>2, <2>1 DEF WritesTypes, Writes!NotExecuted
  <1>3. CASE Writes!Executes(c) /\ ~Writes!NotExecuted
    <2> DEFINE f == Writes!Field(c)  v == Writes!Wanted[wKind[c]].to
    <2>1. f \in Fields /\ v \in Values /\ (f = "muted" => v \in {"yes", "no"})
      BY <1>1, WantedIs
    <2>2. Writes!Changes(f, v, {c}) /\ (wKind[c] = "rename" => wRemote["present"] = "yes")
      BY <1>3 DEF Writes!Executes, Writes!MemberWrites
    <2>3. \A d \in {c} : /\ Writes!Field(d) = f /\ Writes!Wanted[wKind[d]].to = v
                         /\ wKind[d] = "rename" => wRemote["present"] = "yes"
      BY <2>2
    <2>4. {c} \in SUBSET Calls
      OBVIOUS
    <2> HIDE DEF f, v
    <2>5. /\ wRemote' \in [Fields -> Values] /\ wRemote'["muted"] \in {"yes", "no"}
          /\ wExecuted' \in [Calls -> Nat] /\ wDisturbed' \in [Calls -> BOOLEAN]
          /\ \A d \in Calls : /\ Undisturbed(d)' /\ (wDisturbed[d] => wDisturbed'[d])
                              /\ wExecuted'[d] = IF d \in {c} THEN wExecuted[d] + 1 ELSE wExecuted[d]
      BY <2>1, <2>2, <2>3, <2>4, ChangesIs
    <2> QED
      BY <1>3, <2>5
  <1> QED
    BY <1>2, <1>3

(* The write and the second way to rename.                                 *)
LEMMA CallWrites ==
  ASSUME WritesInv, NEW c \in Calls, Writes!Act(c) \/ Writes!Fallback(c)
  PROVE  WritesInv'
  <1> USE DEF Unsent, Awaited
  <1>1. WritesTypes /\ WriteTrue(c)
    BY DEF WritesInv
  <1>2. wReceipt[c] \in {"none", "verified", "succeeded", "unknown", "error"}
        /\ wReceipt = [wReceipt EXCEPT ![c] = wReceipt[c]] /\ wExecuted[c] \in Nat
    BY <1>1 DEF WritesTypes
  <1>3. UNCHANGED <<wKind, wFaults>> /\ Writes!Witness /\ wAt[c] \in {"act", "fallback"}
        /\ (Writes!Executes(c) \/ Writes!NotExecuted)
    BY DEF Writes!Act, Writes!Fallback
  <1>4. /\ wRemote' \in [Fields -> Values] /\ wRemote'["muted"] \in {"yes", "no"}
        /\ wExecuted' \in [Calls -> Nat] /\ wDisturbed' \in [Calls -> BOOLEAN]
        /\ \A d \in Calls : Undisturbed(d)' /\ (wDisturbed[d] => wDisturbed'[d])
        /\ \A d \in Calls \ {c} : wExecuted'[d] = wExecuted[d]
        /\ wExecuted'[c] \in {wExecuted[c], wExecuted[c] + 1}
        /\ Writes!NotExecuted => wExecuted'[c] = wExecuted[c]
    BY <1>3, DoneIs
  <1>5. wExecuted'[c] > 1 => wDisturbed'[c]
    BY <1>1, <1>2, <1>3, <1>4 DEF WriteTrue
  <1>6. CASE Writes!Fallback(c)
    <2>1. Writes!Goes(c, "read") \/ Writes!Ends(c, "error")
      BY <1>6 DEF Writes!Fallback
    <2> QED
      BY <1>2, <1>3, <1>4, <1>5, <2>1, Happens DEF Writes!Goes, Writes!Ends
  <1>7. CASE Writes!Act(c)
    <2>1. \/ Writes!Answered(c)
          \/ Writes!Ends(c, "error")
          \/ Writes!NotExecuted /\ wKind[c] = "rename" /\ Writes!Goes(c, "fallback")
      BY <1>7 DEF Writes!Act, Writes!FallbackAllowed, Writes!CanAnswer
    <2>2. wAt[c] = "act" /\ wExecuted[c] = 0
      BY <1>1, <1>7 DEF Writes!Act, WriteTrue
    <2>3. CASE Writes!Answered(c)
      <3>1. \/ wKind[c] = "send" /\ Writes!Ends(c, "succeeded")
            \/ wKind[c] = "recall" /\ wRemote'["recalled"] = "yes" /\ Writes!Ends(c, "verified")
            \/ Writes!Ends(c, "unknown") \/ Writes!Goes(c, "read")
        BY <2>3 DEF Writes!Answered, Writes!SentAnswered, Writes!RecallAnswered
      <3>2. CASE wKind[c] = "send" /\ Writes!Ends(c, "succeeded")
        BY <1>3, <1>4, <1>5, <3>2, Happens DEF Writes!Ends
      <3>3. CASE wKind[c] = "recall" /\ wRemote'["recalled"] = "yes" /\ Writes!Ends(c, "verified")
        <4>1. Writes!Stands(c, wRemote')
          BY <1>1, <3>3, WantedIs DEF Writes!Stands
        <4>2. wAt'[c] \in Writes!Later
          BY <1>1, <3>3 DEF Writes!Ends, Writes!Later, WritesTypes
        <4>3. wStood'[c] = (wStood[c] \/ (wAt'[c] \in Writes!Later /\ Writes!Stands(c, wRemote')))
          BY <1>3 DEF Writes!Witness
        <4>4. wStood'[c]
          BY <4>1, <4>2, <4>3, Zenon
        <4> QED
          BY <1>3, <1>4, <1>5, <3>3, <4>4, Happens DEF Writes!Ends
      <3>4. CASE Writes!Ends(c, "unknown")
        BY <1>3, <1>4, <1>5, <3>4, Happens DEF Writes!Ends
      <3>5. CASE Writes!Goes(c, "read")
        BY <1>2, <1>3, <1>4, <1>5, <3>5, Happens DEF Writes!Goes
      <3> QED
        BY <3>1, <3>2, <3>3, <3>4, <3>5
    <2>4. CASE Writes!Ends(c, "error")
      BY <1>3, <1>4, <1>5, <2>4, Happens DEF Writes!Ends
    <2>5. CASE Writes!NotExecuted /\ wKind[c] = "rename" /\ Writes!Goes(c, "fallback")
      <3>1. wExecuted'[c] = 0
        BY <1>4, <2>2, <2>5
      <3> QED
        BY <1>2, <1>3, <1>4, <1>5, <2>5, <3>1, Happens DEF Writes!Goes
    <2> QED
      BY <2>1, <2>3, <2>4, <2>5
  <1> QED
    BY <1>6, <1>7

(* Others change what they like.                                           *)
LEMMA OthersWrite ==
  ASSUME WritesInv, Writes!Others
  PROVE  WritesInv'
  <1>1. WritesTypes
    BY DEF WritesInv
  <1>2. PICK c \in Calls, v \in Values : /\ v \in Writes!Domain[Writes!Field(c)]
                                         /\ Writes!Changes(Writes!Field(c), v, {})
    <2>1. PICK c \in Calls : \E v \in Writes!Domain[Writes!Field(c)] : Writes!Changes(Writes!Field(c), v, {})
      BY DEF Writes!Others
    <2>2. Writes!Domain[Writes!Field(c)] \subseteq Values
      BY <1>1, WantedIs DEF Writes!Domain, Fields, Values
    <2> QED
      BY <2>1, <2>2
  <1>3. UNCHANGED <<wKind, wFaults, wAt, wReceipt>> /\ Writes!Witness
    BY DEF Writes!Others
  <1> DEFINE f == Writes!Field(c)
  <1>4. f \in Fields
    BY <1>1, WantedIs
  <1>5. f = "muted" => v \in {"yes", "no"}
    BY <1>2, <1>4 DEF Writes!Domain
  <1> HIDE DEF f
  <1>6. /\ wRemote' \in [Fields -> Values] /\ wRemote'["muted"] \in {"yes", "no"}
        /\ wExecuted' \in [Calls -> Nat] /\ wDisturbed' \in [Calls -> BOOLEAN]
        /\ \A d \in Calls : /\ Undisturbed(d)' /\ (wDisturbed[d] => wDisturbed'[d])
                            /\ wExecuted'[d] = wExecuted[d]
    <2>1. Writes!Changes(f, v, {}) /\ {} \in SUBSET Calls
      BY <1>2 DEF f
    <2>2. /\ wRemote' \in [Fields -> Values] /\ wRemote'["muted"] \in {"yes", "no"}
          /\ wExecuted' \in [Calls -> Nat] /\ wDisturbed' \in [Calls -> BOOLEAN]
          /\ \A d \in Calls : /\ Undisturbed(d)' /\ (wDisturbed[d] => wDisturbed'[d])
                              /\ wExecuted'[d] = IF d \in {} THEN wExecuted[d] + 1 ELSE wExecuted[d]
      BY <1>3, <1>4, <1>5, <2>1, ChangesIs
    <2> QED
      BY <2>2
  <1>7. /\ wAt[c] \in Unsent \cup Awaited \cup {"done"} /\ wAt' = [wAt EXCEPT ![c] = wAt[c]]
        /\ wReceipt[c] \in {"none", "verified", "succeeded", "unknown", "error"}
        /\ wReceipt' = [wReceipt EXCEPT ![c] = wReceipt[c]]
    BY <1>1, <1>3 DEF WritesTypes
  <1>8. /\ wAt[c] \in Unsent => wExecuted'[c] = wExecuted[c]
        /\ wAt[c] = "fallback" => wKind[c] = "rename" /\ (wExecuted'[c] = 0 \/ wDisturbed'[c])
        /\ wExecuted'[c] > 1 => wDisturbed'[c]
    BY <1>6 DEF WritesInv, WriteTrue, Writes!NotRepeated
  <1>9. PICK p \in Unsent \cup Awaited \cup {"done"},
             r \in {"none", "verified", "succeeded", "unknown", "error"} : p = wAt[c] /\ r = wReceipt[c]
    BY <1>7
  <1>10. /\ wAt' = [wAt EXCEPT ![c] = p] /\ wReceipt' = [wReceipt EXCEPT ![c] = r]
         /\ \A d \in Calls : Undisturbed(d)' /\ (wDisturbed[d] => wDisturbed'[d])
         /\ \A d \in Calls \ {c} : wExecuted'[d] = wExecuted[d]
         /\ p = wAt[c] /\ r = wReceipt[c] /\ wExecuted'[c] = wExecuted[c]
    BY <1>6, <1>7, <1>9
  <1>11. /\ p \in Unsent => wExecuted'[c] = wExecuted[c]
         /\ p = "fallback" => wKind[c] = "rename" /\ (wExecuted'[c] = 0 \/ wDisturbed'[c])
    BY <1>8, <1>9
  <1>12. wRemote' \in [Fields -> Values] /\ wRemote'["muted"] \in {"yes", "no"}
         /\ wExecuted' \in [Calls -> Nat] /\ wDisturbed' \in [Calls -> BOOLEAN]
    BY <1>6
  <1> QED
    <2>1. wAt[c] \in {"act", "fallback"} \/ (p = wAt[c] /\ r = wReceipt[c] /\ wExecuted'[c] = wExecuted[c])
      BY <1>10
    <2>2. (p \notin Unsent \/ p = wAt[c]) /\ (p = "spread" => wAt[c] = "spread")
      BY <1>10
    <2>3. \/ r = wReceipt[c]
          \/ r = "verified" => wStood'[c] \/ (wKind[c] = "unmute" /\ "nim" \in wFaults)
      BY <1>10
    <2>4. r = wReceipt[c] \/ r # "succeeded" \/ wKind[c] # "remove"
      BY <1>10
    <2>5. /\ wAt' = [wAt EXCEPT ![c] = p] /\ wReceipt' = [wReceipt EXCEPT ![c] = r]
          /\ \A d \in Calls : Undisturbed(d)' /\ (wDisturbed[d] => wDisturbed'[d])
          /\ \A d \in Calls \ {c} : wExecuted'[d] = wExecuted[d]
      BY <1>10
    <2>6. wExecuted'[c] > 1 => wDisturbed'[c]
      BY <1>8
    <2>7. UNCHANGED <<wKind, wFaults>>
      BY <1>3
    <2>8. Writes!Witness
      BY <1>3
    <2> QED
      BY <1>11, <1>12, <2>1, <2>2, <2>3, <2>4, <2>5, <2>6, <2>7, <2>8, Happens

(* Every step keeps it.                                                    *)
LEMMA WritesStep == WritesInv /\ [Writes!Next]_writesVars => WritesInv'
  <1> SUFFICES ASSUME WritesInv, [Writes!Next]_writesVars PROVE WritesInv'
    OBVIOUS
  <1>1. ASSUME NEW c \in Calls, Writes!Step(c) PROVE WritesInv'
    BY <1>1, CallReads, CallWrites DEF Writes!Step
  <1>2. CASE Writes!Others
    BY <1>2, OthersWrite
  <1>3. CASE UNCHANGED <<wKind, wFaults, wRemote, wAt, wReceipt, wExecuted, wDisturbed, wStood>>
    BY <1>3 DEF WritesInv, WritesTypes, Undisturbed, WriteTrue, Writes!SaysWhatStood, Writes!NotRepeated,
       Writes!Stands, Writes!Field
  <1>4. Writes!ListMembers \/ Writes!CacheMembers \/ Writes!CacheAges \/ UNCHANGED writesVars =>
          UNCHANGED <<wKind, wFaults, wRemote, wAt, wReceipt, wExecuted, wDisturbed, wStood>>
    BY DEF Writes!ListMembers, Writes!CacheMembers, Writes!CacheAges, writesVars, Writes!observed
  <1> QED
    BY <1>1, <1>2, <1>3, <1>4 DEF Writes!Next

(* ReceiptsAreTrue, the writes of gateway.rs: what a receipt calls         *)
(* verified, and a removal it calls a success, has stood at some time      *)
(* since the call was sent, whoever else changes the group; and the second *)
(* way to rename is never gone while the first still stands.               *)
THEOREM ReceiptsTellTheTruth == MCSpec => []ReceiptsAreTrue
  <1> DEFINE I == focus = "writes" => WritesInv
  <1>1. MCInit => I
    BY WritesStart DEF MCInit
  <1>2. I /\ [MCNext]_mcVars => I'
    BY Steps, WritesStep
  <1>3. I => ReceiptsAreTrue
    BY DEF ReceiptsAreTrue, Writes!ReceiptsAreTrue, WritesInv, WriteTrue
  <1> QED
    BY <1>1, <1>2, <1>3, PTL DEF MCSpec, mcVars

-----------------------------------------------------------------------------
(* Between the chat client's page and the workers nothing is lost: no      *)
(* message is processed before its acknowledgement counts, and what the    *)
(* page forgets has been stored (GatewayInboxProofs), through crashes,     *)
(* reloads and failures.                                                   *)
THEOREM MessagesAreNotLost == MCSpec => IntakeLosesNothing
  <1>1. MCInit => Intake!Init
    BY DEF MCInit
  <1>2. [MCNext]_mcVars => [Intake!Next]_(Intake!vars)
    BY Steps
  <1>3. MCSpec => Intake!Spec
    BY <1>1, <1>2, PTL DEF MCSpec, mcVars, Intake!Spec
  <1>4. Intake!Spec => Intake!IntakeLosesNothing
    BY Intake!NothingIsLost
  <1> QED
    BY <1>3, <1>4 DEF IntakeLosesNothing
=============================================================================
