------------------------- MODULE BotServicesProofs --------------------------
(***************************************************************************)
(* Proofs about services of MCLocalServices the bot does by itself, for    *)
(* all values of the constants that are left open there: a calibration     *)
(* session, the prediction app, the script the client is started with, and *)
(* the runs of an activity (for any plans, groups, faults and bounds).     *)
(***************************************************************************)
EXTENDS MCLocalServices, Sequences, SequenceTheorems, FiniteSetTheorems, WellFoundedInduction, TLAPS

mcVars == <<focus, vars, writesVars, secretsVars, scriptVars, modelsVars, captureVars,
            drawsVars, rulingVars, pageVars, storageVars, intakeVars, ableVars, webVars, postsVars>>

(* A step of the whole is a step of one service at most.                   *)
LEMMA Steps ==
  ASSUME [MCNext]_mcVars
  PROVE  /\ UNCHANGED focus
         /\ focus = "capture" => [Capture!Next]_captureVars
         /\ focus = "draws" => [Draws!Next]_drawsVars
         /\ focus = "script" => [Script!Next]_scriptVars
  BY DEF MCNext, mcVars, captureVars, drawsVars, scriptVars

-----------------------------------------------------------------------------
(* A calibration session.                                                  *)
CaptureWrites == Manual \cup Automatic
Recorders ==
    [active : BOOLEAN, finishing : BOOLEAN, operations : SUBSET CaptureWrites, callbacks : BOOLEAN,
     required : SUBSET Capture!Fields, baselines : [Capture!Fields -> {0, 1, 2, 9}],
     observed : [Capture!Fields -> {0, 1, 2, 9}]]

(* What the session can be told of: no write runs when it begins, and the  *)
(* state a write of the tester finds can be read.                          *)
SessionsAreTold ==
    /\ \A F \in CaptureFaults : "early" \notin F
    /\ \A w \in Manual : /\ CapturedOf[w] # "notice"
                         /\ CapturedOf[w] = "mute" => \A F \in CaptureFaults : "blind" \notin F

CaptureTypes ==
    /\ kFaults \in CaptureFaults /\ kRecorder \in Recorders
    /\ kRemote \in [Capture!Fields -> {0, 1, 2}] /\ kStart \in [Capture!Fields -> {0, 1, 2}]
    /\ kTouched \subseteq Capture!Fields
    /\ kAt \in [CaptureWrites -> {"idle", "permitted", "reads", "calls", "answered", "verifies", "done"}]
    /\ kFinish \in [Finishers -> {"idle", "waits", "reads", "done"}]

(* No automatic write is under way in a session.                           *)
SessionIsAlone == kRecorder.active => \A w \in Automatic : kAt[w] \in {"idle", "done"}

(* What a session has touched has the baseline the session found.          *)
BaselinesStand ==
    kRecorder.active =>
        /\ \A g \in Capture!Fields :
              /\ g \in kRecorder.required => kRecorder.baselines[g] = kStart[g]
              /\ g \notin kRecorder.required => kRecorder.baselines[g] = 9 /\ g \notin kTouched
              /\ g \notin kTouched => kRemote[g] = kStart[g]
        /\ \A w \in CaptureWrites : kAt[w] = "calls" => CapturedOf[w] \in kRecorder.required

(* While one reads for the last time nothing is written.                   *)
ReadingIsFrozen ==
    \A f \in Finishers : kFinish[f] = "reads" =>
        /\ kRecorder.active /\ kRecorder.finishing
        /\ \A w \in CaptureWrites : kAt[w] \in {"idle", "permitted", "done"}
        /\ \A g \in Capture!Fields : kRecorder.observed[g] \in {9, kRemote[g]}
        /\ \A h \in Finishers : kFinish[h] = "reads" => h = f

ExportIsTrue == \A g \in DOMAIN kExported : kExported[g][1] = kExported[g][2]

CaptureInv == CaptureTypes /\ SessionIsAlone /\ BaselinesStand /\ ReadingIsFrozen /\ ExportIsTrue

(* The field of a write is one of the fields.                              *)
LEMMA FieldOfWrite ==
  /\ Capture!Writes = CaptureWrites
  /\ \A w \in CaptureWrites : CapturedOf[w] \in Capture!Fields
  BY DEF Capture!Writes, CaptureWrites, Capture!Fields

(* An empty recorder is one.                                               *)
LEMMA EmptyRecorders ==
  /\ Capture!Idle \in Recorders /\ [Capture!Idle EXCEPT !.active = TRUE] \in Recorders
  /\ ~Capture!Idle.active
  /\ [Capture!Idle EXCEPT !.active = TRUE].required = {}
  /\ \A g \in Capture!Fields : [Capture!Idle EXCEPT !.active = TRUE].baselines[g] = 9
  BY DEF Capture!Idle, Capture!Unknown, Recorders

(* The session at a start.                                                 *)
LEMMA CaptureStart == ASSUME focus = "capture", MCInit PROVE CaptureInv
  <1>1. Capture!Init BY DEF MCInit
  <1>2. CaptureTypes
    BY <1>1, EmptyRecorders, FieldOfWrite DEF Capture!Init, CaptureTypes
  <1>3. SessionIsAlone /\ BaselinesStand
    BY <1>1, EmptyRecorders DEF Capture!Init, SessionIsAlone, BaselinesStand
  <1>4. ReadingIsFrozen /\ ExportIsTrue
    BY <1>1 DEF Capture!Init, ReadingIsFrozen, ExportIsTrue
  <1> QED BY <1>2, <1>3, <1>4 DEF CaptureInv

(* The write an automatic effect is allowed waits for no session.          *)
LEMMA PermitKeeps ==
  ASSUME CaptureInv, NEW w \in CaptureWrites, Capture!PermitAutomatic(w) PROVE CaptureInv'
  <1>1. CaptureTypes' /\ SessionIsAlone'
    BY DEF CaptureInv, CaptureTypes, SessionIsAlone, Capture!PermitAutomatic, Capture!Goes, CaptureWrites
  <1>2. BaselinesStand'
    BY DEF CaptureInv, CaptureTypes, BaselinesStand, Capture!PermitAutomatic, Capture!Goes, CaptureWrites
  <1>3. ReadingIsFrozen'
    BY DEF CaptureInv, CaptureTypes, ReadingIsFrozen, Capture!PermitAutomatic, Capture!Goes, CaptureWrites
  <1>4. ExportIsTrue'
    BY DEF CaptureInv, ExportIsTrue, Capture!PermitAutomatic
  <1> QED BY <1>1, <1>2, <1>3, <1>4 DEF CaptureInv

(* A write starts only while nobody waits for the last reading.            *)
LEMMA EnterKeeps ==
  ASSUME CaptureInv, NEW w \in CaptureWrites, Capture!EnterWrite(w) PROVE CaptureInv'
  <1>1. CaptureTypes' /\ SessionIsAlone'
    BY DEF CaptureInv, CaptureTypes, SessionIsAlone, Capture!EnterWrite, Capture!Goes, CaptureWrites
  <1>2. BaselinesStand'
    BY DEF CaptureInv, CaptureTypes, BaselinesStand, Capture!EnterWrite, Capture!Goes, CaptureWrites
  <1>3. ReadingIsFrozen'
    BY DEF CaptureInv, CaptureTypes, ReadingIsFrozen, Capture!EnterWrite, Capture!Goes, CaptureWrites,
           Capture!WritesAllowed
  <1>4. ExportIsTrue'
    BY DEF CaptureInv, ExportIsTrue, Capture!EnterWrite
  <1> QED BY <1>1, <1>2, <1>3, <1>4 DEF CaptureInv

(* A write of the tester is the only kind under way in a session, and its  *)
(* field has a state that can be read.                                     *)
LEMMA ManualAlone ==
  ASSUME SessionsAreTold, CaptureInv, NEW w \in CaptureWrites, kRecorder.active,
         kAt[w] \notin {"idle", "done"}
  PROVE  w \in Manual
  BY DEF CaptureInv, SessionIsAlone, CaptureWrites

(* Nothing is written while one reads for the last time.                   *)
LEMMA NoneReads ==
  ASSUME CaptureInv, NEW w \in CaptureWrites, kAt[w] \notin {"idle", "permitted", "done"}
  PROVE  \A f \in Finishers : kFinish[f] # "reads"
  BY DEF CaptureInv, ReadingIsFrozen

(* The state before a write is taken down when it is the first.            *)
LEMMA BaselineIsTaken ==
  ASSUME CaptureInv, NEW f \in Capture!Fields, kRecorder.active,
         kRecorder' = Capture!RecordBaseline(f, kRemote[f])
  PROVE  /\ kRecorder' \in Recorders
         /\ kRecorder'.active = kRecorder.active /\ kRecorder'.finishing = kRecorder.finishing
         /\ kRecorder'.observed = kRecorder.observed
         /\ kRecorder'.required = kRecorder.required \cup {f}
         /\ \A g \in Capture!Fields : g # f => kRecorder'.baselines[g] = kRecorder.baselines[g]
         /\ kRecorder'.baselines[f] = kStart[f]
  <1> DEFINE b == [kRecorder.baselines EXCEPT ![f] = IF @ = 9 THEN kRemote[f] ELSE @]
  <1>1. kRecorder' = [kRecorder EXCEPT !.required = @ \cup {f}, !.baselines = b]
    BY DEF Capture!RecordBaseline, Capture!Unknown
  <1>2. b \in [Capture!Fields -> {0, 1, 2, 9}] /\ b[f] = kStart[f]
    BY DEF CaptureInv, CaptureTypes, Recorders, BaselinesStand
  <1>3. \A g \in Capture!Fields : g # f => b[g] = kRecorder.baselines[g]
    BY DEF CaptureInv, CaptureTypes, Recorders
  <1> DEFINE q == kRecorder.required \cup {f}
  <1>4. q \in SUBSET Capture!Fields BY DEF CaptureInv, CaptureTypes, Recorders
  <1>5. kRecorder' = [kRecorder EXCEPT !.required = q, !.baselines = b] BY <1>1
  <1>6. kRecorder \in Recorders BY DEF CaptureInv, CaptureTypes
  <1> HIDE DEF b, q
  <1>7. /\ kRecorder' \in Recorders
        /\ kRecorder'.active = kRecorder.active /\ kRecorder'.finishing = kRecorder.finishing
        /\ kRecorder'.observed = kRecorder.observed
        /\ kRecorder'.required = q /\ kRecorder'.baselines = b
    BY <1>2, <1>4, <1>5, <1>6 DEF Recorders
  <1> QED BY <1>2, <1>3, <1>7 DEF q

(* The state a write finds is read.                                        *)
LEMMA ReadKeeps ==
  ASSUME SessionsAreTold, CaptureInv, NEW w \in CaptureWrites, Capture!ReadBefore(w)
  PROVE  CaptureInv'
  <1> DEFINE f == CapturedOf[w]
  <1>f. f \in Capture!Fields BY FieldOfWrite
  <1>n. \A h \in Finishers : kFinish[h] # "reads"
    BY NoneReads DEF Capture!ReadBefore
  <1>u. /\ UNCHANGED <<kFaults, kRemote, kBegins, kFinish, kSessions, kStart, kTouched, kExported>>
        /\ kAt[w] = "reads"
    BY DEF Capture!ReadBefore
  <1>o. ReadingIsFrozen' /\ ExportIsTrue'
    BY <1>n, <1>u DEF CaptureInv, ReadingIsFrozen, ExportIsTrue
  <1>1. CASE kRecorder' = kRecorder /\ kAt' = [kAt EXCEPT ![w] = "done"]
    <2>1. CaptureTypes' /\ SessionIsAlone'
      BY <1>1, <1>u DEF CaptureInv, CaptureTypes, SessionIsAlone, CaptureWrites
    <2>2. BaselinesStand'
      BY <1>1, <1>u DEF CaptureInv, CaptureTypes, BaselinesStand, CaptureWrites
    <2> QED BY <2>1, <2>2, <1>o DEF CaptureInv
  <1>2. CASE ~kRecorder.active /\ kRecorder' = kRecorder /\ kAt' = [kAt EXCEPT ![w] = "calls"]
    <2>1. CaptureTypes' /\ SessionIsAlone' /\ BaselinesStand'
      BY <1>2, <1>u DEF CaptureInv, CaptureTypes, SessionIsAlone, BaselinesStand, CaptureWrites
    <2> QED BY <2>1, <1>o DEF CaptureInv
  <1>3. CASE kRecorder.active /\ kAt' = [kAt EXCEPT ![w] = "calls"]
    <2>m. w \in Manual BY <1>3, <1>u, ManualAlone
    <2>1. kRecorder' = Capture!RecordBaseline(f, kRemote[f])
      BY <1>3, <2>m DEF Capture!ReadBefore, SessionsAreTold, CaptureInv, CaptureTypes, Capture!Goes
    <2> HIDE DEF f
    <2>k. kRecorder.active BY <1>3
    <2>2. /\ kRecorder' \in Recorders
          /\ kRecorder'.active = kRecorder.active /\ kRecorder'.finishing = kRecorder.finishing
          /\ kRecorder'.observed = kRecorder.observed
          /\ kRecorder'.required = kRecorder.required \cup {f}
          /\ \A g \in Capture!Fields : g # f => kRecorder'.baselines[g] = kRecorder.baselines[g]
          /\ kRecorder'.baselines[f] = kStart[f]
      BY <1>f, <2>k, <2>1, BaselineIsTaken
    <2>3. CaptureTypes'
      BY <1>3, <1>u, <2>2 DEF CaptureInv, CaptureTypes
    <2>4. SessionIsAlone'
      BY <1>3, <1>u, <2>2 DEF CaptureInv, CaptureTypes, SessionIsAlone, CaptureWrites
    <2>5. BaselinesStand'
      <3>1. \A g \in Capture!Fields :
              /\ g \in kRecorder'.required => kRecorder'.baselines[g] = kStart[g]
              /\ g \notin kRecorder'.required => kRecorder'.baselines[g] = 9 /\ g \notin kTouched
              /\ g \notin kTouched => kRemote[g] = kStart[g]
        BY <1>3, <2>2 DEF CaptureInv, BaselinesStand
      <3>2. \A v \in CaptureWrites : kAt'[v] = "calls" => CapturedOf[v] \in kRecorder'.required
        BY <1>3, <2>2 DEF CaptureInv, BaselinesStand, CaptureTypes, f
      <3> QED BY <3>1, <3>2, <1>u DEF BaselinesStand
    <2> QED BY <2>3, <2>4, <2>5, <1>o DEF CaptureInv
  <1>4. \/ kRecorder' = kRecorder /\ kAt' = [kAt EXCEPT ![w] = "done"]
        \/ /\ kAt' = [kAt EXCEPT ![w] = "calls"]
           /\ kRecorder' \in {kRecorder, Capture!RecordBaseline(f, kRemote[f]), Capture!RequireBaseline(f)}
    BY DEF Capture!ReadBefore, Capture!Goes
  <1>5. ~kRecorder.active => Capture!RecordBaseline(f, kRemote[f]) = kRecorder
                             /\ Capture!RequireBaseline(f) = kRecorder
    BY DEF Capture!RecordBaseline, Capture!RequireBaseline
  <1>6. kRecorder.active \in BOOLEAN
    BY DEF CaptureInv, CaptureTypes, Recorders
  <1> QED BY <1>1, <1>2, <1>3, <1>4, <1>5, <1>6

(* The request is executed: what it changes is known to the session.       *)
LEMMA ExecuteKeeps ==
  ASSUME CaptureInv, NEW w \in CaptureWrites, Capture!Execute(w) PROVE CaptureInv'
  <1> DEFINE f == CapturedOf[w]
  <1>f. f \in Capture!Fields BY FieldOfWrite
  <1>a. CapturedAim[w] \in {0, 1, 2}
    BY AimAssumption DEF CaptureWrites
  <1>u. /\ UNCHANGED <<kFaults, kRecorder, kBegins, kFinish, kSessions, kStart, kExported>>
        /\ kAt[w] = "calls" /\ kAt' = [kAt EXCEPT ![w] = "answered"]
    BY DEF Capture!Execute, Capture!Goes
  <1>n. \A h \in Finishers : kFinish[h] # "reads"
    BY <1>u, NoneReads
  <1>o. ReadingIsFrozen' /\ ExportIsTrue'
    BY <1>n, <1>u DEF CaptureInv, ReadingIsFrozen, ExportIsTrue
  <1>c. \/ UNCHANGED <<kRemote, kTouched>>
        \/ /\ kRemote' = [kRemote EXCEPT ![f] = CapturedAim[w]]
           /\ kTouched' = IF kRecorder.active THEN kTouched \cup {f} ELSE kTouched
    BY DEF Capture!Execute
  <1>r. kRecorder.active => f \in kRecorder.required
    BY <1>u DEF CaptureInv, BaselinesStand
  <1> HIDE DEF f
  <1>1. CaptureTypes'
    BY <1>u, <1>c, <1>f, <1>a DEF CaptureInv, CaptureTypes
  <1>2. SessionIsAlone'
    BY <1>u DEF CaptureInv, CaptureTypes, SessionIsAlone, CaptureWrites
  <1>3. BaselinesStand'
    <2> SUFFICES ASSUME kRecorder.active PROVE BaselinesStand'
      BY <1>u DEF BaselinesStand
    <2>1. \A g \in Capture!Fields :
              /\ g \in kRecorder.required => kRecorder.baselines[g] = kStart[g]
              /\ g \notin kRecorder.required => kRecorder.baselines[g] = 9 /\ g \notin kTouched
              /\ g \notin kTouched => kRemote[g] = kStart[g]
      BY DEF CaptureInv, BaselinesStand
    <2>2. \A g \in Capture!Fields : /\ g # f => kRemote'[g] = kRemote[g] /\ (g \in kTouched' <=> g \in kTouched)
                                    /\ g \notin kTouched' => kRemote'[g] = kStart[g]
      BY <1>c, <1>f, <2>1 DEF CaptureInv, CaptureTypes
    <2>3. \A v \in CaptureWrites : kAt'[v] = "calls" => CapturedOf[v] \in kRecorder.required
      BY <1>u DEF CaptureInv, CaptureTypes, BaselinesStand
    <2> QED BY <1>u, <1>r, <2>1, <2>2, <2>3 DEF BaselinesStand
  <1> QED BY <1>1, <1>2, <1>3, <1>o DEF CaptureInv

(* An answer, a reading and a callback leave the baselines alone.          *)
LEMMA NotesKeep ==
  ASSUME CaptureInv, kRecorder' \in Recorders,
         UNCHANGED <<kFaults, kRemote, kBegins, kFinish, kSessions, kStart, kTouched, kExported>>,
         kRecorder'.active = kRecorder.active, kRecorder'.finishing = kRecorder.finishing,
         kRecorder'.required = kRecorder.required, kRecorder'.baselines = kRecorder.baselines,
         kAt' \in [CaptureWrites -> {"idle", "permitted", "reads", "calls", "answered", "verifies", "done"}],
         \A v \in CaptureWrites : \/ kAt'[v] \in {kAt[v], "done"}
                                    \/ /\ kAt'[v] = "verifies"
                                       /\ kAt[v] \in {"reads", "calls", "answered", "verifies"},
         (\A h \in Finishers : kFinish[h] # "reads") \/ kRecorder'.observed = kRecorder.observed
  PROVE  CaptureInv'
  <1>1. CaptureTypes'
    BY DEF CaptureInv, CaptureTypes
  <1>2. SessionIsAlone'
    BY DEF CaptureInv, SessionIsAlone, CaptureWrites
  <1>3. BaselinesStand'
    BY DEF CaptureInv, BaselinesStand, CaptureWrites
  <1>4. ReadingIsFrozen'
    BY DEF CaptureInv, ReadingIsFrozen, CaptureWrites
  <1>5. ExportIsTrue' BY DEF CaptureInv, ExportIsTrue
  <1> QED BY <1>1, <1>2, <1>3, <1>4, <1>5 DEF CaptureInv

(* The answer of a request is taken down.                                  *)
LEMMA AnswerKeeps ==
  ASSUME CaptureInv, NEW w \in CaptureWrites, Capture!Answer(w) PROVE CaptureInv'
  <1>1. /\ kRecorder' \in Recorders
        /\ kRecorder'.active = kRecorder.active /\ kRecorder'.finishing = kRecorder.finishing
        /\ kRecorder'.required = kRecorder.required /\ kRecorder'.baselines = kRecorder.baselines
        /\ kRecorder'.observed = kRecorder.observed
    BY DEF Capture!Answer, Capture!WithOperation, CaptureInv, CaptureTypes, Recorders
  <1>2. /\ kAt' \in [CaptureWrites -> {"idle", "permitted", "reads", "calls", "answered", "verifies", "done"}]
        /\ \A v \in CaptureWrites : \/ kAt'[v] \in {kAt[v], "done"}
                                    \/ /\ kAt'[v] = "verifies"
                                       /\ kAt[v] \in {"reads", "calls", "answered", "verifies"}
    BY DEF Capture!Answer, Capture!Goes, CaptureInv, CaptureTypes
  <1>3. UNCHANGED <<kFaults, kRemote, kBegins, kFinish, kSessions, kStart, kTouched, kExported>>
    BY DEF Capture!Answer
  <1> QED BY <1>1, <1>2, <1>3, NotesKeep

(* The result of a write is read back.                                     *)
LEMMA ReadBackKeeps ==
  ASSUME CaptureInv, NEW w \in CaptureWrites, Capture!ReadBack(w) PROVE CaptureInv'
  <1> DEFINE f == CapturedOf[w]
             v == CapturedAim[w]
             o == [kRecorder.observed EXCEPT ![f] = v]
  <1>a. v \in {0, 1, 2} BY AimAssumption DEF CaptureWrites
  <1>f. f \in Capture!Fields BY FieldOfWrite
  <1>o. o \in [Capture!Fields -> {0, 1, 2, 9}]
    BY <1>a, <1>f DEF CaptureInv, CaptureTypes, Recorders
  <1>r. kRecorder' = kRecorder \/ kRecorder' = [kRecorder EXCEPT !.observed = o]
    BY DEF Capture!ReadBack, Capture!Observed
  <1> HIDE DEF o
  <1>1. /\ kRecorder' \in Recorders
        /\ kRecorder'.active = kRecorder.active /\ kRecorder'.finishing = kRecorder.finishing
        /\ kRecorder'.required = kRecorder.required /\ kRecorder'.baselines = kRecorder.baselines
    BY <1>o, <1>r DEF CaptureInv, CaptureTypes, Recorders
  <1>2. /\ kAt' \in [CaptureWrites -> {"idle", "permitted", "reads", "calls", "answered", "verifies", "done"}]
        /\ \A u \in CaptureWrites : \/ kAt'[u] \in {kAt[u], "done"}
                                    \/ /\ kAt'[u] = "verifies"
                                       /\ kAt[u] \in {"reads", "calls", "answered", "verifies"}
    BY DEF Capture!ReadBack, Capture!Goes, CaptureInv, CaptureTypes
  <1>3. /\ UNCHANGED <<kFaults, kRemote, kBegins, kFinish, kSessions, kStart, kTouched, kExported>>
        /\ kAt[w] = "verifies"
    BY DEF Capture!ReadBack
  <1>4. \A h \in Finishers : kFinish[h] # "reads"
    BY <1>3, NoneReads
  <1> QED BY <1>1, <1>2, <1>3, <1>4, NotesKeep

(* A callback arrives.                                                     *)
LEMMA CallbackKeeps == ASSUME CaptureInv, Capture!Callback PROVE CaptureInv'
  <1>1. /\ kRecorder' \in Recorders
        /\ kRecorder'.active = kRecorder.active /\ kRecorder'.finishing = kRecorder.finishing
        /\ kRecorder'.required = kRecorder.required /\ kRecorder'.baselines = kRecorder.baselines
        /\ kRecorder'.observed = kRecorder.observed
    BY DEF Capture!Callback, CaptureInv, CaptureTypes, Recorders
  <1>2. /\ kAt' \in [CaptureWrites -> {"idle", "permitted", "reads", "calls", "answered", "verifies", "done"}]
        /\ kAt' = kAt
    BY DEF Capture!Callback, CaptureInv, CaptureTypes
  <1>3. UNCHANGED <<kFaults, kRemote, kBegins, kFinish, kSessions, kStart, kTouched, kExported>>
    BY DEF Capture!Callback
  <1> QED BY <1>1, <1>2, <1>3, NotesKeep

(* A session asked for changes nothing yet.                                *)
LEMMA AskBeginKeeps == ASSUME CaptureInv, Capture!AskBegin PROVE CaptureInv'
  <1>1. UNCHANGED <<kFaults, kRemote, kRecorder, kAt, kFinish, kStart, kTouched, kExported>>
    BY DEF Capture!AskBegin
  <1> QED BY <1>1 DEF CaptureInv, CaptureTypes, SessionIsAlone, BaselinesStand, ReadingIsFrozen, ExportIsTrue

(* A session begins while no write is under way.                           *)
LEMMA BeginKeeps == ASSUME SessionsAreTold, CaptureInv, Capture!Begin PROVE CaptureInv'
  <1>u. UNCHANGED <<kFaults, kRemote, kAt, kFinish, kSessions, kExported>>
    BY DEF Capture!Begin
  <1>1. CASE UNCHANGED <<kRecorder, kStart, kTouched>>
    BY <1>u, <1>1 DEF CaptureInv, CaptureTypes, SessionIsAlone, BaselinesStand, ReadingIsFrozen, ExportIsTrue
  <1>2. CASE /\ ~kRecorder.active /\ kRecorder' = [Capture!Idle EXCEPT !.active = TRUE]
             /\ kStart' = kRemote /\ kTouched' = {}
    <2>1. \A w \in CaptureWrites : ~Capture!Running(w) /\ ~Capture!HoldsAutomatic(w)
      BY FieldOfWrite DEF Capture!Begin, SessionsAreTold, CaptureInv, CaptureTypes
    <2>2. \A w \in CaptureWrites : kAt[w] \in {"idle", "permitted", "done"}
      BY <2>1 DEF Capture!Running
    <2>3. \A w \in Automatic : kAt[w] \in {"idle", "done"}
      BY <2>1, <2>2 DEF Capture!HoldsAutomatic, CaptureWrites
    <2>4. \A h \in Finishers : kFinish[h] # "reads"
      BY <1>2 DEF CaptureInv, ReadingIsFrozen
    <2>5. CaptureTypes'
      BY <1>u, <1>2, EmptyRecorders DEF CaptureInv, CaptureTypes
    <2>6. SessionIsAlone' BY <1>u, <2>3 DEF SessionIsAlone
    <2>7. BaselinesStand' BY <1>u, <1>2, <2>2, EmptyRecorders DEF BaselinesStand
    <2>8. ReadingIsFrozen' /\ ExportIsTrue'
      BY <1>u, <2>4 DEF CaptureInv, ReadingIsFrozen, ExportIsTrue
    <2> QED BY <2>5, <2>6, <2>7, <2>8 DEF CaptureInv
  <1>3. kRecorder.active \in BOOLEAN BY DEF CaptureInv, CaptureTypes, Recorders
  <1> QED BY <1>1, <1>2, <1>3 DEF Capture!Begin

(* A session is given up before its last reading.                          *)
LEMMA CancelKeeps == ASSUME CaptureInv, Capture!Cancel PROVE CaptureInv'
  <1>1. /\ UNCHANGED <<kFaults, kRemote, kAt, kFinish, kSessions, kStart, kTouched, kExported>>
        /\ kRecorder' = Capture!Idle /\ ~kRecorder.finishing
    BY DEF Capture!Cancel
  <1>2. CaptureTypes' BY <1>1, EmptyRecorders DEF CaptureInv, CaptureTypes
  <1>3. SessionIsAlone' /\ BaselinesStand' BY <1>1, EmptyRecorders DEF SessionIsAlone, BaselinesStand
  <1>4. ReadingIsFrozen' BY <1>1 DEF CaptureInv, ReadingIsFrozen
  <1>5. ExportIsTrue' BY <1>1 DEF CaptureInv, ExportIsTrue
  <1> QED BY <1>2, <1>3, <1>4, <1>5 DEF CaptureInv

(* One asks for the last reading.                                          *)
LEMMA AskFinishKeeps ==
  ASSUME CaptureInv, NEW f \in Finishers, Capture!AskFinish(f) PROVE CaptureInv'
  <1>1. /\ UNCHANGED <<kFaults, kRemote, kRecorder, kAt, kStart, kTouched, kExported>>
        /\ kFinish' = [kFinish EXCEPT ![f] = "waits"]
    BY DEF Capture!AskFinish
  <1>2. CaptureTypes' BY <1>1 DEF CaptureInv, CaptureTypes
  <1>3. SessionIsAlone' /\ BaselinesStand' /\ ExportIsTrue'
    BY <1>1 DEF CaptureInv, SessionIsAlone, BaselinesStand, ExportIsTrue
  <1>4. ReadingIsFrozen' BY <1>1 DEF CaptureInv, CaptureTypes, ReadingIsFrozen
  <1> QED BY <1>2, <1>3, <1>4 DEF CaptureInv

(* The last reading begins when no write is under way.                     *)
LEMMA FinalizationKeeps ==
  ASSUME CaptureInv, NEW f \in Finishers, Capture!BeginFinalization(f) PROVE CaptureInv'
  <1>u. /\ UNCHANGED <<kFaults, kRemote, kAt, kSessions, kStart, kTouched, kExported>>
        /\ ~Capture!Frozen /\ \A w \in CaptureWrites : ~Capture!Running(w)
    BY FieldOfWrite DEF Capture!BeginFinalization
  <1>w. \A w \in CaptureWrites : kAt[w] \in {"idle", "permitted", "done"}
    BY <1>u DEF Capture!Running
  <1>n. \A h \in Finishers : kFinish[h] # "reads"
    BY <1>u DEF Capture!Frozen
  <1> DEFINE o == [g \in Capture!Fields |-> 9]
  <1>1. CASE /\ kRecorder.active /\ kFinish' = [kFinish EXCEPT ![f] = "reads"]
             /\ kRecorder' = [kRecorder EXCEPT !.finishing = TRUE, !.observed = o]
    <2>0. o \in [Capture!Fields -> {0, 1, 2, 9}] /\ \A g \in Capture!Fields : o[g] = 9
      OBVIOUS
    <2> HIDE DEF o
    <2>1. /\ kRecorder' \in Recorders /\ kRecorder'.finishing /\ kRecorder'.observed = o
          /\ kRecorder'.active = kRecorder.active
          /\ kRecorder'.required = kRecorder.required /\ kRecorder'.baselines = kRecorder.baselines
      BY <1>1, <2>0 DEF CaptureInv, CaptureTypes, Recorders
    <2>2. CaptureTypes' BY <1>u, <1>1, <2>1 DEF CaptureInv, CaptureTypes
    <2>3. SessionIsAlone' /\ BaselinesStand' /\ ExportIsTrue'
      BY <1>u, <2>1 DEF CaptureInv, SessionIsAlone, BaselinesStand, ExportIsTrue
    <2>4. ReadingIsFrozen'
      BY <1>u, <1>w, <1>n, <1>1, <2>0, <2>1 DEF CaptureInv, CaptureTypes, ReadingIsFrozen
    <2> QED BY <2>2, <2>3, <2>4 DEF CaptureInv
  <1>2. CASE kRecorder' = kRecorder /\ kFinish' = [kFinish EXCEPT ![f] = "done"]
    <2>2. CaptureTypes' BY <1>u, <1>2 DEF CaptureInv, CaptureTypes
    <2>3. SessionIsAlone' /\ BaselinesStand' /\ ExportIsTrue'
      BY <1>u, <1>2 DEF CaptureInv, SessionIsAlone, BaselinesStand, ExportIsTrue
    <2>4. ReadingIsFrozen' BY <1>2, <1>n DEF CaptureInv, CaptureTypes, ReadingIsFrozen
    <2> QED BY <2>2, <2>3, <2>4 DEF CaptureInv
  <1> QED BY <1>1, <1>2 DEF Capture!BeginFinalization, Capture!Unknown

(* The one who reads gives the session back.                               *)
LEMMA AbortKeeps ==
  ASSUME CaptureInv, NEW f \in Finishers, kFinish[f] = "reads", Capture!Abort(f) PROVE CaptureInv'
  <1>1. /\ UNCHANGED <<kFaults, kRemote, kAt, kSessions, kStart, kTouched, kExported>>
        /\ kFinish' = [kFinish EXCEPT ![f] = "done"]
        /\ kRecorder' = [kRecorder EXCEPT !.finishing = FALSE]
    BY DEF Capture!Abort
  <1>2. /\ kRecorder' \in Recorders /\ kRecorder'.active = kRecorder.active
        /\ kRecorder'.required = kRecorder.required /\ kRecorder'.baselines = kRecorder.baselines
    BY <1>1 DEF CaptureInv, CaptureTypes, Recorders
  <1>3. CaptureTypes' BY <1>1, <1>2 DEF CaptureInv, CaptureTypes
  <1>4. SessionIsAlone' /\ BaselinesStand' /\ ExportIsTrue'
    BY <1>1, <1>2 DEF CaptureInv, SessionIsAlone, BaselinesStand, ExportIsTrue
  <1>5. \A h \in Finishers : kFinish'[h] # "reads"
    BY <1>1 DEF CaptureInv, CaptureTypes, ReadingIsFrozen
  <1>6. ReadingIsFrozen' BY <1>5 DEF ReadingIsFrozen
  <1> QED BY <1>3, <1>4, <1>6 DEF CaptureInv

(* One target after the other is read.                                     *)
LEMMA ReadTargetKeeps ==
  ASSUME CaptureInv, NEW f \in Finishers, Capture!ReadTarget(f) PROVE CaptureInv'
  <1>0. kFinish[f] = "reads" BY DEF Capture!ReadTarget
  <1>1. CASE Capture!Abort(f) BY <1>0, <1>1, AbortKeeps
  <1>2. ASSUME NEW g \in Capture!Unread, kRecorder' = [kRecorder EXCEPT !.observed[g] = kRemote[g]],
               UNCHANGED <<kFaults, kRemote, kAt, kBegins, kFinish, kSessions, kStart, kTouched, kExported>>
        PROVE  CaptureInv'
    <2> DEFINE o == [kRecorder.observed EXCEPT ![g] = kRemote[g]]
    <2>g. g \in Capture!Fields
      BY DEF Capture!Unread, CaptureInv, CaptureTypes, Recorders, BaselinesStand, ReadingIsFrozen
    <2>0. /\ o \in [Capture!Fields -> {0, 1, 2, 9}]
          /\ \A h \in Capture!Fields : o[h] \in {9, kRemote[h]}
      BY <1>0, <2>g DEF CaptureInv, CaptureTypes, Recorders, ReadingIsFrozen
    <2>1. kRecorder' = [kRecorder EXCEPT !.observed = o] BY <1>2
    <2> HIDE DEF o
    <2>2. /\ kRecorder' \in Recorders /\ kRecorder'.finishing = kRecorder.finishing
          /\ kRecorder'.observed = o /\ kRecorder'.active = kRecorder.active
          /\ kRecorder'.required = kRecorder.required /\ kRecorder'.baselines = kRecorder.baselines
      BY <2>0, <2>1 DEF CaptureInv, CaptureTypes, Recorders
    <2>3. CaptureTypes' BY <1>2, <2>2 DEF CaptureInv, CaptureTypes
    <2>4. SessionIsAlone' /\ BaselinesStand' /\ ExportIsTrue'
      BY <1>2, <2>2 DEF CaptureInv, SessionIsAlone, BaselinesStand, ExportIsTrue
    <2>5. ReadingIsFrozen'
      BY <1>2, <2>0, <2>2 DEF CaptureInv, ReadingIsFrozen
    <2> QED BY <2>3, <2>4, <2>5 DEF CaptureInv
  <1> QED BY <1>1, <1>2 DEF Capture!ReadTarget

(* A capture that is written found every state back where it was.          *)
LEMMA ExportKeeps ==
  ASSUME CaptureInv, NEW f \in Finishers, Capture!Export(f) PROVE CaptureInv'
  <1>0. kFinish[f] = "reads" /\ Capture!Unread = {} BY DEF Capture!Export
  <1>1. CASE Capture!Abort(f) BY <1>0, <1>1, AbortKeeps
  <1>2. CASE /\ Capture!Complete /\ kExported' = [g \in kTouched |-> <<kStart[g], kRemote[g]>>]
             /\ kRecorder' = Capture!Idle /\ kFinish' = [kFinish EXCEPT ![f] = "done"]
             /\ UNCHANGED <<kFaults, kRemote, kAt, kBegins, kSessions, kStart, kTouched>>
    <2>1. \A g \in kTouched : kStart[g] = kRemote[g]
      <3> SUFFICES ASSUME NEW g \in kTouched PROVE kStart[g] = kRemote[g]
        OBVIOUS
      <3>1. kRecorder.active /\ g \in Capture!Fields
        BY <1>0 DEF CaptureInv, CaptureTypes, ReadingIsFrozen
      <3>2. g \in kRecorder.required /\ kRecorder.baselines[g] = kStart[g]
        BY <3>1 DEF CaptureInv, BaselinesStand
      <3>3. kRecorder.observed[g] # 9
        BY <1>0, <3>2 DEF Capture!Unread, Capture!Unknown
      <3>4. kRecorder.observed[g] = kRemote[g]
        BY <1>0, <3>1, <3>3 DEF CaptureInv, ReadingIsFrozen
      <3>5. kRecorder.observed[g] = kRecorder.baselines[g]
        BY <1>2, <3>2 DEF Capture!Complete, Capture!Restored
      <3> QED BY <3>2, <3>4, <3>5
    <2>2. ExportIsTrue' BY <1>2, <2>1 DEF ExportIsTrue
    <2>3. CaptureTypes' BY <1>2, EmptyRecorders DEF CaptureInv, CaptureTypes
    <2>4. SessionIsAlone' /\ BaselinesStand' BY <1>2, EmptyRecorders DEF SessionIsAlone, BaselinesStand
    <2>5. \A h \in Finishers : kFinish'[h] # "reads"
      BY <1>0, <1>2 DEF CaptureInv, CaptureTypes, ReadingIsFrozen
    <2>6. ReadingIsFrozen' BY <2>5 DEF ReadingIsFrozen
    <2> QED BY <2>2, <2>3, <2>4, <2>6 DEF CaptureInv
  <1> QED BY <1>1, <1>2 DEF Capture!Export

(* Every step of a session keeps the invariant.                            *)
LEMMA CaptureStep ==
  ASSUME SessionsAreTold, CaptureInv, [Capture!Next]_captureVars PROVE CaptureInv'
  <1>1. CASE UNCHANGED captureVars
    BY <1>1 DEF captureVars, CaptureInv, CaptureTypes, SessionIsAlone, BaselinesStand, ReadingIsFrozen, ExportIsTrue
  <1>2. CASE Capture!Next
    <2>1. ASSUME NEW w \in CaptureWrites,
                 \/ Capture!PermitAutomatic(w) \/ Capture!EnterWrite(w) \/ Capture!ReadBefore(w)
                 \/ Capture!Execute(w) \/ Capture!Answer(w) \/ Capture!ReadBack(w)
          PROVE  CaptureInv'
      BY <2>1, PermitKeeps, EnterKeeps, ReadKeeps, ExecuteKeeps, AnswerKeeps, ReadBackKeeps
    <2>2. CASE Capture!Callback \/ Capture!AskBegin \/ Capture!Begin \/ Capture!Cancel
      BY <2>2, CallbackKeeps, AskBeginKeeps, BeginKeeps, CancelKeeps
    <2>3. ASSUME NEW f \in Finishers,
                 \/ Capture!AskFinish(f) \/ Capture!BeginFinalization(f)
                 \/ Capture!ReadTarget(f) \/ Capture!Export(f)
          PROVE  CaptureInv'
      BY <2>3, AskFinishKeeps, FinalizationKeeps, ReadTargetKeeps, ExportKeeps
    <2> QED BY <1>2, <2>1, <2>2, <2>3, FieldOfWrite DEF Capture!Next
  <1> QED BY <1>1, <1>2

(* A capture that calls the group restored was taken when every state a    *)
(* write of the session had changed was back where the session found it,   *)
(* and no automatic side effect runs within a session                      *)
(* (developer_calibration.rs); provided the session can be told of what it *)
(* stands on.                                                              *)
THEOREM CapturesStayHonest ==
  ASSUME SessionsAreTold PROVE MCSpec => []CapturesAreHonest
  <1> DEFINE Inv == focus = "capture" => CaptureInv
  <1>1. MCInit => Inv BY CaptureStart
  <1>2. Inv /\ [MCNext]_mcVars => Inv'
    BY Steps, CaptureStep
  <1>3. Inv => CapturesAreHonest
    BY DEF CapturesAreHonest, CaptureInv, SessionIsAlone, ExportIsTrue, Capture!CapturesAreHonest,
           Capture!Running
  <1> QED BY <1>1, <1>2, <1>3, PTL DEF MCSpec, mcVars

-----------------------------------------------------------------------------
(* The prediction app.                                                     *)
DrawPlaces == {"idle", "routed", "looks", "waits", "fetches", "got", "worded", "queued", "fails",
               "checked", "done"}
ReplyKinds == {"none", "rule", "model", "stale", "unavailable"}
RunKinds == {"none", "processing", "succeeded", "fallback", "stale", "unavailable", "failed"}

(* Rows of draws there were; a page that could be read has some.           *)
SeenRows == SUBSET (1..Len(pOpened))
Snapshots ==
    {s \in [status : {"fresh", "stale", "error"}, rows : SeenRows] :
        s.status # "error" => s.rows # {}}
DrawReplies ==
    {r \in [kind : ReplyKinds, rows : SeenRows, said : Nat] :
        r.kind \in {"rule", "model"} => r.rows # {}}

DrawTypes ==
    /\ pNow \in Nat /\ pOpened \in Seq(Nat)
    /\ pCache \in [at : Nat, result : Snapshots]
    /\ pAt \in [Draws!Callers -> DrawPlaces] /\ pGot \in [Draws!Callers -> Snapshots]
    /\ pRuns \in [Asks -> RunKinds] /\ pReplies \in [Asks -> DrawReplies]
    /\ pQueue \in Seq(SUBSET Nat)

(* The age of the newest of some draws.                                    *)
Age(t, rows) == t - pOpened[Draws!Latest(rows)]

(* How old what is kept, given and said may be.                            *)
CacheIsRecent ==
    pCache.result.status = "fresh" =>
        pCache.at <= pNow /\ Age(pCache.at, pCache.result.rows) <= StaleAfter
GivenIsRecent ==
    \A m \in Asks : pAt[m] = "got" /\ pGot[m].status = "fresh" =>
        Age(pNow, pGot[m].rows) <= StaleAfter + LiveTtl
SaidIsRecent ==
    \A m \in Asks : pReplies[m].kind \in {"rule", "model"} =>
        Age(pReplies[m].said, pReplies[m].rows) <= StaleAfter + LiveTtl

(* A message under way has a run; one whose run is over is done.           *)
RunsStand ==
    \A m \in Asks :
        /\ pAt[m] \in {"looks", "waits", "fetches", "got", "worded", "queued", "fails"} =>
              pRuns[m] = "processing"
        /\ pRuns[m] \notin {"none", "processing", "failed"} =>
              pAt[m] = "done" /\ pRuns[m] = Draws!FinalStatus(m)
        /\ pReplies[m].kind # "none" => pRuns[m] # "none"

(* Every text being made stands in one place.                              *)
WordsStand ==
    /\ \A k : k \in pPending <=> k \in pJob \/ \E i \in 1..Len(pQueue) : k = pQueue[i]
    /\ \A i, j \in 1..Len(pQueue) : pQueue[i] = pQueue[j] => i = j
    /\ \A i \in 1..Len(pQueue) : pQueue[i] \notin pJob
    /\ \A j, k \in pJob : j = k

DrawInv ==
    DrawTypes /\ CacheIsRecent /\ GivenIsRecent /\ SaidIsRecent /\ RunsStand /\ WordsStand

(* A non-empty set of numbers up to n has a greatest one.                  *)
LEMMA LatestOf ==
  ASSUME NEW n \in Nat, NEW rows \in SUBSET (1..n), rows # {}
  PROVE  Draws!Latest(rows) \in rows
  <1> DEFINE T == {k \in Nat : n - k \in rows}
  <1>1. PICK d \in rows : TRUE OBVIOUS
  <1>2. n - d \in T BY <1>1
  <1>3. PICK k \in T : \A j \in T : ~(<<j, k>> \in OpToRel(<, Nat))
    <2>1. T \subseteq Nat /\ T # {} BY <1>2
    <2> HIDE DEF T
    <2> QED BY <2>1, NatLessThanWellFounded, WFMin, Zenon
  <1>4. ASSUME NEW j \in T PROVE k <= j
    <2>1. j \in Nat /\ k \in Nat OBVIOUS
    <2> HIDE DEF T
    <2>2. ~(j < k) BY <1>3, <2>1, Zenon DEF OpToRel
    <2> QED BY <2>1, <2>2
  <1>5. n - k \in rows /\ \A e \in rows : e <= n - k
    <2>1. \A e \in rows : n - e \in T OBVIOUS
    <2>2. n - k \in rows /\ k \in Nat OBVIOUS
    <2>3. ASSUME NEW e \in rows PROVE e <= n - k
      <3>1. k <= n - e BY <2>1, <1>4
      <3> QED BY <2>2, <3>1
    <2> QED BY <2>2, <2>3
  <1> HIDE DEF T
  <1> QED BY <1>5, Zenon DEF Draws!Latest

(* The opening of the newest of some draws there were.                     *)
LEMMA LatestSeen ==
  ASSUME pOpened \in Seq(Nat), NEW rows \in SeenRows, rows # {}
  PROVE  Draws!Latest(rows) \in 1..Len(pOpened) /\ pOpened[Draws!Latest(rows)] \in Nat
  <1>1. Len(pOpened) \in Nat OBVIOUS
  <1>2. Draws!Latest(rows) \in rows BY <1>1, LatestOf DEF SeenRows
  <1>3. Draws!Latest(rows) \in 1..Len(pOpened) BY <1>2 DEF SeenRows
  <1> QED BY <1>1, <1>3, ElementOfSeq

(* What a status says of a reply.                                          *)
LEMMA StatusOf ==
  ASSUME NEW m
  PROVE  /\ pReplies[m].kind = "model" => Draws!FinalStatus(m) = "succeeded"
         /\ pReplies[m].kind = "rule" => Draws!FinalStatus(m) = "fallback"
         /\ pReplies[m].kind \notin {"rule", "model"} => Draws!FinalStatus(m) = pReplies[m].kind
  BY DEF Draws!FinalStatus

(* No result is a snapshot of no draws.                                    *)
LEMMA FailedIsOne ==
  Draws!Failed \in Snapshots /\ Draws!Failed.status = "error" /\ Draws!Failed.rows = {}
  BY DEF Draws!Failed, Draws!None, Snapshots, SeenRows

(* What the source gives is of draws there were.                           *)
LEMMA SourceGives ==
  ASSUME DrawTypes, NEW s \in Draws!FetchNetwork
  PROVE  s \in Snapshots /\ (s.status = "fresh" => Age(pNow, s.rows) <= StaleAfter)
  <1>1. CASE s = Draws!Failed BY <1>1, FailedIsOne
  <1>2. ASSUME NEW page \in SUBSET (1..Len(pOpened)), page # {}, s = Draws!FromSnapshot(page)
        PROVE  s \in Snapshots /\ (s.status = "fresh" => Age(pNow, s.rows) <= StaleAfter)
    <2>1. /\ s = [status |-> Draws!Freshness(page), rows |-> page]
          /\ Draws!Freshness(page) \in {"fresh", "stale"}
      BY <1>2 DEF Draws!FromSnapshot, Draws!Freshness
    <2>2. Draws!Freshness(page) = "fresh" => Age(pNow, page) <= StaleAfter
      BY DEF Draws!Freshness, Age
    <2> QED BY <1>2, <2>1, <2>2 DEF Snapshots, SeenRows
  <1>3. \A page \in Draws!Pages : page \in SUBSET (1..Len(pOpened))
    BY DEF Draws!Pages
  <1>4. s = Draws!Failed \/ \E page \in Draws!Pages : s = Draws!ReadPage(page)
    BY DEF Draws!FetchNetwork
  <1> QED BY <1>1, <1>2, <1>3, <1>4 DEF Draws!ReadPage

(* The app at a start.                                                     *)
LEMMA DrawStart == ASSUME focus = "draws", MCInit PROVE DrawInv
  <1>1. Draws!Init BY DEF MCInit
  <1>2. pOpened \in Seq(Nat) /\ pQueue \in Seq(SUBSET Nat) /\ Len(pQueue) = 0
    BY <1>1 DEF Draws!Init
  <1>3. pCache \in [at : Nat, result : Snapshots] /\ pCache.result.status = "error"
    BY <1>1, FailedIsOne DEF Draws!Init, Draws!NoCache
  <1>4. pGot \in [Draws!Callers -> Snapshots] /\ pAt \in [Draws!Callers -> DrawPlaces]
    BY <1>1, FailedIsOne DEF Draws!Init, DrawPlaces
  <1>5. Draws!Silent \in DrawReplies /\ Draws!Silent.kind = "none"
    BY DEF Draws!Silent, Draws!None, DrawReplies, SeenRows, ReplyKinds
  <1>6. pReplies \in [Asks -> DrawReplies] /\ pRuns \in [Asks -> RunKinds] /\ pNow \in Nat
    BY <1>1, <1>5 DEF Draws!Init, RunKinds
  <1>7. DrawTypes BY <1>2, <1>3, <1>4, <1>6 DEF DrawTypes
  <1>8. CacheIsRecent BY <1>3 DEF CacheIsRecent
  <1>9. /\ \A m \in Asks : pAt[m] = "idle" /\ pRuns[m] = "none" /\ pReplies[m].kind = "none"
    BY <1>1, <1>5 DEF Draws!Init, Draws!Callers
  <1>10. GivenIsRecent /\ SaidIsRecent /\ RunsStand
    BY <1>9 DEF GivenIsRecent, SaidIsRecent, RunsStand
  <1>11. WordsStand BY <1>1, <1>2 DEF Draws!Init, WordsStand
  <1> QED BY <1>7, <1>8, <1>10, <1>11 DEF DrawInv

(* A caller goes on; what is kept and said stays.                          *)
LEMMA WalkKeeps ==
  ASSUME DrawInv, NEW c \in Draws!Callers, NEW p \in DrawPlaces,
         pAt' = [pAt EXCEPT ![c] = p], p # "got",
         UNCHANGED <<pNow, pOpened, pCache, pGot, pRuns, pReplies, pPending, pQueue, pJob>>,
         c \in Asks =>
            /\ pAt[c] # "done"
            /\ p \in {"looks", "waits", "fetches", "got", "worded", "queued", "fails"} =>
                  pRuns[c] = "processing"
  PROVE  DrawInv'
  <1>1. DrawTypes'
    BY DEF DrawInv, DrawTypes, SeenRows, Snapshots, DrawReplies
  <1>2. CacheIsRecent' /\ SaidIsRecent' /\ WordsStand'
    BY DEF DrawInv, CacheIsRecent, SaidIsRecent, WordsStand, Age
  <1>a. Asks \subseteq Draws!Callers BY DEF Draws!Callers
  <1>b. \A m \in Asks : pAt'[m] = IF m = c THEN p ELSE pAt[m]
    BY <1>a DEF DrawInv, DrawTypes
  <1>3. GivenIsRecent' BY <1>b DEF DrawInv, GivenIsRecent, Age
  <1>4. RunsStand'
    BY <1>b DEF DrawInv, RunsStand, Draws!FinalStatus
  <1> QED BY <1>1, <1>2, <1>3, <1>4 DEF DrawInv

(* A caller is given what is recent enough.                                *)
LEMMA GivenKeeps ==
  ASSUME DrawInv, NEW c \in Draws!Callers, NEW s \in Snapshots, Draws!Given(c, s),
         s.status = "fresh" => Age(pNow, s.rows) <= StaleAfter + LiveTtl,
         pAt[c] \in {"looks", "waits", "fetches"},
         UNCHANGED <<pNow, pOpened, pRuns, pReplies, pPending, pQueue, pJob>>,
         pCache' \in [at : Nat, result : Snapshots], CacheIsRecent'
  PROVE  DrawInv'
  <1>0. pGot' = [pGot EXCEPT ![c] = s] /\ pAt' = [pAt EXCEPT ![c] = "got"]
    BY DEF Draws!Given, Draws!Goes
  <1>s. Snapshots' = Snapshots /\ DrawReplies' = DrawReplies
    BY DEF Snapshots, DrawReplies, SeenRows
  <1>1. DrawTypes'
    <2>1. pGot' \in [Draws!Callers -> Snapshots] /\ pAt' \in [Draws!Callers -> DrawPlaces]
      BY <1>0 DEF DrawInv, DrawTypes, DrawPlaces
    <2> QED BY <1>s, <2>1 DEF DrawInv, DrawTypes
  <1>2. SaidIsRecent' /\ WordsStand'
    BY DEF DrawInv, SaidIsRecent, WordsStand, Age
  <1>a. Asks \subseteq Draws!Callers BY DEF Draws!Callers
  <1>b. \A m \in Asks : /\ pAt'[m] = IF m = c THEN "got" ELSE pAt[m]
                        /\ pGot'[m] = IF m = c THEN s ELSE pGot[m]
    BY <1>0, <1>a DEF DrawInv, DrawTypes
  <1>3. GivenIsRecent' BY <1>b DEF DrawInv, GivenIsRecent, Age
  <1>4. RunsStand'
    BY <1>b DEF DrawInv, RunsStand, Draws!FinalStatus
  <1> QED BY <1>1, <1>2, <1>3, <1>4 DEF DrawInv

(* What the cache holds is recent enough.                                  *)
LEMMA HeldIsRecent ==
  ASSUME DrawInv, Draws!CacheHolds
  PROVE  /\ pCache.result \in Snapshots
         /\ pCache.result.status = "fresh" => Age(pNow, pCache.result.rows) <= StaleAfter + LiveTtl
  <1>1. pCache.result \in Snapshots /\ pCache.at \in Nat /\ pNow \in Nat /\ pOpened \in Seq(Nat)
    BY DEF DrawInv, DrawTypes
  <1>2. ASSUME pCache.result.status = "fresh"
        PROVE  Age(pNow, pCache.result.rows) <= StaleAfter + LiveTtl
    <2>1. pCache.result.rows \in SeenRows /\ pCache.result.rows # {}
      BY <1>1, <1>2 DEF Snapshots
    <2>2. pOpened[Draws!Latest(pCache.result.rows)] \in Nat
      BY <1>1, <2>1, LatestSeen
    <2>3. pNow - pCache.at < LiveTtl BY DEF Draws!CacheHolds
    <2>4. pCache.at - pOpened[Draws!Latest(pCache.result.rows)] <= StaleAfter
      BY <1>2 DEF DrawInv, CacheIsRecent, Age
    <2> QED BY <1>1, <2>2, <2>3, <2>4, DrawAssumption DEF Age
  <1> QED BY <1>1, <1>2

(* The first look.                                                         *)
LEMMA LookKeeps == ASSUME DrawInv, NEW c \in Draws!Callers, Draws!Look(c) PROVE DrawInv'
  <1>u. /\ UNCHANGED <<pNow, pOpened, pCache, pRuns, pReplies, pPending, pQueue, pJob>>
        /\ pAt[c] = "looks"
    BY DEF Draws!Look, Draws!source, Draws!narration
  <1>r. c \in Asks => pRuns[c] = "processing" BY <1>u DEF DrawInv, RunsStand
  <1>1. CASE Draws!CacheHolds /\ Draws!Given(c, pCache.result)
    <2>1. /\ pCache.result \in Snapshots
          /\ pCache.result.status = "fresh" => Age(pNow, pCache.result.rows) <= StaleAfter + LiveTtl
      BY <1>1, HeldIsRecent
    <2>2. CacheIsRecent' BY <1>u DEF DrawInv, CacheIsRecent, Age
    <2>3. pCache' \in [at : Nat, result : Snapshots] BY <1>u DEF DrawInv, DrawTypes
    <2> QED BY <1>1, <1>u, <2>1, <2>2, <2>3, GivenKeeps
  <1>2. CASE Draws!Goes(c, "waits") /\ UNCHANGED pGot
    BY <1>2, <1>u, <1>r, WalkKeeps DEF Draws!Goes, DrawPlaces
  <1> QED BY <1>1, <1>2 DEF Draws!Look

(* The second look, under the lock.                                        *)
LEMMA TakeLockKeeps == ASSUME DrawInv, NEW c \in Draws!Callers, Draws!TakeLock(c) PROVE DrawInv'
  <1>u. /\ UNCHANGED <<pNow, pOpened, pCache, pRuns, pReplies, pPending, pQueue, pJob>>
        /\ pAt[c] = "waits"
    BY DEF Draws!TakeLock, Draws!source, Draws!narration
  <1>r. c \in Asks => pRuns[c] = "processing" BY <1>u DEF DrawInv, RunsStand
  <1>1. CASE Draws!CacheHolds /\ Draws!Given(c, pCache.result)
    <2>1. /\ pCache.result \in Snapshots
          /\ pCache.result.status = "fresh" => Age(pNow, pCache.result.rows) <= StaleAfter + LiveTtl
      BY <1>1, HeldIsRecent
    <2>2. CacheIsRecent' BY <1>u DEF DrawInv, CacheIsRecent, Age
    <2>3. pCache' \in [at : Nat, result : Snapshots] BY <1>u DEF DrawInv, DrawTypes
    <2> QED BY <1>1, <1>u, <2>1, <2>2, <2>3, GivenKeeps
  <1>2. CASE Draws!Goes(c, "fetches") /\ UNCHANGED pGot
    BY <1>2, <1>u, <1>r, WalkKeeps DEF Draws!Goes, DrawPlaces
  <1> QED BY <1>1, <1>2 DEF Draws!TakeLock

(* What the source gives is kept, if it is anything.                       *)
LEMMA FetchKeeps == ASSUME DrawInv, NEW c \in Draws!Callers, Draws!Fetch(c) PROVE DrawInv'
  <1>u. /\ UNCHANGED <<pNow, pOpened, pRuns, pReplies, pPending, pQueue, pJob>>
        /\ pAt[c] = "fetches"
    BY DEF Draws!Fetch, Draws!source, Draws!narration
  <1>1. PICK s \in Draws!FetchNetwork :
           /\ pCache' = IF s = Draws!Failed THEN pCache ELSE Draws!CachedResult(s)
           /\ Draws!Given(c, s)
    BY DEF Draws!Fetch
  <1>t. DrawTypes BY DEF DrawInv
  <1>2. s \in Snapshots /\ (s.status = "fresh" => Age(pNow, s.rows) <= StaleAfter)
    BY <1>t, SourceGives
  <1>3. s.status = "fresh" => Age(pNow, s.rows) <= StaleAfter + LiveTtl
    <2> SUFFICES ASSUME s.status = "fresh" PROVE Age(pNow, s.rows) <= StaleAfter + LiveTtl
      OBVIOUS
    <2>1. pOpened[Draws!Latest(s.rows)] \in Nat
      BY <1>t, <1>2, LatestSeen DEF DrawTypes, Snapshots
    <2> QED BY <1>t, <1>2, <2>1, DrawAssumption DEF DrawTypes, Age
  <1>4. pCache' \in [at : Nat, result : Snapshots] /\ CacheIsRecent'
    <2>1. CASE pCache' = pCache
      BY <1>u, <2>1 DEF DrawInv, DrawTypes, CacheIsRecent, Age
    <2>2. CASE pCache' = [at |-> pNow, result |-> s]
      BY <1>u, <1>t, <1>2, <2>2 DEF DrawTypes, CacheIsRecent, Age
    <2> QED BY <1>1, <2>1, <2>2 DEF Draws!CachedResult
  <1> QED BY <1>1, <1>u, <1>2, <1>3, <1>4, GivenKeeps

(* A reply is composed of what was given.                                  *)
LEMMA ComposeKeeps ==
  ASSUME DrawInv, NEW m \in Asks, NEW r \in DrawReplies, Draws!Composes(m, r), pAt[m] = "got",
         r.kind \in {"rule", "model"} => Age(r.said, r.rows) <= StaleAfter + LiveTtl,
         UNCHANGED <<pNow, pOpened, pCache, pGot, pRuns>>,
         pQueue' \in Seq(SUBSET Nat), WordsStand'
  PROVE  DrawInv'
  <1>0. pReplies' = [pReplies EXCEPT ![m] = r] /\ pAt' = [pAt EXCEPT ![m] = "worded"]
    BY DEF Draws!Composes, Draws!Goes
  <1>a. Asks \subseteq Draws!Callers BY DEF Draws!Callers
  <1>b. \A k \in Asks : /\ pAt'[k] = IF k = m THEN "worded" ELSE pAt[k]
                        /\ pReplies'[k] = IF k = m THEN r ELSE pReplies[k]
    BY <1>0, <1>a DEF DrawInv, DrawTypes
  <1>1. DrawTypes'
    <2>1. Snapshots' = Snapshots /\ DrawReplies' = DrawReplies
      BY DEF Snapshots, DrawReplies, SeenRows
    <2>2. pReplies' \in [Asks -> DrawReplies] /\ pAt' \in [Draws!Callers -> DrawPlaces]
      BY <1>0 DEF DrawInv, DrawTypes, DrawPlaces
    <2> QED BY <2>1, <2>2 DEF DrawInv, DrawTypes
  <1>2. CacheIsRecent' BY DEF DrawInv, CacheIsRecent, Age
  <1>3. GivenIsRecent' BY <1>b DEF DrawInv, GivenIsRecent, Age
  <1>4. SaidIsRecent' BY <1>b DEF DrawInv, SaidIsRecent, Age
  <1>5. RunsStand'
    BY <1>b DEF DrawInv, RunsStand, Draws!FinalStatus
  <1> QED BY <1>1, <1>2, <1>3, <1>4, <1>5 DEF DrawInv

(* What a fresh reading allows to be said.                                 *)
LEMMA MaySay ==
  ASSUME DrawInv, NEW m \in Asks, pAt[m] = "got", pGot[m].status = "fresh",
         NEW k \in {"rule", "model"}
  PROVE  /\ Draws!Says(k, pGot[m].rows) \in DrawReplies
         /\ LET r == Draws!Says(k, pGot[m].rows) IN Age(r.said, r.rows) <= StaleAfter + LiveTtl
  <1>1. pGot[m] \in Snapshots /\ pNow \in Nat BY DEF DrawInv, DrawTypes, Draws!Callers
  <1>2. pGot[m].rows \in SeenRows /\ pGot[m].rows # {} BY <1>1 DEF Snapshots
  <1>3. Age(pNow, pGot[m].rows) <= StaleAfter + LiveTtl BY DEF DrawInv, GivenIsRecent
  <1> QED BY <1>1, <1>2, <1>3 DEF Draws!Says, DrawReplies, ReplyKinds

(* The words in store are of the same draws.                               *)
LEMMA UseWordsKeeps == ASSUME DrawInv, NEW m \in Asks, Draws!UseWords(m) PROVE DrawInv'
  <1>u. /\ UNCHANGED <<pNow, pOpened, pCache, pGot, pRuns, pPending, pQueue, pJob>>
        /\ pAt[m] = "got" /\ pGot[m].status = "fresh"
    BY DEF Draws!UseWords, Draws!source
  <1>1. PICK k \in {"rule", "model"} : Draws!Composes(m, Draws!Says(k, pGot[m].rows))
    BY DEF Draws!UseWords, Draws!NarrationKey, Draws!Validates
  <1>2. WordsStand' /\ pQueue' \in Seq(SUBSET Nat)
    BY <1>u DEF DrawInv, DrawTypes, WordsStand
  <1> DEFINE r == Draws!Says(k, pGot[m].rows)
  <1>3. r \in DrawReplies /\ Age(r.said, r.rows) <= StaleAfter + LiveTtl
    BY <1>u, MaySay
  <1>4. Draws!Composes(m, r) BY <1>1
  <1> HIDE DEF r
  <1> QED BY <1>u, <1>2, <1>3, <1>4, ComposeKeeps

(* The rule's text is said; words of the draws are ordered.                *)
LEMMA UseRuleKeeps == ASSUME DrawInv, NEW m \in Asks, Draws!UseRule(m) PROVE DrawInv'
  <1>u. /\ UNCHANGED <<pNow, pOpened, pCache, pGot, pRuns, pJob>>
        /\ pAt[m] = "got" /\ pGot[m].status = "fresh"
        /\ Draws!Composes(m, Draws!Says("rule", pGot[m].rows))
    BY DEF Draws!UseRule, Draws!source
  <1> DEFINE rows == pGot[m].rows
  <1>0. rows \in SUBSET Nat
    BY DEF DrawInv, DrawTypes, Draws!Callers, Snapshots, SeenRows
  <1>1. \/ UNCHANGED <<pPending, pQueue>>
        \/ /\ rows \notin pPending
           /\ pPending' = pPending \cup {rows} /\ pQueue' = Append(pQueue, rows)
    BY DEF Draws!UseRule, Draws!NarrationKey
  <1> HIDE DEF rows
  <1>2. WordsStand' /\ pQueue' \in Seq(SUBSET Nat)
    <2>1. CASE UNCHANGED <<pPending, pQueue>>
      BY <1>u, <2>1 DEF DrawInv, DrawTypes, WordsStand
    <2>2. CASE /\ rows \notin pPending
               /\ pPending' = pPending \cup {rows} /\ pQueue' = Append(pQueue, rows)
      <3> DEFINE n == Len(pQueue)
      <3>1. /\ n \in Nat /\ Len(pQueue') = n + 1 /\ pQueue' \in Seq(SUBSET Nat)
            /\ \A i \in 1..n : pQueue'[i] = pQueue[i]
            /\ pQueue'[n + 1] = rows
        BY <1>0, <2>2 DEF DrawInv, DrawTypes
      <3>2. WordsStand BY DEF DrawInv
      <3>3. \A i \in 1..n : pQueue[i] # rows
        BY <2>2, <3>2 DEF WordsStand
      <3>4. rows \notin pJob BY <2>2, <3>2 DEF WordsStand
      <3>5. ASSUME NEW i \in 1..(n + 1), NEW j \in 1..(n + 1), pQueue'[i] = pQueue'[j] PROVE i = j
        <4>1. CASE i = n + 1 /\ j # n + 1 BY <3>1, <3>3, <3>5, <4>1
        <4>2. CASE i # n + 1 /\ j = n + 1 BY <3>1, <3>3, <3>5, <4>2
        <4>3. CASE i # n + 1 /\ j # n + 1
          BY <3>1, <3>2, <3>5, <4>3 DEF WordsStand
        <4> QED BY <4>1, <4>2, <4>3
      <3>6. \A i \in 1..(n + 1) : pQueue'[i] \notin pJob
        BY <3>1, <3>2, <3>4 DEF WordsStand
      <3>7. ASSUME NEW k PROVE k \in pPending' <=> k \in pJob \/ \E i \in 1..(n + 1) : k = pQueue'[i]
        <4>1. k \in pPending <=> k \in pJob \/ \E i \in 1..n : k = pQueue[i]
          BY <3>2 DEF WordsStand
        <4>2. (\E i \in 1..(n + 1) : k = pQueue'[i]) <=> k = rows \/ \E i \in 1..n : k = pQueue[i]
          BY <3>1
        <4> QED BY <2>2, <4>1, <4>2
      <3>8. \A j, k \in pJob : j = k BY <3>2 DEF WordsStand
      <3> QED BY <1>u, <3>1, <3>5, <3>6, <3>7, <3>8 DEF WordsStand
    <2> QED BY <1>1, <2>1, <2>2
  <1> DEFINE r == Draws!Says("rule", pGot[m].rows)
  <1>3. r \in DrawReplies /\ Age(r.said, r.rows) <= StaleAfter + LiveTtl
    BY <1>u, MaySay
  <1>4. Draws!Composes(m, r) BY <1>u
  <1> HIDE DEF r
  <1> QED BY <1>u, <1>2, <1>3, <1>4, ComposeKeeps

(* Where the source gave nothing recent the reply says so.                 *)
LEMMA ComposeOtherKeeps == ASSUME DrawInv, NEW m \in Asks, Draws!ComposeOther(m) PROVE DrawInv'
  <1>u. /\ UNCHANGED <<pNow, pOpened, pCache, pGot, pRuns, pPending, pQueue, pJob>>
        /\ pAt[m] = "got"
    BY DEF Draws!ComposeOther, Draws!source, Draws!narration
  <1> DEFINE r == Draws!Says(IF pGot[m].status = "stale" THEN "stale" ELSE "unavailable",
                             pGot[m].rows)
  <1>1. Draws!Composes(m, r) BY DEF Draws!ComposeOther
  <1>2. pGot[m] \in Snapshots /\ pNow \in Nat BY DEF DrawInv, DrawTypes, Draws!Callers
  <1>3. r \in DrawReplies /\ r.kind \notin {"rule", "model"}
    BY <1>2 DEF Draws!Says, DrawReplies, ReplyKinds, Snapshots
  <1>4. WordsStand' /\ pQueue' \in Seq(SUBSET Nat)
    BY <1>u DEF DrawInv, DrawTypes, WordsStand
  <1> HIDE DEF r
  <1> QED BY <1>u, <1>1, <1>3, <1>4, ComposeKeeps

(* The runs of the messages and the places of the callers change.          *)
LEMMA RecordKeeps ==
  ASSUME DrawInv, UNCHANGED <<pNow, pOpened, pCache, pGot, pPending, pQueue, pJob>>,
         pAt' \in [Draws!Callers -> DrawPlaces], pRuns' \in [Asks -> RunKinds],
         pReplies' \in [Asks -> DrawReplies],
         \A m \in Asks : /\ pReplies'[m] = pReplies[m] \/ pReplies'[m].kind = "none"
                         /\ pAt'[m] = "got" => pAt[m] = "got",
         RunsStand'
  PROVE  DrawInv'
  <1>1. DrawTypes'
    <2>1. Snapshots' = Snapshots /\ DrawReplies' = DrawReplies
      BY DEF Snapshots, DrawReplies, SeenRows
    <2> QED BY <2>1 DEF DrawInv, DrawTypes
  <1>2. CacheIsRecent' /\ WordsStand' BY DEF DrawInv, CacheIsRecent, WordsStand, Age
  <1>3. GivenIsRecent' BY DEF DrawInv, GivenIsRecent, Age
  <1>4. SaidIsRecent' BY DEF DrawInv, SaidIsRecent, Age
  <1> QED BY <1>1, <1>2, <1>3, <1>4 DEF DrawInv

(* A place of a message, a run and a reply.                                *)
LEMMA PlaceOf ==
  ASSUME DrawInv, NEW m \in Asks, NEW p \in DrawPlaces, pAt' = [pAt EXCEPT ![m] = p]
  PROVE  /\ pAt' \in [Draws!Callers -> DrawPlaces]
         /\ \A k \in Asks : pAt'[k] = IF k = m THEN p ELSE pAt[k]
  <1>1. Asks \subseteq Draws!Callers BY DEF Draws!Callers
  <1> QED BY <1>1 DEF DrawInv, DrawTypes

(* A message finds the app on or off.                                      *)
LEMMA RouteKeeps == ASSUME DrawInv, NEW m \in Asks, Draws!Route(m) PROVE DrawInv'
  <1>1. PICK p \in {"routed", "done"} : pAt' = [pAt EXCEPT ![m] = p]
    BY DEF Draws!Route, Draws!Goes
  <1>2. /\ UNCHANGED <<pNow, pOpened, pCache, pGot, pRuns, pReplies, pPending, pQueue, pJob>>
        /\ pAt[m] = "idle"
    BY DEF Draws!Route, Draws!source, Draws!narration
  <1>3. m \in Draws!Callers /\ p \in DrawPlaces BY DEF Draws!Callers, DrawPlaces
  <1> QED BY <1>1, <1>2, <1>3, WalkKeeps

(* A run is claimed once.                                                  *)
LEMMA ClaimKeeps == ASSUME DrawInv, NEW m \in Asks, Draws!Claim(m) PROVE DrawInv'
  <1>u. /\ UNCHANGED <<pNow, pOpened, pCache, pGot, pReplies, pPending, pQueue, pJob>>
        /\ pAt[m] = "routed"
    BY DEF Draws!Claim, Draws!source, Draws!narration
  <1>1. CASE pRuns' = pRuns /\ pAt' = [pAt EXCEPT ![m] = "done"]
    <2>1. m \in Draws!Callers /\ "done" \in DrawPlaces BY DEF Draws!Callers, DrawPlaces
    <2> QED BY <1>1, <1>u, <2>1, WalkKeeps
  <1>2. CASE /\ pRuns[m] = "none" /\ pRuns' = [pRuns EXCEPT ![m] = "processing"]
             /\ pAt' = [pAt EXCEPT ![m] = "looks"]
    <2>1. /\ pAt' \in [Draws!Callers -> DrawPlaces]
          /\ \A k \in Asks : pAt'[k] = IF k = m THEN "looks" ELSE pAt[k]
      BY <1>2, PlaceOf DEF DrawPlaces
    <2>2. pRuns' \in [Asks -> RunKinds]
      BY <1>2 DEF DrawInv, DrawTypes, RunKinds
    <2>3. \A k \in Asks : pRuns'[k] = IF k = m THEN "processing" ELSE pRuns[k]
      BY <1>2 DEF DrawInv, DrawTypes
    <2>4. RunsStand'
      BY <1>u, <2>1, <2>3 DEF DrawInv, RunsStand, Draws!FinalStatus
    <2>5. pReplies' \in [Asks -> DrawReplies] BY <1>u DEF DrawInv, DrawTypes
    <2> QED BY <1>u, <2>1, <2>2, <2>4, <2>5, RecordKeeps
  <1> QED BY <1>1, <1>2 DEF Draws!Claim, Draws!Goes

(* A reply is queued for its group, or was never said.                     *)
LEMMA EnqueueKeeps == ASSUME DrawInv, NEW m \in Asks, Draws!Enqueue(m) PROVE DrawInv'
  <1>u. /\ UNCHANGED <<pNow, pOpened, pCache, pGot, pRuns, pPending, pQueue, pJob>>
        /\ pAt[m] = "worded"
    BY DEF Draws!Enqueue, Draws!source, Draws!narration
  <1>1. PICK fails \in BOOLEAN :
          /\ pAt' = [pAt EXCEPT ![m] = IF fails THEN "fails" ELSE "queued"]
          /\ pReplies' = IF fails THEN [pReplies EXCEPT ![m] = Draws!Silent] ELSE pReplies
    BY DEF Draws!Enqueue, Draws!Fallible, Draws!Goes
  <1> DEFINE p == IF fails THEN "fails" ELSE "queued"
  <1>p. p \in DrawPlaces /\ p \in {"fails", "queued"} BY DEF DrawPlaces
  <1>2. pAt' = [pAt EXCEPT ![m] = p] BY <1>1
  <1> HIDE DEF p
  <1>3. /\ pAt' \in [Draws!Callers -> DrawPlaces]
        /\ \A k \in Asks : pAt'[k] = IF k = m THEN p ELSE pAt[k]
    BY <1>p, <1>2, PlaceOf
  <1>4. Draws!Silent \in DrawReplies /\ Draws!Silent.kind = "none"
    BY DEF Draws!Silent, Draws!None, DrawReplies, SeenRows, ReplyKinds
  <1>5. /\ pReplies' \in [Asks -> DrawReplies]
        /\ \A k \in Asks : k # m => pReplies'[k] = pReplies[k]
        /\ pReplies'[m] = pReplies[m] \/ pReplies'[m].kind = "none"
    <2>1. pReplies \in [Asks -> DrawReplies] BY DEF DrawInv, DrawTypes
    <2>2. pReplies' = pReplies \/ pReplies' = [pReplies EXCEPT ![m] = Draws!Silent] BY <1>1
    <2> QED BY <1>4, <2>1, <2>2
  <1>6. pRuns[m] = "processing" BY <1>u DEF DrawInv, RunsStand
  <1>7. RunsStand'
    BY <1>u, <1>p, <1>3, <1>5, <1>6 DEF DrawInv, RunsStand, Draws!FinalStatus
  <1>8. pRuns' \in [Asks -> RunKinds] BY <1>u DEF DrawInv, DrawTypes
  <1>9. \A k \in Asks : /\ pReplies'[k] = pReplies[k] \/ pReplies'[k].kind = "none"
                        /\ pAt'[k] = "got" => pAt[k] = "got"
    BY <1>p, <1>3, <1>5
  <1> QED BY <1>u, <1>3, <1>5, <1>7, <1>8, <1>9, RecordKeeps

(* A run ends with what its reply says.                                    *)
LEMMA FinishRunKeeps == ASSUME DrawInv, NEW m \in Asks, Draws!FinishRun(m) PROVE DrawInv'
  <1>u. /\ UNCHANGED <<pNow, pOpened, pCache, pGot, pReplies, pPending, pQueue, pJob>>
        /\ pAt[m] = "queued"
    BY DEF Draws!FinishRun, Draws!source, Draws!narration
  <1>r. pRuns[m] = "processing" BY <1>u DEF DrawInv, RunsStand
  <1>1. CASE pRuns' = pRuns /\ pAt' = [pAt EXCEPT ![m] = "fails"]
    <2>1. m \in Draws!Callers /\ "fails" \in DrawPlaces BY DEF Draws!Callers, DrawPlaces
    <2> QED BY <1>1, <1>u, <1>r, <2>1, WalkKeeps
  <1>2. CASE /\ pRuns' = [pRuns EXCEPT ![m] = Draws!FinalStatus(m)]
             /\ pAt' = [pAt EXCEPT ![m] = "done"]
    <2>1. /\ pAt' \in [Draws!Callers -> DrawPlaces]
          /\ \A k \in Asks : pAt'[k] = IF k = m THEN "done" ELSE pAt[k]
      BY <1>2, PlaceOf DEF DrawPlaces
    <2>k. pReplies[m].kind \in ReplyKinds BY DEF DrawInv, DrawTypes, DrawReplies
    <2>f. /\ Draws!FinalStatus(m) \in RunKinds
          /\ pReplies[m].kind # "none" => Draws!FinalStatus(m) # "none"
      BY <2>k, StatusOf DEF RunKinds, ReplyKinds
    <2>2. pRuns' \in [Asks -> RunKinds]
      BY <1>2, <2>f DEF DrawInv, DrawTypes
    <2>3. \A k \in Asks : pRuns'[k] = IF k = m THEN Draws!FinalStatus(m) ELSE pRuns[k]
      BY <1>2 DEF DrawInv, DrawTypes
    <2>s. \A k \in Asks : Draws!FinalStatus(k)' = Draws!FinalStatus(k)
      BY <1>u DEF Draws!FinalStatus
    <2>4. RunsStand'
      BY <1>u, <2>1, <2>3, <2>f, <2>s DEF DrawInv, RunsStand
    <2>5. pReplies' \in [Asks -> DrawReplies] BY <1>u DEF DrawInv, DrawTypes
    <2> QED BY <1>u, <2>1, <2>2, <2>4, <2>5, RecordKeeps
  <1> QED BY <1>1, <1>2 DEF Draws!FinishRun, Draws!Goes

(* An error ends a run, if it can be written.                              *)
LEMMA FailRunKeeps == ASSUME DrawInv, NEW m \in Asks, Draws!FailRun(m) PROVE DrawInv'
  <1>u. /\ UNCHANGED <<pNow, pOpened, pCache, pGot, pReplies, pPending, pQueue, pJob>>
        /\ pAt[m] = "fails" /\ pAt' = [pAt EXCEPT ![m] = "done"]
    BY DEF Draws!FailRun, Draws!source, Draws!narration, Draws!Goes
  <1>1. CASE pRuns' = pRuns
    <2>1. m \in Draws!Callers /\ "done" \in DrawPlaces BY DEF Draws!Callers, DrawPlaces
    <2> QED BY <1>1, <1>u, <2>1, WalkKeeps
  <1>2. CASE pRuns' = [pRuns EXCEPT ![m] = "failed"]
    <2>1. /\ pAt' \in [Draws!Callers -> DrawPlaces]
          /\ \A k \in Asks : pAt'[k] = IF k = m THEN "done" ELSE pAt[k]
      BY <1>u, PlaceOf DEF DrawPlaces
    <2>2. pRuns' \in [Asks -> RunKinds]
      BY <1>2 DEF DrawInv, DrawTypes, RunKinds
    <2>3. \A k \in Asks : pRuns'[k] = IF k = m THEN "failed" ELSE pRuns[k]
      BY <1>2 DEF DrawInv, DrawTypes
    <2>4. RunsStand'
      BY <1>u, <2>1, <2>3 DEF DrawInv, RunsStand, Draws!FinalStatus
    <2>5. pReplies' \in [Asks -> DrawReplies] BY <1>u DEF DrawInv, DrawTypes
    <2> QED BY <1>u, <2>1, <2>2, <2>4, <2>5, RecordKeeps
  <1> QED BY <1>1, <1>2 DEF Draws!FailRun

(* The clock goes on while nobody words a reply.                           *)
LEMMA TickKeeps == ASSUME DrawInv, Draws!Tick PROVE DrawInv'
  <1>1. /\ UNCHANGED <<pOpened, pCache, pAt, pGot, pRuns, pReplies, pPending, pQueue, pJob>>
        /\ pNow' = pNow + 1 /\ \A m \in Asks : pAt[m] # "got"
    BY DEF Draws!Tick, Draws!source, Draws!narration
  <1>2. DrawTypes'
    <2>1. Snapshots' = Snapshots /\ DrawReplies' = DrawReplies
      BY <1>1 DEF Snapshots, DrawReplies, SeenRows
    <2> QED BY <1>1, <2>1 DEF DrawInv, DrawTypes
  <1>3. CacheIsRecent' BY <1>1 DEF DrawInv, DrawTypes, CacheIsRecent, Age
  <1>4. GivenIsRecent' BY <1>1 DEF GivenIsRecent
  <1>5. SaidIsRecent' /\ RunsStand' /\ WordsStand'
    BY <1>1 DEF DrawInv, SaidIsRecent, RunsStand, WordsStand, Age, Draws!FinalStatus
  <1> QED BY <1>2, <1>3, <1>4, <1>5 DEF DrawInv

(* A draw more leaves those before as they were.                           *)
LEMMA DrawnKeeps == ASSUME DrawInv, Draws!Drawn PROVE DrawInv'
  <1>1. /\ UNCHANGED <<pNow, pCache, pAt, pGot, pRuns, pReplies, pPending, pQueue, pJob>>
        /\ pOpened' = Append(pOpened, pNow)
    BY DEF Draws!Drawn, Draws!narration
  <1>t. DrawTypes BY DEF DrawInv
  <1>2. /\ pOpened' \in Seq(Nat) /\ Len(pOpened') = Len(pOpened) + 1 /\ Len(pOpened) \in Nat
        /\ \A d \in 1..Len(pOpened) : pOpened'[d] = pOpened[d]
    BY <1>1, <1>t DEF DrawTypes
  <1>3. SeenRows \subseteq SeenRows' BY <1>2 DEF SeenRows
  <1>4. Snapshots \subseteq Snapshots' /\ DrawReplies \subseteq DrawReplies'
    BY <1>3 DEF Snapshots, DrawReplies
  <1>5. DrawTypes'
    <2>1. pCache' \in [at : Nat, result : Snapshots'] BY <1>1, <1>4, <1>t DEF DrawTypes
    <2>2. pGot' \in [Draws!Callers -> Snapshots'] BY <1>1, <1>4, <1>t DEF DrawTypes
    <2>3. pReplies' \in [Asks -> DrawReplies'] BY <1>1, <1>4, <1>t DEF DrawTypes
    <2> QED BY <1>1, <1>2, <1>t, <2>1, <2>2, <2>3 DEF DrawTypes
  <1>6. ASSUME NEW t, NEW rows \in SeenRows, rows # {}
        PROVE  t - pOpened'[Draws!Latest(rows)] = Age(t, rows)
    <2>1. Draws!Latest(rows) \in 1..Len(pOpened) BY <1>t, <1>6, LatestSeen DEF DrawTypes
    <2> QED BY <1>2, <2>1 DEF Age
  <1>7. CacheIsRecent'
    <2> SUFFICES ASSUME pCache.result.status = "fresh"
                 PROVE  /\ pCache.at <= pNow
                        /\ pCache.at - pOpened'[Draws!Latest(pCache.result.rows)] <= StaleAfter
      BY <1>1 DEF CacheIsRecent, Age
    <2>1. pCache.result.rows \in SeenRows /\ pCache.result.rows # {}
      BY <1>t DEF DrawTypes, Snapshots
    <2> QED BY <1>6, <2>1 DEF DrawInv, CacheIsRecent
  <1>8. GivenIsRecent'
    <2> SUFFICES ASSUME NEW m \in Asks, pAt[m] = "got", pGot[m].status = "fresh"
                 PROVE  pNow - pOpened'[Draws!Latest(pGot[m].rows)] <= StaleAfter + LiveTtl
      BY <1>1 DEF GivenIsRecent, Age
    <2>1. pGot[m].rows \in SeenRows /\ pGot[m].rows # {}
      BY <1>t DEF DrawTypes, Snapshots, Draws!Callers
    <2> QED BY <1>6, <2>1 DEF DrawInv, GivenIsRecent
  <1>9. SaidIsRecent'
    <2> SUFFICES ASSUME NEW m \in Asks, pReplies[m].kind \in {"rule", "model"}
                 PROVE  pReplies[m].said - pOpened'[Draws!Latest(pReplies[m].rows)] <= StaleAfter + LiveTtl
      BY <1>1 DEF SaidIsRecent, Age
    <2>1. pReplies[m].rows \in SeenRows /\ pReplies[m].rows # {}
      BY <1>t DEF DrawTypes, DrawReplies
    <2> QED BY <1>6, <2>1 DEF DrawInv, SaidIsRecent
  <1>10. RunsStand' /\ WordsStand'
    BY <1>1 DEF DrawInv, RunsStand, WordsStand, Draws!FinalStatus
  <1> QED BY <1>5, <1>7, <1>8, <1>9, <1>10 DEF DrawInv

(* The texts being made change; nothing else does.                         *)
LEMMA WordKeeps ==
  ASSUME DrawInv, UNCHANGED <<pNow, pOpened, pCache, pAt, pGot, pRuns, pReplies>>,
         pQueue' \in Seq(SUBSET Nat), WordsStand'
  PROVE  DrawInv'
  <1>1. DrawTypes'
    <2>1. Snapshots' = Snapshots /\ DrawReplies' = DrawReplies
      BY DEF Snapshots, DrawReplies, SeenRows
    <2> QED BY <2>1 DEF DrawInv, DrawTypes
  <1>2. CacheIsRecent' /\ GivenIsRecent' /\ SaidIsRecent' /\ RunsStand'
    BY DEF DrawInv, CacheIsRecent, GivenIsRecent, SaidIsRecent, RunsStand, Age, Draws!FinalStatus
  <1> QED BY <1>1, <1>2 DEF DrawInv

(* The next text is taken up.                                              *)
LEMMA TakeJobKeeps == ASSUME DrawInv, Draws!TakeJob PROVE DrawInv'
  <1>1. /\ UNCHANGED <<pNow, pOpened, pCache, pAt, pGot, pRuns, pReplies, pPending>>
        /\ pJob = {} /\ pQueue # <<>> /\ pJob' = {Head(pQueue)} /\ pQueue' = Tail(pQueue)
    BY DEF Draws!TakeJob, Draws!source
  <1>2. WordsStand BY DEF DrawInv
  <1> DEFINE n == Len(pQueue)
  <1>3. /\ n \in Nat /\ n >= 1 /\ Len(pQueue') = n - 1 /\ pQueue' \in Seq(SUBSET Nat)
        /\ Head(pQueue) = pQueue[1] /\ \A i \in 1..(n - 1) : pQueue'[i] = pQueue[i + 1]
    BY <1>1 DEF DrawInv, DrawTypes
  <1> HIDE DEF n
  <1>4. ASSUME NEW k PROVE k \in pPending' <=> k \in pJob' \/ \E i \in 1..(n - 1) : k = pQueue'[i]
    <2>1. k \in pPending <=> \E i \in 1..n : k = pQueue[i]
      BY <1>1, <1>2 DEF WordsStand, n
    <2>2. (\E i \in 1..n : k = pQueue[i]) <=> k = pQueue[1] \/ \E i \in 1..(n - 1) : k = pQueue[i + 1]
      <3>1. ASSUME NEW i \in 1..n, i # 1 PROVE i - 1 \in 1..(n - 1) /\ pQueue[i] = pQueue[(i - 1) + 1]
        BY <1>3, <3>1
      <3>2. \A i \in 1..(n - 1) : i + 1 \in 1..n BY <1>3
      <3>3. 1 \in 1..n BY <1>3
      <3> QED BY <3>1, <3>2, <3>3
    <2> QED BY <1>1, <1>3, <2>1, <2>2
  <1>5. \A i, j \in 1..(n - 1) : pQueue'[i] = pQueue'[j] => i = j
    BY <1>2, <1>3 DEF WordsStand, n
  <1>6. \A i \in 1..(n - 1) : pQueue'[i] \notin pJob'
    BY <1>1, <1>2, <1>3 DEF WordsStand, n
  <1>7. WordsStand' BY <1>1, <1>3, <1>4, <1>5, <1>6 DEF WordsStand
  <1> QED BY <1>1, <1>3, <1>7, WordKeeps

(* A text is done: its key is free again.                                  *)
LEMMA FinishJobKeeps == ASSUME DrawInv, Draws!FinishJob PROVE DrawInv'
  <1>1. /\ UNCHANGED <<pNow, pOpened, pCache, pAt, pGot, pRuns, pReplies, pQueue>>
        /\ pJob' = {}
    BY DEF Draws!FinishJob, Draws!source
  <1>2. PICK rows \in pJob : pPending' = pPending \ {rows}
    BY DEF Draws!FinishJob, Draws!KeyIsFree, Draws!NarrationKey
  <1>3. WordsStand' BY <1>1, <1>2 DEF DrawInv, WordsStand
  <1>4. pQueue' \in Seq(SUBSET Nat) BY <1>1 DEF DrawInv, DrawTypes
  <1> QED BY <1>1, <1>3, <1>4, WordKeeps

(* The switch is asked for and set.                                        *)
LEMMA SwitchKeeps ==
  ASSUME DrawInv, NEW c \in Draws!Switches,
         Draws!AskHealth(c) \/ Draws!RecordHealth(c) \/ Draws!SetEnabled(c)
  PROVE  DrawInv'
  <1>1. c \in Draws!Callers /\ c \notin Asks
    BY DrawAssumption DEF Draws!Switches, Draws!Callers
  <1>2. UNCHANGED <<pNow, pOpened, pCache, pGot, pRuns, pReplies, pPending, pQueue, pJob>>
    BY DEF Draws!AskHealth, Draws!RecordHealth, Draws!SetEnabled, Draws!source, Draws!narration
  <1>3. PICK p \in {"looks", "done", "checked"} : pAt' = [pAt EXCEPT ![c] = p]
    BY DEF Draws!AskHealth, Draws!RecordHealth, Draws!SetEnabled, Draws!Goes
  <1>4. p \in DrawPlaces /\ p # "got" BY DEF DrawPlaces
  <1> QED BY <1>1, <1>2, <1>3, <1>4, WalkKeeps

(* The app is turned off.                                                  *)
LEMMA SwitchOffKeeps == ASSUME DrawInv, Draws!SwitchOff PROVE DrawInv'
  <1>1. UNCHANGED <<pNow, pOpened, pCache, pAt, pGot, pRuns, pReplies, pPending, pQueue, pJob>>
    BY DEF Draws!SwitchOff, Draws!source, Draws!narration
  <1>2. WordsStand' /\ pQueue' \in Seq(SUBSET Nat)
    BY <1>1 DEF DrawInv, DrawTypes, WordsStand
  <1> QED BY <1>1, <1>2, WordKeeps

(* The program ends: a message under way is processed again.               *)
LEMMA AppCrashKeeps == ASSUME DrawInv, Draws!Crash PROVE DrawInv'
  <1>1. /\ UNCHANGED <<pNow, pOpened, pRuns>> /\ pCache' = Draws!NoCache
        /\ pAt' = [c \in Draws!Callers |-> IF c \in Asks /\ pAt[c] # "done" THEN "idle" ELSE "done"]
        /\ pGot' = [c \in Draws!Callers |-> Draws!Failed]
        /\ pReplies' = [m \in Asks |-> IF pAt[m] = "worded" THEN Draws!Silent ELSE pReplies[m]]
        /\ pPending' = {} /\ pQueue' = <<>> /\ pJob' = {}
    BY DEF Draws!Crash, Draws!source
  <1>s. Snapshots' = Snapshots /\ DrawReplies' = DrawReplies
    BY <1>1 DEF Snapshots, DrawReplies, SeenRows
  <1>2. pCache' \in [at : Nat, result : Snapshots] /\ pCache'.result.status = "error"
    BY <1>1, FailedIsOne DEF Draws!NoCache
  <1>3. /\ pGot' \in [Draws!Callers -> Snapshots]
        /\ pAt' \in [Draws!Callers -> DrawPlaces]
    BY <1>1, FailedIsOne DEF DrawPlaces
  <1>4. Draws!Silent \in DrawReplies /\ Draws!Silent.kind = "none"
    BY DEF Draws!Silent, Draws!None, DrawReplies, SeenRows, ReplyKinds
  <1>5. /\ pReplies' \in [Asks -> DrawReplies]
        /\ \A m \in Asks : \/ pReplies'[m] = pReplies[m]
                           \/ pAt[m] = "worded" /\ pReplies'[m].kind = "none"
    BY <1>1, <1>4 DEF DrawInv, DrawTypes
  <1>6. \A m \in Asks : pAt'[m] = IF pAt[m] # "done" THEN "idle" ELSE "done"
    BY <1>1 DEF Draws!Callers
  <1>7. DrawTypes' /\ Len(pQueue') = 0
    BY <1>1, <1>s, <1>2, <1>3, <1>5 DEF DrawInv, DrawTypes
  <1>8. CacheIsRecent' BY <1>2 DEF CacheIsRecent
  <1>9. GivenIsRecent' BY <1>6 DEF GivenIsRecent
  <1>10. SaidIsRecent' BY <1>1, <1>5 DEF DrawInv, SaidIsRecent, Age
  <1>11. RunsStand'
    BY <1>1, <1>5, <1>6 DEF DrawInv, RunsStand, Draws!FinalStatus
  <1>12. WordsStand' BY <1>1, <1>7 DEF WordsStand
  <1> QED BY <1>7, <1>8, <1>9, <1>10, <1>11, <1>12 DEF DrawInv

(* Every step of the app keeps the invariant.                              *)
LEMMA DrawStep == ASSUME DrawInv, [Draws!Next]_drawsVars PROVE DrawInv'
  <1>1. CASE UNCHANGED drawsVars
    <2>1. UNCHANGED <<pNow, pOpened, pCache, pAt, pGot, pRuns, pReplies, pPending, pQueue, pJob>>
      BY <1>1 DEF drawsVars
    <2>2. WordsStand' /\ pQueue' \in Seq(SUBSET Nat)
      BY <2>1 DEF DrawInv, DrawTypes, WordsStand
    <2> QED BY <2>1, <2>2, WordKeeps
  <1>2. CASE \/ Draws!Tick \/ Draws!Drawn \/ Draws!TakeJob \/ Draws!FinishJob \/ Draws!SwitchOff
             \/ Draws!Crash
    BY <1>2, TickKeeps, DrawnKeeps, TakeJobKeeps, FinishJobKeeps, SwitchOffKeeps, AppCrashKeeps
  <1>3. ASSUME NEW c \in Draws!Callers, Draws!Look(c) \/ Draws!TakeLock(c) \/ Draws!Fetch(c)
        PROVE  DrawInv'
    BY <1>3, LookKeeps, TakeLockKeeps, FetchKeeps
  <1>4. ASSUME NEW m \in Asks,
               \/ Draws!Route(m) \/ Draws!Claim(m) \/ Draws!UseWords(m) \/ Draws!UseRule(m)
               \/ Draws!ComposeOther(m) \/ Draws!Enqueue(m) \/ Draws!FinishRun(m) \/ Draws!FailRun(m)
        PROVE  DrawInv'
    BY <1>4, RouteKeeps, ClaimKeeps, UseWordsKeeps, UseRuleKeeps, ComposeOtherKeeps, EnqueueKeeps,
       FinishRunKeeps, FailRunKeeps
  <1> QED BY <1>1, <1>2, <1>3, <1>4, SwitchKeeps DEF Draws!Next

(* A prediction is made only of draws that are recent, what the list of    *)
(* runs says of a message is what its group is told, and words being made  *)
(* are made by somebody (process_business_app, fetch_live,                 *)
(* prediction_narration_loop), however many ask, look and switch, and      *)
(* however long the cache keeps what it has.                               *)
THEOREM PredictionsStayHonest == MCSpec => []PredictionsAreHonest
  <1> DEFINE Inv == focus = "draws" => DrawInv
  <1>1. MCInit => Inv BY DrawStart
  <1>2. Inv /\ [MCNext]_mcVars => Inv'
    BY Steps, DrawStep
  <1>3. Inv => PredictionsAreHonest
    <2> SUFFICES ASSUME DrawInv PROVE Draws!PredictionsAreHonest
      BY DEF PredictionsAreHonest
    <2>1. Draws!DirectionsAreRecent
      BY DEF DrawInv, SaidIsRecent, Age, Draws!DirectionsAreRecent
    <2>2. Draws!RunsTellReplies
      BY DEF DrawInv, RunsStand, Draws!RunsTellReplies
    <2>3. Draws!WordsAreUnderWay
      <3>1. DOMAIN pQueue = 1..Len(pQueue) BY DEF DrawInv, DrawTypes
      <3>2. \A k : k \in pPending <=> k \in pJob \cup {pQueue[i] : i \in DOMAIN pQueue}
        BY <3>1 DEF DrawInv, WordsStand
      <3> QED BY <3>2 DEF Draws!WordsAreUnderWay, Draws!NarrationKey
    <2> QED BY <2>1, <2>2, <2>3 DEF Draws!PredictionsAreHonest
  <1> QED BY <1>1, <1>2, <1>3, PTL DEF MCSpec, mcVars

-----------------------------------------------------------------------------
(* The start script of the chat client.                                    *)

(* One program works at a time, and no backup is cut off: with either the  *)
(* original can be lost.                                                   *)
ToolsWorkAlone == \A F \in ScriptFaults : "together" \notin F /\ "torn" \notin F

Texts == [kind : {"original", "patched", "garbled", "nothing"}, of : Versions \cup {0, 1}]
ScriptFiles == [text : Texts, by : SUBSET (Tools \cup {"gone"})]
ScriptPlaces == {"idle", "open", "backup", "draft", "forget", "manifest", "replace", "spare",
                 "move", "verify", "undo", "move back"}

ScriptTypes ==
    /\ sFaults \in ScriptFaults
    /\ sScript \in [text : Texts, by : {{}}] /\ sScript.text.kind \in {"original", "patched"}
    /\ sSpare \in ScriptFiles /\ sBackups \in [Versions -> ScriptFiles] /\ sManifests \in Seq(Versions)
    /\ sAt \in [Tools -> ScriptPlaces]
    /\ sJob \in [Tools -> [restores : BOOLEAN, of : Versions \cup {0}]]
    /\ \A p, q \in Tools : sAt[p] # "idle" /\ sAt[q] # "idle" => p = q

(* A backup is there in whole or not at all, but for the one being made.   *)
BackupOf(v) == Script!Holds(sBackups[v], Script!Original(v))
BackupsStand ==
    \A v \in Versions :
        \/ sBackups[v] = Script!Nothing \/ BackupOf(v)
        \/ \E p \in Tools : sAt[p] = "backup" /\ sJob[p].of = v

(* The manifest a restore would take is that of version v.                 *)
NamedLast(v) == sManifests # <<>> /\ sManifests[Len(sManifests)] = v

(* Who is at work knows a backup, and names it, before the script changes; *)
(* until then the script is an original.                                   *)
ToolStands(p) ==
    LET v == sJob[p].of
        original == Script!Original(v)
    IN  /\ v \in Versions
        /\ sJob[p].restores => sAt[p] \in {"replace", "spare", "move"}
        /\ ~sJob[p].restores => \/ sScript.text.kind = "original"
                                \/ sAt[p] = "verify" /\ sScript.text = Script!Patched(v)
        /\ sAt[p] = "open" => sBackups[v] = Script!Nothing
        /\ sAt[p] = "backup" => sBackups[v] = Script!File(original, {p})
        /\ sAt[p] \notin {"open", "backup"} => BackupOf(v)
        /\ sAt[p] \in {"replace", "spare", "move", "verify", "undo", "move back"} => NamedLast(v)
        /\ sAt[p] = "spare" => sSpare = Script!File(Script!Text(p), {p})
        /\ sAt[p] = "move" => sSpare = Script!File(Script!Text(p), {})
        /\ sAt[p] = "undo" => sSpare = Script!File(original, {p})
        /\ sAt[p] = "move back" => sSpare = Script!File(original, {})

ToolsStand ==
    /\ \A p \in Tools : sAt[p] # "idle" => ToolStands(p)
    /\ sSpare.by \subseteq {"gone"} \cup {p \in Tools : sAt[p] \in {"spare", "undo"}}

(* A patched script has its original kept.                                 *)
PatchedStands ==
    \A v \in Versions : sScript.text = Script!Patched(v) => BackupOf(v) /\ NamedLast(v)

ScriptInv == ScriptTypes /\ BackupsStand /\ ToolsStand /\ PatchedStands

(* Of the manifests one less is left, or as many.                          *)
LEMMA WithoutOne ==
  ASSUME sManifests \in Seq(Versions), NEW v
  PROVE  Script!Without(v) \in Seq(Versions)
  <1>1. CASE ~\E i \in 1..Len(sManifests) : sManifests[i] = v
    BY <1>1 DEF Script!Without, Script!RemoveFirst
  <1>2. CASE \E i \in 1..Len(sManifests) : sManifests[i] = v
    <2> DEFINE I == {i \in 1..Len(sManifests) : sManifests[i] = v}
               m == Script!SelectInSeq(sManifests, LAMBDA w : w = v)
    <2>1. I # {} /\ I \subseteq Nat BY <1>2
    <2>2. PICK x \in I : \A y \in I : ~(<<y, x>> \in OpToRel(<, Nat))
      <3> HIDE DEF I
      <3> QED BY <2>1, NatLessThanWellFounded, WFMin, Zenon
    <2>3. ASSUME NEW y \in I PROVE x <= y
      <3>1. y \in Nat /\ x \in Nat OBVIOUS
      <3> HIDE DEF I
      <3>2. ~(y < x) BY <2>2, <3>1, Zenon DEF OpToRel
      <3> QED BY <3>1, <3>2
    <2>4. m = Script!Min(I) BY <2>1 DEF Script!SelectInSeq
    <2>5. m \in I BY <2>3, <2>4 DEF Script!Min
    <2>6. m \in 1..Len(sManifests) BY <2>5
    <2>7. Script!Without(v) = SubSeq(sManifests, 1, m - 1) \o SubSeq(sManifests, m + 1, Len(sManifests))
      BY <1>2 DEF Script!Without, Script!RemoveFirst, Script!RemoveAt
    <2> HIDE DEF m
    <2>8. /\ SubSeq(sManifests, 1, m - 1) \in Seq(Versions)
          /\ SubSeq(sManifests, m + 1, Len(sManifests)) \in Seq(Versions)
      BY <2>6, SubSeqProperties
    <2> QED BY <2>7, <2>8
  <1> QED BY <1>1, <1>2

(* While one works the others rest.                                        *)
LEMMA OthersRest ==
  ASSUME ScriptTypes, NEW p \in Tools, sAt[p] # "idle"
  PROVE  \A q \in Tools : q # p => sAt[q] = "idle"
  BY DEF ScriptTypes

(* The texts.                                                              *)
LEMMA TextsDiffer ==
  ASSUME NEW v \in Versions \cup {0, 1}, NEW w
  PROVE  /\ Script!Original(v) \in Texts /\ Script!Patched(v) \in Texts
         /\ Script!Original(v).kind = "original" /\ Script!Patched(v).kind = "patched"
         /\ Script!Original(v).of = v /\ Script!Patched(v).of = v
         /\ Script!Original(v) # Script!Patched(w)
  BY DEF Script!Original, Script!Patched, Texts

(* The files.                                                              *)
LEMMA FilesOf ==
  /\ Script!Nothing \in ScriptFiles /\ Script!Nothing.by = {}
  /\ \A t \in Texts, b \in SUBSET (Tools \cup {"gone"}) :
        Script!File(t, b) \in ScriptFiles /\ Script!File(t, b).text = t /\ Script!File(t, b).by = b
  BY DEF Script!Nothing, Script!File, ScriptFiles, Texts

(* The script is an original at first.                                     *)
LEMMA ScriptStart == ASSUME focus = "script", MCInit PROVE ScriptInv
  <1>1. Script!Init BY DEF MCInit
  <1>2. sAt = [p \in Tools |-> "idle"] /\ sJob = [p \in Tools |-> Script!Idle]
    BY <1>1 DEF Script!Init
  <1>3. sScript = [text |-> Script!Original(1), by |-> {}] /\ sSpare = Script!Nothing
    BY <1>1 DEF Script!Init, Script!File
  <1>4. sScript.text \in Texts /\ sScript.text.kind = "original" /\ sSpare.by = {}
    BY <1>3, TextsDiffer, FilesOf
  <1>5. ScriptTypes
    BY FilesOf, <1>1, <1>2, <1>3, <1>4 DEF Script!Init, ScriptTypes, ScriptPlaces, Script!Idle
  <1>6. BackupsStand BY <1>1 DEF Script!Init, BackupsStand
  <1>7. ToolsStand BY <1>2, <1>4 DEF ToolsStand
  <1>8. PatchedStands BY <1>3, TextsDiffer DEF PatchedStands
  <1> QED BY <1>5, <1>6, <1>7, <1>8 DEF ScriptInv

(* A program begins to patch an original.                                  *)
LEMMA BeginApplyKeeps ==
  ASSUME ToolsWorkAlone, ScriptInv, NEW p \in Tools, Script!BeginApply(p) PROVE ScriptInv'
  <1>t. ScriptTypes /\ BackupsStand BY DEF ScriptInv
  <1>0. PICK v \in Versions :
          /\ Script!Holds(sScript, Script!Original(v))
          /\ sJob' = [sJob EXCEPT ![p] = [restores |-> FALSE, of |-> v]]
          /\ sAt' = [sAt EXCEPT ![p] = IF sBackups[v] # Script!Nothing THEN "draft" ELSE "open"]
    BY DEF Script!BeginApply, Script!Backed
  <1>u. /\ UNCHANGED <<sFaults, sScript, sSpare, sBackups, sManifests>>
        /\ \A q \in Tools : sAt[q] = "idle"
    BY <1>t DEF Script!BeginApply, Script!files, Script!Free, ToolsWorkAlone, ScriptTypes
  <1>s. sScript.text.kind = "original"
    BY <1>0, TextsDiffer DEF Script!Holds
  <1>a. /\ \A q \in Tools : q # p => sAt'[q] = "idle"
        /\ sAt'[p] = IF sBackups[v] # Script!Nothing THEN "draft" ELSE "open"
        /\ sJob'[p].of = v /\ ~sJob'[p].restores
        /\ sAt' \in [Tools -> ScriptPlaces]
        /\ sJob' \in [Tools -> [restores : BOOLEAN, of : Versions \cup {0}]]
    BY <1>0, <1>t, <1>u DEF ScriptTypes, ScriptPlaces
  <1>1. ScriptTypes'
    BY <1>t, <1>u, <1>a DEF ScriptTypes
  <1>2. BackupsStand' BY <1>t, <1>u DEF BackupsStand, BackupOf
  <1>b. sBackups[v] # Script!Nothing => BackupOf(v) BY <1>t, <1>u DEF BackupsStand
  <1>3. ToolStands(p)'
    BY <1>a, <1>u, <1>s, <1>b DEF ToolStands, BackupOf
  <1>4. ToolsStand'
    BY <1>a, <1>u, <1>3 DEF ToolsStand, ScriptInv
  <1>5. PatchedStands' BY <1>u DEF ScriptInv, PatchedStands, BackupOf, NamedLast
  <1> QED BY <1>1, <1>2, <1>4, <1>5 DEF ScriptInv

(* A step of a program that is at work leaves the others at rest.          *)
LEMMA ToolMoves ==
  ASSUME ScriptTypes, NEW p \in Tools, sAt[p] # "idle", NEW where \in ScriptPlaces,
         \/ Script!Goes(p, where)
         \/ where = "idle" /\ Script!Ends(p)
  PROVE  /\ \A q \in Tools : sAt'[q] = IF q = p THEN where ELSE "idle"
         /\ sAt' \in [Tools -> ScriptPlaces]
         /\ sJob' \in [Tools -> [restores : BOOLEAN, of : Versions \cup {0}]]
         /\ where # "idle" => sJob' = sJob
         /\ \A q, r \in Tools : sAt'[q] # "idle" /\ sAt'[r] # "idle" => q = r
  <1>1. \A q \in Tools : q # p => sAt[q] = "idle" BY OthersRest
  <1>2. Script!Idle \in [restores : BOOLEAN, of : Versions \cup {0}] BY DEF Script!Idle
  <1>3. CASE Script!Goes(p, where)
    BY <1>1, <1>3 DEF ScriptTypes, Script!Goes
  <1>4. CASE where = "idle" /\ Script!Ends(p)
    BY <1>1, <1>2, <1>4 DEF ScriptTypes, Script!Ends
  <1> QED BY <1>3, <1>4

(* A backup is opened where there is none.                                 *)
LEMMA OpenBackupKeeps == ASSUME ScriptInv, NEW p \in Tools, Script!OpenBackup(p) PROVE ScriptInv'
  <1>t. ScriptTypes /\ BackupsStand /\ sAt[p] = "open"
    BY DEF ScriptInv, Script!OpenBackup
  <1> DEFINE v == sJob[p].of
             f == Script!File(Script!Original(v), {p})
  <1>p. ToolStands(p) BY <1>t DEF ScriptInv, ToolsStand
  <1>b. v \in Versions /\ sBackups[v] = Script!Nothing BY <1>p, <1>t DEF ToolStands
  <1>o. Script!Opened(Script!Nothing, p, Script!Original(v)) = f
    BY DEF Script!Opened, Script!Nothing, Script!File
  <1>u. /\ UNCHANGED <<sFaults, sScript, sSpare, sManifests>>
        /\ sBackups' = [sBackups EXCEPT ![v] = f] /\ Script!Goes(p, "backup")
    BY <1>b, <1>o DEF Script!OpenBackup
  <1>f. f \in ScriptFiles BY <1>b, TextsDiffer, FilesOf
  <1> HIDE DEF f
  <1>c. /\ sBackups' \in [Versions -> ScriptFiles] /\ sBackups'[v] = f
        /\ \A w \in Versions : w # v => sBackups'[w] = sBackups[w]
    BY <1>t, <1>u, <1>b, <1>f DEF ScriptTypes
  <1>a. /\ \A q \in Tools : sAt'[q] = IF q = p THEN "backup" ELSE "idle"
        /\ sAt' \in [Tools -> ScriptPlaces] /\ sJob' = sJob
        /\ \A q, r \in Tools : sAt'[q] # "idle" /\ sAt'[r] # "idle" => q = r
    BY <1>t, <1>u, ToolMoves DEF ScriptPlaces
  <1>n. ~BackupOf(v)
    BY <1>b DEF BackupOf, Script!Holds, Script!Whole, Script!Nothing, Script!File
  <1>1. ScriptTypes' BY <1>t, <1>u, <1>a, <1>c DEF ScriptTypes
  <1>2. BackupsStand' BY <1>t, <1>a, <1>c, OthersRest DEF BackupsStand, BackupOf
  <1>3. ToolStands(p)' BY <1>t, <1>p, <1>u, <1>a, <1>c DEF ToolStands, f
  <1>4. ToolsStand' BY <1>t, <1>a, <1>u, <1>3, OthersRest DEF ToolsStand, ScriptInv
  <1>5. PatchedStands'
    <2>1. \A w \in Versions : sScript.text = Script!Patched(w) => w # v
      BY <1>n DEF ScriptInv, PatchedStands
    <2> QED BY <1>u, <1>c, <2>1 DEF ScriptInv, PatchedStands, BackupOf, NamedLast
  <1> QED BY <1>1, <1>2, <1>4, <1>5 DEF ScriptInv

(* A backup is closed: it holds the original.                              *)
LEMMA CloseBackupKeeps == ASSUME ScriptInv, NEW p \in Tools, Script!CloseBackup(p) PROVE ScriptInv'
  <1>t. ScriptTypes /\ BackupsStand /\ sAt[p] = "backup"
    BY DEF ScriptInv, Script!CloseBackup
  <1> DEFINE v == sJob[p].of
             f == Script!File(Script!Original(v), {})
             g == Script!File(Script!Original(v), {p})
  <1>p. ToolStands(p) BY <1>t DEF ScriptInv, ToolsStand
  <1>b. v \in Versions /\ sBackups[v] = g BY <1>p, <1>t DEF ToolStands
  <1>o. Script!Closed(g, p) = f BY DEF Script!Closed, Script!File
  <1>h. Script!Holds(f, Script!Original(v))
    BY <1>b DEF Script!Holds, Script!Whole, Script!File, Script!Original
  <1>u. /\ UNCHANGED <<sFaults, sScript, sSpare, sManifests>>
        /\ sBackups' = [sBackups EXCEPT ![v] = f] /\ Script!Goes(p, "draft")
    BY <1>b, <1>o DEF Script!CloseBackup
  <1>f. f \in ScriptFiles BY <1>b, TextsDiffer, FilesOf
  <1> HIDE DEF f, g
  <1>c. /\ sBackups' \in [Versions -> ScriptFiles] /\ sBackups'[v] = f
        /\ \A w \in Versions : w # v => sBackups'[w] = sBackups[w]
    BY <1>t, <1>u, <1>b, <1>f DEF ScriptTypes
  <1>a. /\ \A q \in Tools : sAt'[q] = IF q = p THEN "draft" ELSE "idle"
        /\ sAt' \in [Tools -> ScriptPlaces] /\ sJob' = sJob
        /\ \A q, r \in Tools : sAt'[q] # "idle" /\ sAt'[r] # "idle" => q = r
    BY <1>t, <1>u, ToolMoves DEF ScriptPlaces
  <1>d. \A w \in Versions : BackupOf(w) => BackupOf(w)'
    BY <1>c, <1>h DEF BackupOf
  <1>e. BackupOf(v)' BY <1>a, <1>b, <1>c, <1>h DEF BackupOf
  <1>1. ScriptTypes' BY <1>t, <1>u, <1>a, <1>c DEF ScriptTypes
  <1>2. BackupsStand'
    <2>1. ASSUME NEW w \in Versions, w # v PROVE sBackups[w] = Script!Nothing \/ BackupOf(w)
      <3>1. \A q \in Tools : sAt[q] = "backup" => q = p BY <1>t, OthersRest
      <3>2. ~\E q \in Tools : sAt[q] = "backup" /\ sJob[q].of = w BY <3>1, <2>1
      <3> QED BY <1>t, <3>2 DEF BackupsStand
    <2> QED BY <1>a, <1>b, <1>c, <1>d, <1>e, <2>1 DEF BackupsStand
  <1>3. ToolStands(p)' BY <1>t, <1>p, <1>u, <1>a, <1>e DEF ToolStands
  <1>4. ToolsStand' BY <1>t, <1>a, <1>u, <1>3, OthersRest DEF ToolsStand, ScriptInv
  <1>5. PatchedStands' BY <1>u, <1>d DEF ScriptInv, PatchedStands, NamedLast
  <1> QED BY <1>1, <1>2, <1>4, <1>5 DEF ScriptInv

(* The manifest of an original is written anew.                            *)
LEMMA ManifestKeeps ==
  ASSUME ScriptInv, NEW p \in Tools,
         Script!DraftManifest(p) \/ Script!ForgetManifest(p) \/ Script!PlaceManifest(p)
  PROVE  ScriptInv'
  <1>t. ScriptTypes /\ BackupsStand /\ sAt[p] \in {"draft", "forget", "manifest"}
    BY DEF ScriptInv, Script!DraftManifest, Script!ForgetManifest, Script!PlaceManifest
  <1> DEFINE v == sJob[p].of
             less == Script!Without(v)
  <1>p. ToolStands(p) BY <1>t DEF ScriptInv, ToolsStand
  <1>b. v \in Versions /\ BackupOf(v) /\ sScript.text.kind = "original"
    BY <1>p, <1>t DEF ToolStands
  <1>l. less \in Seq(Versions) BY <1>t, WithoutOne DEF ScriptTypes
  <1>u. UNCHANGED <<sFaults, sScript, sSpare, sBackups>>
    BY DEF Script!DraftManifest, Script!ForgetManifest, Script!PlaceManifest
  <1>0. PICK where \in {"forget", "manifest", "replace", "idle"} :
          /\ \/ Script!Goes(p, where)
             \/ where = "idle" /\ Script!Ends(p)
          /\ sManifests' \in {sManifests, less, Append(less, v)}
          /\ where = "replace" => sManifests' = Append(less, v)
    BY DEF Script!DraftManifest, Script!ForgetManifest, Script!PlaceManifest
  <1> HIDE DEF less
  <1>m. sManifests' \in Seq(Versions)
    <2>1. Append(less, v) \in Seq(Versions) BY <1>l, <1>b, AppendProperties
    <2> QED BY <1>0, <1>t, <1>l, <2>1 DEF ScriptTypes
  <1>n. where = "replace" => sManifests' # <<>> /\ sManifests'[Len(sManifests')] = v
    BY <1>0, <1>l, <1>b
  <1>a. /\ \A q \in Tools : sAt'[q] = IF q = p THEN where ELSE "idle"
        /\ sAt' \in [Tools -> ScriptPlaces] /\ (where # "idle" => sJob' = sJob)
        /\ sJob' \in [Tools -> [restores : BOOLEAN, of : Versions \cup {0}]]
        /\ \A q, r \in Tools : sAt'[q] # "idle" /\ sAt'[r] # "idle" => q = r
    <2>1. sAt[p] # "idle" BY <1>t
    <2>2. where \in ScriptPlaces BY DEF ScriptPlaces
    <2>3. Script!Goes(p, where) \/ (where = "idle" /\ Script!Ends(p)) BY <1>0
    <2> QED BY <1>t, <2>1, <2>2, <2>3, ToolMoves
  <1>1. ScriptTypes' BY <1>t, <1>u, <1>m, <1>a DEF ScriptTypes
  <1>2. BackupsStand'
    BY <1>t, <1>u, OthersRest DEF BackupsStand, BackupOf
  <1>3. where # "idle" => ToolStands(p)'
    BY <1>t, <1>p, <1>b, <1>u, <1>a, <1>n DEF ToolStands, BackupOf, NamedLast
  <1>4. ToolsStand' BY <1>t, <1>a, <1>u, <1>3, OthersRest DEF ToolsStand, ScriptInv
  <1>5. PatchedStands' BY <1>u, <1>b, TextsDiffer DEF PatchedStands
  <1> QED BY <1>1, <1>2, <1>4, <1>5 DEF ScriptInv

(* A restore takes the backup of the latest manifest.                      *)
LEMMA BeginRestoreKeeps ==
  ASSUME ToolsWorkAlone, ScriptInv, NEW p \in Tools, Script!BeginRestore(p) PROVE ScriptInv'
  <1>t. ScriptTypes /\ BackupsStand BY DEF ScriptInv
  <1> DEFINE v == sManifests[Len(sManifests)]
  <1>0. /\ UNCHANGED <<sFaults, sScript, sSpare, sBackups, sManifests>>
        /\ \A q \in Tools : sAt[q] = "idle"
        /\ sManifests # <<>> /\ Script!Holds(sBackups[v], Script!Original(v))
        /\ sJob' = [sJob EXCEPT ![p] = [restores |-> TRUE, of |-> v]]
        /\ sAt' = [sAt EXCEPT ![p] = "replace"]
    BY <1>t DEF Script!BeginRestore, Script!files, Script!Free, ToolsWorkAlone, ScriptTypes
  <1>v. v \in Versions /\ BackupOf(v) BY <1>0, <1>t DEF ScriptTypes, BackupOf
  <1> HIDE DEF v
  <1>n. sManifests' # <<>> /\ sManifests'[Len(sManifests')] = v BY <1>0 DEF v
  <1>a. /\ \A q \in Tools : sAt'[q] = IF q = p THEN "replace" ELSE "idle"
        /\ sJob'[p].of = v /\ sJob'[p].restores
        /\ sAt' \in [Tools -> ScriptPlaces]
        /\ sJob' \in [Tools -> [restores : BOOLEAN, of : Versions \cup {0}]]
    BY <1>0, <1>t, <1>v DEF ScriptTypes, ScriptPlaces
  <1>1. ScriptTypes' BY <1>t, <1>0, <1>a DEF ScriptTypes
  <1>2. BackupsStand' BY <1>t, <1>0 DEF BackupsStand, BackupOf
  <1>3. ToolStands(p)'
    BY <1>a, <1>0, <1>v, <1>n DEF ToolStands, BackupOf, NamedLast
  <1>4. ToolsStand' BY <1>a, <1>0, <1>3 DEF ToolsStand, ScriptInv
  <1>5. PatchedStands' BY <1>0 DEF ScriptInv, PatchedStands, BackupOf, NamedLast
  <1> QED BY <1>1, <1>2, <1>4, <1>5 DEF ScriptInv

(* The spare file is opened for the new text.                              *)
LEMMA OpenSpareKeeps == ASSUME ScriptInv, NEW p \in Tools, Script!OpenSpare(p) PROVE ScriptInv'
  <1>t. ScriptTypes /\ BackupsStand /\ sAt[p] = "replace" BY DEF ScriptInv, Script!OpenSpare
  <1> DEFINE v == sJob[p].of
             text == Script!Text(p)
             f == Script!File(text, {p})
  <1>p. ToolStands(p) BY <1>t DEF ScriptInv, ToolsStand
  <1>b. v \in Versions /\ text \in Texts
    <2>1. v \in Versions BY <1>p, <1>t DEF ToolStands
    <2> QED BY <2>1, TextsDiffer DEF Script!Text
  <1>f. f \in ScriptFiles BY <1>b, FilesOf
  <1>g. sSpare.by \subseteq {"gone"} BY <1>t, OthersRest DEF ScriptInv, ToolsStand
  <1>o. Script!Opened(sSpare, p, text) = f
    BY <1>g DEF Script!Opened
  <1>u. UNCHANGED <<sFaults, sScript, sBackups, sManifests>>
    BY DEF Script!OpenSpare
  <1>1. CASE sSpare' = f /\ Script!Goes(p, "spare")
    <2>a. /\ \A q \in Tools : sAt'[q] = IF q = p THEN "spare" ELSE "idle"
          /\ sAt' \in [Tools -> ScriptPlaces] /\ sJob' = sJob
          /\ \A q, r \in Tools : sAt'[q] # "idle" /\ sAt'[r] # "idle" => q = r
      BY <1>t, <1>1, ToolMoves DEF ScriptPlaces
    <2>b. sSpare'.by = {p} BY <1>1, <1>b, FilesOf
    <2>1. ScriptTypes' BY <1>t, <1>u, <1>f, <1>1, <2>a DEF ScriptTypes
    <2>2. BackupsStand' BY <1>t, <1>u, OthersRest DEF BackupsStand, BackupOf
    <2>3. ToolStands(p)'
      BY <1>t, <1>p, <1>u, <1>1, <2>a DEF ToolStands, BackupOf, NamedLast, Script!Text
    <2>4. ToolsStand' BY <2>a, <2>b, <2>3 DEF ToolsStand
    <2>5. PatchedStands' BY <1>u DEF ScriptInv, PatchedStands, BackupOf, NamedLast
    <2> QED BY <2>1, <2>2, <2>4, <2>5 DEF ScriptInv
  <1>2. CASE sSpare' = sSpare /\ Script!Ends(p)
    <2>a. /\ \A q \in Tools : sAt'[q] = "idle"
          /\ sAt' \in [Tools -> ScriptPlaces]
          /\ sJob' \in [Tools -> [restores : BOOLEAN, of : Versions \cup {0}]]
      BY <1>t, <1>2, ToolMoves DEF ScriptPlaces
    <2>1. ScriptTypes' BY <1>t, <1>u, <1>2, <2>a DEF ScriptTypes
    <2>2. BackupsStand' BY <1>t, <1>u, OthersRest DEF BackupsStand, BackupOf
    <2>4. ToolsStand' BY <1>g, <1>2, <2>a DEF ToolsStand
    <2>5. PatchedStands' BY <1>u DEF ScriptInv, PatchedStands, BackupOf, NamedLast
    <2> QED BY <2>1, <2>2, <2>4, <2>5 DEF ScriptInv
  <1> QED BY <1>o, <1>1, <1>2 DEF Script!OpenSpare

(* The spare file is closed: it holds the new text.                        *)
LEMMA CloseSpareKeeps == ASSUME ScriptInv, NEW p \in Tools, Script!CloseSpare(p) PROVE ScriptInv'
  <1>t. ScriptTypes /\ BackupsStand /\ sAt[p] \in {"spare", "undo"}
    BY DEF ScriptInv, Script!CloseSpare
  <1> DEFINE v == sJob[p].of
             text == IF sAt[p] = "spare" THEN Script!Text(p) ELSE Script!Original(v)
             where == IF sAt[p] = "spare" THEN "move" ELSE "move back"
             f == Script!File(text, {})
             g == Script!File(text, {p})
  <1>p. ToolStands(p) BY <1>t DEF ScriptInv, ToolsStand
  <1>b. v \in Versions /\ text \in Texts
    <2>1. v \in Versions BY <1>p, <1>t DEF ToolStands
    <2> QED BY <2>1, TextsDiffer DEF Script!Text
  <1>g. sSpare = g BY <1>p, <1>t DEF ToolStands
  <1>f. f \in ScriptFiles /\ f.by = {} BY <1>b, FilesOf
  <1>o. Script!Closed(g, p) = f BY DEF Script!Closed, Script!File
  <1>s. Script!Closed(sScript, p) = sScript BY <1>t DEF Script!Closed, ScriptTypes
  <1>u. /\ UNCHANGED <<sFaults, sScript, sBackups, sManifests>> /\ sSpare' = f
        /\ Script!Goes(p, where)
    BY <1>s, <1>o, <1>g DEF Script!CloseSpare
  <1>a. /\ \A q \in Tools : sAt'[q] = IF q = p THEN where ELSE "idle"
        /\ sAt' \in [Tools -> ScriptPlaces] /\ sJob' = sJob
        /\ \A q, r \in Tools : sAt'[q] # "idle" /\ sAt'[r] # "idle" => q = r
    <2>1. where \in ScriptPlaces /\ where # "idle" BY DEF ScriptPlaces
    <2> QED BY <1>t, <1>u, <2>1, ToolMoves
  <1>1. ScriptTypes' BY <1>t, <1>u, <1>f, <1>a DEF ScriptTypes
  <1>2. BackupsStand' BY <1>t, <1>u, OthersRest DEF BackupsStand, BackupOf
  <1>3. ToolStands(p)'
    BY <1>t, <1>p, <1>u, <1>a DEF ToolStands, BackupOf, NamedLast, Script!Text
  <1>4. ToolsStand' BY <1>a, <1>f, <1>u, <1>3 DEF ToolsStand
  <1>5. PatchedStands' BY <1>u DEF ScriptInv, PatchedStands, BackupOf, NamedLast
  <1> QED BY <1>1, <1>2, <1>4, <1>5 DEF ScriptInv

(* The script is replaced, or the replacement is refused.                  *)
LEMMA MoveKeeps == ASSUME ScriptInv, NEW p \in Tools, Script!Move(p) PROVE ScriptInv'
  <1>t. ScriptTypes /\ BackupsStand /\ sAt[p] = "move" BY DEF ScriptInv, Script!Move
  <1> DEFINE v == sJob[p].of
             text == Script!Text(p)
             f == Script!File(text, {})
  <1>p. ToolStands(p) BY <1>t DEF ScriptInv, ToolsStand
  <1>b. v \in Versions /\ BackupOf(v) /\ NamedLast(v) /\ sSpare = f
    BY <1>p, <1>t DEF ToolStands
  <1>x. /\ text \in Texts /\ text.kind \in {"original", "patched"}
        /\ text = IF sJob[p].restores THEN Script!Original(v) ELSE Script!Patched(v)
    BY <1>b, TextsDiffer DEF Script!Text
  <1>f. f \in [text : Texts, by : {{}}] /\ f.text = text
    BY <1>x DEF Script!File
  <1>u. UNCHANGED <<sFaults, sBackups, sManifests>> BY DEF Script!Move
  <1>2. BackupsStand' BY <1>t, <1>u, OthersRest DEF BackupsStand, BackupOf
  <1>0. PICK where \in {"idle", "verify"} :
          /\ \/ Script!Goes(p, where)
             \/ where = "idle" /\ Script!Ends(p)
          /\ sSpare' = Script!Nothing
          /\ \/ sScript' = f /\ (where = "verify" <=> ~sJob[p].restores)
             \/ sScript' = sScript /\ where = "idle"
    <2>1. \/ Script!Moved /\ (IF sJob[p].restores THEN Script!Ends(p) ELSE Script!Goes(p, "verify"))
          \/ sScript' = sScript /\ sSpare' = Script!Nothing /\ Script!Ends(p)
      BY DEF Script!Move
    <2>2. CASE /\ Script!Moved
               /\ (IF sJob[p].restores THEN Script!Ends(p) ELSE Script!Goes(p, "verify"))
      <3>1. sScript' = f /\ sSpare' = Script!Nothing BY <1>b, <2>2 DEF Script!Moved
      <3>2. CASE sJob[p].restores BY <2>2, <3>1, <3>2
      <3>3. CASE ~sJob[p].restores BY <2>2, <3>1, <3>3
      <3> QED BY <3>2, <3>3
    <2>3. CASE sScript' = sScript /\ sSpare' = Script!Nothing /\ Script!Ends(p) BY <2>3
    <2> QED BY <2>1, <2>2, <2>3
  <1>a. /\ \A q \in Tools : sAt'[q] = IF q = p THEN where ELSE "idle"
        /\ sAt' \in [Tools -> ScriptPlaces] /\ (where # "idle" => sJob' = sJob)
        /\ sJob' \in [Tools -> [restores : BOOLEAN, of : Versions \cup {0}]]
        /\ \A q, r \in Tools : sAt'[q] # "idle" /\ sAt'[r] # "idle" => q = r
    <2>1. sAt[p] # "idle" BY <1>t
    <2>2. where \in ScriptPlaces BY DEF ScriptPlaces
    <2>3. Script!Goes(p, where) \/ (where = "idle" /\ Script!Ends(p)) BY <1>0
    <2> QED BY <1>t, <2>1, <2>2, <2>3, ToolMoves
  <1> HIDE DEF f, text
  <1>1. ScriptTypes' BY <1>t, <1>u, <1>0, <1>a, <1>f, <1>x, FilesOf DEF ScriptTypes
  <1>3. where # "idle" => ToolStands(p)'
    BY <1>u, <1>0, <1>a, <1>b, <1>f, <1>x DEF ToolStands, BackupOf, NamedLast
  <1>4. ToolsStand' BY <1>0, <1>a, <1>3, FilesOf DEF ToolsStand
  <1>5. PatchedStands'
    <2>1. CASE sScript' = f
      <3>1. ASSUME NEW w \in Versions, text = Script!Patched(w) PROVE w = v
        <4>1. Script!Original(v) # Script!Patched(w) BY <1>b, TextsDiffer
        <4>2. Script!Patched(v).of = v /\ Script!Patched(w).of = w BY <1>b, TextsDiffer
        <4> QED BY <1>x, <3>1, <4>1, <4>2
      <3> QED BY <1>u, <1>b, <1>f, <2>1, <3>1 DEF PatchedStands, BackupOf, NamedLast
    <2>2. CASE sScript' = sScript
      BY <1>u, <2>2 DEF ScriptInv, PatchedStands, BackupOf, NamedLast
    <2> QED BY <1>0, <2>1, <2>2
  <1> QED BY <1>1, <1>2, <1>4, <1>5 DEF ScriptInv

(* What was replaced is read, and put back where it is not what it should. *)
LEMMA VerifyKeeps == ASSUME ScriptInv, NEW p \in Tools, Script!Verify(p) PROVE ScriptInv'
  <1>t. ScriptTypes /\ BackupsStand /\ sAt[p] = "verify" BY DEF ScriptInv, Script!Verify
  <1> DEFINE v == sJob[p].of
             text == Script!Original(v)
             f == Script!File(text, {p})
  <1>p. ToolStands(p) BY <1>t DEF ScriptInv, ToolsStand
  <1>b. v \in Versions /\ text \in Texts /\ ~sJob[p].restores
    BY <1>p, <1>t, TextsDiffer DEF ToolStands
  <1>f. f \in ScriptFiles /\ f.by = {p} BY <1>b, FilesOf
  <1>g. sSpare.by \subseteq {"gone"} BY <1>t, OthersRest DEF ScriptInv, ToolsStand
  <1>o. Script!Opened(sSpare, p, text) = f BY <1>g DEF Script!Opened
  <1>u. UNCHANGED <<sFaults, sScript, sBackups, sManifests>> BY DEF Script!Verify
  <1>2. BackupsStand' BY <1>t, <1>u, OthersRest DEF BackupsStand, BackupOf
  <1>5. PatchedStands' BY <1>u DEF ScriptInv, PatchedStands, BackupOf, NamedLast
  <1>c. CASE sSpare' = sSpare /\ Script!Ends(p)
    <2>a. /\ \A q \in Tools : sAt'[q] = "idle"
          /\ sAt' \in [Tools -> ScriptPlaces]
          /\ sJob' \in [Tools -> [restores : BOOLEAN, of : Versions \cup {0}]]
      BY <1>t, <1>c, ToolMoves DEF ScriptPlaces
    <2>1. ScriptTypes' BY <1>t, <1>u, <1>c, <2>a DEF ScriptTypes
    <2>2. ToolsStand' BY <1>g, <1>c, <2>a DEF ToolsStand
    <2> QED BY <1>2, <1>5, <2>1, <2>2 DEF ScriptInv
  <1>d. CASE /\ ~Script!Holds(sScript, Script!Text(p))
             /\ sSpare' = f /\ Script!Goes(p, "undo")
    <2>a. /\ \A q \in Tools : sAt'[q] = IF q = p THEN "undo" ELSE "idle"
          /\ sAt' \in [Tools -> ScriptPlaces] /\ sJob' = sJob
          /\ \A q, r \in Tools : sAt'[q] # "idle" /\ sAt'[r] # "idle" => q = r
      BY <1>t, <1>d, ToolMoves DEF ScriptPlaces
    <2>b. sScript.by = {} /\ sScript.text.kind \in {"original", "patched"}
      BY <1>t DEF ScriptTypes
    <2>c. sScript.text # Script!Patched(v)
      BY <1>d, <1>b, <2>b DEF Script!Holds, Script!Whole, Script!Text
    <2>d. sScript.text.kind = "original" BY <1>t, <1>p, <1>b, <2>c DEF ToolStands
    <2>1. ScriptTypes' BY <1>t, <1>u, <1>d, <1>f, <2>a DEF ScriptTypes
    <2>3. ToolStands(p)'
      BY <1>t, <1>p, <1>u, <1>b, <1>d, <2>a, <2>d DEF ToolStands, BackupOf, NamedLast
    <2>4. ToolsStand' BY <1>d, <1>f, <2>a, <2>3 DEF ToolsStand
    <2> QED BY <1>2, <1>5, <2>1, <2>4 DEF ScriptInv
  <1> QED
    <2>1. CASE Script!Holds(sScript, Script!Text(p)) BY <2>1, <1>c DEF Script!Verify
    <2>2. CASE ~Script!Holds(sScript, Script!Text(p)) BY <2>2, <1>o, <1>d DEF Script!Verify
    <2> QED BY <2>1, <2>2

(* The original is put back, or is not.                                    *)
LEMMA MoveBackKeeps == ASSUME ScriptInv, NEW p \in Tools, Script!MoveBack(p) PROVE ScriptInv'
  <1>t. ScriptTypes /\ BackupsStand /\ sAt[p] = "move back" BY DEF ScriptInv, Script!MoveBack
  <1> DEFINE v == sJob[p].of
             text == Script!Original(v)
             f == Script!File(text, {})
  <1>p. ToolStands(p) BY <1>t DEF ScriptInv, ToolsStand
  <1>b. /\ v \in Versions /\ sSpare = f
        /\ text \in Texts /\ text.kind = "original"
    BY <1>p, <1>t, TextsDiffer DEF ToolStands
  <1>f. f \in [text : Texts, by : {{}}] /\ f.text = text
    BY <1>b DEF Script!File
  <1>u. /\ UNCHANGED <<sFaults, sBackups, sManifests>> /\ Script!Ends(p)
        /\ sSpare' = Script!Nothing /\ sScript' \in {sScript, f}
    BY <1>b DEF Script!MoveBack, Script!Moved
  <1>a. /\ \A q \in Tools : sAt'[q] = "idle"
        /\ sAt' \in [Tools -> ScriptPlaces]
        /\ sJob' \in [Tools -> [restores : BOOLEAN, of : Versions \cup {0}]]
    BY <1>t, <1>u, ToolMoves DEF ScriptPlaces
  <1>n. \A w \in Versions : text # Script!Patched(w) BY <1>b, TextsDiffer
  <1> HIDE DEF f, text
  <1>1. ScriptTypes' BY <1>t, <1>b, <1>u, <1>a, <1>f, FilesOf DEF ScriptTypes
  <1>2. BackupsStand' BY <1>t, <1>u, OthersRest DEF BackupsStand, BackupOf
  <1>3. ToolsStand' BY <1>u, <1>a, FilesOf DEF ToolsStand
  <1>4. PatchedStands'
    BY <1>u, <1>f, <1>n DEF ScriptInv, PatchedStands, BackupOf, NamedLast
  <1> QED BY <1>1, <1>2, <1>3, <1>4 DEF ScriptInv

(* A program ends half-way.                                                *)
LEMMA ToolCrashKeeps ==
  ASSUME ToolsWorkAlone, ScriptInv, NEW p \in Tools, Script!Crash(p) PROVE ScriptInv'
  <1>t. /\ ScriptTypes /\ BackupsStand /\ sAt[p] \notin {"idle", "backup"} /\ Script!Ends(p)
        /\ UNCHANGED <<sFaults, sManifests>>
    BY DEF ScriptInv, ScriptTypes, Script!Crash, ToolsWorkAlone
  <1>0. /\ sScript' = Script!Lost(sScript, p) /\ sSpare' = Script!Lost(sSpare, p)
        /\ sBackups' = [v \in Versions |-> Script!Lost(sBackups[v], p)]
    BY DEF Script!Crash
  <1>a. /\ \A q \in Tools : sAt'[q] = "idle"
        /\ sAt' \in [Tools -> ScriptPlaces]
        /\ sJob' \in [Tools -> [restores : BOOLEAN, of : Versions \cup {0}]]
    BY <1>t, ToolMoves DEF ScriptPlaces
  <1>s. sScript' = sScript BY <1>t, <1>0 DEF Script!Lost, ScriptTypes
  <1>e. \A v \in Versions : sBackups[v] = Script!Nothing \/ BackupOf(v)
    <2>1. \A q \in Tools : sAt[q] # "backup" BY <1>t, OthersRest
    <2> QED BY <1>t, <2>1 DEF BackupsStand
  <1>b. sBackups' = sBackups
    <2>1. \A v \in Versions : sBackups[v] \in ScriptFiles /\ sBackups[v].by = {}
      BY <1>t, <1>e, FilesOf DEF ScriptTypes, BackupOf, Script!Holds, Script!Whole
    <2>2. \A v \in Versions : Script!Lost(sBackups[v], p) = sBackups[v]
      BY <2>1 DEF Script!Lost, ScriptFiles
    <2> QED BY <1>t, <1>0, <2>2 DEF ScriptTypes
  <1>g. sSpare' \in ScriptFiles /\ sSpare'.by \subseteq {"gone"}
    <2>1. sSpare \in ScriptFiles BY <1>t DEF ScriptTypes
    <2>2. sSpare.by \subseteq {"gone", p} BY <1>t, OthersRest DEF ScriptInv, ToolsStand
    <2> QED BY <1>0, <2>1, <2>2 DEF Script!Lost, ScriptFiles
  <1>1. ScriptTypes' BY <1>t, <1>s, <1>b, <1>g, <1>a DEF ScriptTypes
  <1>2. BackupsStand' BY <1>b, <1>e DEF BackupsStand, BackupOf
  <1>3. ToolsStand' BY <1>g, <1>a DEF ToolsStand
  <1>4. PatchedStands'
    BY <1>t, <1>s, <1>b DEF ScriptInv, PatchedStands, BackupOf, NamedLast
  <1> QED BY <1>1, <1>2, <1>3, <1>4 DEF ScriptInv

(* The client brings its next script.                                      *)
LEMMA ScriptUpdateKeeps == ASSUME ScriptInv, Script!Update PROVE ScriptInv'
  <1>t. ScriptTypes /\ BackupsStand BY DEF ScriptInv
  <1>0. PICK v \in Versions : sScript' = Script!File(Script!Original(v), {})
    BY DEF Script!Update
  <1>u. UNCHANGED <<sFaults, sSpare, sBackups, sManifests, sAt, sJob>>
    BY DEF Script!Update
  <1>s. /\ sScript' = [text |-> Script!Original(v), by |-> {}]
        /\ sScript'.text = Script!Original(v) /\ Script!Original(v) \in Texts
        /\ sScript'.text.kind = "original"
    BY <1>0, TextsDiffer DEF Script!File
  <1>1. ScriptTypes' BY <1>t, <1>u, <1>s DEF ScriptTypes
  <1>2. BackupsStand' BY <1>t, <1>u DEF BackupsStand, BackupOf
  <1>3. ASSUME NEW p \in Tools, sAt[p] # "idle" PROVE ToolStands(p)'
    <2>1. ToolStands(p) BY <1>3 DEF ScriptInv, ToolsStand
    <2> QED BY <1>u, <1>s, <2>1 DEF ToolStands, BackupOf, NamedLast, Script!Text
  <1>4. ToolsStand' BY <1>u, <1>3 DEF ScriptInv, ToolsStand
  <1>5. PatchedStands' BY <1>s, TextsDiffer DEF PatchedStands
  <1> QED BY <1>1, <1>2, <1>4, <1>5 DEF ScriptInv

(* No step of the script breaks it.                                        *)
LEMMA ScriptStep == ASSUME ToolsWorkAlone, ScriptInv, [Script!Next]_scriptVars PROVE ScriptInv'
  <1>1. CASE Script!Update BY <1>1, ScriptUpdateKeeps
  <1>2. ASSUME NEW p \in Tools, Script!Step(p) PROVE ScriptInv'
    <2>1. CASE Script!BeginApply(p) \/ Script!OpenBackup(p) \/ Script!CloseBackup(p)
      BY <2>1, BeginApplyKeeps, OpenBackupKeeps, CloseBackupKeeps
    <2>2. CASE Script!DraftManifest(p) \/ Script!ForgetManifest(p) \/ Script!PlaceManifest(p)
      BY <2>2, ManifestKeeps
    <2>3. CASE Script!BeginRestore(p) BY <2>3, BeginRestoreKeeps
    <2>4. CASE \/ Script!OpenSpare(p) \/ Script!CloseSpare(p) \/ Script!Move(p)
               \/ Script!Verify(p) \/ Script!MoveBack(p)
      BY <2>4, OpenSpareKeeps, CloseSpareKeeps, MoveKeeps, VerifyKeeps, MoveBackKeeps
    <2> QED BY <1>2, <2>1, <2>2, <2>3, <2>4 DEF Script!Step
  <1>3. ASSUME NEW p \in Tools, Script!Crash(p) PROVE ScriptInv'
    BY <1>3, ToolCrashKeeps
  <1>4. CASE UNCHANGED scriptVars
    <2>1. UNCHANGED <<sFaults, sScript, sSpare, sBackups, sManifests, sAt, sJob>>
      BY <1>4 DEF scriptVars
    <2> QED BY <2>1 DEF ScriptInv, ScriptTypes, BackupsStand, ToolsStand, ToolStands,
                        PatchedStands, BackupOf, NamedLast, Script!Text
  <1> QED BY <1>1, <1>2, <1>3, <1>4 DEF Script!Next

(* Whatever ends half-way, and whatever scripts the client's updates       *)
(* bring, the original of a patched script is kept and named by the        *)
(* manifest a restore would take, and the client has a whole script        *)
(* (platform.rs prepare_persistent_profile, restore_profile_patch), for    *)
(* any number of programs, versions and runs, as long as one works at a    *)
(* time and no backup is cut off by a crash.                               *)
THEOREM OriginalStaysKept == ASSUME ToolsWorkAlone PROVE MCSpec => []OriginalIsKept
  <1> DEFINE Inv == focus = "script" => ScriptInv
  <1>1. MCInit => Inv BY ScriptStart
  <1>2. Inv /\ [MCNext]_mcVars => Inv'
    <2> SUFFICES ASSUME Inv, [MCNext]_mcVars, focus' = "script" PROVE ScriptInv'
      OBVIOUS
    <2>1. focus = "script" BY Steps
    <2> QED BY <2>1, Steps, ScriptStep
  <1>3. Inv => OriginalIsKept
    <2> SUFFICES ASSUME ScriptInv PROVE Script!OriginalIsKept BY DEF OriginalIsKept
    <2>1. Script!Whole(sScript) BY DEF ScriptInv, ScriptTypes, Script!Whole
    <2> QED BY <2>1 DEF ScriptInv, PatchedStands, BackupOf, NamedLast, Script!OriginalIsKept
  <1> QED BY <1>1, <1>2, <1>3, PTL DEF MCSpec, mcVars

-----------------------------------------------------------------------------
(* The runs of an activity.                                                *)

(* What makes the safety properties inductive.                             *)

(* The loop prepares claimed runs only; nobody else touches them.          *)
BatchPrepares == \A k \in batch : run[k].state = "preparing"

(* An outcome that is about to be told is the one the queue has settled    *)
(* on, and a settled row does not change.                                  *)
ToldIsSettled == \A k \in Keys : told[k] # "none" => told[k] = status[k]

SuccessWasSent == \A k \in Keys : status[k] = "succeeded" => sent[k] = 1

(* A plan that is about to be saved has nothing behind it.                 *)
DraftStartsAtNext == draft.from = draft.next

(* A process that is down has no batch that its restart could take away.   *)
DownIsIdle == ~up => batch = {}

RunInv ==
    /\ BatchPrepares
    /\ ToldIsSettled
    /\ SuccessWasSent
    /\ RunAndEffectAgree
    /\ OutcomesAreTrue

PlanInv == DraftStartsAtNext /\ EveryMomentIsDecided

IInv == TypeOK /\ DownIsIdle /\ RunInv /\ PlanInv

-----------------------------------------------------------------------------
USE MomentAssumption, LimitAssumption
USE DEF Keys, queue, Plans, RunStates, Queue!Outcomes

LEMMA MomentsAreNumbers == \A m \in Moments : m \in Int /\ m # Never
  OBVIOUS

(* A non-empty set of natural numbers has a least element.                 *)
LEMMA LeastMoment ==
  ASSUME NEW S \in SUBSET Nat, S # {}
  PROVE  \E t \in S : \A u \in S : t <= u
  <1>1. PICK t \in S : \A u \in S : <<u, t>> \notin OpToRel(<, Nat)
    BY NatLessThanWellFounded, WFMin, Zenon
  <1>2. \A u \in S : ~(u < t)
    BY <1>1, Zenon DEF OpToRel
  <1>3. \A u \in S : t <= u
    BY <1>2
  <1> QED
    BY <1>3

(* The next occurrence is a planned moment after the given one with no     *)
(* planned moment in between, or none when the plan is over.               *)
LEMMA NextOccurrenceIsNext ==
  ASSUME NEW times \in SUBSET Moments, NEW after \in Int
  PROVE  /\ NextOccurrence(times, after) \in Moments \cup {Never}
         /\ NextOccurrence(times, after) = Never => \A t \in times : t <= after
         /\ NextOccurrence(times, after) # Never =>
               /\ NextOccurrence(times, after) > after
               /\ \A t \in times : t > after => NextOccurrence(times, after) <= t
  <1> DEFINE later == {t \in times : t > after}
  <1>1. times \subseteq Nat
    OBVIOUS
  <1>2. CASE later = {}
    <2>1. NextOccurrence(times, after) = Never
      BY <1>2 DEF NextOccurrence
    <2> QED
      BY <1>1, <1>2, <2>1
  <1>3. CASE later # {}
    <2>1. \E t \in later : \A u \in later : t <= u
      BY <1>1, <1>3, LeastMoment
    <2> DEFINE n == CHOOSE t \in later : \A u \in later : t <= u
    <2>2. n \in later /\ \A u \in later : n <= u
      BY <2>1, Zenon
    <2>3. NextOccurrence(times, after) = n
      BY <1>3 DEF NextOccurrence
    <2> HIDE DEF n
    <2>4. n \in Moments /\ n # Never /\ n > after
      BY <1>1, <2>2
    <2> QED
      BY <2>2, <2>3, <2>4
  <1> QED
    BY <1>2, <1>3

-----------------------------------------------------------------------------
(* Every step keeps the types.                                             *)
LEMMA TypeStep == TypeOK /\ [Next]_vars => TypeOK'
  <1> SUFFICES ASSUME TypeOK, [Next]_vars PROVE TypeOK'
    OBVIOUS
  <1> USE DEF TypeOK
  <1>1. ASSUME PrepareSave PROVE TypeOK'
    <2>1. PICK enabled \in BOOLEAN, times \in Plannings :
          LET next == IF enabled THEN NextOccurrence(times, now - 1) ELSE Never
          IN  draft' = [deleted |-> FALSE, enabled |-> enabled, times |-> times,
                        next |-> next, from |-> next]
      BY <1>1 DEF PrepareSave
    <2>2. times \in SUBSET Moments /\ now - 1 \in Int
      OBVIOUS
    <2>3. NextOccurrence(times, now - 1) \in Moments \cup {Never}
      BY <2>2, NextOccurrenceIsNext, Zenon
    <2>4. (draft \in Plans)'
      BY <2>1, <2>2, <2>3
    <2> QED
      BY <1>1, <2>4 DEF PrepareSave
  <1>2. ASSUME SaveActivity PROVE TypeOK'
    BY <1>2 DEF SaveActivity, NoActivity
  <1>3. ASSUME DeleteActivity PROVE TypeOK'
    BY <1>3 DEF DeleteActivity
  <1>4. ASSUME NEW token \in Tokens, AskPublish(token) PROVE TypeOK'
    BY <1>4 DEF AskPublish
  <1>5. ASSUME NEW token \in Tokens, PublishNow(token) PROVE TypeOK'
    BY <1>5 DEF PublishNow, InsertRuns
  <1>6. ASSUME Generate PROVE TypeOK'
    <2>1. ASSUME Due PROVE activity.next \in Moments /\ (Advance \in Plans)
      <3>1. activity.next \in Moments /\ activity.times \in SUBSET Moments
        BY <2>1 DEF Due
      <3>2. activity.next \in Int
        BY <3>1, MomentsAreNumbers, Zenon
      <3>3. NextOccurrence(activity.times, activity.next) \in Moments \cup {Never}
        BY <3>1, <3>2, NextOccurrenceIsNext, Zenon
      <3> QED
        BY <3>1, <3>3 DEF Advance
    <2>2. (activity \in Plans)'
      BY <1>6, <2>1 DEF Generate
    <2>3. (run \in [Keys -> [state : RunStates, at : Nat]])'
      <3>1. CASE UNCHANGED run
        BY <3>1
      <3>2. ASSUME NEW s \in {"pending", "missed"}, Due,
                    InsertRuns(activity.next, s, activity.next)
            PROVE  run' \in [Keys -> [state : RunStates, at : Nat]]
        BY <2>1, <3>2 DEF InsertRuns
      <3> QED
        BY <1>6, <3>1, <3>2 DEF Generate
    <2> QED
      BY <1>6, <2>2, <2>3 DEF Generate, At
  <1>7. ASSUME ClaimRuns PROVE TypeOK'
    <2>1. (run \in [Keys -> [state : RunStates, at : Nat]])'
      <3>1. CASE UNCHANGED run
        BY <3>1
      <3>2. ASSUME NEW taken \in SUBSET Open,
                    run' = [k \in Keys |-> IF k \in taken
                                           THEN [run[k] EXCEPT !.state = "preparing"]
                                           ELSE run[k]]
            PROVE  run' \in [Keys -> [state : RunStates, at : Nat]]
        <4>1. ASSUME NEW k \in Keys
              PROVE  /\ run[k] \in [state : RunStates, at : Nat]
                     /\ [run[k] EXCEPT !.state = "preparing"] \in [state : RunStates, at : Nat]
          OBVIOUS
        <4> QED
          BY <3>2, <4>1
      <3> QED
        BY <1>7, <3>1, <3>2 DEF ClaimRuns
    <2>2. /\ (place \in {"claim", "top", "prepare"} /\ batch \subseteq Keys)'
         /\ (place = "prepare" <=> batch # {})'
      BY <1>7 DEF ClaimRuns, At, Open
    <2> QED
      BY <1>7, <2>1, <2>2 DEF ClaimRuns
  <1>8. ASSUME NEW k \in Keys, QueueRun(k) PROVE TypeOK'
    <2>1. (run \in [Keys -> [state : RunStates, at : Nat]])'
      BY <1>8 DEF QueueRun
    <2>2. (place \in {"top", "claim", "prepare"} /\ batch \subseteq Keys)'
          /\ (place = "prepare" <=> batch # {})'
      BY <1>8 DEF QueueRun, At, Leave
    <2>3. (status \in [Keys -> {"absent", "waiting", "running"} \cup Queue!Outcomes])'
      BY <1>8 DEF QueueRun, Queue!Insert
    <2> QED
      BY <1>8, <2>1, <2>2, <2>3 DEF QueueRun, Queue!Insert
  <1>9. ASSUME NEW k \in Keys, GiveUpRun(k) PROVE TypeOK'
    <2>1. (run \in [Keys -> [state : RunStates, at : Nat]])'
      BY <1>9 DEF GiveUpRun
    <2>2. (place \in {"top", "claim", "prepare"} /\ batch \subseteq Keys)'
          /\ (place = "prepare" <=> batch # {})'
      BY <1>9 DEF GiveUpRun, At, Leave
    <2> QED
      BY <1>9, <2>1, <2>2 DEF GiveUpRun
  <1>10. ASSUME NEW k \in Keys, Dispatch(k) PROVE TypeOK'
    <2>1. CASE Queue!Start(k) \/ Queue!Postpone(k)
      BY <1>10, <2>1 DEF Dispatch, Queue!Start, Queue!Postpone
    <2>2. CASE Queue!Report(k)
      BY <1>10, <2>2 DEF Dispatch, Queue!Report
    <2>3. CASE Queue!Perform(k)
      BY <1>10, <2>3 DEF Dispatch, Queue!Perform
    <2> QED
      BY <1>10, <2>1, <2>2, <2>3 DEF Dispatch
  <1>11. ASSUME NEW k \in Keys, FollowUp(k) PROVE TypeOK'
    <2>1. told[k] \in RunStates /\ UNCHANGED <<status, sent>>
      BY <1>11 DEF FollowUp, Queue!Tell
    <2>2. (run \in [Keys -> [state : RunStates, at : Nat]])'
      BY <1>11, <2>1 DEF FollowUp
    <2>3. (told \in [Keys -> Queue!Outcomes \cup {"none"}])'
      BY <1>11 DEF FollowUp, Queue!Tell
    <2> QED
      BY <1>11, <2>1, <2>2, <2>3 DEF FollowUp
  <1>12. ASSUME Crash PROVE TypeOK'
    <2>1. NoActivity \in Plans
      BY DEF NoActivity
    <2> QED
      BY <1>12, <2>1 DEF Crash, Queue!Forget
  <1>13. ASSUME Restart PROVE TypeOK'
    <2>1. (run \in [Keys -> [state : RunStates, at : Nat]])'
      BY <1>13 DEF Restart
    <2>2. (status \in [Keys -> {"absent", "waiting", "running"} \cup Queue!Outcomes])'
      BY <1>13 DEF Restart, Queue!Recover
    <2> QED
      BY <1>13, <2>1, <2>2 DEF Restart, Queue!Recover
  <1>14. ASSUME Session PROVE TypeOK'
    BY <1>14 DEF Session
  <1>15. ASSUME Tick PROVE TypeOK'
    BY <1>15 DEF Tick
  <1>16. ASSUME UNCHANGED vars PROVE TypeOK'
    BY <1>16 DEF vars
  <1> QED
    BY <1>1, <1>2, <1>3, <1>4, <1>5, <1>6, <1>7, <1>8, <1>9, <1>10, <1>11, <1>12,
       <1>13, <1>14, <1>15, <1>16 DEF Next

(* A run that exists does not vanish.                                      *)
RunsStay == \A j \in Keys : run[j].state # "none" => run'[j].state # "none"

(* No step takes a run away.                                               *)
LEMMA RunsStayStep == TypeOK /\ [Next]_vars => RunsStay
  <1> SUFFICES ASSUME TypeOK, [Next]_vars PROVE RunsStay
    OBVIOUS
  <1> USE DEF TypeOK, RunsStay
  <1>1. ASSUME PrepareSave PROVE RunsStay
    BY <1>1 DEF PrepareSave
  <1>2. ASSUME SaveActivity PROVE RunsStay
    BY <1>2 DEF SaveActivity
  <1>3. ASSUME DeleteActivity PROVE RunsStay
    BY <1>3 DEF DeleteActivity
  <1>4. ASSUME NEW token \in Tokens, AskPublish(token) PROVE RunsStay
    BY <1>4 DEF AskPublish
  <1>5. ASSUME NEW token \in Tokens, PublishNow(token) PROVE RunsStay
    BY <1>5 DEF PublishNow, InsertRuns
  <1>6. ASSUME Generate PROVE RunsStay
    BY <1>6 DEF Generate, InsertRuns
  <1>7. ASSUME ClaimRuns PROVE RunsStay
    <2>1. CASE UNCHANGED run
      BY <2>1
    <2>2. ASSUME NEW taken \in SUBSET Open,
               run' = [k \in Keys |-> IF k \in taken
                                      THEN [run[k] EXCEPT !.state = "preparing"]
                                      ELSE run[k]]
        PROVE  \A j \in Keys : run[j].state # "none" => run'[j].state # "none"
      <3>1. ASSUME NEW j \in Keys PROVE run[j].state # "none" => run'[j].state # "none"
        BY <2>2
      <3> QED
        BY <3>1
    <2> QED
      BY <1>7, <2>1, <2>2 DEF ClaimRuns
  <1>8. ASSUME NEW k \in Keys, QueueRun(k) PROVE RunsStay
    BY <1>8 DEF QueueRun
  <1>9. ASSUME NEW k \in Keys, GiveUpRun(k) PROVE RunsStay
    BY <1>9 DEF GiveUpRun
  <1>10. ASSUME NEW k \in Keys, Dispatch(k) PROVE RunsStay
    BY <1>10 DEF Dispatch
  <1>11. ASSUME NEW k \in Keys, FollowUp(k) PROVE RunsStay
    BY <1>11 DEF FollowUp, Queue!Tell
  <1>12. ASSUME Crash PROVE RunsStay
    BY <1>12 DEF Crash
  <1>13. ASSUME Restart PROVE RunsStay
    BY <1>13 DEF Restart
  <1>14. ASSUME Session PROVE RunsStay
    BY <1>14 DEF Session
  <1>15. ASSUME Tick PROVE RunsStay
    BY <1>15 DEF Tick
  <1>16. ASSUME UNCHANGED vars PROVE RunsStay
    BY <1>16 DEF vars
  <1> QED
    BY <1>1, <1>2, <1>3, <1>4, <1>5, <1>6, <1>7, <1>8, <1>9, <1>10, <1>11, <1>12,
       <1>13, <1>14, <1>15, <1>16 DEF Next

(* No step passes a planned moment over.                                   *)
LEMMA PlanStep == TypeOK /\ PlanInv /\ [Next]_vars => PlanInv'
  <1> SUFFICES ASSUME TypeOK /\ PlanInv, [Next]_vars PROVE PlanInv'
    OBVIOUS
  <1>same. ASSUME UNCHANGED <<activity, draft>> PROVE PlanInv'
    <2>1. ASSUME activity.from # Never, NEW t \in activity.times, NEW g \in Groups,
                 t >= activity.from, activity.next = Never \/ t < activity.next
          PROVE  run'[<<t, g>>].state # "none"
      <3>1. <<t, g>> \in Keys /\ run[<<t, g>>].state # "none"
        BY <2>1 DEF PlanInv, EveryMomentIsDecided, TypeOK
      <3> QED
        BY <3>1, RunsStayStep DEF RunsStay
    <2>2. EveryMomentIsDecided'
      BY <1>same, <2>1 DEF EveryMomentIsDecided
    <2> QED
      BY <1>same, <2>2 DEF PlanInv, DraftStartsAtNext
  <1>1. ASSUME PrepareSave PROVE PlanInv'
    <2>1. PICK enabled \in BOOLEAN, times \in Plannings :
          LET next == IF enabled THEN NextOccurrence(times, now - 1) ELSE Never
          IN  draft' = [deleted |-> FALSE, enabled |-> enabled, times |-> times,
                        next |-> next, from |-> next]
      BY <1>1 DEF PrepareSave
    <2>2. DraftStartsAtNext'
      BY <2>1 DEF DraftStartsAtNext
    <2>3. EveryMomentIsDecided'
      BY <1>1 DEF PrepareSave, PlanInv, EveryMomentIsDecided
    <2> QED
      BY <2>2, <2>3 DEF PlanInv
  <1>2. ASSUME SaveActivity PROVE PlanInv'
    <2>1. DraftStartsAtNext'
      BY <1>2 DEF SaveActivity, DraftStartsAtNext, NoActivity
    <2>2. activity'.from = activity'.next /\ activity' \in Plans
      BY <1>2 DEF SaveActivity, PlanInv, DraftStartsAtNext, TypeOK
    <2>3. ASSUME activity'.from # Never, NEW t \in activity'.times
          PROVE  ~(t >= activity'.from /\ t < activity'.next)
      <3>1. activity'.from \in Moments /\ t \in Moments
        BY <2>2, <2>3
      <3>2. activity'.from \in Int /\ t \in Int
        BY <3>1, MomentsAreNumbers, Zenon
      <3> QED
        BY <2>2, <3>2
    <2>4. EveryMomentIsDecided'
      BY <2>2, <2>3 DEF EveryMomentIsDecided
    <2> QED
      BY <2>1, <2>4 DEF PlanInv
  <1>3. ASSUME DeleteActivity PROVE PlanInv'
    <2>1. DraftStartsAtNext'
      BY <1>3 DEF DeleteActivity, PlanInv, DraftStartsAtNext
    <2>2. activity'.from = Never
      BY <1>3 DEF DeleteActivity, TypeOK
    <2>3. EveryMomentIsDecided'
      BY <2>2 DEF EveryMomentIsDecided
    <2> QED
      BY <2>1, <2>3 DEF PlanInv
  <1>4. ASSUME NEW token \in Tokens, AskPublish(token) PROVE PlanInv'
    <2>1. UNCHANGED <<activity, draft>>
      BY <1>4 DEF AskPublish
    <2> QED
      BY <2>1, <1>same
  <1>5. ASSUME NEW token \in Tokens, PublishNow(token) PROVE PlanInv'
    <2>1. UNCHANGED <<activity, draft>>
      BY <1>5 DEF PublishNow
    <2> QED
      BY <2>1, <1>same
  <1>6. ASSUME Generate PROVE PlanInv'
    <2>1. UNCHANGED draft
      BY <1>6 DEF Generate
    <2>2. CASE UNCHANGED activity
      BY <2>1, <2>2, <1>same
    <2>3. CASE Due /\ activity' = Advance /\ InsertRuns(activity.next,
                    IF activity.next + Grace < now THEN "missed" ELSE "pending", activity.next)
      <3>1. activity.next \in Moments /\ activity.times \in SUBSET Moments /\ activity.next # Never
        BY <2>3 DEF Due, TypeOK
      <3>2. activity.next \in Int
        BY <3>1, MomentsAreNumbers, Zenon
      <3> DEFINE next == NextOccurrence(activity.times, activity.next)
      <3>3. next = Never => \A t \in activity.times : t <= activity.next
        BY <3>1, <3>2, NextOccurrenceIsNext, Zenon
      <3>4. next # Never => \A t \in activity.times : t > activity.next => next <= t
        BY <3>1, <3>2, NextOccurrenceIsNext, Zenon
      <3>5. next \in Moments \cup {Never}
        BY <3>1, <3>2, NextOccurrenceIsNext, Zenon
      <3>6. /\ activity'.next = next /\ activity'.from = activity.from
            /\ activity'.times = activity.times
        BY <2>3 DEF Advance, TypeOK
      <3> HIDE DEF next
      <3>7. ASSUME NEW t \in activity.times, next = Never \/ t < next
            PROVE  t <= activity.next
        <4>1. t \in Moments /\ t \in Int
          BY <3>1, MomentsAreNumbers
        <4>2. next # Never => next \in Int
          BY <3>5, MomentsAreNumbers, Zenon
        <4> QED
          BY <3>2, <3>3, <3>4, <3>7, <4>1, <4>2
      <3>8. ASSUME NEW t \in activity.times, NEW g \in Groups, t = activity.next
            PROVE  run'[<<t, g>>].state # "none"
        BY <2>3, <3>1, <3>8 DEF InsertRuns, TypeOK
      <3>9. ASSUME activity.from # Never, NEW t \in activity.times, NEW g \in Groups,
                   t >= activity.from, t < activity.next
            PROVE  run'[<<t, g>>].state # "none"
        <4>1. <<t, g>> \in Keys /\ run[<<t, g>>].state # "none"
          BY <3>1, <3>9 DEF PlanInv, EveryMomentIsDecided
        <4> QED
          BY <4>1, RunsStayStep DEF RunsStay
      <3>10. EveryMomentIsDecided'
        <4> SUFFICES ASSUME activity.from # Never, NEW t \in activity.times, NEW g \in Groups,
                            t >= activity.from, next = Never \/ t < next
                     PROVE  run'[<<t, g>>].state # "none"
          BY <3>6 DEF EveryMomentIsDecided
        <4>1. t \in Int /\ t <= activity.next
          BY <3>1, <3>7, MomentsAreNumbers
        <4>2. t = activity.next \/ t < activity.next
          BY <3>2, <4>1
        <4> QED
          BY <3>8, <3>9, <4>2
      <3> QED
        BY <2>1, <3>10 DEF PlanInv, DraftStartsAtNext
    <2> QED
      BY <1>6, <2>2, <2>3 DEF Generate
  <1>7. ASSUME ClaimRuns PROVE PlanInv'
    <2>1. UNCHANGED <<activity, draft>>
      BY <1>7 DEF ClaimRuns
    <2> QED
      BY <2>1, <1>same
  <1>8. ASSUME NEW k \in Keys, QueueRun(k) PROVE PlanInv'
    <2>1. UNCHANGED <<activity, draft>>
      BY <1>8 DEF QueueRun
    <2> QED
      BY <2>1, <1>same
  <1>9. ASSUME NEW k \in Keys, GiveUpRun(k) PROVE PlanInv'
    <2>1. UNCHANGED <<activity, draft>>
      BY <1>9 DEF GiveUpRun
    <2> QED
      BY <2>1, <1>same
  <1>10. ASSUME NEW k \in Keys, Dispatch(k) PROVE PlanInv'
    <2>1. UNCHANGED <<activity, draft>>
      BY <1>10 DEF Dispatch
    <2> QED
      BY <2>1, <1>same
  <1>11. ASSUME NEW k \in Keys, FollowUp(k) PROVE PlanInv'
    <2>1. UNCHANGED <<activity, draft>>
      BY <1>11 DEF FollowUp
    <2> QED
      BY <2>1, <1>same
  <1>12. ASSUME Crash PROVE PlanInv'
    <2>1. DraftStartsAtNext'
      BY <1>12 DEF Crash, DraftStartsAtNext, NoActivity
    <2>2. UNCHANGED <<activity, run>>
      BY <1>12 DEF Crash
    <2>3. EveryMomentIsDecided'
      BY <2>2 DEF PlanInv, EveryMomentIsDecided
    <2> QED
      BY <2>1, <2>3 DEF PlanInv
  <1>13. ASSUME Restart PROVE PlanInv'
    <2>1. UNCHANGED <<activity, draft>>
      BY <1>13 DEF Restart
    <2> QED
      BY <2>1, <1>same
  <1>14. ASSUME Session PROVE PlanInv'
    <2>1. UNCHANGED <<activity, draft>>
      BY <1>14 DEF Session
    <2> QED
      BY <2>1, <1>same
  <1>15. ASSUME Tick PROVE PlanInv'
    <2>1. UNCHANGED <<activity, draft>>
      BY <1>15 DEF Tick
    <2> QED
      BY <2>1, <1>same
  <1>16. ASSUME UNCHANGED vars PROVE PlanInv'
    BY <1>16 DEF vars, PlanInv, DraftStartsAtNext, EveryMomentIsDecided
  <1> QED
    BY <1>1, <1>2, <1>3, <1>4, <1>5, <1>6, <1>7, <1>8, <1>9, <1>10, <1>11, <1>12,
       <1>13, <1>14, <1>15, <1>16 DEF Next

(* No step of loop, queue or restart lets runs and effects disagree.       *)
LEMMA RunStep == TypeOK /\ DownIsIdle /\ RunInv /\ [Next]_vars => RunInv'
  <1> SUFFICES ASSUME TypeOK /\ DownIsIdle /\ RunInv, [Next]_vars PROVE RunInv'
    OBVIOUS
  <1>same. ASSUME UNCHANGED <<run, batch, status, sent, told>> PROVE RunInv'
    BY <1>same DEF RunInv, BatchPrepares, ToldIsSettled, SuccessWasSent,
                RunAndEffectAgree, OutcomesAreTrue
  <1>insert. ASSUME NEW moment, NEW s \in {"pending", "missed"}, NEW at,
                InsertRuns(moment, s, at), UNCHANGED <<batch, queue>>
         PROVE  RunInv'
    <2>1. \A k \in Keys : \/ run'[k] = run[k]
                          \/ run[k].state = "none" /\ run'[k].state = s
      BY <1>insert DEF InsertRuns
    <2>2. BatchPrepares'
      BY <1>insert, <2>1 DEF RunInv, BatchPrepares, TypeOK
    <2>3. (ToldIsSettled /\ SuccessWasSent)'
      BY <1>insert DEF RunInv, ToldIsSettled, SuccessWasSent
    <2>4. RunAndEffectAgree'
      BY <1>insert, <2>1 DEF RunInv, RunAndEffectAgree
    <2>5. OutcomesAreTrue'
      BY <1>insert, <2>1 DEF RunInv, OutcomesAreTrue
    <2> QED
      BY <2>2, <2>3, <2>4, <2>5 DEF RunInv
  <1>1. ASSUME PrepareSave PROVE RunInv'
    <2>1. UNCHANGED <<run, batch, status, sent, told>>
      BY <1>1 DEF PrepareSave
    <2> QED
      BY <2>1, <1>same
  <1>2. ASSUME SaveActivity PROVE RunInv'
    <2>1. UNCHANGED <<run, batch, status, sent, told>>
      BY <1>2 DEF SaveActivity
    <2> QED
      BY <2>1, <1>same
  <1>3. ASSUME DeleteActivity PROVE RunInv'
    <2>1. UNCHANGED <<run, batch, status, sent, told>>
      BY <1>3 DEF DeleteActivity
    <2> QED
      BY <2>1, <1>same
  <1>4. ASSUME NEW token \in Tokens, AskPublish(token) PROVE RunInv'
    <2>1. UNCHANGED <<run, batch, status, sent, told>>
      BY <1>4 DEF AskPublish
    <2> QED
      BY <2>1, <1>same
  <1>5. ASSUME NEW token \in Tokens, PublishNow(token) PROVE RunInv'
    BY <1>5, <1>insert DEF PublishNow
  <1>6. ASSUME Generate PROVE RunInv'
    <2>1. CASE UNCHANGED run
      BY <1>6, <2>1, <1>same DEF Generate
    <2>2. ASSUME NEW s \in {"pending", "missed"}, InsertRuns(activity.next, s, activity.next)
        PROVE  RunInv'
      BY <1>6, <2>2, <1>insert DEF Generate
    <2> QED
      BY <1>6, <2>1, <2>2 DEF Generate
  <1>7. ASSUME ClaimRuns PROVE RunInv'
    <2>1. CASE UNCHANGED <<run, batch>>
      BY <1>7, <2>1, <1>same DEF ClaimRuns
    <2>2. ASSUME NEW taken \in SUBSET Open, batch' = taken,
               run' = [k \in Keys |-> IF k \in taken
                                      THEN [run[k] EXCEPT !.state = "preparing"]
                                      ELSE run[k]]
        PROVE  RunInv'
      <3>1. ASSUME NEW k \in Keys
            PROVE  run'[k].state = IF k \in taken THEN "preparing" ELSE run[k].state
        BY <2>2
      <3>2. \A k \in taken : run[k].state \in {"pending", "retry"}
        BY DEF Open
      <3>3. UNCHANGED <<status, sent, told>>
        BY <1>7 DEF ClaimRuns
      <3>4. taken \subseteq Keys
        BY DEF Open
      <3>5. BatchPrepares'
        BY <2>2, <3>1, <3>4 DEF BatchPrepares
      <3>6. (ToldIsSettled /\ SuccessWasSent)'
        BY <3>3 DEF RunInv, ToldIsSettled, SuccessWasSent
      <3>7. RunAndEffectAgree'
        BY <3>1, <3>2, <3>3 DEF RunInv, RunAndEffectAgree
      <3>8. OutcomesAreTrue'
        BY <3>1, <3>3 DEF RunInv, OutcomesAreTrue
      <3> QED
        BY <3>5, <3>6, <3>7, <3>8 DEF RunInv
    <2> QED
      BY <1>7, <2>1, <2>2 DEF ClaimRuns
  <1>8. ASSUME NEW k \in Keys, QueueRun(k) PROVE RunInv'
    <2>1. /\ run[k].state = "preparing" /\ status[k] = "absent"
         /\ run' = [run EXCEPT ![k].state = "queued"]
         /\ status' = [status EXCEPT ![k] = "waiting"]
         /\ batch' = batch \ {k} /\ UNCHANGED <<sent, told>>
      BY <1>8 DEF QueueRun, Queue!Insert, Leave, RunInv, RunAndEffectAgree, TypeOK
    <2>2. \A j \in Keys : run'[j].state = IF j = k THEN "queued" ELSE run[j].state
      BY <2>1 DEF TypeOK
    <2>3. \A j \in Keys : status'[j] = IF j = k THEN "waiting" ELSE status[j]
      BY <2>1 DEF TypeOK
    <2>4. BatchPrepares'
      BY <2>1, <2>2 DEF RunInv, BatchPrepares, TypeOK
    <2>5. (ToldIsSettled /\ SuccessWasSent)'
      BY <2>1, <2>3 DEF RunInv, ToldIsSettled, SuccessWasSent, TypeOK
    <2>6. RunAndEffectAgree'
      BY <2>1, <2>2, <2>3 DEF RunInv, RunAndEffectAgree
    <2>7. OutcomesAreTrue'
      BY <2>1, <2>2, <2>3 DEF RunInv, OutcomesAreTrue
    <2> QED
      BY <2>4, <2>5, <2>6, <2>7 DEF RunInv
  <1>9. ASSUME NEW k \in Keys, GiveUpRun(k) PROVE RunInv'
    <2>1. /\ run[k].state = "preparing" /\ status[k] = "absent"
         /\ batch' = batch \ {k} /\ UNCHANGED <<status, sent, told>>
      BY <1>9 DEF GiveUpRun, Leave, RunInv, BatchPrepares, RunAndEffectAgree
    <2>2. run'[k].state \in {"failed", "preparing"} /\ \A j \in Keys \ {k} : run'[j] = run[j]
      BY <1>9, <2>1 DEF GiveUpRun, TypeOK
    <2>3. BatchPrepares'
      BY <2>1, <2>2 DEF RunInv, BatchPrepares, TypeOK
    <2>4. (ToldIsSettled /\ SuccessWasSent)'
      BY <2>1 DEF RunInv, ToldIsSettled, SuccessWasSent
    <2>5. RunAndEffectAgree'
      BY <2>1, <2>2 DEF RunInv, RunAndEffectAgree
    <2>6. OutcomesAreTrue'
      BY <2>1, <2>2 DEF RunInv, OutcomesAreTrue
    <2> QED
      BY <2>3, <2>4, <2>5, <2>6 DEF RunInv
  <1>10. ASSUME NEW k \in Keys, Dispatch(k) PROVE RunInv'
    <2>1. UNCHANGED <<run, batch>>
      BY <1>10 DEF Dispatch
    <2>2. CASE Queue!Start(k) \/ Queue!Postpone(k)
      BY <2>1, <2>2 DEF Queue!Start, Queue!Postpone, RunInv, BatchPrepares,
         ToldIsSettled, SuccessWasSent, RunAndEffectAgree, OutcomesAreTrue, TypeOK
    <2>3. CASE Queue!Report(k)
      <3>1. /\ status[k] = "running" /\ told[k] = "none"
            /\ status'[k] \in Queue!Outcomes /\ told'[k] \in {status'[k], "none"}
            /\ status'[k] = "succeeded" => sent[k] = 1
            /\ UNCHANGED sent
            /\ \A j \in Keys \ {k} : status'[j] = status[j] /\ told'[j] = told[j]
        BY <2>3 DEF Queue!Report, RunInv, ToldIsSettled, TypeOK
      <3>2. (BatchPrepares /\ ToldIsSettled /\ SuccessWasSent)'
        BY <2>1, <3>1 DEF RunInv, BatchPrepares, ToldIsSettled, SuccessWasSent
      <3>3. RunAndEffectAgree'
        BY <2>1, <3>1 DEF RunInv, RunAndEffectAgree
      <3>4. OutcomesAreTrue'
        BY <2>1, <3>1 DEF RunInv, OutcomesAreTrue
      <3> QED
        BY <3>2, <3>3, <3>4 DEF RunInv
    <2>4. CASE Queue!Perform(k)
      BY <2>1, <2>4 DEF Queue!Perform, RunInv, BatchPrepares, ToldIsSettled,
         SuccessWasSent, RunAndEffectAgree, OutcomesAreTrue, TypeOK
    <2> QED
      BY <1>10, <2>2, <2>3, <2>4 DEF Dispatch
  <1>11. ASSUME NEW k \in Keys, FollowUp(k) PROVE RunInv'
    <2>1. /\ told[k] \in Queue!Outcomes /\ status[k] = told[k] /\ k \notin batch
         /\ UNCHANGED <<batch, status, sent>>
      BY <1>11 DEF FollowUp, Queue!Tell, RunInv, ToldIsSettled, BatchPrepares,
         RunAndEffectAgree, TypeOK
    <2>2. \A j \in Keys : told'[j] = IF j = k THEN "none" ELSE told[j]
      BY <1>11 DEF FollowUp, Queue!Tell, TypeOK
    <2>3. run'[k].state \in {told[k], run[k].state} /\ \A j \in Keys \ {k} : run'[j] = run[j]
      BY <1>11 DEF FollowUp, TypeOK
    <2>4. BatchPrepares'
      BY <2>1, <2>3 DEF RunInv, BatchPrepares, TypeOK
    <2>5. (ToldIsSettled /\ SuccessWasSent)'
      BY <2>1, <2>2 DEF RunInv, ToldIsSettled, SuccessWasSent
    <2>6. RunAndEffectAgree'
      BY <2>1, <2>3 DEF RunInv, RunAndEffectAgree
    <2>7. OutcomesAreTrue'
      BY <2>1, <2>3 DEF RunInv, OutcomesAreTrue, SuccessWasSent
    <2> QED
      BY <2>4, <2>5, <2>6, <2>7 DEF RunInv
  <1>12. ASSUME Crash PROVE RunInv'
    BY <1>12 DEF Crash, Queue!Forget, RunInv, BatchPrepares, ToldIsSettled,
       SuccessWasSent, RunAndEffectAgree, OutcomesAreTrue, TypeOK
  <1>13. ASSUME Restart PROVE RunInv'
    <2>1. \A j \in Keys : /\ run'[j].state = IF run[j].state = "preparing" THEN "retry"
                                              ELSE run[j].state
                         /\ status'[j] = IF status[j] = "running" THEN "unknown"
                                                                ELSE status[j]
      BY <1>13 DEF Restart, Queue!Recover, TypeOK
    <2>2. UNCHANGED <<sent, told>> /\ batch' = {}
      BY <1>13 DEF Restart, Queue!Recover, TypeOK, RunInv, DownIsIdle
    <2>3. BatchPrepares'
      BY <2>2 DEF BatchPrepares
    <2>4. (ToldIsSettled /\ SuccessWasSent)'
      BY <2>1, <2>2 DEF RunInv, ToldIsSettled, SuccessWasSent, TypeOK
    <2>5. RunAndEffectAgree'
      BY <2>1 DEF RunInv, RunAndEffectAgree
    <2>6. OutcomesAreTrue'
      BY <2>1, <2>2 DEF RunInv, OutcomesAreTrue
    <2> QED
      BY <2>3, <2>4, <2>5, <2>6 DEF RunInv
  <1>14. ASSUME Session PROVE RunInv'
    <2>1. UNCHANGED <<run, batch, status, sent, told>>
      BY <1>14 DEF Session
    <2> QED
      BY <2>1, <1>same
  <1>15. ASSUME Tick PROVE RunInv'
    <2>1. UNCHANGED <<run, batch, status, sent, told>>
      BY <1>15 DEF Tick
    <2> QED
      BY <2>1, <1>same
  <1>16. ASSUME UNCHANGED vars PROVE RunInv'
    BY <1>16 DEF vars, RunInv, BatchPrepares, ToldIsSettled, SuccessWasSent,
       RunAndEffectAgree, OutcomesAreTrue
  <1> QED
    BY <1>1, <1>2, <1>3, <1>4, <1>5, <1>6, <1>7, <1>8, <1>9, <1>10, <1>11, <1>12,
       <1>13, <1>14, <1>15, <1>16 DEF Next

(* A process that is down holds no batch.                                  *)
LEMMA IdleStep == DownIsIdle /\ [Next]_vars => DownIsIdle'
  <1> SUFFICES ASSUME DownIsIdle, [Next]_vars PROVE DownIsIdle'
    OBVIOUS
  <1>1. ASSUME PrepareSave PROVE DownIsIdle'
    BY <1>1 DEF DownIsIdle, PrepareSave
  <1>2. ASSUME SaveActivity PROVE DownIsIdle'
    BY <1>2 DEF DownIsIdle, SaveActivity
  <1>3. ASSUME DeleteActivity PROVE DownIsIdle'
    BY <1>3 DEF DownIsIdle, DeleteActivity
  <1>4. ASSUME NEW token \in Tokens, AskPublish(token) PROVE DownIsIdle'
    BY <1>4 DEF DownIsIdle, AskPublish
  <1>5. ASSUME NEW token \in Tokens, PublishNow(token) PROVE DownIsIdle'
    BY <1>5 DEF DownIsIdle, PublishNow
  <1>6. ASSUME Generate PROVE DownIsIdle'
    BY <1>6 DEF DownIsIdle, Generate, At
  <1>7. ASSUME ClaimRuns PROVE DownIsIdle'
    BY <1>7 DEF DownIsIdle, ClaimRuns, At
  <1>8. ASSUME NEW k \in Keys, QueueRun(k) PROVE DownIsIdle'
    BY <1>8 DEF DownIsIdle, QueueRun, At, Leave
  <1>9. ASSUME NEW k \in Keys, GiveUpRun(k) PROVE DownIsIdle'
    BY <1>9 DEF DownIsIdle, GiveUpRun, At, Leave
  <1>10. ASSUME NEW k \in Keys, Dispatch(k) PROVE DownIsIdle'
    BY <1>10 DEF DownIsIdle, Dispatch
  <1>11. ASSUME NEW k \in Keys, FollowUp(k) PROVE DownIsIdle'
    BY <1>11 DEF DownIsIdle, FollowUp
  <1>12. ASSUME Crash PROVE DownIsIdle'
    BY <1>12 DEF DownIsIdle, Crash
  <1>13. ASSUME Restart PROVE DownIsIdle'
    BY <1>13 DEF DownIsIdle, Restart
  <1>14. ASSUME Session PROVE DownIsIdle'
    BY <1>14 DEF DownIsIdle, Session
  <1>15. ASSUME Tick PROVE DownIsIdle'
    BY <1>15 DEF DownIsIdle, Tick
  <1>16. ASSUME UNCHANGED vars PROVE DownIsIdle'
    BY <1>16 DEF vars, DownIsIdle
  <1> QED
    BY <1>1, <1>2, <1>3, <1>4, <1>5, <1>6, <1>7, <1>8, <1>9, <1>10, <1>11, <1>12,
       <1>13, <1>14, <1>15, <1>16 DEF Next

LEMMA InitInv == Init => IInv
  <1> SUFFICES ASSUME Init PROVE IInv
    OBVIOUS
  <1> USE DEF Init, NoActivity, Queue!Empty
  <1>1. TypeOK
    <2>1. run \in [Keys -> [state : RunStates, at : Nat]]
      OBVIOUS
    <2>2. activity \in Plans /\ draft \in Plans
      OBVIOUS
    <2>3. now \in 1..Horizon
      OBVIOUS
    <2>4. status \in [Keys -> {"absent", "waiting", "running"} \cup Queue!Outcomes]
      OBVIOUS
    <2>5. sent \in [Keys -> 0..1] /\ told \in [Keys -> Queue!Outcomes \cup {"none"}]
      OBVIOUS
    <2> QED
      BY <2>1, <2>2, <2>3, <2>4, <2>5 DEF TypeOK
  <1>2. DownIsIdle
    BY DEF DownIsIdle
  <1>3. RunInv
    BY DEF RunInv, BatchPrepares, ToldIsSettled, SuccessWasSent, RunAndEffectAgree,
           OutcomesAreTrue
  <1>4. PlanInv
    BY DEF PlanInv, DraftStartsAtNext, EveryMomentIsDecided
  <1> QED
    BY <1>1, <1>2, <1>3, <1>4 DEF IInv

THEOREM Inductive == Spec => []IInv
  <1>1. IInv /\ [Next]_vars => IInv'
    BY TypeStep, IdleStep, RunStep, PlanStep DEF IInv
  <1> QED
    BY InitInv, <1>1, PTL DEF Spec

(* Every reachable state is of the declared types.                         *)
THEOREM TypeCorrect == Spec => []TypeOK
  <1>1. IInv => TypeOK
    BY DEF IInv
  <1> QED
    BY Inductive, <1>1, PTL

(* A run is turned into an effect once (enqueue_activity_effect, prepare). *)
THEOREM RunsAndEffectsAgree == Spec => []RunAndEffectAgree
  <1>1. IInv => RunAndEffectAgree
    BY DEF IInv, RunInv
  <1> QED
    BY Inductive, <1>1, PTL

(* What a run says of its outcome is true (finish_activity_run).           *)
THEOREM OutcomesAreTold == Spec => []OutcomesAreTrue
  <1>1. IInv => OutcomesAreTrue
    BY DEF IInv, RunInv
  <1> QED
    BY Inductive, <1>1, PTL

(* No planned moment is passed over (generate_due_activity_runs).          *)
THEOREM NoMomentIsPassedOver == Spec => []EveryMomentIsDecided
  <1>1. IInv => EveryMomentIsDecided
    BY DEF IInv, PlanInv
  <1> QED
    BY Inductive, <1>1, PTL

-----------------------------------------------------------------------------
(* A row that still waits has not been executed; what starts or postpones  *)
(* it relies on that.                                                      *)
WaitingIsUnsent ==
    \A k \in Keys : status[k] \in {"absent", "waiting"} => sent[k] = 0

(* What a step of the activities may do to the queue.                      *)
QueueMoves ==
    \/ \E k \in Keys : \/ Queue!Insert(k) \/ Queue!Start(k) \/ Queue!Perform(k)
                       \/ Queue!Postpone(k) \/ Queue!Report(k)
    \/ Queue!Recover
    \/ UNCHANGED <<status, sent>>

(* Every step of the loop, the commands and the process is one of these    *)
(* moves or leaves the queue alone.                                        *)
LEMMA StepsMoveTheQueue == [Next]_vars => QueueMoves
  <1> SUFFICES ASSUME [Next]_vars PROVE QueueMoves
    OBVIOUS
  <1>1. CASE PrepareSave \/ SaveActivity \/ DeleteActivity \/ Generate \/ ClaimRuns \/ Session \/ Tick
             \/ UNCHANGED vars
    BY <1>1 DEF PrepareSave, SaveActivity, DeleteActivity, Generate, ClaimRuns, Session, Tick, vars,
                QueueMoves
  <1>2. CASE Crash \/ Restart
    BY <1>2 DEF Crash, Restart, Queue!Forget, QueueMoves
  <1>3. CASE \E token \in Tokens : AskPublish(token) \/ PublishNow(token)
    BY <1>3 DEF AskPublish, PublishNow, QueueMoves
  <1>4. CASE \E k \in Keys : QueueRun(k) \/ GiveUpRun(k) \/ Dispatch(k) \/ FollowUp(k)
    BY <1>4, Zenon DEF QueueRun, GiveUpRun, Dispatch, FollowUp, Queue!Tell, QueueMoves, queue
  <1> QED
    BY <1>1, <1>2, <1>3, <1>4 DEF Next

(* Each of the moves is a step of EffectDelivery; a recovery is one for    *)
(* every row at once.                                                      *)
LEMMA QueueMovesKeepToDelivery ==
    ASSUME TypeOK, WaitingIsUnsent, QueueMoves
    PROVE  WaitingIsUnsent' /\ [Queue!Delivery!Next]_<<status, sent>>
  <1> DEFINE Moves(j) == \/ Queue!Delivery!Rests(j)
                         \/ Queue!Delivery!Accept(j) \/ Queue!Delivery!Start(j)
                         \/ Queue!Delivery!Postpone(j) \/ Queue!Delivery!Send(j)
                         \/ Queue!Delivery!Report(j) \/ Queue!Delivery!Drop(j)
                         \/ Queue!Delivery!Grant(j)
             Typed == /\ status' \in [Keys -> Queue!Delivery!Statuses]
                      /\ sent' \in [Keys -> Nat]
  <1> USE DEF Queue!Delivery!Becomes, Queue!Delivery!Rests, Queue!Delivery!Accept,
              Queue!Delivery!Start, Queue!Delivery!Postpone, Queue!Delivery!Send,
              Queue!Delivery!Report, Queue!Delivery!Statuses, WaitingIsUnsent
  <1>0. /\ status \in [Keys -> {"absent", "waiting", "running"} \cup Queue!Outcomes]
        /\ sent \in [Keys -> 0..1]
    BY DEF TypeOK
  <1> SUFFICES WaitingIsUnsent' /\ (UNCHANGED <<status, sent>> \/ (Typed /\ \A j \in Keys : Moves(j)))
    BY DEF Queue!Delivery!Next
  <1>1. ASSUME NEW k \in Keys, Queue!Insert(k)
        PROVE  WaitingIsUnsent' /\ Typed /\ \A j \in Keys : Moves(j)
    BY <1>0, <1>1 DEF Queue!Insert
  <1>2. ASSUME NEW k \in Keys, Queue!Start(k)
        PROVE  WaitingIsUnsent' /\ Typed /\ \A j \in Keys : Moves(j)
    BY <1>0, <1>2 DEF Queue!Start
  <1>3. ASSUME NEW k \in Keys, Queue!Perform(k)
        PROVE  WaitingIsUnsent' /\ Typed /\ \A j \in Keys : Moves(j)
    BY <1>0, <1>3 DEF Queue!Perform
  <1>4. ASSUME NEW k \in Keys, Queue!Postpone(k)
        PROVE  WaitingIsUnsent' /\ Typed /\ \A j \in Keys : Moves(j)
    BY <1>0, <1>4 DEF Queue!Postpone
  <1>5. ASSUME NEW k \in Keys, Queue!Report(k)
        PROVE  WaitingIsUnsent' /\ Typed /\ \A j \in Keys : Moves(j)
    BY <1>0, <1>5 DEF Queue!Report
  <1>6. ASSUME Queue!Recover
        PROVE  WaitingIsUnsent' /\ Typed /\ \A j \in Keys : Moves(j)
    BY <1>0, <1>6 DEF Queue!Recover
  <1>7. ASSUME UNCHANGED <<status, sent>> PROVE WaitingIsUnsent'
    BY <1>7
  <1> QED
    BY <1>1, <1>2, <1>3, <1>4, <1>5, <1>6, <1>7 DEF QueueMoves

(* The loop uses the queue within what EffectDelivery promises: whatever   *)
(* it does with its runs, no effect of a run is executed twice, tried      *)
(* again after it was executed, or called succeeded without it             *)
(* (enqueue_activity_effect, recover_processing_effects).                  *)
THEOREM QueueIsUsedAsPromised == Spec => QueueKeepsToDelivery
  <1>1. Init => Queue!Delivery!Init /\ WaitingIsUnsent
    BY DEF Init, Queue!Empty, Queue!Delivery!Init, WaitingIsUnsent
  <1>2. TypeOK /\ WaitingIsUnsent /\ [Next]_vars
           => WaitingIsUnsent' /\ [Queue!Delivery!Next]_<<status, sent>>
    BY StepsMoveTheQueue, QueueMovesKeepToDelivery
  <1> QED
    BY <1>1, <1>2, TypeCorrect, PTL DEF Spec, QueueKeepsToDelivery, Queue!Delivery!Spec
=============================================================================
