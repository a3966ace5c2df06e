------------------------ MODULE ClientServicesProofs ------------------------
(***************************************************************************)
(* Proofs about services of MCLocalServices that deal with other programs, *)
(* for all values of the constants that are left open there: the           *)
(* capabilities proven on the client of the platform, the questions to the *)
(* models, and the rules of a group, some of which a model judges.         *)
(***************************************************************************)
EXTENDS MCLocalServices, Sequences, SequenceTheorems, FiniteSetTheorems, WellFoundedInduction, TLAPS

mcVars == <<focus, vars, writesVars, secretsVars, scriptVars, modelsVars, captureVars,
            drawsVars, rulingVars, pageVars, storageVars, intakeVars, ableVars, webVars, postsVars>>

(* A step of the whole is a step of one service at most.                   *)
LEMMA Steps ==
  ASSUME [MCNext]_mcVars
  PROVE  /\ UNCHANGED focus
         /\ focus = "able" => [Able!Next]_ableVars
         /\ focus = "models" => [Models!Next]_modelsVars
         /\ focus = "ruling" => [Ruling!Next]_rulingVars
  BY DEF MCNext, mcVars, ableVars, modelsVars, rulingVars

-----------------------------------------------------------------------------
(* The capabilities.                                                       *)

(* The client does not change while questions of its structure fail.       *)
QuestionsAreAnswered ==
    \A F \in AbleFaults : "hasty" \notin F /\ ("change" \in F => "read" \notin F /\ "failed" \notin F)

AblePlaces == {"idle", "probe", "looking", "reading", "probed", "executed", "refused", "receipt",
               "marked", "over", "saving"}
Clients == [version : ClientVersions, parts : SUBSET {"ipc", "nim", "routes"}]
Prints == [version : ClientVersions \cup {0}, parts : SUBSET {"ipc", "nim", "routes"}]
AbleTables ==
    [{"announcement", "send", "mute", "remove"} ->
        [status : {"supported", "manual", "unavailable"}, auto : BOOLEAN, print : Prints]]
AbleHands ==
    [table : AbleTables, parts : SUBSET {"ipc", "nim", "routes"}, version : ClientVersions \cup {0}]

AbleTypes ==
    /\ bFaults \in AbleFaults /\ bClient \in Clients /\ bTable \in AbleTables
    /\ bRows \subseteq [print : Prints, open : BOOLEAN]
    /\ bAt \in [Able!Everyone -> AblePlaces] /\ bHeld \in [Able!Everyone -> AbleHands]
    /\ bReadBack \subseteq Clients
    /\ \A c \in Able!Probers : bAt[c] \in {"looking", "reading"} => bGate = c

(* What a table says follows from the page it was probed at.               *)
SoundTable(tb, F) ==
    /\ ~tb["remove"].auto
    /\ \A k \in {"send", "mute"} :
          /\ tb[k].auto => Able!Needs(k) \in tb[k].print.parts
          /\ ~tb[k].auto /\ tb[k].status # "manual" =>
                Able!Needs(k) \notin tb[k].print.parts \/ "refused" \in F

(* What opens announcements was read back.                                 *)
EarnedBy(print, back) ==
    \/ print = Able!NoMark
    \/ \E c \in back : c.parts = print.parts /\ print.version \in {0, c.version}
EarnedTable(tb, back) ==
    tb["announcement"].auto => back # {} /\ EarnedBy(tb["announcement"].print, back)

TablesStand ==
    /\ SoundTable(bTable, bFaults) /\ EarnedTable(bTable, bReadBack)
    /\ \A c \in Able!Everyone : /\ SoundTable(bHeld[c].table, bFaults)
                                /\ EarnedTable(bHeld[c].table, bReadBack)
    /\ \A r \in bRows : r.open => EarnedBy(r.print, bReadBack)

DecisionsStand ==
    \A d \in Dispatchers :
        /\ bHeld[d].version = 0
        /\ bAt[d] = "executed" => bHeld[d].table[Errands[d]].auto
        /\ bAt[d] = "refused" => /\ ~bHeld[d].table[Errands[d]].auto
                                 /\ bHeld[d].table[Errands[d]].status # "manual"

(* No fingerprint, or one of the client of now.                            *)
OfNow(print, cl) ==
    \/ print = Able!NoMark
    \/ print.parts = cl.parts /\ print.version \in {0, cl.version}

(* While the loop is at work, and while a publication is not yet taken     *)
(* down, the client stays as it is.                                        *)
ReceiptsStand ==
    /\ bAt[Loop] # "idle" => bHeld[Loop].version \in {0, bClient.version}
    /\ \A p \in Publishers : bAt[p] = "receipt" =>
          /\ bClient \in bReadBack /\ OfNow(bTable["announcement"].print, bClient)
          /\ \A c \in Able!Probers :
                /\ bAt[c] \in {"looking", "reading"} =>
                      OfNow(bHeld[c].table["announcement"].print, bClient)
                /\ bAt[c] = "reading" => bHeld[c].parts = bClient.parts

(* A client that never changes shows one fingerprint.                      *)
OneClient ==
    "change" \notin bFaults =>
        /\ bReadBack \subseteq {bClient} /\ OfNow(bTable["announcement"].print, bClient)
        /\ \A c \in Able!Everyone : OfNow(bHeld[c].table["announcement"].print, bClient)
        /\ \A c \in Able!Probers : bAt[c] = "reading" => bHeld[c].parts = bClient.parts

(* What the loop holds and what the table shows are of one page.           *)
LoopStands ==
    "change" \in bFaults =>
        LET mine == bHeld[Loop].table["announcement"].print
            shown == bTable["announcement"].print
        IN  /\ bAt[Loop] \in {"looking", "reading"} => shown \in {Able!NoMark, mine}
            /\ bAt[Loop] = "reading" => bHeld[Loop].parts = bClient.parts
            /\ bAt[Loop] = "probed" =>
                  /\ shown \in {Able!NoMark, mine, [version |-> 0, parts |-> mine.parts]}
                  /\ "ipc" \in bClient.parts => mine.parts = bClient.parts
                  /\ \A d \in Dispatchers : bAt[d] = "reading" => bHeld[d].parts = mine.parts

AbleInv ==
    AbleTypes /\ TablesStand /\ DecisionsStand /\ ReceiptsStand /\ OneClient /\ LoopStands

(* Who is who.                                                             *)
LEMMA People ==
  /\ Loop \in Able!Probers /\ Loop \notin Dispatchers /\ Loop \notin Publishers
  /\ Able!Probers \subseteq Able!Everyone /\ Publishers \subseteq Able!Everyone
  /\ Dispatchers \subseteq Able!Probers /\ Able!Nobody \notin Able!Probers
  /\ \A c \in Able!Probers : c \notin Publishers /\ (c = Loop \/ c \in Dispatchers)
  BY ProberAssumption DEF Able!Probers, Able!Everyone, Able!Nobody

(* Nothing is known at first.                                              *)
LEMMA FirstTable ==
  /\ Able!NoMark \in Prints /\ Able!NoMark.parts = {}
  /\ Able!Unverified \in AbleTables /\ Able!Nothing \in AbleHands
  /\ Able!Nothing.table = Able!Unverified /\ Able!Nothing.version = 0
  /\ Able!Unverified["announcement"].print = Able!NoMark
  /\ \A F : SoundTable(Able!Unverified, F)
  /\ \A R : EarnedTable(Able!Unverified, R)
  <1>1. Able!NoMark \in Prints /\ Able!NoMark.parts = {}
    BY DEF Able!NoMark, Able!MarkOf, Able!Unnamed, Prints
  <1> DEFINE c == [status |-> "manual", auto |-> FALSE, print |-> Able!NoMark]
             t == [k \in {"announcement", "send", "mute", "remove"} |-> c]
  <1>2. Able!Unverified = t
    BY DEF Able!Unverified, Able!ByHand, Able!Capability, Able!Kinds
  <1>3. \A k \in {"announcement", "send", "mute", "remove"} :
           t[k].status = "manual" /\ ~t[k].auto /\ t[k].print = Able!NoMark
    OBVIOUS
  <1>4. t \in AbleTables BY <1>1 DEF AbleTables
  <1> HIDE DEF t
  <1>5. Able!Nothing \in AbleHands /\ Able!Nothing.table = t /\ Able!Nothing.version = 0
    BY <1>2, <1>4 DEF Able!Nothing, AbleHands, Able!Unnamed
  <1>6. \A F : SoundTable(t, F) BY <1>3 DEF SoundTable
  <1>7. \A R : EarnedTable(t, R) BY <1>3 DEF EarnedTable
  <1> QED BY <1>1, <1>2, <1>3, <1>4, <1>5, <1>6, <1>7

(* What was earned stays so.                                               *)
LEMMA EarnedStays ==
  ASSUME NEW R, NEW S, R \subseteq S
  PROVE  /\ \A print : EarnedBy(print, R) => EarnedBy(print, S)
         /\ \A tb : EarnedTable(tb, R) => EarnedTable(tb, S)
  BY DEF EarnedBy, EarnedTable

(* A table that a probe gives says what its page says.                     *)
LEMMA ProbedTable ==
  ASSUME NEW before \in AbleTables, NEW mark \in Prints, NEW F,
         SoundTable(before, F), NEW e \in {"answered", "refused", "failed"},
         NEW n \in {"answered", "refused", "failed"},
         e = "refused" => "refused" \in F,
         NEW after, after = Able!Probed(before, mark, e, n)
  PROVE  after \in AbleTables /\ SoundTable(after, F)
  <1> DEFINE Caps == [status : {"supported", "manual", "unavailable"}, auto : BOOLEAN, print : Prints]
  <1>1. /\ Able!Supported(mark) \in Caps /\ Able!Supported(mark).auto
        /\ Able!Supported(mark).print = mark
        /\ Able!Unavailable(mark) \in Caps /\ ~Able!Unavailable(mark).auto
        /\ Able!Unavailable(mark).status = "unavailable" /\ Able!Unavailable(mark).print = mark
        /\ Able!ByHand(mark) \in Caps /\ ~Able!ByHand(mark).auto /\ Able!ByHand(mark).print = mark
        /\ Able!Capability("supported", FALSE, mark) \in Caps
        /\ ~Able!Capability("supported", FALSE, mark).auto
    BY DEF Able!Supported, Able!Unavailable, Able!ByHand, Able!Capability
  <1>2. \A k \in {"announcement", "send", "mute", "remove"} : before[k] \in Caps
    BY DEF AbleTables
  <1>3. \A good : /\ Able!Judged("answered", good, mark, before["announcement"]) = good
                  /\ Able!Judged("refused", good, mark, before["announcement"]) = Able!Unavailable(mark)
                  /\ Able!Judged("failed", good, mark, before["announcement"]) = before["announcement"]
                  /\ Able!Judged("answered", good, mark, before["send"]) = good
                  /\ Able!Judged("refused", good, mark, before["send"]) = Able!Unavailable(mark)
                  /\ Able!Judged("failed", good, mark, before["send"]) = before["send"]
    BY DEF Able!Judged
  <1>4. /\ after = [k \in {"announcement", "send", "mute", "remove"} |-> after[k]]
        /\ after["mute"] = IF "routes" \in mark.parts THEN Able!Supported(mark)
                                                       ELSE Able!Unavailable(mark)
        /\ after["remove"] = IF "routes" \in mark.parts THEN Able!Capability("supported", FALSE, mark)
                                                         ELSE Able!Unavailable(mark)
        /\ after["send"] = IF "nim" \in mark.parts
                           THEN Able!Judged(e, Able!Supported(mark), mark, before["send"])
                           ELSE Able!Unavailable(mark)
        /\ after["announcement"] = Able!Judged(n, Able!ByHand(mark), mark, before["announcement"])
    BY DEF Able!Probed, Able!Kinds
  <1>5. after["mute"] \in Caps /\ after["remove"] \in Caps /\ ~after["remove"].auto
    BY <1>1, <1>4
  <1>6. after["send"] \in Caps
    BY <1>1, <1>2, <1>3, <1>4
  <1>7. after["announcement"] \in Caps
    BY <1>1, <1>2, <1>3, <1>4
  <1>8. after \in AbleTables
    BY <1>4, <1>5, <1>6, <1>7 DEF AbleTables
  <1>9. SoundTable(after, F)
    BY <1>1, <1>3, <1>4, <1>5 DEF SoundTable, Able!Needs
  <1> QED BY <1>8, <1>9

(* Its announcement is by hand, under the fingerprint of the page, or as    *)
(* before.                                                                 *)
LEMMA ProbedAnnouncement ==
  ASSUME NEW before, NEW mark, NEW e, NEW n \in {"answered", "refused", "failed"},
         NEW after, after = Able!Probed(before, mark, e, n)
  PROVE  /\ n # "failed" => after["announcement"].print = mark /\ ~after["announcement"].auto
         /\ n = "failed" => after["announcement"] = before["announcement"]
  <1>1. after["announcement"] = Able!Judged(n, Able!ByHand(mark), mark, before["announcement"])
    BY DEF Able!Probed, Able!Kinds
  <1>2. \A good : /\ Able!Judged("answered", good, mark, before["announcement"]) = good
                  /\ Able!Judged("refused", good, mark, before["announcement"]) = Able!Unavailable(mark)
                  /\ Able!Judged("failed", good, mark, before["announcement"]) = before["announcement"]
    BY DEF Able!Judged
  <1>3. /\ Able!Unavailable(mark).print = mark /\ ~Able!Unavailable(mark).auto
        /\ Able!ByHand(mark).print = mark /\ ~Able!ByHand(mark).auto
    BY DEF Able!Unavailable, Able!ByHand, Able!Capability
  <1> QED BY <1>1, <1>2, <1>3

(* The announcement of a table is opened under the fingerprint it shows.   *)
LEMMA MarkedTable ==
  ASSUME bTable \in AbleTables, SoundTable(bTable, bFaults)
  PROVE  /\ Able!Marked \in AbleTables /\ SoundTable(Able!Marked, bFaults)
         /\ Able!Marked["announcement"].print = bTable["announcement"].print
  <1> DEFINE a == bTable["announcement"]
             m == [status |-> "supported", auto |-> TRUE, print |-> a.print]
  <1>1. Able!Marked = [bTable EXCEPT !["announcement"] = m]
    BY DEF Able!Marked, Able!Supported, Able!Capability
  <1>2. m \in [status : {"supported", "manual", "unavailable"}, auto : BOOLEAN, print : Prints]
    BY DEF AbleTables
  <1>3. m.print = a.print OBVIOUS
  <1> HIDE DEF m
  <1>4. /\ Able!Marked \in AbleTables /\ Able!Marked["announcement"] = m
        /\ \A k \in {"send", "mute", "remove"} : Able!Marked[k] = bTable[k]
    BY <1>1, <1>2 DEF AbleTables
  <1> QED BY <1>3, <1>4 DEF SoundTable

(* One goes on, with another hand or the same.                             *)
LEMMA OneMoves ==
  ASSUME AbleTypes, NEW c \in Able!Everyone, NEW p \in AblePlaces, Able!Goes(c, p)
  PROVE  /\ bAt' \in [Able!Everyone -> AblePlaces]
         /\ \A x \in Able!Everyone : bAt'[x] = IF x = c THEN p ELSE bAt[x]
  BY DEF AbleTypes, Able!Goes

LEMMA OneHolds ==
  ASSUME AbleTypes, NEW c \in Able!Everyone, NEW h \in AbleHands, Able!Holds(c, h)
  PROVE  /\ bHeld' \in [Able!Everyone -> AbleHands]
         /\ \A x \in Able!Everyone : bHeld'[x] = IF x = c THEN h ELSE bHeld[x]
  BY DEF AbleTypes, Able!Holds

(* The capabilities at a start.                                            *)
LEMMA AbleStart == ASSUME focus = "able", MCInit PROVE AbleInv
  <1>1. Able!Init BY DEF MCInit
  <1>2. /\ \A c \in Able!Everyone : bAt[c] = "idle" /\ bHeld[c] = Able!Nothing
        /\ bAt \in [Able!Everyone -> AblePlaces] /\ bHeld \in [Able!Everyone -> AbleHands]
    BY <1>1, FirstTable DEF Able!Init, AblePlaces
  <1>3. AbleTypes
    BY <1>1, <1>2, FirstTable, People DEF Able!Init, AbleTypes, Clients, Able!Parts
  <1>4. TablesStand /\ DecisionsStand
    BY <1>1, <1>2, FirstTable, People DEF Able!Init, TablesStand, DecisionsStand
  <1>5. ReceiptsStand /\ LoopStands
    BY <1>2, People DEF ReceiptsStand, LoopStands
  <1>6. OneClient
    BY <1>1, <1>2, FirstTable, People DEF Able!Init, OneClient, OfNow
  <1> QED BY <1>3, <1>4, <1>5, <1>6 DEF AbleInv

(* A probe begins with the table of now.                                   *)
LEMMA EnterProbeKeeps == ASSUME AbleInv, NEW c \in Able!Probers, Able!EnterProbe(c) PROVE AbleInv'
  <1> DEFINE h == [bHeld[c] EXCEPT !.table = bTable]
  <1>u. /\ UNCHANGED <<bFaults, bClient, bTable, bRows, bReadBack>>
        /\ bAt[c] = "probe" /\ bGate = Able!Nobody /\ bGate' = c
        /\ Able!Goes(c, "looking") /\ Able!Holds(c, h)
    BY DEF Able!EnterProbe
  <1>t. AbleTypes /\ c \in Able!Everyone BY People DEF AbleInv
  <1>h. h \in AbleHands /\ h.table = bTable /\ h.version = bHeld[c].version
    BY <1>t DEF AbleTypes, AbleHands
  <1> HIDE DEF h
  <1>a. /\ bAt' \in [Able!Everyone -> AblePlaces]
        /\ \A x \in Able!Everyone : bAt'[x] = IF x = c THEN "looking" ELSE bAt[x]
    BY <1>t, <1>u, OneMoves DEF AblePlaces
  <1>b. /\ bHeld' \in [Able!Everyone -> AbleHands]
        /\ \A x \in Able!Everyone : bHeld'[x] = IF x = c THEN h ELSE bHeld[x]
    BY <1>t, <1>u, <1>h, OneHolds
  <1>n. \A x \in Able!Probers : bAt[x] \notin {"looking", "reading"}
    BY <1>u, <1>t, People DEF AbleTypes
  <1>1. AbleTypes'
    BY <1>t, <1>u, <1>a, <1>b, <1>n, People DEF AbleTypes
  <1>2. TablesStand'
    BY <1>u, <1>b, <1>h DEF AbleInv, TablesStand
  <1>3. DecisionsStand'
    BY <1>t, <1>u, <1>a, <1>b, <1>h, People DEF AbleInv, DecisionsStand
  <1>4. ReceiptsStand'
    BY <1>u, <1>a, <1>b, <1>h, <1>n, People DEF AbleInv, ReceiptsStand
  <1>5. OneClient'
    BY <1>u, <1>a, <1>b, <1>h, <1>n, People DEF AbleInv, OneClient
  <1>6. LoopStands'
    BY <1>u, <1>a, <1>b, <1>h, <1>n, People DEF AbleInv, LoopStands
  <1> QED BY <1>1, <1>2, <1>3, <1>4, <1>5, <1>6 DEF AbleInv

(* A probe without an answer leaves the table as it is.                    *)
LEMMA KeepPreviousKeeps ==
  ASSUME QuestionsAreAnswered, AbleInv, NEW c \in Able!Probers, Able!KeepPrevious(c) PROVE AbleInv'
  <1>u. /\ UNCHANGED <<bFaults, bClient, bTable, bRows, bReadBack, bHeld>>
        /\ bAt[c] \in {"looking", "reading"} /\ Able!Goes(c, "probed")
        /\ "read" \in bFaults \/ (bAt[c] = "looking" /\ "ipc" \notin bClient.parts)
    BY DEF Able!KeepPrevious, Able!Returned
  <1>t. AbleTypes /\ c \in Able!Everyone BY People DEF AbleInv
  <1>a. /\ bAt' \in [Able!Everyone -> AblePlaces]
        /\ \A x \in Able!Everyone : bAt'[x] = IF x = c THEN "probed" ELSE bAt[x]
    BY <1>t, <1>u, OneMoves DEF AblePlaces
  <1>n. \A x \in Able!Probers : x # c => bAt[x] \notin {"looking", "reading"}
    BY <1>u, <1>t DEF AbleTypes
  <1>1. AbleTypes'
    BY <1>t, <1>u, <1>a, <1>n, People DEF AbleTypes
  <1>2. TablesStand' BY <1>u DEF AbleInv, TablesStand
  <1>3. DecisionsStand'
    BY <1>u, <1>a, People DEF AbleInv, DecisionsStand
  <1>4. ReceiptsStand'
    BY <1>u, <1>a, People DEF AbleInv, ReceiptsStand
  <1>5. OneClient'
    BY <1>u, <1>a, People DEF AbleInv, OneClient
  <1>f. "change" \in bFaults => "read" \notin bFaults
    BY <1>t DEF AbleTypes, QuestionsAreAnswered
  <1>6. LoopStands'
    BY <1>u, <1>a, <1>n, <1>f, People DEF AbleInv, LoopStands
  <1> QED BY <1>1, <1>2, <1>3, <1>4, <1>5, <1>6 DEF AbleInv

(* The page answers.                                                       *)
LEMMA LookAtKeeps == ASSUME AbleInv, NEW c \in Able!Probers, Able!Look(c) PROVE AbleInv'
  <1> DEFINE h == [bHeld[c] EXCEPT !.parts = bClient.parts]
  <1>u. /\ UNCHANGED <<bFaults, bClient, bTable, bRows, bReadBack, bGate>>
        /\ bAt[c] = "looking" /\ "ipc" \in bClient.parts
        /\ Able!Goes(c, "reading") /\ Able!Holds(c, h)
    BY DEF Able!Look
  <1>t. AbleTypes /\ c \in Able!Everyone BY People DEF AbleInv
  <1>h. /\ h \in AbleHands /\ h.table = bHeld[c].table /\ h.version = bHeld[c].version
        /\ h.parts = bClient.parts
    BY <1>t DEF AbleTypes, AbleHands, Clients
  <1> HIDE DEF h
  <1>a. /\ bAt' \in [Able!Everyone -> AblePlaces]
        /\ \A x \in Able!Everyone : bAt'[x] = IF x = c THEN "reading" ELSE bAt[x]
    BY <1>t, <1>u, OneMoves DEF AblePlaces
  <1>b. /\ bHeld' \in [Able!Everyone -> AbleHands]
        /\ \A x \in Able!Everyone : bHeld'[x] = IF x = c THEN h ELSE bHeld[x]
    BY <1>t, <1>u, <1>h, OneHolds
  <1>n. \A x \in Able!Probers : x # c => bAt[x] \notin {"looking", "reading"}
    BY <1>u, <1>t DEF AbleTypes
  <1>1. AbleTypes'
    BY <1>t, <1>u, <1>a, <1>b, <1>n, People DEF AbleTypes
  <1>2. TablesStand'
    BY <1>u, <1>b, <1>h DEF AbleInv, TablesStand
  <1>3. DecisionsStand'
    BY <1>t, <1>u, <1>a, <1>b, <1>h, People DEF AbleInv, DecisionsStand
  <1>4. ReceiptsStand'
    BY <1>u, <1>a, <1>b, <1>h, <1>n, People DEF AbleInv, ReceiptsStand
  <1>5. OneClient'
    BY <1>u, <1>a, <1>b, <1>h, <1>n, People DEF AbleInv, OneClient
  <1>6. LoopStands'
    BY <1>u, <1>a, <1>b, <1>h, <1>n, People DEF AbleInv, LoopStands
  <1> QED BY <1>1, <1>2, <1>3, <1>4, <1>5, <1>6 DEF AbleInv

(* The probe writes the table.                                             *)
LEMMA ConcludeKeeps ==
  ASSUME QuestionsAreAnswered, AbleInv, NEW c \in Able!Probers, Able!Conclude(c) PROVE AbleInv'
  <1>t. AbleTypes /\ c \in Able!Everyone /\ bHeld[c] \in AbleHands
    BY People DEF AbleInv, AbleTypes
  <1> DEFINE print == [version |-> bHeld[c].version, parts |-> bHeld[c].parts]
             previous == bHeld[c].table
  <1>p. /\ print \in Prints /\ previous \in AbleTables
        /\ print.version = bHeld[c].version /\ print.parts = bHeld[c].parts
    BY <1>t DEF AbleHands, Prints
  <1>0. PICK e \in Able!Outcomes, n \in Able!Outcomes :
          LET found == Able!Probed(previous, print, e, n) IN
          bTable' = found /\ Able!Holds(c, [bHeld[c] EXCEPT !.table = found])
    BY DEF Able!Conclude, Able!MarkOf
  <1> DEFINE found == Able!Probed(previous, print, e, n)
             h == [bHeld[c] EXCEPT !.table = found]
  <1>u. /\ UNCHANGED <<bFaults, bClient, bRows, bReadBack>>
        /\ bAt[c] = "reading" /\ Able!Goes(c, "probed") /\ bTable' = found /\ Able!Holds(c, h)
    BY <1>0 DEF Able!Conclude, Able!Returned
  <1>e. /\ e \in {"answered", "refused", "failed"} /\ n \in {"answered", "refused", "failed"}
        /\ e = "refused" => "refused" \in bFaults
        /\ n = "failed" => "failed" \in bFaults
    BY DEF Able!Outcomes
  <1>s. SoundTable(previous, bFaults) /\ EarnedTable(previous, bReadBack)
    BY <1>t DEF AbleInv, TablesStand
  <1>r. found = Able!Probed(previous, print, e, n) OBVIOUS
  <1> HIDE DEF print, previous, found
  <1>f. /\ found \in AbleTables /\ SoundTable(found, bFaults)
        /\ n # "failed" => found["announcement"].print = print /\ ~found["announcement"].auto
        /\ n = "failed" => found["announcement"] = previous["announcement"]
    <2>1. previous \in AbleTables BY <1>p
    <2>2. print \in Prints BY <1>p
    <2>3. SoundTable(previous, bFaults) BY <1>s
    <2>4. e \in {"answered", "refused", "failed"} BY <1>e
    <2>5. n \in {"answered", "refused", "failed"} BY <1>e
    <2>6. e = "refused" => "refused" \in bFaults BY <1>e
    <2>7. found \in AbleTables /\ SoundTable(found, bFaults)
      BY <1>r, <2>1, <2>2, <2>3, <2>4, <2>5, <2>6, ProbedTable
    <2>8. /\ n # "failed" => found["announcement"].print = print /\ ~found["announcement"].auto
          /\ n = "failed" => found["announcement"] = previous["announcement"]
      BY <1>r, <2>5, ProbedAnnouncement
    <2> QED BY <2>7, <2>8
  <1>g. EarnedTable(found, bReadBack)
    BY <1>f, <1>s, <1>e DEF EarnedTable
  <1>h. h \in AbleHands /\ h.table = found /\ h.version = bHeld[c].version /\ h.parts = bHeld[c].parts
    BY <1>t, <1>f DEF AbleHands
  <1> HIDE DEF h
  <1>a. /\ bAt' \in [Able!Everyone -> AblePlaces]
        /\ \A x \in Able!Everyone : bAt'[x] = IF x = c THEN "probed" ELSE bAt[x]
    BY <1>t, <1>u, OneMoves DEF AblePlaces
  <1>b. /\ bHeld' \in [Able!Everyone -> AbleHands]
        /\ \A x \in Able!Everyone : bHeld'[x] = IF x = c THEN h ELSE bHeld[x]
    BY <1>t, <1>u, <1>h, OneHolds
  <1>n. \A x \in Able!Probers : x # c => bAt[x] \notin {"looking", "reading"}
    BY <1>u, <1>t DEF AbleTypes
  <1>v. c = Loop => bHeld[c].version \in {0, bClient.version}
    BY <1>u DEF AbleInv, ReceiptsStand
  <1>w. c \in Dispatchers => bHeld[c].version = 0
    BY DEF AbleInv, DecisionsStand
  <1>x. bHeld[c].version \in {0, bClient.version} BY <1>v, <1>w, People
  <1>1. AbleTypes'
    BY <1>t, <1>u, <1>f, <1>a, <1>b, <1>n, People DEF AbleTypes
  <1>2. TablesStand'
    BY <1>u, <1>f, <1>g, <1>b, <1>h DEF AbleInv, TablesStand
  <1>3. DecisionsStand'
    BY <1>t, <1>u, <1>a, <1>b, <1>h, People DEF AbleInv, DecisionsStand
  <1>4. ReceiptsStand'
    <2>1. bAt'[Loop] # "idle" => bHeld'[Loop].version \in {0, bClient.version}
      BY <1>u, <1>a, <1>b, <1>h, <1>x, People DEF AbleInv, ReceiptsStand
    <2>2. ASSUME NEW q \in Publishers, bAt'[q] = "receipt"
          PROVE  /\ bClient \in bReadBack /\ OfNow(found["announcement"].print, bClient)
                 /\ \A x \in Able!Probers : bAt'[x] \notin {"looking", "reading"}
      <3>1. bAt[q] = "receipt" BY <1>a, <2>2, People
      <3>2. /\ bClient \in bReadBack /\ OfNow(previous["announcement"].print, bClient)
            /\ bHeld[c].parts = bClient.parts
        BY <1>u, <3>1 DEF AbleInv, ReceiptsStand, previous
      <3>3. OfNow(print, bClient) BY <1>p, <1>x, <3>2 DEF OfNow
      <3>4. OfNow(found["announcement"].print, bClient)
        BY <1>f, <3>2, <3>3
      <3>5. \A x \in Able!Probers : bAt'[x] \notin {"looking", "reading"}
        BY <1>a, <1>n, People
      <3> QED BY <3>2, <3>4, <3>5
    <2> QED BY <1>u, <2>1, <2>2 DEF ReceiptsStand
  <1>5. OneClient'
    <2> SUFFICES ASSUME "change" \notin bFaults PROVE OneClient'
      BY <1>u DEF OneClient
    <2>1. /\ bReadBack \subseteq {bClient} /\ bHeld[c].parts = bClient.parts
          /\ OfNow(previous["announcement"].print, bClient)
          /\ \A x \in Able!Everyone : OfNow(bHeld[x].table["announcement"].print, bClient)
      BY <1>t, <1>u DEF AbleInv, OneClient, previous
    <2>2. OfNow(print, bClient) BY <1>p, <1>x, <2>1 DEF OfNow
    <2>3. OfNow(found["announcement"].print, bClient) BY <1>f, <2>1, <2>2
    <2>4. \A x \in Able!Probers : bAt'[x] \notin {"looking", "reading"}
      BY <1>a, <1>n, People
    <2>5. \A x \in Able!Everyone : OfNow(bHeld'[x].table["announcement"].print, bClient)
      BY <1>b, <1>h, <2>1, <2>3
    <2> QED BY <1>u, <2>1, <2>3, <2>4, <2>5 DEF OneClient
  <1>6. LoopStands'
    <2> SUFFICES ASSUME "change" \in bFaults PROVE LoopStands'
      BY <1>u DEF LoopStands
    <2>1. n # "failed"
      BY <1>t, <1>e DEF AbleTypes, QuestionsAreAnswered
    <2>2. found["announcement"].print = print BY <1>f, <2>1
    <2>3. CASE c = Loop
      <3>1. bHeld[Loop].parts = bClient.parts BY <1>u, <2>3 DEF AbleInv, LoopStands
      <3>2. \A d \in Dispatchers : bAt'[d] # "reading" BY <1>a, <1>n, <2>3, People
      <3>3. bAt'[Loop] = "probed" /\ bHeld'[Loop].table = found
        BY <1>a, <1>b, <1>h, <2>3, People
      <3> QED BY <1>u, <1>p, <2>2, <2>3, <3>1, <3>2, <3>3 DEF LoopStands
    <2>4. CASE c # Loop
      <3>1. c \in Dispatchers BY <2>4, People
      <3>2. bAt'[Loop] = bAt[Loop] /\ bHeld'[Loop] = bHeld[Loop] /\ bAt[Loop] \notin {"looking", "reading"}
        BY <1>a, <1>b, <1>n, <2>4, People
      <3>3. bAt[Loop] = "probed" => bHeld[c].parts = bHeld[Loop].table["announcement"].print.parts
        BY <1>u, <3>1 DEF AbleInv, LoopStands
      <3>4. print = [version |-> 0, parts |-> bHeld[c].parts] BY <1>w, <3>1 DEF print
      <3>5. \A d \in Dispatchers : bAt'[d] # "reading" BY <1>a, <1>n, People
      <3>6. bAt[Loop] = "probed" =>
               ("ipc" \in bClient.parts => bHeld[Loop].table["announcement"].print.parts = bClient.parts)
        BY DEF AbleInv, LoopStands
      <3> QED BY <1>u, <2>2, <3>2, <3>3, <3>4, <3>5, <3>6 DEF LoopStands
    <2> QED BY <2>3, <2>4
  <1> QED BY <1>1, <1>2, <1>3, <1>4, <1>5, <1>6 DEF AbleInv

(* A publication by hand is read back.                                     *)
LEMMA PublishKeeps ==
  ASSUME QuestionsAreAnswered, AbleInv, NEW p \in Publishers, Able!Publish(p) PROVE AbleInv'
  <1>t. AbleTypes /\ p \in Able!Everyone /\ p # Loop BY People DEF AbleInv
  <1>u. /\ UNCHANGED <<bFaults, bClient, bTable, bRows, bGate, bHeld>>
        /\ bReadBack' = bReadBack \cup {bClient} /\ Able!Goes(p, "receipt")
        /\ OfNow(bTable["announcement"].print, bClient) /\ bGate = Able!Nobody
    BY <1>t DEF Able!Publish, Able!ShownNow, Able!Unnamed, OfNow, AbleTypes, QuestionsAreAnswered
  <1>a. /\ bAt' \in [Able!Everyone -> AblePlaces]
        /\ \A x \in Able!Everyone : bAt'[x] = IF x = p THEN "receipt" ELSE bAt[x]
    BY <1>t, <1>u, OneMoves DEF AblePlaces
  <1>n. \A x \in Able!Probers : bAt[x] \notin {"looking", "reading"} /\ bAt'[x] = bAt[x]
    BY <1>t, <1>u, <1>a, People DEF AbleTypes
  <1>s. bReadBack \subseteq bReadBack' BY <1>u
  <1>1. AbleTypes' BY <1>t, <1>u, <1>a, <1>n DEF AbleTypes
  <1>2. TablesStand' BY <1>u, <1>s, EarnedStays DEF AbleInv, TablesStand
  <1>3. DecisionsStand' BY <1>u, <1>a, People DEF AbleInv, DecisionsStand
  <1>4. ReceiptsStand' BY <1>u, <1>n, People DEF AbleInv, ReceiptsStand
  <1>5. OneClient' BY <1>u, <1>n DEF AbleInv, OneClient
  <1>6. LoopStands' BY <1>u, <1>n, People DEF AbleInv, LoopStands
  <1> QED BY <1>1, <1>2, <1>3, <1>4, <1>5, <1>6 DEF AbleInv

(* One who neither probes nor waits for a receipt goes on.                 *)
LEMMA OnlyMoves ==
  ASSUME AbleInv, NEW c \in Able!Everyone, NEW p \in {"idle", "over", "executed", "refused"},
         c \in Dispatchers => /\ p = "executed" => bHeld[c].table[Errands[c]].auto
                              /\ p = "refused" => /\ ~bHeld[c].table[Errands[c]].auto
                                                  /\ bHeld[c].table[Errands[c]].status # "manual",
         c = Loop => p = "idle",
         Able!Goes(c, p), UNCHANGED <<bFaults, bClient, bTable, bGate, bHeld, bReadBack>>,
         bRows' \subseteq [print : Prints, open : BOOLEAN],
         \A r \in bRows' : r.open => EarnedBy(r.print, bReadBack)
  PROVE  AbleInv'
  <1>t. AbleTypes /\ p \in AblePlaces BY DEF AbleInv, AblePlaces
  <1>a. /\ bAt' \in [Able!Everyone -> AblePlaces]
        /\ \A x \in Able!Everyone : bAt'[x] = IF x = c THEN p ELSE bAt[x]
    BY <1>t, OneMoves
  <1>n. \A x \in Able!Everyone :
           bAt'[x] \in {"looking", "reading", "receipt", "probed"} => bAt[x] = bAt'[x]
    BY <1>a
  <1>1. AbleTypes' BY <1>t, <1>a, <1>n, People DEF AbleTypes
  <1>2. TablesStand' BY DEF AbleInv, TablesStand
  <1>3. DecisionsStand' BY <1>a, People DEF AbleInv, DecisionsStand
  <1>4. ReceiptsStand'
    <2>1. bAt'[Loop] # "idle" => bHeld[Loop].version \in {0, bClient.version}
      BY <1>a, People DEF AbleInv, ReceiptsStand
    <2> QED BY <1>n, <2>1, People DEF AbleInv, ReceiptsStand
  <1>5. OneClient' BY <1>n, People DEF AbleInv, OneClient
  <1>6. LoopStands' BY <1>n, People DEF AbleInv, LoopStands
  <1> QED BY <1>1, <1>2, <1>3, <1>4, <1>5, <1>6 DEF AbleInv

(* A publication that cannot be read back opens nothing.                   *)
LEMMA UnverifiableKeeps ==
  ASSUME AbleInv, NEW p \in Publishers, Able!Unverifiable(p) PROVE AbleInv'
  <1>1. /\ p \in Able!Everyone /\ p # Loop /\ p \notin Dispatchers
        /\ bRows \subseteq [print : Prints, open : BOOLEAN]
        /\ \A r \in bRows : r.open => EarnedBy(r.print, bReadBack)
    BY People DEF AbleInv, AbleTypes, TablesStand
  <1>2. /\ Able!Goes(p, "over") /\ bRows' = bRows
        /\ UNCHANGED <<bFaults, bClient, bTable, bGate, bHeld, bReadBack>>
    BY DEF Able!Unverifiable
  <1> QED BY <1>1, <1>2, OnlyMoves

(* What is saved opens a fingerprint only if it was earned.                *)
LEMMA SavedRows ==
  ASSUME AbleInv, NEW c \in Able!Everyone,
         bRows' = Able!Saved(bHeld[c].table["announcement"]) \/ bRows' = bRows
  PROVE  /\ bRows' \subseteq [print : Prints, open : BOOLEAN]
         /\ \A r \in bRows' : r.open => EarnedBy(r.print, bReadBack)
  <1> DEFINE a == bHeld[c].table["announcement"]
             row == [print |-> a.print, open |-> a.status = "supported" /\ a.auto]
  <1>1. /\ bRows \subseteq [print : Prints, open : BOOLEAN]
        /\ \A r \in bRows : r.open => EarnedBy(r.print, bReadBack)
    BY DEF AbleInv, AbleTypes, TablesStand
  <1>2. bHeld[c].table \in AbleTables /\ EarnedTable(bHeld[c].table, bReadBack)
    BY DEF AbleInv, AbleTypes, AbleHands, TablesStand
  <1>3. a.print \in Prints BY <1>2 DEF AbleTables
  <1>4. a.auto => EarnedBy(a.print, bReadBack) BY <1>2 DEF EarnedTable
  <1>5. Able!Saved(a) \subseteq bRows \cup {row} BY DEF Able!Saved
  <1> HIDE DEF a
  <1>6. row \in [print : Prints, open : BOOLEAN] BY <1>3
  <1>7. row.open => EarnedBy(row.print, bReadBack) BY <1>4
  <1> HIDE DEF row
  <1>8. bRows' \subseteq bRows \cup {row} BY <1>5 DEF a
  <1> QED BY <1>1, <1>6, <1>7, <1>8

(* A publication that was read back is saved, or not.                      *)
LEMMA SaveMarkKeeps == ASSUME AbleInv, NEW p \in Publishers, Able!SaveMark(p) PROVE AbleInv'
  <1>1. p \in Able!Everyone /\ p # Loop /\ p \notin Dispatchers BY People
  <1>2. /\ Able!Goes(p, "over")
        /\ UNCHANGED <<bFaults, bClient, bTable, bGate, bHeld, bReadBack>>
        /\ bRows' = Able!Saved(bHeld[p].table["announcement"]) \/ bRows' = bRows
    BY DEF Able!SaveMark
  <1>3. /\ bRows' \subseteq [print : Prints, open : BOOLEAN]
        /\ \A r \in bRows' : r.open => EarnedBy(r.print, bReadBack)
    BY <1>1, <1>2, SavedRows
  <1> QED BY <1>1, <1>2, <1>3, OnlyMoves

(* A round of the loop is saved, or not.                                   *)
LEMMA SaveRoundKeeps == ASSUME AbleInv, Able!SaveRound PROVE AbleInv'
  <1>1. Loop \in Able!Everyone /\ Loop \notin Dispatchers BY People
  <1>2. /\ Able!Goes(Loop, "idle")
        /\ UNCHANGED <<bFaults, bClient, bTable, bGate, bHeld, bReadBack>>
        /\ bRows' = Able!Saved(bHeld[Loop].table["announcement"]) \/ bRows' = bRows
    BY DEF Able!SaveRound
  <1>3. /\ bRows' \subseteq [print : Prints, open : BOOLEAN]
        /\ \A r \in bRows' : r.open => EarnedBy(r.print, bReadBack)
    BY <1>1, <1>2, SavedRows
  <1> QED BY <1>1, <1>2, <1>3, OnlyMoves

(* The dispatcher acts as the table it holds says.                         *)
LEMMA DecideKeeps == ASSUME AbleInv, NEW d \in Dispatchers, Able!Decide(d) PROVE AbleInv'
  <1> DEFINE mine == bHeld[d].table[Errands[d]]
             p == IF mine.auto THEN "executed" ELSE IF mine.status = "manual" THEN "idle" ELSE "refused"
  <1>1. /\ d \in Able!Everyone /\ d # Loop
        /\ bRows \subseteq [print : Prints, open : BOOLEAN]
        /\ \A r \in bRows : r.open => EarnedBy(r.print, bReadBack)
    BY People DEF AbleInv, AbleTypes, TablesStand
  <1>2. /\ Able!Goes(d, p) /\ bRows' = bRows
        /\ UNCHANGED <<bFaults, bClient, bTable, bGate, bHeld, bReadBack>>
    BY DEF Able!Decide
  <1>3. p \in {"idle", "over", "executed", "refused"} OBVIOUS
  <1>4. /\ p = "executed" => mine.auto
        /\ p = "refused" => ~mine.auto /\ mine.status # "manual"
    OBVIOUS
  <1> HIDE DEF p
  <1> QED BY <1>1, <1>2, <1>3, <1>4, OnlyMoves

(* A publication that was read back opens announcements.                   *)
LEMMA MarkKeeps == ASSUME AbleInv, NEW p \in Publishers, Able!Mark(p) PROVE AbleInv'
  <1> DEFINE h == [Able!Nothing EXCEPT !.table = Able!Marked]
  <1>t. AbleTypes /\ p \in Able!Everyone /\ p # Loop /\ p \notin Able!Probers
    BY People DEF AbleInv
  <1>u. /\ UNCHANGED <<bFaults, bClient, bRows, bGate, bReadBack>>
        /\ bAt[p] = "receipt" /\ Able!Goes(p, "marked")
        /\ bTable' = Able!Marked /\ Able!Holds(p, h)
    BY DEF Able!Mark
  <1>m. /\ Able!Marked \in AbleTables /\ SoundTable(Able!Marked, bFaults)
        /\ Able!Marked["announcement"].print = bTable["announcement"].print
    BY <1>t, MarkedTable DEF AbleInv, AbleTypes, TablesStand
  <1>r. bClient \in bReadBack /\ OfNow(bTable["announcement"].print, bClient)
    BY <1>u DEF AbleInv, ReceiptsStand
  <1>g. EarnedTable(Able!Marked, bReadBack)
    BY <1>m, <1>r DEF EarnedTable, EarnedBy, OfNow
  <1>h. h \in AbleHands /\ h.table = Able!Marked
    BY <1>m, FirstTable DEF AbleHands
  <1> HIDE DEF h
  <1>a. /\ bAt' \in [Able!Everyone -> AblePlaces]
        /\ \A x \in Able!Everyone : bAt'[x] = IF x = p THEN "marked" ELSE bAt[x]
    BY <1>t, <1>u, OneMoves DEF AblePlaces
  <1>b. /\ bHeld' \in [Able!Everyone -> AbleHands]
        /\ \A x \in Able!Everyone : bHeld'[x] = IF x = p THEN h ELSE bHeld[x]
    BY <1>t, <1>u, <1>h, OneHolds
  <1>n. /\ \A x \in Able!Probers : bAt'[x] = bAt[x] /\ bHeld'[x] = bHeld[x]
        /\ \A x \in Publishers : bAt'[x] = "receipt" => bAt[x] = "receipt"
    BY <1>t, <1>a, <1>b, People
  <1>1. AbleTypes' BY <1>t, <1>u, <1>m, <1>a, <1>b, <1>n DEF AbleTypes
  <1>2. TablesStand' BY <1>u, <1>m, <1>g, <1>b, <1>h DEF AbleInv, TablesStand
  <1>3. DecisionsStand' BY <1>u, <1>n, People DEF AbleInv, DecisionsStand
  <1>4. ReceiptsStand' BY <1>u, <1>m, <1>n, People DEF AbleInv, ReceiptsStand
  <1>5. OneClient'
    <2> SUFFICES ASSUME "change" \notin bFaults PROVE OneClient'
      BY <1>u DEF OneClient
    <2>1. \A x \in Able!Everyone : OfNow(bHeld'[x].table["announcement"].print, bClient)
      BY <1>b, <1>h, <1>m, <1>r DEF AbleInv, OneClient
    <2> QED BY <1>u, <1>m, <1>r, <1>n, <2>1 DEF AbleInv, OneClient
  <1>6. LoopStands' BY <1>u, <1>m, <1>n, People DEF AbleInv, LoopStands
  <1> QED BY <1>1, <1>2, <1>3, <1>4, <1>5, <1>6 DEF AbleInv

(* A round of the loop begins.                                             *)
LEMMA AbleTickKeeps == ASSUME AbleInv, Able!Tick PROVE AbleInv'
  <1>t. AbleTypes /\ Loop \in Able!Everyone BY People DEF AbleInv
  <1>0. PICK v \in {bClient.version, 0} : Able!Holds(Loop, [Able!Nothing EXCEPT !.version = v])
    BY DEF Able!Tick, Able!Unnamed
  <1> DEFINE h == [Able!Nothing EXCEPT !.version = v]
  <1>u. /\ UNCHANGED <<bFaults, bClient, bTable, bRows, bGate, bReadBack>>
        /\ bAt[Loop] = "idle" /\ Able!Goes(Loop, "probe") /\ Able!Holds(Loop, h)
    BY <1>0 DEF Able!Tick
  <1>h. /\ h \in AbleHands /\ h.table = Able!Unverified /\ h.version \in {0, bClient.version}
    BY <1>t, FirstTable DEF AbleTypes, Clients, AbleHands
  <1> HIDE DEF h
  <1>a. /\ bAt' \in [Able!Everyone -> AblePlaces]
        /\ \A x \in Able!Everyone : bAt'[x] = IF x = Loop THEN "probe" ELSE bAt[x]
    BY <1>t, <1>u, OneMoves DEF AblePlaces
  <1>b. /\ bHeld' \in [Able!Everyone -> AbleHands]
        /\ \A x \in Able!Everyone : bHeld'[x] = IF x = Loop THEN h ELSE bHeld[x]
    BY <1>t, <1>u, <1>h, OneHolds
  <1>1. AbleTypes' BY <1>t, <1>u, <1>a, <1>b, People DEF AbleTypes
  <1>2. TablesStand' BY <1>u, <1>b, <1>h, FirstTable DEF AbleInv, TablesStand
  <1>3. DecisionsStand' BY <1>u, <1>a, <1>b, People DEF AbleInv, DecisionsStand
  <1>4. ReceiptsStand' BY <1>u, <1>a, <1>b, <1>h, People DEF AbleInv, ReceiptsStand
  <1>5. OneClient' BY <1>u, <1>a, <1>b, <1>h, FirstTable, People DEF AbleInv, OneClient, OfNow
  <1>6. LoopStands' BY <1>u, <1>a, <1>b, People DEF AbleInv, LoopStands
  <1> QED BY <1>1, <1>2, <1>3, <1>4, <1>5, <1>6 DEF AbleInv

(* What was verified under the fingerprint of the loop opens the           *)
(* announcement of the table as it is by now: that one was earned too.     *)
LEMMA RecallEarns ==
  ASSUME AbleInv, bAt[Loop] = "probed", NEW mine, mine = bHeld[Loop].table["announcement"].print,
         mine # Able!NoMark, Able!Verified(mine)
  PROVE  bReadBack # {} /\ EarnedBy(bTable["announcement"].print, bReadBack)
  <1>1. EarnedBy(mine, bReadBack)
    BY DEF AbleInv, TablesStand, Able!Verified
  <1>2. PICK c \in bReadBack : c.parts = mine.parts /\ mine.version \in {0, c.version}
    BY <1>1 DEF EarnedBy
  <1>3. CASE "change" \notin bFaults
    <2>1. OfNow(bTable["announcement"].print, bClient) /\ bReadBack \subseteq {bClient}
      BY <1>3 DEF AbleInv, OneClient
    <2> QED BY <1>2, <2>1 DEF OfNow, EarnedBy
  <1>4. CASE "change" \in bFaults
    <2>1. bTable["announcement"].print \in
             {Able!NoMark, mine, [version |-> 0, parts |-> mine.parts]}
      BY <1>4 DEF AbleInv, LoopStands
    <2> DEFINE bare == [version |-> 0, parts |-> mine.parts]
    <2>2. bare.version = 0 /\ bare.parts = mine.parts OBVIOUS
    <2> HIDE DEF bare
    <2>3. EarnedBy(bare, bReadBack) BY <1>2, <2>2 DEF EarnedBy
    <2>4. EarnedBy(Able!NoMark, bReadBack) BY DEF EarnedBy
    <2> QED BY <1>1, <1>2, <2>1, <2>3, <2>4 DEF bare
  <1> QED BY <1>3, <1>4

(* The loop opens again what was verified.                                 *)
LEMMA RecallKeeps == ASSUME AbleInv, Able!Recall PROVE AbleInv'
  <1>t. AbleTypes /\ Loop \in Able!Everyone BY People DEF AbleInv
  <1> DEFINE mine == bHeld[Loop].table["announcement"].print
  <1>u. /\ UNCHANGED <<bFaults, bClient, bRows, bGate, bReadBack>>
        /\ bAt[Loop] = "probed" /\ Able!Goes(Loop, "saving")
        /\ \/ /\ mine # Able!NoMark /\ Able!Verified(mine) /\ bTable' = Able!Marked
              /\ Able!Holds(Loop, [bHeld[Loop] EXCEPT !.table = Able!Marked])
           \/ bTable' = bTable /\ bHeld' = bHeld
    BY DEF Able!Recall
  <1>a. /\ bAt' \in [Able!Everyone -> AblePlaces]
        /\ \A x \in Able!Everyone : bAt'[x] = IF x = Loop THEN "saving" ELSE bAt[x]
    BY <1>t, <1>u, OneMoves DEF AblePlaces
  <1>v. bHeld[Loop].version \in {0, bClient.version} BY <1>u DEF AbleInv, ReceiptsStand
  <1>1. CASE bTable' = bTable /\ bHeld' = bHeld
    <2>1. AbleTypes' BY <1>t, <1>u, <1>a, <1>1, People DEF AbleTypes
    <2>2. TablesStand' BY <1>u, <1>1 DEF AbleInv, TablesStand
    <2>3. DecisionsStand' BY <1>u, <1>a, <1>1, People DEF AbleInv, DecisionsStand
    <2>4. ReceiptsStand' BY <1>u, <1>a, <1>v, <1>1, People DEF AbleInv, ReceiptsStand
    <2>5. OneClient' BY <1>u, <1>a, <1>1, People DEF AbleInv, OneClient
    <2>6. LoopStands' BY <1>u, <1>a, <1>1, People DEF AbleInv, LoopStands
    <2> QED BY <2>1, <2>2, <2>3, <2>4, <2>5, <2>6 DEF AbleInv
  <1>2. CASE /\ mine # Able!NoMark /\ Able!Verified(mine) /\ bTable' = Able!Marked
             /\ Able!Holds(Loop, [bHeld[Loop] EXCEPT !.table = Able!Marked])
    <2> DEFINE k == [bHeld[Loop] EXCEPT !.table = Able!Marked]
    <2>m. /\ Able!Marked \in AbleTables /\ SoundTable(Able!Marked, bFaults)
          /\ Able!Marked["announcement"].print = bTable["announcement"].print
      BY <1>t, MarkedTable DEF AbleInv, AbleTypes, TablesStand
    <2>g. EarnedTable(Able!Marked, bReadBack)
      BY <1>u, <1>2, <2>m, RecallEarns DEF EarnedTable
    <2>h. k \in AbleHands /\ k.table = Able!Marked /\ k.version = bHeld[Loop].version
      BY <1>t, <2>m DEF AbleTypes, AbleHands
    <2>w. Able!Holds(Loop, k) BY <1>2
    <2> HIDE DEF k
    <2>b. /\ bHeld' \in [Able!Everyone -> AbleHands]
          /\ \A x \in Able!Everyone : bHeld'[x] = IF x = Loop THEN k ELSE bHeld[x]
      BY <1>t, <2>w, <2>h, OneHolds
    <2>1. AbleTypes' BY <1>t, <1>u, <1>a, <1>2, <2>m, <2>b, People DEF AbleTypes
    <2>2. TablesStand' BY <1>u, <1>2, <2>m, <2>g, <2>b, <2>h DEF AbleInv, TablesStand
    <2>3. DecisionsStand' BY <1>u, <1>a, <2>b, People DEF AbleInv, DecisionsStand
    <2>4. ReceiptsStand'
      BY <1>u, <1>a, <1>v, <1>2, <2>m, <2>b, <2>h, People DEF AbleInv, ReceiptsStand
    <2>5. OneClient'
      BY <1>u, <1>a, <1>2, <2>m, <2>b, <2>h, People DEF AbleInv, OneClient
    <2>6. LoopStands' BY <1>u, <1>a, <2>b, People DEF AbleInv, LoopStands
    <2> QED BY <2>1, <2>2, <2>3, <2>4, <2>5, <2>6 DEF AbleInv
  <1> QED BY <1>u, <1>1, <1>2

(* The dispatcher asks the table.                                          *)
LEMMA AskKeeps == ASSUME AbleInv, NEW d \in Dispatchers, Able!Ask(d) PROVE AbleInv'
  <1>t. AbleTypes /\ d \in Able!Everyone /\ d # Loop BY People DEF AbleInv
  <1> DEFINE k == [Able!Nothing EXCEPT !.table = bTable]
  <1>k. k \in AbleHands /\ k.table = bTable /\ k.version = 0
    BY <1>t, FirstTable DEF AbleTypes, AbleHands
  <1> HIDE DEF k
  <1>0. PICK h \in {k, Able!Nothing}, p \in {"probe", "probed"} : Able!Goes(d, p) /\ Able!Holds(d, h)
    BY DEF Able!Ask, k
  <1>u. UNCHANGED <<bFaults, bClient, bTable, bRows, bGate, bReadBack>>
    BY DEF Able!Ask
  <1>h. h \in AbleHands /\ h.version = 0 /\ h.table \in {bTable, Able!Unverified}
    BY <1>k, FirstTable
  <1>a. /\ bAt' \in [Able!Everyone -> AblePlaces]
        /\ \A x \in Able!Everyone : bAt'[x] = IF x = d THEN p ELSE bAt[x]
    BY <1>0, <1>t, OneMoves DEF AblePlaces
  <1>b. /\ bHeld' \in [Able!Everyone -> AbleHands]
        /\ \A x \in Able!Everyone : bHeld'[x] = IF x = d THEN h ELSE bHeld[x]
    BY <1>0, <1>t, <1>h, OneHolds
  <1>n. \A x \in Able!Probers : bAt'[x] \in {"looking", "reading"} =>
           bAt[x] = bAt'[x] /\ bHeld'[x] = bHeld[x]
    BY <1>a, <1>b, People
  <1>1. AbleTypes' BY <1>t, <1>u, <1>a, <1>b, <1>n DEF AbleTypes
  <1>2. TablesStand'
    <2>1. SoundTable(h.table, bFaults) /\ EarnedTable(h.table, bReadBack)
      BY <1>h, FirstTable DEF AbleInv, TablesStand
    <2> QED BY <1>u, <1>b, <2>1 DEF AbleInv, TablesStand
  <1>3. DecisionsStand' BY <1>u, <1>a, <1>b, <1>h, People DEF AbleInv, DecisionsStand
  <1>4. ReceiptsStand' BY <1>t, <1>u, <1>a, <1>b, <1>n, People DEF AbleInv, ReceiptsStand
  <1>5. OneClient'
    <2> SUFFICES ASSUME "change" \notin bFaults PROVE OneClient'
      BY <1>u DEF OneClient
    <2>1. OfNow(h.table["announcement"].print, bClient)
      BY <1>h, FirstTable DEF AbleInv, OneClient, OfNow
    <2> QED BY <1>u, <1>b, <1>n, <2>1 DEF AbleInv, OneClient
  <1>6. LoopStands'
    <2>1. \A x \in Dispatchers : bAt'[x] = "reading" => bAt[x] = "reading" /\ bHeld'[x] = bHeld[x]
      BY <1>n, People
    <2>2. bAt'[Loop] = bAt[Loop] /\ bHeld'[Loop] = bHeld[Loop] BY <1>t, <1>a, <1>b, People
    <2> QED BY <1>u, <2>1, <2>2 DEF AbleInv, LoopStands
  <1> QED BY <1>1, <1>2, <1>3, <1>4, <1>5, <1>6 DEF AbleInv

(* Another client, while the loop rests and no receipt is out.             *)
LEMMA ClientChangesKeeps == ASSUME QuestionsAreAnswered, AbleInv, Able!ClientChanges PROVE AbleInv'
  <1>u. /\ UNCHANGED <<bFaults, bTable, bRows, bGate, bAt, bHeld, bReadBack>>
        /\ "change" \in bFaults /\ bClient' \in Clients
    BY DEF Able!ClientChanges, Clients, Able!Parts
  <1>t. AbleTypes BY DEF AbleInv
  <1>n. bAt[Loop] = "idle" /\ \A p \in Publishers : bAt[p] # "receipt"
    BY <1>t DEF Able!ClientChanges, AbleTypes, QuestionsAreAnswered
  <1>1. AbleTypes' BY <1>t, <1>u DEF AbleTypes
  <1>2. TablesStand' BY <1>u DEF AbleInv, TablesStand
  <1>3. DecisionsStand' BY <1>u DEF AbleInv, DecisionsStand
  <1>4. ReceiptsStand' BY <1>u, <1>n DEF ReceiptsStand
  <1>5. OneClient' BY <1>u DEF OneClient
  <1>6. LoopStands' BY <1>u, <1>n DEF LoopStands
  <1> QED BY <1>1, <1>2, <1>3, <1>4, <1>5, <1>6 DEF AbleInv

(* The administrator starts or patches the client.                         *)
LEMMA CalibrateKeeps == ASSUME AbleInv, Able!Calibrate PROVE AbleInv'
  <1>u. /\ UNCHANGED <<bFaults, bClient, bRows, bGate, bAt, bHeld, bReadBack>>
        /\ bTable' = Able!Unverified
    BY DEF Able!Calibrate
  <1>t. AbleTypes BY DEF AbleInv
  <1>1. AbleTypes' BY <1>t, <1>u, FirstTable DEF AbleTypes
  <1>2. TablesStand' BY <1>u, FirstTable DEF AbleInv, TablesStand
  <1>3. DecisionsStand' BY <1>u DEF AbleInv, DecisionsStand
  <1>4. ReceiptsStand' BY <1>u, FirstTable DEF AbleInv, ReceiptsStand, OfNow
  <1>5. OneClient' BY <1>u, FirstTable DEF AbleInv, OneClient, OfNow
  <1>6. LoopStands' BY <1>u, FirstTable DEF AbleInv, LoopStands
  <1> QED BY <1>1, <1>2, <1>3, <1>4, <1>5, <1>6 DEF AbleInv

(* After a crash nobody holds anything but what was decided.               *)
LEMMA AbleCrashKeeps == ASSUME AbleInv, Able!CrashAndRestart PROVE AbleInv'
  <1>u. /\ UNCHANGED <<bFaults, bClient, bRows, bReadBack>>
        /\ bTable' = Able!Unverified
    BY DEF Able!CrashAndRestart
  <1>t. AbleTypes BY DEF AbleInv
  <1>a. /\ bAt' \in [Able!Everyone -> AblePlaces]
        /\ \A c \in Able!Everyone : bAt'[c] \in {"over", "idle", "executed", "refused"}
        /\ \A c \in Able!Everyone : bAt'[c] \in {"executed", "refused"} =>
              bAt'[c] = bAt[c] /\ bHeld'[c] = bHeld[c]
    BY <1>t DEF Able!CrashAndRestart, AbleTypes, AblePlaces
  <1>b. /\ bHeld' \in [Able!Everyone -> AbleHands]
        /\ \A c \in Able!Everyone : bHeld'[c] \in {bHeld[c], Able!Nothing}
    BY <1>t, FirstTable DEF Able!CrashAndRestart, AbleTypes
  <1>c. bAt'[Loop] = "idle" \/ (bHeld'[Loop] = bHeld[Loop] /\ bAt'[Loop] = bAt[Loop])
    BY <1>t, People DEF Able!CrashAndRestart, AbleTypes
  <1>1. AbleTypes' BY <1>t, <1>u, <1>a, <1>b, FirstTable, People DEF AbleTypes
  <1>2. TablesStand' BY <1>u, <1>b, FirstTable DEF AbleInv, TablesStand
  <1>3. DecisionsStand' BY <1>u, <1>a, <1>b, FirstTable, People DEF AbleInv, DecisionsStand
  <1>4. ReceiptsStand' BY <1>u, <1>a, <1>c, People DEF AbleInv, ReceiptsStand
  <1>5. OneClient'
    <2> SUFFICES ASSUME "change" \notin bFaults PROVE OneClient'
      BY <1>u DEF OneClient
    <2>1. \A c \in Able!Everyone : OfNow(bHeld'[c].table["announcement"].print, bClient)
      BY <1>b, FirstTable DEF AbleInv, OneClient, OfNow
    <2>2. OfNow(Able!Unverified["announcement"].print, bClient) BY FirstTable DEF OfNow
    <2> QED BY <1>u, <1>a, <2>1, <2>2, People DEF AbleInv, OneClient
  <1>6. LoopStands' BY <1>a, People DEF LoopStands
  <1> QED BY <1>1, <1>2, <1>3, <1>4, <1>5, <1>6 DEF AbleInv

(* No step of the capabilities breaks it.                                  *)
LEMMA AbleStep == ASSUME QuestionsAreAnswered, AbleInv, [Able!Next]_ableVars PROVE AbleInv'
  <1>1. CASE \E c \in Able!Probers :
                Able!EnterProbe(c) \/ Able!KeepPrevious(c) \/ Able!Look(c) \/ Able!Conclude(c)
    BY <1>1, EnterProbeKeeps, KeepPreviousKeeps, LookAtKeeps, ConcludeKeeps
  <1>2. CASE \E p \in Publishers :
                Able!Publish(p) \/ Able!Unverifiable(p) \/ Able!Mark(p) \/ Able!SaveMark(p)
    BY <1>2, PublishKeeps, UnverifiableKeeps, MarkKeeps, SaveMarkKeeps
  <1>3. CASE Able!Tick \/ Able!Recall \/ Able!SaveRound
    BY <1>3, AbleTickKeeps, RecallKeeps, SaveRoundKeeps
  <1>4. CASE \E d \in Dispatchers : Able!Ask(d) \/ Able!Decide(d)
    BY <1>4, AskKeeps, DecideKeeps
  <1>5. CASE Able!ClientChanges \/ Able!Calibrate \/ Able!CrashAndRestart
    BY <1>5, ClientChangesKeeps, CalibrateKeeps, AbleCrashKeeps
  <1>6. CASE UNCHANGED ableVars
    <2>1. UNCHANGED <<bFaults, bClient, bTable, bRows, bGate, bAt, bHeld, bReadBack>>
      BY <1>6 DEF ableVars
    <2> QED BY <2>1 DEF AbleInv, AbleTypes, TablesStand, DecisionsStand, ReceiptsStand,
                        OneClient, LoopStands
  <1> QED BY <1>1, <1>2, <1>3, <1>4, <1>5, <1>6 DEF Able!Next

(* Announcements are opened only under a fingerprint a publication by hand *)
(* was read back at, in memory and in the rows, and an effect is executed, *)
(* or given up, only after a finding of the client (gateway.rs             *)
(* runtime_protocol_probe, mark_capability_verified; runtime/mod.rs        *)
(* dispatch_effect_permitted), however many probe, publish and dispatch,   *)
(* and whatever crashes, as long as the client does not change while       *)
(* questions of its structure fail.                                        *)
THEOREM CapabilitiesStayProven == ASSUME QuestionsAreAnswered PROVE MCSpec => []CapabilitiesAreProven
  <1> DEFINE Inv == focus = "able" => AbleInv
  <1>1. MCInit => Inv BY AbleStart
  <1>2. Inv /\ [MCNext]_mcVars => Inv'
    <2> SUFFICES ASSUME Inv, [MCNext]_mcVars, focus' = "able" PROVE AbleInv'
      OBVIOUS
    <2>1. focus = "able" BY Steps
    <2> QED BY <2>1, Steps, AbleStep
  <1>3. Inv => CapabilitiesAreProven
    <2> SUFFICES ASSUME AbleInv PROVE Able!CapabilitiesAreProven
      BY DEF CapabilitiesAreProven
    <2>1. Able!AnnouncementsAreEarned
      BY DEF AbleInv, TablesStand, EarnedTable, EarnedBy, Able!AnnouncementsAreEarned,
             Able!Earned, Able!Unnamed
    <2>2. ASSUME NEW d \in Dispatchers
          PROVE  /\ bAt[d] = "executed" =>
                       /\ bHeld[d].table[Errands[d]].print # Able!NoMark
                       /\ Able!Needs(Errands[d]) \in bHeld[d].table[Errands[d]].print.parts
                 /\ bAt[d] = "refused" =>
                       \/ Errands[d] = "remove"
                       \/ Able!Needs(Errands[d]) \notin bHeld[d].table[Errands[d]].print.parts
                       \/ "refused" \in bFaults
      <3>1. Errands[d] \in {"send", "mute", "remove"} BY ProberAssumption
      <3>2. SoundTable(bHeld[d].table, bFaults) BY People DEF AbleInv, TablesStand
      <3> QED BY <3>1, <3>2, FirstTable DEF AbleInv, DecisionsStand, SoundTable
    <2> QED BY <2>1, <2>2 DEF Able!CapabilitiesAreProven, Able!EffectsFollowFindings
  <1> QED BY <1>1, <1>2, <1>3, PTL DEF MCSpec, mcVars


-----------------------------------------------------------------------------
(* The questions to the models.                                            *)

(* No document is saved with the hash of an older content.                 *)
EditsAreHashed == \A F \in ModelFaults : "rewrite" \notin F

Contents == [Nat -> [Nat -> Nat]]
ProviderNames == Nat \X Nat
ModelPlaces == {"idle", "lists", "reads", "looks", "lock", "permit", "chain", "asks", "done"}
ModelAnswers == [text : Nat, by : ProviderNames \cup {<<>>}]
Questions ==
    [at : ModelPlaces, chain : Seq(ProviderNames), revision : SUBSET (Nat \X Nat),
     docs : [text : Nat, hash : Nat], text : Nat, next : Nat \ {0}, tried : Nat, probes : BOOLEAN,
     answer : ModelAnswers]
AnswerKeys == Nat \X SUBSET (Nat \X Nat)
KeptAnswers == [key : AnswerKeys, answer : ModelAnswers]
Connections == [enabled : BOOLEAN, config : Nat, stamp : Nat]

ModelTypes ==
    /\ mFaults \in ModelFaults
    /\ mRows \in [DOMAIN mRows -> Connections]
    /\ DOMAIN mRows \subseteq Nat /\ IsFiniteSet(DOMAIN mRows)
    /\ mStamp \in Nat /\ mDocs \in [text : Nat, hash : Nat]
    /\ mKnowledge \subseteq Nat \X Nat /\ mAnswers \in Seq(KeptAnswers)
    /\ mRequest \in [Requests -> Questions]

(* A hash stands for one text: with the documents, in the excerpts, with a *)
(* question and with an answer.                                            *)
TextsStand ==
    /\ mDocs.hash = mDocs.text
    /\ \A k \in mKnowledge : k[1] = k[2]
    /\ \A n \in 1..Len(mAnswers) : mAnswers[n].answer.text = mAnswers[n].key[1]
    /\ \A r \in Requests : LET q == mRequest[r] IN
          /\ q.text = q.docs.hash /\ q.docs.text = q.docs.hash
          /\ q.answer # Models!NoAnswer => q.answer.text = q.text
          /\ q.at # "done" => q.answer = Models!NoAnswer

(* A connection has one content at a time it was written; c tells which.   *)
Named(c, revision) == {<<x[1], c[x[1]][x[2]]>> : x \in revision}
UpTo(n) == Nat \X (0..n)

RowsFit(c) ==
    \A e \in DOMAIN mRows : mRows[e].stamp <= mStamp /\ c[e][mRows[e].stamp] = mRows[e].config

QuestionsFit(c) ==
    \A r \in Requests : LET q == mRequest[r] IN
        /\ q.revision \subseteq UpTo(mStamp)
        /\ {q.chain[n] : n \in 1..Len(q.chain)} = Named(c, q.revision)
        /\ q.answer # Models!NoAnswer => q.answer.by \in Named(c, q.revision)

KeptFit(c) ==
    \A n \in 1..Len(mAnswers) :
        /\ mAnswers[n].key[2] \subseteq UpTo(mStamp)
        /\ mAnswers[n].answer.by \in Named(c, mAnswers[n].key[2])

ContentsFit(c) == RowsFit(c) /\ QuestionsFit(c) /\ KeptFit(c)

(* Who probes asks, and has given the route up before.                     *)
ProbesStand ==
    /\ \A r \in Requests :
          /\ mRequest[r].at = "asks" => mRequest[r].next - 1 \in 1..Len(mRequest[r].chain)
          /\ mRequest[r].probes => mRequest[r].at = "asks" /\ Models!Asked(r) \in mGiven
    /\ \A r \in Requests : \A s \in Requests \ {r} :
          mRequest[r].probes /\ mRequest[s].probes => Models!Asked(s) # Models!Asked(r)

ModelInv == ModelTypes /\ TextsStand /\ (\E c \in Contents : ContentsFit(c)) /\ ProbesStand

(* The place of a connection among those that are enabled.                 *)
Rank(e) == Cardinality({f \in Models!Enabled : f <= e})

(* There is one connection for each place.                                 *)
LEMMA PlacesAreTaken ==
  ASSUME ModelTypes
  PROVE  /\ Cardinality(Models!Enabled) \in Nat /\ Models!Enabled \subseteq DOMAIN mRows
         /\ \A e \in Models!Enabled : Rank(e) \in 1..Cardinality(Models!Enabled)
         /\ \A e, f \in Models!Enabled : Rank(e) = Rank(f) => e = f
         /\ \A n \in 1..Cardinality(Models!Enabled) : \E e \in Models!Enabled : Rank(e) = n
  <1> DEFINE E == Models!Enabled
             N == Cardinality(E)
             R == [e \in E |-> Rank(e)]
             Below(e) == {f \in E : f <= e}
  <1>1. E \subseteq Nat /\ E \in SUBSET (DOMAIN mRows) /\ IsFiniteSet(DOMAIN mRows)
    BY DEF ModelTypes, Models!Enabled
  <1>2. IsFiniteSet(E) BY <1>1, FS_Subset
  <1>3. N \in Nat BY <1>2, FS_CardinalityType
  <1> HIDE DEF E
  <1>4. ASSUME NEW e \in E PROVE IsFiniteSet(Below(e)) /\ Rank(e) \in 1..N
    <2>1. Below(e) \in SUBSET E OBVIOUS
    <2>2. IsFiniteSet(Below(e)) /\ Cardinality(Below(e)) <= N BY <1>2, <2>1, FS_Subset
    <2>3. e \in Below(e) BY <1>1
    <2>4. Cardinality(Below(e)) # 0 BY <2>2, <2>3, FS_EmptySet
    <2>5. Cardinality(Below(e)) \in Nat BY <2>2, FS_CardinalityType
    <2>6. Rank(e) = Cardinality(Below(e)) BY DEF Rank, E
    <2> QED BY <1>3, <2>2, <2>4, <2>5, <2>6
  <1>5. ASSUME NEW e \in E, NEW f \in E, e < f PROVE Rank(e) # Rank(f)
    <2>0. \A g \in E : g <= e => g <= f
      <3>1. ASSUME NEW g \in E, g <= e PROVE g <= f
        <4>1. g \in Nat /\ e \in Nat /\ f \in Nat BY <1>1
        <4> QED BY <1>5, <3>1, <4>1
      <3> QED BY <3>1
    <2>1. Below(e) \in SUBSET Below(f) BY <2>0
    <2>2. f \in Below(f) /\ f \notin Below(e) BY <1>1, <1>5
    <2>3. Cardinality(Below(e)) # Cardinality(Below(f)) BY <1>4, <2>1, <2>2, FS_Subset
    <2> QED BY <2>3 DEF Rank, E
  <1>6. ASSUME NEW e \in E, NEW f \in E, Rank(e) = Rank(f) PROVE e = f
    <2>1. e \in Nat /\ f \in Nat BY <1>1
    <2>2. ~(e < f) /\ ~(f < e) BY <1>5, <1>6
    <2> QED BY <2>1, <2>2
  <1>7. R \in [E -> 1..N] BY <1>4
  <1>8. \A e, f \in E : R[e] = R[f] => e = f BY <1>6
  <1>9. R \in Injection(E, 1..N)
    <2> HIDE DEF R
    <2> QED BY <1>7, <1>8 DEF Injection, IsInjective
  <1>10. IsFiniteSet(1..N) /\ Cardinality(1..N) = N BY <1>3, FS_Interval
  <1>11. R \in Surjection(E, 1..N)
    <2> HIDE DEF R
    <2> QED BY <1>9, <1>10, FS_Injection
  <1>12. \A n \in 1..N : \E e \in E : R[e] = n
    <2> HIDE DEF R
    <2> QED BY <1>11 DEF Surjection
  <1>13. \A n \in 1..N : \E e \in E : Rank(e) = n BY <1>12
  <1> QED BY <1>1, <1>3, <1>4, <1>6, <1>13 DEF E

(* The chain goes through the connections that are enabled, and no others. *)
LEMMA ChainGoesThroughAll ==
  ASSUME ModelTypes
  PROVE  /\ Models!Chain \in Seq(ProviderNames)
         /\ {Models!Chain[n] : n \in 1..Len(Models!Chain)} = {<<e, mRows[e].config>> : e \in Models!Enabled}
  <1> DEFINE E == Models!Enabled
             N == Cardinality(E)
  <1>0. Models!Cardinality(E) = N BY DEF Models!Cardinality, Cardinality
  <1>r. \A e \in E : Models!Cardinality({f \in E : f <= e}) = Rank(e)
    BY DEF Rank, Models!Cardinality, Cardinality
  <1>1. /\ N \in Nat /\ E \subseteq DOMAIN mRows
        /\ \A e \in E : Rank(e) \in 1..N
        /\ \A e, f \in E : Rank(e) = Rank(f) => e = f
        /\ \A n \in 1..N : \E e \in E : Rank(e) = n
    BY PlacesAreTaken
  <1>2. \A e \in E : e \in Nat /\ mRows[e].config \in Nat
    BY <1>1 DEF ModelTypes, Connections
  <1>3. ASSUME NEW n \in 1..N PROVE Models!AtPlace(n) \in E /\ Rank(Models!AtPlace(n)) = n
    <2>1. Models!AtPlace(n) = CHOOSE e \in E : Rank(e) = n
      BY <1>r DEF Models!AtPlace
    <2> HIDE DEF E
    <2> QED BY <1>1, <2>1
  <1>4. \A e \in E : Models!AtPlace(Rank(e)) = e BY <1>1, <1>3
  <1>5. Models!Chain = [n \in 1..N |-> <<Models!AtPlace(n), mRows[Models!AtPlace(n)].config>>]
    BY <1>0 DEF Models!Chain, Models!Provider
  <1> HIDE DEF E, N
  <1>6. \A n \in 1..N : Models!Chain[n] = <<Models!AtPlace(n), mRows[Models!AtPlace(n)].config>>
    BY <1>5
  <1>7. \A n \in 1..N : Models!Chain[n] \in ProviderNames BY <1>2, <1>3, <1>6 DEF ProviderNames
  <1>8. Models!Chain \in Seq(ProviderNames) /\ Len(Models!Chain) = N
    <2>1. Models!Chain \in [1..N -> ProviderNames] BY <1>5, <1>7
    <2> QED BY <1>1, <2>1
  <1>9. {Models!Chain[n] : n \in 1..N} = {<<e, mRows[e].config>> : e \in E}
    <2>1. ASSUME NEW n \in 1..N PROVE \E e \in E : Models!Chain[n] = <<e, mRows[e].config>>
      BY <1>3, <1>6
    <2>2. ASSUME NEW e \in E PROVE \E n \in 1..N : Models!Chain[n] = <<e, mRows[e].config>>
      <3>1. Rank(e) \in 1..N /\ Models!AtPlace(Rank(e)) = e BY <1>1, <1>4
      <3> QED BY <1>6, <3>1
    <2> QED BY <2>1, <2>2
  <1> QED BY <1>8, <1>9 DEF E

(* A set of numbers that is not empty has a least one.                     *)
LEMMA LeastNumber ==
  ASSUME NEW S \in SUBSET Nat, S # {}
  PROVE  \E k \in S : \A j \in S : k <= j
  <1>1. PICK x \in S : \A y \in S : ~(<<y, x>> \in OpToRel(<, Nat))
    BY NatLessThanWellFounded, WFMin, Zenon
  <1>2. ASSUME NEW y \in S PROVE x <= y
    <2>1. y \in Nat /\ x \in Nat OBVIOUS
    <2>2. ~(y < x) BY <1>1, <2>1, Zenon DEF OpToRel
    <2> QED BY <2>1, <2>2
  <1> QED BY <1>2

(* Of the answers kept one less is left, or as many.                       *)
LEMMA FewerAnswers ==
  ASSUME mAnswers \in Seq(KeptAnswers), NEW key
  PROVE  /\ Models!Without(key) \in Seq(KeptAnswers)
         /\ \A n \in 1..Len(Models!Without(key)) : \E k \in 1..Len(mAnswers) :
               Models!Without(key)[n] = mAnswers[k]
  <1> DEFINE I == {i \in 1..Len(mAnswers) : mAnswers[i].key = key}
             m == Models!SelectInSeq(mAnswers, LAMBDA a : a.key = key)
             less == Models!Without(key)
             front == SubSeq(mAnswers, 1, m - 1)
             back == SubSeq(mAnswers, m + 1, Len(mAnswers))
  <1>1. CASE I = {}
    <2>1. less = mAnswers BY <1>1 DEF Models!Without, Models!RemoveFirstMatch
    <2> QED BY <2>1
  <1>2. CASE I # {}
    <2>1. I \in SUBSET Nat OBVIOUS
    <2>2. \E x \in I : \A y \in I : x <= y
      <3> HIDE DEF I
      <3> QED BY <1>2, <2>1, LeastNumber
    <2>3. m = Models!Min(I) BY <1>2 DEF Models!SelectInSeq
    <2>4. m \in I BY <2>2, <2>3 DEF Models!Min
    <2>5. m \in 1..Len(mAnswers) /\ Len(mAnswers) \in Nat BY <2>4
    <2>6. less = front \o back
      BY <1>2 DEF Models!Without, Models!RemoveFirstMatch, Models!RemoveAt
    <2> HIDE DEF m, less
    <2>7. front \in Seq(KeptAnswers) /\ back \in Seq(KeptAnswers)
      BY <2>5, SubSeqProperties
    <2>8. /\ Len(front) = m - 1 /\ Len(back) = Len(mAnswers) - m
          /\ \A i \in 1..(m - 1) : front[i] = mAnswers[i]
          /\ \A i \in 1..(Len(mAnswers) - m) : back[i] = mAnswers[m + i]
      BY <2>5, SubSeqProperties
    <2> HIDE DEF front, back
    <2>9. /\ less \in Seq(KeptAnswers) /\ Len(less) = Len(front) + Len(back)
          /\ \A i \in 1..(Len(front) + Len(back)) :
                less[i] = IF i <= Len(front) THEN front[i] ELSE back[i - Len(front)]
      BY <2>6, <2>7, ConcatProperties
    <2>10. ASSUME NEW n \in 1..Len(less) PROVE \E k \in 1..Len(mAnswers) : less[n] = mAnswers[k]
      <3>1. CASE n < m
        <4>1. less[n] = front[n] BY <2>5, <2>8, <2>9, <3>1
        <4> QED BY <2>5, <2>8, <3>1, <4>1
      <3>2. CASE n >= m
        <4>1. PICK k \in 1..(Len(mAnswers) - m) : k = n - (m - 1) BY <2>5, <2>8, <2>9, <3>2
        <4>2. less[n] = back[k] BY <2>5, <2>8, <2>9, <3>2, <4>1
        <4>3. less[n] = mAnswers[m + k] BY <2>8, <4>2
        <4>4. m + k \in 1..Len(mAnswers) BY <2>5
        <4> QED BY <4>3, <4>4
      <3> QED BY <2>5, <2>9, <3>1, <3>2
    <2> QED BY <2>9, <2>10 DEF less
  <1> QED BY <1>1, <1>2

(* A sequence of answers that holds a new one or none, and old ones.       *)
OldOr(s, new) ==
    /\ s \in Seq(KeptAnswers)
    /\ \A n \in 1..Len(s) : s[n] = new \/ \E k \in 1..Len(mAnswers) : s[n] = mAnswers[k]

LEMMA KeptAre ==
  ASSUME mAnswers \in Seq(KeptAnswers), NEW key, NEW new \in KeptAnswers
  PROVE  /\ OldOr(Append(Models!Without(key), new), new)
         /\ OldOr(Tail(Append(Models!Without(key), new)), new)
         /\ OldOr(Models!Without(key), new)
  <1> DEFINE less == Models!Without(key)
             more == Append(less, new)
  <1>1. /\ less \in Seq(KeptAnswers)
        /\ \A n \in 1..Len(less) : \E k \in 1..Len(mAnswers) : less[n] = mAnswers[k]
    BY FewerAnswers
  <1> HIDE DEF less
  <1>2. /\ more \in Seq(KeptAnswers) /\ Len(more) = Len(less) + 1
        /\ \A n \in 1..Len(less) : more[n] = less[n]
        /\ more[Len(less) + 1] = new
    BY <1>1, AppendProperties
  <1>3. ASSUME NEW n \in 1..Len(more)
        PROVE  more[n] = new \/ \E k \in 1..Len(mAnswers) : more[n] = mAnswers[k]
    <2>1. Len(less) \in Nat BY <1>1
    <2>2. n \in 1..Len(less) \/ n = Len(less) + 1 BY <1>2, <2>1
    <2> QED BY <1>1, <1>2, <2>2
  <1> HIDE DEF more
  <1>4. OldOr(more, new) BY <1>2, <1>3 DEF OldOr
  <1>5. OldOr(Tail(more), new)
    <2>1. more # <<>> BY <1>1, <1>2
    <2>2. /\ Tail(more) \in Seq(KeptAnswers) /\ Len(Tail(more)) = Len(more) - 1
          /\ \A n \in 1..Len(Tail(more)) : Tail(more)[n] = more[n + 1]
      BY <1>2, <2>1, HeadTailProperties
    <2>3. ASSUME NEW n \in 1..Len(Tail(more)) PROVE n + 1 \in 1..Len(more)
      BY <1>2, <2>2
    <2> QED BY <1>3, <2>2, <2>3 DEF OldOr
  <1>6. OldOr(less, new) BY <1>1 DEF OldOr
  <1> QED BY <1>4, <1>5, <1>6 DEF less, more

(* The answers kept fit if the new one does.                               *)
LEMMA KeptStand ==
  ASSUME ModelTypes, TextsStand, NEW c \in Contents, KeptFit(c), NEW new, OldOr(mAnswers', new),
         new.answer.text = new.key[1], new.key[2] \subseteq UpTo(mStamp),
         new.answer.by \in Named(c, new.key[2]), mStamp' = mStamp
  PROVE  /\ KeptFit(c)' /\ mAnswers' \in Seq(KeptAnswers)
         /\ \A n \in 1..Len(mAnswers') : mAnswers'[n].answer.text = mAnswers'[n].key[1]
  <1>1. ASSUME NEW n \in 1..Len(mAnswers')
        PROVE  /\ mAnswers'[n].answer.text = mAnswers'[n].key[1]
               /\ mAnswers'[n].key[2] \subseteq UpTo(mStamp)
               /\ mAnswers'[n].answer.by \in Named(c, mAnswers'[n].key[2])
    <2>1. CASE mAnswers'[n] = new BY <2>1
    <2>2. CASE \E k \in 1..Len(mAnswers) : mAnswers'[n] = mAnswers[k]
      BY <2>2 DEF TextsStand, KeptFit
    <2> QED BY <2>1, <2>2 DEF OldOr
  <1>2. KeptFit(c)' BY <1>1 DEF KeptFit, Named
  <1> QED BY <1>1, <1>2 DEF OldOr

(* What was named before a time is named the same after it.                *)
LEMMA NamedStays ==
  ASSUME NEW c, NEW d, NEW n, NEW revision \in SUBSET UpTo(n),
         \A e \in Nat : \A t \in 0..n : c[e][t] = d[e][t]
  PROVE  Named(c, revision) = Named(d, revision)
  <1>1. \A x \in revision : x[1] \in Nat /\ x[2] \in 0..n BY DEF UpTo
  <1>2. \A x \in revision : <<x[1], c[x[1]][x[2]]>> = <<x[1], d[x[1]][x[2]]>> BY <1>1
  <1> QED BY <1>2 DEF Named

(* A change of connections leaves what questions and answers name.         *)
LEMMA ContentsChange ==
  ASSUME ModelTypes, NEW c \in Contents, QuestionsFit(c), KeptFit(c), NEW e \in Nat, NEW v \in Nat,
         mStamp' = mStamp + 1, mAnswers' = mAnswers,
         \A r \in Requests : /\ mRequest'[r].chain = mRequest[r].chain
                             /\ mRequest'[r].revision = mRequest[r].revision
                             /\ mRequest'[r].answer = mRequest[r].answer
  PROVE  \E d \in Contents :
            /\ d[e][mStamp + 1] = v
            /\ \A f \in Nat : \A t \in 0..mStamp : d[f][t] = c[f][t]
            /\ QuestionsFit(d)' /\ KeptFit(d)'
  <1>0. mStamp \in Nat BY DEF ModelTypes
  <1>1. \E d \in Contents : /\ d[e][mStamp + 1] = v
                            /\ \A f \in Nat : \A t \in 0..mStamp : d[f][t] = c[f][t]
    <2> DEFINE d == [f \in Nat |-> [t \in Nat |-> IF f = e /\ t = mStamp + 1 THEN v ELSE c[f][t]]]
    <2>1. d \in Contents BY DEF Contents
    <2>2. d[e][mStamp + 1] = v BY <1>0
    <2>3. \A f \in Nat : \A t \in 0..mStamp : d[f][t] = c[f][t] BY <1>0
    <2> HIDE DEF d
    <2> QED BY <2>1, <2>2, <2>3
  <1>3. PICK d \in Contents : /\ d[e][mStamp + 1] = v
                              /\ \A f \in Nat : \A t \in 0..mStamp : d[f][t] = c[f][t]
    BY <1>1
  <1>4. \A revision \in SUBSET UpTo(mStamp) :
          Named(c, revision) = Named(d, revision) /\ revision \subseteq UpTo(mStamp + 1)
    <2>1. UpTo(mStamp) \subseteq UpTo(mStamp + 1) BY <1>0 DEF UpTo
    <2> QED BY <1>3, <2>1, NamedStays
  <1>5. QuestionsFit(d)'
    <2>1. ASSUME NEW r \in Requests
          PROVE  LET q == mRequest'[r] IN
                   /\ q.revision \subseteq UpTo(mStamp')
                   /\ {q.chain[n] : n \in 1..Len(q.chain)} = Named(d, q.revision)
                   /\ q.answer # Models!NoAnswer => q.answer.by \in Named(d, q.revision)
      <3>1. /\ mRequest[r].revision \in SUBSET UpTo(mStamp)
            /\ {mRequest[r].chain[n] : n \in 1..Len(mRequest[r].chain)} = Named(c, mRequest[r].revision)
            /\ mRequest[r].answer # Models!NoAnswer => mRequest[r].answer.by \in Named(c, mRequest[r].revision)
        BY DEF QuestionsFit
      <3>2. /\ mRequest[r].revision \subseteq UpTo(mStamp + 1)
            /\ Named(c, mRequest[r].revision) = Named(d, mRequest[r].revision)
        BY <1>4, <3>1
      <3> QED BY <3>1, <3>2
    <2> QED BY <2>1 DEF QuestionsFit, Named
  <1>6. KeptFit(d)'
    <2>1. ASSUME NEW n \in 1..Len(mAnswers)
          PROVE  /\ mAnswers[n].key[2] \subseteq UpTo(mStamp + 1)
                 /\ mAnswers[n].answer.by \in Named(d, mAnswers[n].key[2])
      <3>1. /\ mAnswers[n].key[2] \in SUBSET UpTo(mStamp)
            /\ mAnswers[n].answer.by \in Named(c, mAnswers[n].key[2])
        BY DEF KeptFit
      <3>2. /\ mAnswers[n].key[2] \subseteq UpTo(mStamp + 1)
            /\ Named(c, mAnswers[n].key[2]) = Named(d, mAnswers[n].key[2])
        BY <1>4, <3>1
      <3> QED BY <3>1, <3>2
    <2>2. KeptFit(d)' <=> \A n \in 1..Len(mAnswers') :
              /\ mAnswers'[n].key[2] \subseteq UpTo(mStamp')
              /\ mAnswers'[n].answer.by \in Named(d, mAnswers'[n].key[2])
      BY DEF KeptFit, Named
    <2> QED BY <2>1, <2>2
  <1> QED BY <1>3, <1>5, <1>6

LEMMA IdleIs ==
  /\ Models!Idle \in Questions /\ Models!NoAnswer \in ModelAnswers
  /\ Models!Idle.at = "idle" /\ Models!Idle.chain = <<>> /\ Models!Idle.revision = {}
  /\ Models!Idle.docs.text = 0 /\ Models!Idle.docs.hash = 0 /\ Models!Idle.text = 0
  /\ ~Models!Idle.probes /\ Models!Idle.answer = Models!NoAnswer
  BY DEF Models!Idle, Models!NoAnswer, Questions, ModelPlaces, ModelAnswers

LEMMA ModelsStart == ASSUME MCInit, focus = "models" PROVE ModelInv
  <1>1. Models!Init BY DEF MCInit
  <1>2. \A r \in Requests : mRequest[r] = Models!Idle BY <1>1 DEF Models!Init
  <1>3. mRows \in [DOMAIN mRows -> Connections] /\ DOMAIN mRows = Endpoints
    BY <1>1 DEF Models!Init, Models!Row, Connections
  <1>4. ModelTypes
    BY <1>1, <1>3, IdleIs, ConnectionAssumption DEF Models!Init, ModelTypes
  <1>5. TextsStand BY <1>1, <1>2, IdleIs DEF Models!Init, TextsStand
  <1>6. ProbesStand BY <1>2, IdleIs DEF ProbesStand
  <1>7. PICK c \in Contents : \A e, t \in Nat : c[e][t] = 0
    <2>1. [e \in Nat |-> [t \in Nat |-> 0]] \in Contents BY DEF Contents
    <2> QED BY <2>1
  <1>8. RowsFit(c)
    <2>1. \A e \in DOMAIN mRows : mRows[e].stamp = 0 /\ mRows[e].config = 0 /\ e \in Nat
      BY <1>1, ConnectionAssumption DEF Models!Init, Models!Row
    <2>2. mStamp = 0 BY <1>1 DEF Models!Init
    <2> QED BY <1>7, <2>1, <2>2 DEF RowsFit
  <1>9. QuestionsFit(c)
    <2>1. Len(<<>>) = 0 OBVIOUS
    <2> QED BY <1>2, <2>1, IdleIs DEF QuestionsFit, Named
  <1>10. KeptFit(c) BY <1>1 DEF Models!Init, KeptFit
  <1> QED BY <1>4, <1>5, <1>6, <1>7, <1>8, <1>9, <1>10 DEF ModelInv, ContentsFit

(* A connection is written: the content and the time of e.                 *)
WritesRow(e) ==
    /\ mStamp' = mStamp + 1 /\ e \in Nat
    /\ DOMAIN mRows' = DOMAIN mRows \cup {e}
    /\ mRows'[e] \in Connections /\ mRows'[e].stamp = mStamp + 1
    /\ \A f \in DOMAIN mRows \ {e} : mRows'[f] = mRows[f]
    /\ mRows' \in [DOMAIN mRows' -> Connections]

LEMMA WriteKeeps ==
  ASSUME ModelTypes, NEW c \in Contents, ContentsFit(c), NEW e, WritesRow(e), mAnswers' = mAnswers,
         \A r \in Requests : /\ mRequest'[r].chain = mRequest[r].chain
                             /\ mRequest'[r].revision = mRequest[r].revision
                             /\ mRequest'[r].answer = mRequest[r].answer
  PROVE  (\E d \in Contents : ContentsFit(d))'
  <1>0. mStamp \in Nat /\ e \in Nat /\ DOMAIN mRows \subseteq Nat /\ mRows \in [DOMAIN mRows -> Connections]
    BY DEF ModelTypes, WritesRow
  <1>1. mRows'[e].config \in Nat BY DEF WritesRow, Connections
  <1>2. PICK d \in Contents :
          /\ d[e][mStamp + 1] = mRows'[e].config
          /\ \A f \in Nat : \A t \in 0..mStamp : d[f][t] = c[f][t]
          /\ QuestionsFit(d)' /\ KeptFit(d)'
    <2>1. QuestionsFit(c) /\ KeptFit(c) /\ mStamp' = mStamp + 1 BY DEF ContentsFit, WritesRow
    <2>2. PICK v \in Nat : v = mRows'[e].config BY <1>1
    <2>3. \E d \in Contents :
            /\ d[e][mStamp + 1] = v
            /\ \A f \in Nat : \A t \in 0..mStamp : d[f][t] = c[f][t]
            /\ QuestionsFit(d)' /\ KeptFit(d)'
      BY <1>0, <2>1, ContentsChange
    <2> QED BY <2>2, <2>3
  <1>3. ASSUME NEW f \in DOMAIN mRows'
        PROVE  mRows'[f].stamp <= mStamp' /\ d[f][mRows'[f].stamp] = mRows'[f].config
    <2>1. CASE f = e BY <1>0, <1>2, <2>1 DEF WritesRow
    <2>2. CASE f # e
      <3>1. f \in DOMAIN mRows /\ mRows'[f] = mRows[f] BY <2>2 DEF WritesRow
      <3>2. mRows[f].stamp <= mStamp /\ c[f][mRows[f].stamp] = mRows[f].config /\ mRows[f].stamp \in Nat
        BY <1>0, <3>1 DEF ContentsFit, RowsFit, Connections
      <3>3. f \in Nat /\ mRows[f].stamp \in 0..mStamp BY <1>0, <3>1, <3>2
      <3> QED BY <1>0, <1>2, <3>1, <3>2, <3>3 DEF WritesRow
    <2> QED BY <2>1, <2>2
  <1>4. RowsFit(d)' BY <1>3 DEF RowsFit
  <1> QED BY <1>2, <1>4 DEF ContentsFit

(* Nothing but the connections changes.                                    *)
LEMMA ConnectionsKeep ==
  ASSUME ModelInv, UNCHANGED <<mFaults, mDocs, mKnowledge, mAnswers, mRequest>>,
         mGiven \subseteq mGiven',
         \/ \E e : WritesRow(e)
         \/ UNCHANGED mStamp /\ \E e : mRows' = [f \in DOMAIN mRows \ {e} |-> mRows[f]]
         \/ UNCHANGED <<mStamp, mRows>>
  PROVE  ModelInv'
  <1>t. ModelTypes /\ TextsStand /\ ProbesStand BY DEF ModelInv
  <1>0. PICK c \in Contents : ContentsFit(c) BY DEF ModelInv
  <1>1. CASE \E e : WritesRow(e)
    <2>1. PICK e : WritesRow(e) BY <1>1
    <2>2. (\E d \in Contents : ContentsFit(d))' BY <1>0, <1>t, <2>1, WriteKeeps
    <2>3. IsFiniteSet(DOMAIN mRows') /\ DOMAIN mRows' \subseteq Nat /\ mStamp' \in Nat
      <3>1. IsFiniteSet(DOMAIN mRows \cup {e}) BY <1>t, FS_AddElement DEF ModelTypes
      <3> QED BY <1>t, <2>1, <3>1 DEF ModelTypes, WritesRow
    <2>4. ModelTypes' BY <1>t, <2>1, <2>3 DEF ModelTypes, WritesRow
    <2>5. TextsStand' /\ ProbesStand' BY <1>t DEF TextsStand, ProbesStand, Models!Asked
    <2> QED BY <2>2, <2>4, <2>5 DEF ModelInv
  <1>2. CASE UNCHANGED mStamp /\ \E e : mRows' = [f \in DOMAIN mRows \ {e} |-> mRows[f]]
    <2>1. PICK e : mRows' = [f \in DOMAIN mRows \ {e} |-> mRows[f]] BY <1>2
    <2>2. /\ DOMAIN mRows' \in SUBSET (DOMAIN mRows)
          /\ \A f \in DOMAIN mRows' : mRows'[f] = mRows[f]
          /\ mRows' \in [DOMAIN mRows' -> Connections]
      BY <1>t, <2>1 DEF ModelTypes
    <2>3. IsFiniteSet(DOMAIN mRows') BY <1>t, <2>2, FS_Subset DEF ModelTypes
    <2>4. ModelTypes' BY <1>2, <1>t, <2>2, <2>3 DEF ModelTypes
    <2>5. TextsStand' /\ ProbesStand' BY <1>t DEF TextsStand, ProbesStand, Models!Asked
    <2>6. ContentsFit(c)'
      BY <1>0, <1>2, <2>2 DEF ContentsFit, RowsFit, QuestionsFit, KeptFit, Named
    <2> QED BY <1>0, <2>4, <2>5, <2>6 DEF ModelInv
  <1>3. CASE UNCHANGED <<mStamp, mRows>>
    <2>4. ModelTypes' BY <1>3, <1>t DEF ModelTypes
    <2>5. TextsStand' /\ ProbesStand' BY <1>t DEF TextsStand, ProbesStand, Models!Asked
    <2>6. ContentsFit(c)'
      BY <1>0, <1>3 DEF ContentsFit, RowsFit, QuestionsFit, KeptFit, Named
    <2> QED BY <1>0, <2>4, <2>5, <2>6 DEF ModelInv
  <1> QED BY <1>1, <1>2, <1>3

LEMMA ModelCommandsKeep ==
  ASSUME EditsAreHashed, ModelInv, Models!Command PROVE ModelInv'
  <1>t. ModelTypes /\ TextsStand /\ ProbesStand BY DEF ModelInv
  <1>0. PICK c \in Contents : ContentsFit(c) BY DEF ModelInv
  <1>r. /\ DOMAIN mRows \subseteq Nat /\ mRows \in [DOMAIN mRows -> Connections] /\ mStamp \in Nat
    BY <1>t DEF ModelTypes
  <1>1. CASE Models!SaveDocument
    <2>1. /\ mDocs' = [text |-> mDocs.text + 1, hash |-> mDocs.text + 1]
          /\ UNCHANGED <<mFaults, mRows, mStamp, mKnowledge, mAnswers, mGiven, mRequest>>
      BY <1>1, <1>t DEF Models!SaveDocument, Models!HashOf, EditsAreHashed, ModelTypes, Models!pool,
                        Models!caches
    <2>2. ModelTypes' BY <1>t, <2>1 DEF ModelTypes
    <2>3. TextsStand' /\ ProbesStand' BY <1>t, <2>1 DEF TextsStand, ProbesStand, Models!Asked
    <2>4. ContentsFit(c)'
      BY <1>0, <2>1 DEF ContentsFit, RowsFit, QuestionsFit, KeptFit, Named
    <2> QED BY <1>0, <2>2, <2>3, <2>4 DEF ModelInv
  <1>2. ASSUME NEW e \in Endpoints, Models!SaveEndpoint(e) PROVE ModelInv'
    <2>1. PICK on \in BOOLEAN : mRows' = [mRows EXCEPT ![e] = [enabled |-> on, config |-> mStamp', stamp |-> mStamp']]
      BY <1>2 DEF Models!SaveEndpoint, Models!WriteEndpoint
    <2>2. e \in DOMAIN mRows /\ mStamp' = mStamp + 1 /\ UNCHANGED <<mFaults, mDocs, mKnowledge, mAnswers, mRequest, mGiven>>
      BY <1>2 DEF Models!SaveEndpoint, Models!Stamps, Models!pool, Models!caches
    <2>3. WritesRow(e) BY <1>r, <2>1, <2>2 DEF WritesRow, Connections
    <2> QED BY <2>2, <2>3, ConnectionsKeep
  <1>3. ASSUME NEW e \in Endpoints, Models!CheckDelete(e) PROVE ModelInv'
    BY <1>3, ConnectionsKeep DEF Models!CheckDelete, Models!pool, Models!caches
  <1>4. ASSUME NEW e \in Endpoints, Models!DeleteEndpoint(e) PROVE ModelInv'
    BY <1>4, ConnectionsKeep DEF Models!DeleteEndpoint, Models!RemoveEndpoint, Models!pool, Models!caches
  <1>5. ASSUME NEW e \in Endpoints, Models!TestEndpoint(e) PROVE ModelInv'
    <2>1. /\ e \in DOMAIN mRows /\ mStamp' = mStamp + 1 /\ mRows' = [mRows EXCEPT ![e].stamp = mStamp']
          /\ UNCHANGED <<mFaults, mDocs, mKnowledge, mAnswers, mRequest>> /\ mGiven \subseteq mGiven'
      BY <1>5 DEF Models!TestEndpoint, Models!Stamps, Models!WriteHealth, Models!caches, Models!Enabled
    <2>2. WritesRow(e) BY <1>r, <2>1 DEF WritesRow, Connections
    <2> QED BY <2>1, <2>2, ConnectionsKeep
  <1> QED BY <1>1, <1>2, <1>3, <1>4, <1>5 DEF Models!Command

(* A request moves on and keeps what it has; if it asks, it asked before.  *)
LEMMA QuestionMoves ==
  ASSUME ModelInv, NEW r \in Requests,
         UNCHANGED <<mFaults, mRows, mStamp, mDocs, mKnowledge, mAnswers, mGiven>>,
         mRequest' \in [Requests -> Questions],
         \A s \in Requests : s # r => mRequest'[s] = mRequest[s],
         mRequest'[r].chain = mRequest[r].chain, mRequest'[r].revision = mRequest[r].revision,
         mRequest'[r].docs = mRequest[r].docs, mRequest'[r].text = mRequest[r].text,
         mRequest'[r].answer = mRequest[r].answer, ~mRequest'[r].probes, mRequest[r].at # "done",
         mRequest'[r].at = "asks" =>
            mRequest[r].at = "asks" /\ mRequest'[r].next = mRequest[r].next
  PROVE  ModelInv'
  <1>t. ModelTypes /\ TextsStand /\ ProbesStand BY DEF ModelInv
  <1>0. PICK c \in Contents : ContentsFit(c) BY DEF ModelInv
  <1>1. ModelTypes' BY <1>t DEF ModelTypes
  <1>2. TextsStand'
    <2>1. ASSUME NEW s \in Requests
          PROVE  LET q == mRequest'[s] IN
                 /\ q.text = q.docs.hash /\ q.docs.text = q.docs.hash
                 /\ q.answer # Models!NoAnswer => q.answer.text = q.text
                 /\ q.at # "done" => q.answer = Models!NoAnswer
      BY <1>t DEF TextsStand
    <2> QED BY <1>t, <2>1 DEF TextsStand, Models!NoAnswer
  <1>3. ContentsFit(c)'
    <2>1. QuestionsFit(c)'
      <3>1. ASSUME NEW s \in Requests
            PROVE  /\ mRequest'[s].chain = mRequest[s].chain /\ mRequest'[s].revision = mRequest[s].revision
                   /\ mRequest'[s].answer = mRequest[s].answer
        OBVIOUS
      <3>2. ASSUME NEW s \in Requests
            PROVE  LET q == mRequest'[s] IN
                   /\ q.revision \subseteq UpTo(mStamp)
                   /\ {q.chain[n] : n \in 1..Len(q.chain)} = Named(c, q.revision)
                   /\ q.answer # Models!NoAnswer => q.answer.by \in Named(c, q.revision)
        <4>1. /\ mRequest[s].revision \subseteq UpTo(mStamp)
              /\ {mRequest[s].chain[n] : n \in 1..Len(mRequest[s].chain)} = Named(c, mRequest[s].revision)
              /\ mRequest[s].answer # Models!NoAnswer => mRequest[s].answer.by \in Named(c, mRequest[s].revision)
          BY <1>0 DEF ContentsFit, QuestionsFit
        <4> QED BY <3>1, <4>1
      <3> QED BY <3>2 DEF QuestionsFit, Named
    <2>2. RowsFit(c)' /\ KeptFit(c)' BY <1>0 DEF ContentsFit, RowsFit, KeptFit, Named
    <2> QED BY <2>1, <2>2 DEF ContentsFit
  <1>4. ProbesStand'
    <2>1. ASSUME NEW s \in Requests
          PROVE  /\ mRequest'[s].at = "asks" => mRequest'[s].next - 1 \in 1..Len(mRequest'[s].chain)
                 /\ mRequest'[s].probes => /\ s # r /\ mRequest'[s].at = "asks"
                                           /\ Models!Asked(s)' \in mGiven' /\ Models!Asked(s)' = Models!Asked(s)
      BY <1>t DEF ProbesStand, Models!Asked
    <2>2. ASSUME NEW s \in Requests, NEW u \in Requests \ {s}, mRequest'[s].probes, mRequest'[u].probes
          PROVE  Models!Asked(u)' # Models!Asked(s)'
      BY <1>t, <2>1, <2>2 DEF ProbesStand
    <2> QED BY <2>1, <2>2 DEF ProbesStand
  <1> QED BY <1>0, <1>1, <1>2, <1>3, <1>4 DEF ModelInv

(* Steps that only move a request on.                                      *)
LEMMA SimpleStepsKeep ==
  ASSUME ModelInv, NEW r \in Requests,
         \/ Models!TakeSession(r) \/ Models!TakePermit(r) \/ Models!GivesUp(r)
         \/ Models!FallsBack(r) \/ Models!Fails(r) \/ Models!Dropped(r)
  PROVE  ModelInv'
  <1>t. ModelTypes /\ TextsStand /\ ProbesStand BY DEF ModelInv
  <1>q. mRequest \in [Requests -> Questions] /\ mRequest[r] \in Questions BY <1>t DEF ModelTypes
  <1>1. UNCHANGED <<mFaults, mRows, mStamp, mDocs, mKnowledge, mAnswers, mGiven>>
    BY DEF Models!TakeSession, Models!TakePermit, Models!GivesUp, Models!FallsBack, Models!Fails,
           Models!Dropped, Models!store, Models!pool, Models!caches
  <1>2. PICK w \in {"permit", "chain", "asks", "done"} :
          /\ \/ mRequest' = [mRequest EXCEPT ![r].at = w] /\ mRequest[r].at # "asks"
             \/ mRequest' = [mRequest EXCEPT ![r].at = w, ![r].probes = FALSE]
             \/ mRequest' = [mRequest EXCEPT ![r].probes = FALSE] /\ w = "asks"
          /\ w = "asks" => mRequest[r].at = "asks"
          /\ mRequest[r].at # "done"
    BY DEF Models!TakeSession, Models!TakePermit, Models!GivesUp, Models!FallsBack, Models!Fails,
           Models!Dropped
  <1>3. mRequest[r].at # "asks" => ~mRequest[r].probes BY <1>t DEF ProbesStand
  <1>4. /\ mRequest'[r] \in Questions
        /\ mRequest'[r].at = w
        /\ mRequest'[r].chain = mRequest[r].chain /\ mRequest'[r].revision = mRequest[r].revision
        /\ mRequest'[r].docs = mRequest[r].docs /\ mRequest'[r].text = mRequest[r].text
        /\ mRequest'[r].answer = mRequest[r].answer /\ mRequest'[r].next = mRequest[r].next
        /\ ~mRequest'[r].probes
    <2>1. CASE mRequest' = [mRequest EXCEPT ![r].at = w] /\ mRequest[r].at # "asks"
      <3>1. mRequest'[r] = [mRequest[r] EXCEPT !.at = w] BY <1>q, <2>1
      <3> QED BY <1>q, <1>2, <1>3, <2>1, <3>1 DEF Questions, ModelPlaces
    <2>2. CASE mRequest' = [mRequest EXCEPT ![r].at = w, ![r].probes = FALSE]
      <3>1. mRequest'[r] = [mRequest[r] EXCEPT !.at = w, !.probes = FALSE] BY <1>q, <2>2
      <3> QED BY <1>q, <1>2, <3>1 DEF Questions, ModelPlaces
    <2>3. CASE mRequest' = [mRequest EXCEPT ![r].probes = FALSE] /\ w = "asks"
      <3>1. mRequest'[r] = [mRequest[r] EXCEPT !.probes = FALSE] BY <1>q, <2>3
      <3> QED BY <1>q, <1>2, <2>3, <3>1 DEF Questions, ModelPlaces
    <2> QED BY <1>2, <2>1, <2>2, <2>3
  <1>5. /\ mRequest' \in [Requests -> Questions]
        /\ \A s \in Requests : s # r => mRequest'[s] = mRequest[s]
    <2>1. /\ DOMAIN mRequest' = Requests /\ mRequest' = [s \in Requests |-> mRequest'[s]]
          /\ \A s \in Requests : s # r => mRequest'[s] = mRequest[s]
      BY <1>q, <1>2
    <2> QED BY <1>q, <1>4, <2>1
  <1>6. mRequest'[r].at = "asks" => mRequest[r].at = "asks" BY <1>2, <1>4
  <1> QED BY <1>1, <1>2, <1>4, <1>5, <1>6, QuestionMoves

(* What one request does to the rest of the state.                         *)
LEMMA OneStepKeeps ==
  ASSUME ModelInv, NEW r \in Requests, NEW q \in Questions, NEW c \in Contents, ContentsFit(c),
         UNCHANGED <<mFaults, mRows, mStamp, mDocs>>,
         mRequest' = [mRequest EXCEPT ![r] = q],
         mKnowledge' \subseteq Nat \X Nat, \A k \in mKnowledge' : k[1] = k[2],
         mAnswers' \in Seq(KeptAnswers), KeptFit(c)',
         \A n \in 1..Len(mAnswers') : mAnswers'[n].answer.text = mAnswers'[n].key[1],
         q.text = q.docs.hash, q.docs.text = q.docs.hash,
         q.answer # Models!NoAnswer => q.answer.text = q.text,
         q.at # "done" => q.answer = Models!NoAnswer,
         q.revision \subseteq UpTo(mStamp),
         {q.chain[n] : n \in 1..Len(q.chain)} = Named(c, q.revision),
         q.answer # Models!NoAnswer => q.answer.by \in Named(c, q.revision),
         q.at = "asks" => q.next - 1 \in 1..Len(q.chain),
         q.probes => q.at = "asks" /\ q.chain[q.next - 1] \in mGiven',
         \A s \in Requests : s # r /\ mRequest[s].probes =>
            /\ Models!Asked(s) \in mGiven'
            /\ q.probes => Models!Asked(s) # q.chain[q.next - 1]
  PROVE  ModelInv'
  <1>t. ModelTypes /\ TextsStand /\ ProbesStand BY DEF ModelInv
  <1>a. /\ mRequest' \in [Requests -> Questions] /\ mRequest'[r] = q
        /\ \A s \in Requests : s # r => mRequest'[s] = mRequest[s]
    BY <1>t DEF ModelTypes
  <1>1. ModelTypes' BY <1>t, <1>a DEF ModelTypes
  <1>2. TextsStand'
    <2>1. ASSUME NEW s \in Requests
          PROVE  /\ mRequest'[s].text = mRequest'[s].docs.hash
                 /\ mRequest'[s].docs.text = mRequest'[s].docs.hash
                 /\ mRequest'[s].answer # Models!NoAnswer => mRequest'[s].answer.text = mRequest'[s].text
                 /\ mRequest'[s].at # "done" => mRequest'[s].answer = Models!NoAnswer
      <3>1. CASE s = r BY <1>a, <3>1
      <3>2. CASE s # r
        <4>1. mRequest'[s] = mRequest[s] BY <1>a, <3>2
        <4> QED BY <1>t, <4>1 DEF TextsStand
      <3> QED BY <3>1, <3>2
    <2> QED BY <1>t, <2>1 DEF TextsStand, Models!NoAnswer
  <1>3. QuestionsFit(c)'
    <2>1. ASSUME NEW s \in Requests
          PROVE  /\ mRequest'[s].revision \subseteq UpTo(mStamp)
                 /\ {mRequest'[s].chain[n] : n \in 1..Len(mRequest'[s].chain)} = Named(c, mRequest'[s].revision)
                 /\ mRequest'[s].answer # Models!NoAnswer =>
                       mRequest'[s].answer.by \in Named(c, mRequest'[s].revision)
      <3>1. CASE s = r BY <1>a, <3>1
      <3>2. CASE s # r
        <4>1. mRequest'[s] = mRequest[s] BY <1>a, <3>2
        <4>2. /\ mRequest[s].revision \subseteq UpTo(mStamp)
              /\ {mRequest[s].chain[n] : n \in 1..Len(mRequest[s].chain)} = Named(c, mRequest[s].revision)
              /\ mRequest[s].answer # Models!NoAnswer => mRequest[s].answer.by \in Named(c, mRequest[s].revision)
          BY DEF ContentsFit, QuestionsFit
        <4> QED BY <4>1, <4>2
      <3> QED BY <3>1, <3>2
    <2> QED BY <2>1 DEF QuestionsFit, Named
  <1>4. ContentsFit(c)' BY <1>3 DEF ContentsFit, RowsFit
  <1>5. ProbesStand'
    <2>1. ASSUME NEW s \in Requests
          PROVE  /\ mRequest'[s].at = "asks" => mRequest'[s].next - 1 \in 1..Len(mRequest'[s].chain)
                 /\ mRequest'[s].probes => mRequest'[s].at = "asks" /\ Models!Asked(s)' \in mGiven'
      BY <1>t, <1>a DEF ProbesStand, Models!Asked
    <2>2. ASSUME NEW s \in Requests, NEW u \in Requests \ {s}, mRequest'[s].probes, mRequest'[u].probes
          PROVE  Models!Asked(u)' # Models!Asked(s)'
      <3>1. CASE s # r /\ u # r
        <4>1. Models!Asked(u)' = Models!Asked(u) /\ Models!Asked(s)' = Models!Asked(s)
          BY <1>a, <3>1 DEF Models!Asked
        <4> QED BY <1>t, <1>a, <2>2, <3>1, <4>1 DEF ProbesStand
      <3>2. CASE s = r
        <4>1. Models!Asked(u)' = Models!Asked(u) /\ Models!Asked(s)' = q.chain[q.next - 1]
          BY <1>a, <3>2 DEF Models!Asked
        <4> QED BY <1>a, <2>2, <3>2, <4>1
      <3>3. CASE u = r
        <4>1. Models!Asked(s)' = Models!Asked(s) /\ Models!Asked(u)' = q.chain[q.next - 1]
          BY <1>a, <3>3 DEF Models!Asked
        <4> QED BY <1>a, <2>2, <3>3, <4>1
      <3> QED BY <3>1, <3>2, <3>3
    <2> QED BY <2>1, <2>2 DEF ProbesStand
  <1> QED BY <1>1, <1>2, <1>4, <1>5 DEF ModelInv

(* Where neither answers nor providers change, these need no proof anew.   *)
LEMMA RestStays ==
  ASSUME ModelInv, NEW c \in Contents, ContentsFit(c), UNCHANGED <<mStamp, mAnswers>>,
         mGiven \subseteq mGiven'
  PROVE  /\ mAnswers' \in Seq(KeptAnswers) /\ KeptFit(c)'
         /\ \A n \in 1..Len(mAnswers') : mAnswers'[n].answer.text = mAnswers'[n].key[1]
         /\ \A s \in Requests : mRequest[s].probes => Models!Asked(s) \in mGiven'
  <1>t. ModelTypes /\ TextsStand /\ ProbesStand BY DEF ModelInv
  <1>1. KeptFit(c)' BY DEF ContentsFit, KeptFit, Named
  <1> QED BY <1>t, <1>1 DEF ModelTypes, TextsStand, ProbesStand

(* The connections listed give the chain and the revision.                 *)
LEMMA ListKeeps == ASSUME ModelInv, NEW r \in Requests, Models!ListEndpoints(r) PROVE ModelInv'
  <1>t. ModelTypes /\ TextsStand /\ ProbesStand BY DEF ModelInv
  <1>0. PICK c \in Contents : ContentsFit(c) BY DEF ModelInv
  <1>u. UNCHANGED <<mFaults, mRows, mStamp, mDocs, mKnowledge, mAnswers, mGiven>>
    BY DEF Models!ListEndpoints, Models!store, Models!pool, Models!caches
  <1>1. \A e \in Models!Enabled : /\ e \in Nat /\ mRows[e].stamp \in 0..mStamp
                                  /\ c[e][mRows[e].stamp] = mRows[e].config
    BY <1>0, <1>t DEF ContentsFit, RowsFit, ModelTypes, Connections, Models!Enabled
  <1>2. Models!Revision \subseteq UpTo(mStamp) /\ Models!Revision \in SUBSET (Nat \X Nat)
    <2>1. mStamp \in Nat BY <1>t DEF ModelTypes
    <2> QED BY <1>1, <2>1 DEF Models!Revision, UpTo
  <1>3. Named(c, Models!Revision) = {<<e, mRows[e].config>> : e \in Models!Enabled}
    <2>1. Named(c, Models!Revision) = {<<e, c[e][mRows[e].stamp]>> : e \in Models!Enabled}
      <3>1. \A e \in Models!Enabled : \E x \in Models!Revision : x[1] = e /\ x[2] = mRows[e].stamp
        <4>1. ASSUME NEW e \in Models!Enabled
              PROVE  \E x \in Models!Revision : x[1] = e /\ x[2] = mRows[e].stamp
          <5>1. <<e, mRows[e].stamp>> \in Models!Revision BY DEF Models!Revision
          <5>2. <<e, mRows[e].stamp>>[1] = e /\ <<e, mRows[e].stamp>>[2] = mRows[e].stamp OBVIOUS
          <5> QED BY <5>1, <5>2
        <4> QED BY <4>1
      <3>2. \A x \in Models!Revision : \E e \in Models!Enabled : x[1] = e /\ x[2] = mRows[e].stamp
        BY DEF Models!Revision
      <3> QED BY <3>1, <3>2 DEF Named
    <2> QED BY <1>1, <2>1
  <1>4. /\ Models!Chain \in Seq(ProviderNames)
        /\ {Models!Chain[n] : n \in 1..Len(Models!Chain)} = Named(c, Models!Revision)
    BY <1>t, <1>3, ChainGoesThroughAll
  <1>5. \E q \in Questions :
          /\ mRequest' = [mRequest EXCEPT ![r] = q] /\ q.text = 0 /\ q.docs.text = 0 /\ q.docs.hash = 0
          /\ q.answer = Models!NoAnswer /\ ~q.probes /\ q.at # "asks" /\ q.revision \subseteq UpTo(mStamp)
          /\ {q.chain[n] : n \in 1..Len(q.chain)} = Named(c, q.revision)
    <2>1. CASE Models!Enabled = {}
      <3>1. mRequest' = [mRequest EXCEPT ![r] = [Models!Idle EXCEPT !.at = "done"]]
        BY <2>1 DEF Models!ListEndpoints
      <3> DEFINE p == [Models!Idle EXCEPT !.at = "done"]
      <3>2. /\ p \in Questions /\ p.text = 0 /\ p.docs.text = 0 /\ p.docs.hash = 0
            /\ p.answer = Models!NoAnswer /\ ~p.probes /\ p.at = "done" /\ p.revision = {} /\ p.chain = <<>>
        BY IdleIs DEF Questions, ModelPlaces
      <3> HIDE DEF p
      <3>3. {p.chain[n] : n \in 1..Len(p.chain)} = Named(c, p.revision) BY <3>2 DEF Named
      <3> QED BY <3>1, <3>2, <3>3 DEF p
    <2>2. CASE Models!Enabled # {}
      <3> DEFINE p == [Models!Idle EXCEPT !.at = "reads", !.chain = Models!Chain, !.revision = Models!Revision]
      <3>1. mRequest' = [mRequest EXCEPT ![r] = p] BY <2>2 DEF Models!ListEndpoints
      <3>2. /\ p \in Questions /\ p.text = 0 /\ p.docs.text = 0 /\ p.docs.hash = 0
            /\ p.answer = Models!NoAnswer /\ ~p.probes /\ p.at = "reads"
            /\ p.revision = Models!Revision /\ p.chain = Models!Chain
        BY <1>2, <1>4, IdleIs DEF Questions, ModelPlaces
      <3> HIDE DEF p
      <3>3. {p.chain[n] : n \in 1..Len(p.chain)} = Named(c, p.revision) BY <1>4, <3>2
      <3> QED BY <1>2, <3>1, <3>2, <3>3
    <2> QED BY <2>1, <2>2
  <1>6. PICK q \in Questions :
          /\ mRequest' = [mRequest EXCEPT ![r] = q] /\ q.text = 0 /\ q.docs.text = 0 /\ q.docs.hash = 0
          /\ q.answer = Models!NoAnswer /\ ~q.probes /\ q.at # "asks" /\ q.revision \subseteq UpTo(mStamp)
          /\ {q.chain[n] : n \in 1..Len(q.chain)} = Named(c, q.revision)
    BY <1>5
  <1>7. mKnowledge' \subseteq Nat \X Nat /\ \A k \in mKnowledge' : k[1] = k[2]
    BY <1>t, <1>u DEF ModelTypes, TextsStand
  <1>8. /\ mAnswers' \in Seq(KeptAnswers) /\ KeptFit(c)'
        /\ \A n \in 1..Len(mAnswers') : mAnswers'[n].answer.text = mAnswers'[n].key[1]
        /\ \A s \in Requests : mRequest[s].probes => Models!Asked(s) \in mGiven'
    BY <1>0, <1>u, RestStays
  <1> QED BY <1>0, <1>u, <1>6, <1>7, <1>8, OneStepKeeps

(* The excerpts are those of the documents as they are.                    *)
LEMMA ReadKeeps == ASSUME ModelInv, NEW r \in Requests, Models!ReadDocuments(r) PROVE ModelInv'
  <1>t. ModelTypes /\ TextsStand /\ ProbesStand BY DEF ModelInv
  <1>0. PICK c \in Contents : ContentsFit(c) BY DEF ModelInv
  <1>u. UNCHANGED <<mFaults, mRows, mStamp, mDocs, mAnswers, mGiven>>
    BY DEF Models!ReadDocuments, Models!store, Models!pool
  <1>d. mDocs \in [text : Nat, hash : Nat] /\ mDocs.hash = mDocs.text /\ mDocs.text \in Nat
    BY <1>t DEF ModelTypes, TextsStand
  <1> DEFINE known == {k \in mKnowledge : k[1] = mDocs.hash}
             text == IF known = {} THEN mDocs.text ELSE (CHOOSE k \in known : TRUE)[2]
  <1>1. text = mDocs.text BY <1>t, <1>d DEF TextsStand
  <1>2. /\ mRequest[r].at = "reads" /\ mKnowledge' = mKnowledge \cup {<<mDocs.hash, mDocs.text>>}
        /\ mRequest' = [mRequest EXCEPT ![r].at = "looks", ![r].docs = mDocs, ![r].text = mDocs.text]
    BY <1>1 DEF Models!ReadDocuments, Models!KnowledgeKey
  <1> HIDE DEF known, text
  <1> DEFINE p == [mRequest[r] EXCEPT !.at = "looks", !.docs = mDocs, !.text = mDocs.text]
  <1>3. mRequest[r] \in Questions /\ mRequest[r].answer = Models!NoAnswer /\ ~mRequest[r].probes
    BY <1>t, <1>2 DEF ModelTypes, TextsStand, ProbesStand
  <1>4. mRequest' = [mRequest EXCEPT ![r] = p] BY <1>2
  <1>5. /\ p \in Questions /\ p.text = p.docs.hash /\ p.docs.text = p.docs.hash
        /\ p.answer = Models!NoAnswer /\ ~p.probes /\ p.at = "looks"
        /\ p.revision = mRequest[r].revision /\ p.chain = mRequest[r].chain
    BY <1>d, <1>3 DEF Questions, ModelPlaces
  <1> HIDE DEF p
  <1>6. /\ p.revision \subseteq UpTo(mStamp)
        /\ {p.chain[n] : n \in 1..Len(p.chain)} = Named(c, p.revision)
    <2>1. /\ mRequest[r].revision \subseteq UpTo(mStamp)
          /\ {mRequest[r].chain[n] : n \in 1..Len(mRequest[r].chain)} = Named(c, mRequest[r].revision)
      BY <1>0 DEF ContentsFit, QuestionsFit
    <2> QED BY <1>5, <2>1
  <1>7. PICK q \in Questions : q = p BY <1>5
  <1>8. mKnowledge' \subseteq Nat \X Nat /\ \A k \in mKnowledge' : k[1] = k[2]
    BY <1>t, <1>d, <1>2 DEF ModelTypes, TextsStand
  <1>9. /\ mAnswers' \in Seq(KeptAnswers) /\ KeptFit(c)'
        /\ \A n \in 1..Len(mAnswers') : mAnswers'[n].answer.text = mAnswers'[n].key[1]
        /\ \A s \in Requests : mRequest[s].probes => Models!Asked(s) \in mGiven'
    BY <1>0, <1>u, RestStays
  <1> QED BY <1>0, <1>u, <1>4, <1>5, <1>6, <1>7, <1>8, <1>9, OneStepKeeps

(* An answer kept answers the same texts by the same connections.          *)
LEMMA LookUpKeeps == ASSUME ModelInv, NEW r \in Requests, Models!LookUp(r) PROVE ModelInv'
  <1>t. ModelTypes /\ TextsStand /\ ProbesStand BY DEF ModelInv
  <1>0. PICK c \in Contents : ContentsFit(c) BY DEF ModelInv
  <1>u. UNCHANGED <<mFaults, mRows, mStamp, mDocs, mKnowledge, mGiven>>
    BY DEF Models!LookUp, Models!store, Models!pool
  <1>q. /\ mRequest[r] \in Questions /\ mRequest[r].at = "looks"
        /\ mRequest[r].answer = Models!NoAnswer /\ ~mRequest[r].probes
        /\ mRequest[r].text = mRequest[r].docs.hash /\ mRequest[r].docs.text = mRequest[r].docs.hash
        /\ mRequest[r].revision \subseteq UpTo(mStamp)
        /\ {mRequest[r].chain[n] : n \in 1..Len(mRequest[r].chain)} = Named(c, mRequest[r].revision)
    BY <1>0, <1>t DEF Models!LookUp, ModelTypes, TextsStand, ProbesStand, ContentsFit, QuestionsFit
  <1>1. mKnowledge' \subseteq Nat \X Nat /\ \A k \in mKnowledge' : k[1] = k[2]
    BY <1>t, <1>u DEF ModelTypes, TextsStand
  <1>2. CASE mAnswers' = mAnswers /\ mRequest' = [mRequest EXCEPT ![r].at = "lock"]
    <2> DEFINE p == [mRequest[r] EXCEPT !.at = "lock"]
    <2>1. mRequest' = [mRequest EXCEPT ![r] = p] BY <1>2
    <2>2. /\ p \in Questions /\ p.text = p.docs.hash /\ p.docs.text = p.docs.hash
          /\ p.answer = Models!NoAnswer /\ ~p.probes /\ p.at = "lock" /\ p.revision \subseteq UpTo(mStamp)
          /\ p.revision = mRequest[r].revision /\ p.chain = mRequest[r].chain
      BY <1>q DEF Questions, ModelPlaces
    <2> HIDE DEF p
    <2>3. {p.chain[n] : n \in 1..Len(p.chain)} = Named(c, p.revision) BY <1>q, <2>2
    <2>4. PICK q \in Questions : q = p BY <2>2
    <2>5. /\ mAnswers' \in Seq(KeptAnswers) /\ KeptFit(c)'
          /\ \A n \in 1..Len(mAnswers') : mAnswers'[n].answer.text = mAnswers'[n].key[1]
          /\ \A s \in Requests : mRequest[s].probes => Models!Asked(s) \in mGiven'
      BY <1>0, <1>2, <1>u, RestStays
    <2> QED BY <1>0, <1>u, <1>1, <2>1, <2>2, <2>3, <2>4, <2>5, OneStepKeeps
  <1>3. CASE \E n \in Models!Found(r) :
               /\ mAnswers' = Append(Models!Without(mAnswers[n].key), mAnswers[n])
               /\ mRequest' = [mRequest EXCEPT ![r].at = "done", ![r].answer = mAnswers[n].answer]
    <2>0. PICK n \in Models!Found(r) :
               /\ mAnswers' = Append(Models!Without(mAnswers[n].key), mAnswers[n])
               /\ mRequest' = [mRequest EXCEPT ![r].at = "done", ![r].answer = mAnswers[n].answer]
      BY <1>3
    <2>1. n \in 1..Len(mAnswers) /\ mAnswers \in Seq(KeptAnswers) /\ mAnswers[n] \in KeptAnswers
      BY <1>t DEF Models!Found, ModelTypes
    <2>k. mAnswers[n].key = <<mRequest[r].docs.hash, mRequest[r].revision>>
      BY <2>0 DEF Models!Found, Models!AnswerKey
    <2>2. /\ mAnswers[n].answer.text = mRequest[r].docs.hash
          /\ mAnswers[n].answer.by \in Named(c, mRequest[r].revision)
          /\ mAnswers[n].answer \in ModelAnswers
          /\ mAnswers[n].key[2] \subseteq UpTo(mStamp)
      BY <1>0, <1>t, <2>1, <2>k DEF TextsStand, ContentsFit, KeptFit, KeptAnswers
    <2>3. PICK new \in KeptAnswers : new = mAnswers[n] BY <2>1
    <2>4. OldOr(mAnswers', new)
      <3>1. OldOr(Append(Models!Without(mAnswers[n].key), new), new) BY <2>1, KeptAre
      <3> QED BY <2>0, <2>3, <3>1 DEF OldOr
    <2>5. /\ KeptFit(c)' /\ mAnswers' \in Seq(KeptAnswers)
          /\ \A k \in 1..Len(mAnswers') : mAnswers'[k].answer.text = mAnswers'[k].key[1]
      <3>1. /\ new.answer.text = new.key[1] /\ new.key[2] \subseteq UpTo(mStamp)
            /\ new.answer.by \in Named(c, new.key[2])
        BY <2>2, <2>3, <2>k
      <3>2. KeptFit(c) /\ mStamp' = mStamp BY <1>0, <1>u DEF ContentsFit
      <3> QED BY <1>t, <2>4, <3>1, <3>2, KeptStand
    <2> DEFINE p == [mRequest[r] EXCEPT !.at = "done", !.answer = mAnswers[n].answer]
    <2>6. mRequest' = [mRequest EXCEPT ![r] = p] BY <2>0
    <2>7. /\ p \in Questions /\ p.text = p.docs.hash /\ p.docs.text = p.docs.hash
          /\ p.answer = mAnswers[n].answer /\ ~p.probes /\ p.at = "done" /\ p.text = mRequest[r].docs.hash
          /\ p.revision = mRequest[r].revision /\ p.chain = mRequest[r].chain
      BY <1>q, <2>2 DEF Questions, ModelPlaces
    <2> HIDE DEF p
    <2>8. /\ p.revision \subseteq UpTo(mStamp)
          /\ {p.chain[k] : k \in 1..Len(p.chain)} = Named(c, p.revision)
          /\ p.answer.by \in Named(c, p.revision) /\ p.answer.text = p.text
      BY <1>q, <2>2, <2>7
    <2>9. PICK q \in Questions : q = p BY <2>7
    <2>10. \A s \in Requests : mRequest[s].probes => Models!Asked(s) \in mGiven'
      BY <1>t, <1>u DEF ProbesStand
    <2> QED BY <1>0, <1>u, <1>1, <2>5, <2>6, <2>7, <2>8, <2>9, <2>10, OneStepKeeps
  <1> QED BY <1>2, <1>3 DEF Models!LookUp

(* A probe begins where the route is not given up.                         *)
LEMMA TryKeeps == ASSUME ModelInv, NEW r \in Requests, Models!TryNext(r) PROVE ModelInv'
  <1>t. ModelTypes /\ TextsStand /\ ProbesStand BY DEF ModelInv
  <1>0. PICK c \in Contents : ContentsFit(c) BY DEF ModelInv
  <1>u. UNCHANGED <<mFaults, mRows, mStamp, mDocs, mKnowledge, mAnswers>>
    BY DEF Models!TryNext, Models!store, Models!caches
  <1>q. /\ mRequest[r] \in Questions /\ mRequest[r].at = "chain"
        /\ mRequest[r].answer = Models!NoAnswer /\ ~mRequest[r].probes
        /\ mRequest[r].text = mRequest[r].docs.hash /\ mRequest[r].docs.text = mRequest[r].docs.hash
        /\ mRequest[r].revision \subseteq UpTo(mStamp)
        /\ {mRequest[r].chain[n] : n \in 1..Len(mRequest[r].chain)} = Named(c, mRequest[r].revision)
        /\ mRequest[r].next \in Nat \ {0} /\ mRequest[r].tried \in Nat
        /\ mRequest[r].chain \in Seq(ProviderNames)
    BY <1>0, <1>t DEF Models!TryNext, ModelTypes, TextsStand, ProbesStand, ContentsFit, QuestionsFit, Questions
  <1>1. mKnowledge' \subseteq Nat \X Nat /\ \A k \in mKnowledge' : k[1] = k[2]
    BY <1>t, <1>u DEF ModelTypes, TextsStand
  <1> DEFINE n == CHOOSE k \in Models!Left(r) : \A j \in Models!Left(r) : k <= j
             a == mRequest[r].chain[n]
             on == a[1] \in Responses /\ a \notin mGiven
             more == mRequest[r].tried + 1
             p == [mRequest[r] EXCEPT !.at = "asks", !.next = n + 1, !.tried = more, !.probes = on]
  <1>2. n \in 1..Len(mRequest[r].chain) /\ n \in Nat
    <2>0. Models!Left(r) # {} BY DEF Models!TryNext
    <2>1. Models!Left(r) \in SUBSET Nat /\ Models!Left(r) \subseteq 1..Len(mRequest[r].chain)
      <3>1. Models!Left(r) \subseteq mRequest[r].next..Len(mRequest[r].chain) BY DEF Models!Left
      <3>2. mRequest[r].next \in Nat \ {0} /\ Len(mRequest[r].chain) \in Nat BY <1>q
      <3> QED BY <3>1, <3>2
    <2>2. \E k \in Models!Left(r) : \A j \in Models!Left(r) : k <= j
      BY <2>0, <2>1, LeastNumber
    <2> QED BY <2>1, <2>2
  <1>3. /\ mGiven' = IF on THEN mGiven \cup {a} ELSE mGiven
        /\ mRequest' = [mRequest EXCEPT ![r] = p]
    <2>1. mGiven' = IF on THEN mGiven \cup {a} ELSE mGiven BY DEF Models!TryNext
    <2>2. mRequest' = [mRequest EXCEPT ![r].at = "asks", ![r].next = n + 1,
                                       ![r].tried = @ + 1, ![r].probes = on]
      BY DEF Models!TryNext
    <2>3. mRequest \in [Requests -> Questions] BY <1>t DEF ModelTypes
    <2> HIDE DEF n, on, a
    <2>4. mRequest' = [mRequest EXCEPT ![r] = p] BY <2>2, <2>3, <1>q DEF Questions
    <2> QED BY <2>1, <2>4
  <1>o. on \in BOOLEAN /\ n + 1 \in Nat \ {0} /\ more \in Nat BY <1>q, <1>2
  <1> HIDE DEF n, on, more
  <1>4. /\ p \in Questions /\ p.text = p.docs.hash /\ p.docs.text = p.docs.hash
        /\ p.answer = Models!NoAnswer /\ p.at = "asks" /\ p.next = n + 1 /\ p.probes = on
        /\ p.revision = mRequest[r].revision /\ p.chain = mRequest[r].chain
    BY <1>q, <1>o DEF Questions, ModelPlaces
  <1> HIDE DEF p
  <1>5. p.next - 1 = n BY <1>2, <1>4
  <1>6. /\ p.revision \subseteq UpTo(mStamp)
        /\ {p.chain[k] : k \in 1..Len(p.chain)} = Named(c, p.revision)
        /\ p.next - 1 \in 1..Len(p.chain) /\ p.chain[p.next - 1] = a
    BY <1>q, <1>2, <1>4, <1>5
  <1>7. p.probes => a \in mGiven' /\ a \notin mGiven BY <1>3, <1>4 DEF on
  <1>8. \A s \in Requests : s # r /\ mRequest[s].probes =>
           Models!Asked(s) \in mGiven' /\ (p.probes => Models!Asked(s) # p.chain[p.next - 1])
    <2>1. \A s \in Requests : mRequest[s].probes => Models!Asked(s) \in mGiven BY <1>t DEF ProbesStand
    <2> QED BY <1>3, <1>6, <1>7, <2>1
  <1>9. PICK q \in Questions : q = p BY <1>4
  <1>10. /\ mAnswers' \in Seq(KeptAnswers) /\ KeptFit(c)'
         /\ \A k \in 1..Len(mAnswers') : mAnswers'[k].answer.text = mAnswers'[k].key[1]
    BY <1>0, <1>u, <1>3, RestStays
  <1> HIDE DEF a
  <1>11. q.probes => q.at = "asks" /\ q.chain[q.next - 1] \in mGiven' BY <1>4, <1>6, <1>7, <1>9
  <1> QED BY <1>0, <1>u, <1>1, <1>3, <1>4, <1>6, <1>8, <1>9, <1>10, <1>11, OneStepKeeps

(* An answer is made from the texts the request has read, by who is asked. *)
LEMMA AnswersKeep == ASSUME ModelInv, NEW r \in Requests, Models!Answers(r) PROVE ModelInv'
  <1>t. ModelTypes /\ TextsStand /\ ProbesStand BY DEF ModelInv
  <1>0. PICK c \in Contents : ContentsFit(c) BY DEF ModelInv
  <1>u. UNCHANGED <<mFaults, mRows, mStamp, mDocs, mKnowledge>>
    BY DEF Models!Answers, Models!store
  <1>q. /\ mRequest[r] \in Questions /\ mRequest[r].at = "asks"
        /\ mRequest[r].text = mRequest[r].docs.hash /\ mRequest[r].docs.text = mRequest[r].docs.hash
        /\ mRequest[r].revision \in SUBSET (Nat \X Nat) /\ mRequest[r].revision \subseteq UpTo(mStamp)
        /\ {mRequest[r].chain[n] : n \in 1..Len(mRequest[r].chain)} = Named(c, mRequest[r].revision)
        /\ mRequest[r].next - 1 \in 1..Len(mRequest[r].chain)
        /\ mRequest[r].chain \in Seq(ProviderNames) /\ mRequest[r].text \in Nat
    BY <1>0, <1>t DEF Models!Answers, ModelTypes, TextsStand, ProbesStand, ContentsFit, QuestionsFit, Questions
  <1>1. mKnowledge' \subseteq Nat \X Nat /\ \A k \in mKnowledge' : k[1] = k[2]
    BY <1>t, <1>u DEF ModelTypes, TextsStand
  <1>2. PICK answer \in ModelAnswers : answer = [text |-> mRequest[r].text, by |-> Models!Asked(r)]
    <2>1. mRequest[r].chain[mRequest[r].next - 1] \in ProviderNames BY <1>q
    <2> QED BY <1>q, <2>1 DEF ModelAnswers, Models!Asked
  <1>3. answer.text = mRequest[r].text /\ answer.by \in Named(c, mRequest[r].revision)
    BY <1>q, <1>2 DEF Models!Asked
  <1>4. PICK new \in KeptAnswers : new = [key |-> Models!AnswerKey(r), answer |-> answer]
    BY <1>q DEF KeptAnswers, AnswerKeys, Models!AnswerKey
  <1>5. /\ new.answer = answer /\ new.key[1] = mRequest[r].docs.hash /\ new.key[2] = mRequest[r].revision
    BY <1>4 DEF Models!AnswerKey
  <1>6. mAnswers' = mAnswers \/ OldOr(mAnswers', new)
    <2>1. mAnswers \in Seq(KeptAnswers) BY <1>t DEF ModelTypes
    <2>2. mAnswers' = mAnswers \/ mAnswers' = Models!Kept(Models!AnswerKey(r), answer)
      BY <1>2 DEF Models!Answers
    <2>3. /\ OldOr(Append(Models!Without(Models!AnswerKey(r)), new), new)
          /\ OldOr(Tail(Append(Models!Without(Models!AnswerKey(r)), new)), new)
      BY <2>1, KeptAre
    <2>4. Models!Kept(Models!AnswerKey(r), answer) \in
            {Append(Models!Without(Models!AnswerKey(r)), new),
             Tail(Append(Models!Without(Models!AnswerKey(r)), new))}
      BY <1>4 DEF Models!Kept
    <2> QED BY <2>2, <2>3, <2>4
  <1>7. /\ KeptFit(c)' /\ mAnswers' \in Seq(KeptAnswers)
        /\ \A k \in 1..Len(mAnswers') : mAnswers'[k].answer.text = mAnswers'[k].key[1]
    <2>1. KeptFit(c) /\ mStamp' = mStamp BY <1>0, <1>u DEF ContentsFit
    <2>2. CASE mAnswers' = mAnswers BY <1>t, <2>1, <2>2 DEF KeptFit, Named, ModelTypes, TextsStand
    <2>3. CASE OldOr(mAnswers', new)
      <3>1. /\ new.answer.text = new.key[1] /\ new.key[2] \subseteq UpTo(mStamp)
            /\ new.answer.by \in Named(c, new.key[2])
        BY <1>3, <1>5, <1>q
      <3> QED BY <1>t, <2>1, <2>3, <3>1, KeptStand
    <2> QED BY <1>6, <2>2, <2>3
  <1> DEFINE p == [mRequest[r] EXCEPT !.at = "done", !.answer = answer, !.probes = FALSE]
  <1>8. mRequest' = [mRequest EXCEPT ![r] = p] BY <1>2 DEF Models!Answers
  <1>9. /\ p \in Questions /\ p.text = p.docs.hash /\ p.docs.text = p.docs.hash
        /\ p.answer = answer /\ ~p.probes /\ p.at = "done" /\ p.text = mRequest[r].text
        /\ p.revision = mRequest[r].revision /\ p.chain = mRequest[r].chain
    BY <1>q DEF Questions, ModelPlaces
  <1> HIDE DEF p
  <1>10. /\ p.revision \subseteq UpTo(mStamp)
         /\ {p.chain[k] : k \in 1..Len(p.chain)} = Named(c, p.revision)
         /\ p.answer.by \in Named(c, p.revision) /\ p.answer.text = p.text
    BY <1>q, <1>3, <1>9
  <1>11. PICK q \in Questions : q = p BY <1>9
  <1>12. \A s \in Requests : s # r /\ mRequest[s].probes => Models!Asked(s) \in mGiven'
    <2>1. mGiven' = IF mRequest[r].probes THEN mGiven \ {Models!Asked(r)} ELSE mGiven
      BY DEF Models!Answers
    <2>2. ASSUME NEW s \in Requests, s # r, mRequest[s].probes PROVE Models!Asked(s) \in mGiven'
      <3>1. Models!Asked(s) \in mGiven BY <1>t, <2>2 DEF ProbesStand
      <3>2. mRequest[r].probes => Models!Asked(s) # Models!Asked(r) BY <1>t, <2>2 DEF ProbesStand
      <3> QED BY <2>1, <3>1, <3>2
    <2> QED BY <2>2
  <1> QED BY <1>0, <1>u, <1>1, <1>7, <1>8, <1>9, <1>10, <1>11, <1>12, OneStepKeeps

(* A request sees to it that there is a connection.                        *)
LEMMA EnsureKeeps == ASSUME ModelInv, NEW r \in Requests, Models!EnsureEndpoints(r) PROVE ModelInv'
  <1>t. ModelTypes /\ TextsStand /\ ProbesStand BY DEF ModelInv
  <1>0. PICK c \in Contents : ContentsFit(c) BY DEF ModelInv
  <1>u. UNCHANGED <<mFaults, mDocs, mKnowledge, mAnswers, mGiven>>
    BY DEF Models!EnsureEndpoints, Models!pool, Models!caches
  <1>q. mRequest[r] \in Questions /\ mRequest[r].at = "idle" /\ mRequest \in [Requests -> Questions]
    BY <1>t DEF Models!EnsureEndpoints, ModelTypes
  <1>1. mRequest' = [mRequest EXCEPT ![r] = [mRequest[r] EXCEPT !.at = "lists"]]
    BY DEF Models!EnsureEndpoints
  <1>2. /\ mRequest'[r] \in Questions /\ mRequest'[r].at = "lists"
        /\ mRequest'[r].chain = mRequest[r].chain /\ mRequest'[r].revision = mRequest[r].revision
        /\ mRequest'[r].docs = mRequest[r].docs /\ mRequest'[r].text = mRequest[r].text
        /\ mRequest'[r].answer = mRequest[r].answer /\ mRequest'[r].probes = mRequest[r].probes
    BY <1>q, <1>1 DEF Questions, ModelPlaces
  <1>3. mRequest' \in [Requests -> Questions] /\ \A s \in Requests : s # r => mRequest'[s] = mRequest[s]
    BY <1>q, <1>1, <1>2
  <1>4. ~mRequest[r].probes /\ mRequest[r].answer = Models!NoAnswer
    BY <1>t, <1>q DEF ProbesStand, TextsStand
  <1>5. CASE UNCHANGED <<mRows, mStamp>>
    <2>1. mRequest[r].at # "done" /\ mRequest'[r].at # "asks" /\ ~mRequest'[r].probes
      BY <1>q, <1>2, <1>4
    <2> QED BY <1>u, <1>2, <1>3, <1>5, <2>1, QuestionMoves
  <1>6. CASE DOMAIN mRows = {} /\ mStamp' = mStamp + 1 /\ mRows' = [e \in {1} |-> Models!Row(0, mStamp')]
    <2>0. mStamp \in Nat BY <1>t DEF ModelTypes
    <2>1. WritesRow(1)
      BY <1>6, <2>0 DEF WritesRow, Models!Row, Connections
    <2>2. (\E d \in Contents : ContentsFit(d))'
      <3>1. \A s \in Requests : /\ mRequest'[s].chain = mRequest[s].chain
                                /\ mRequest'[s].revision = mRequest[s].revision
                                /\ mRequest'[s].answer = mRequest[s].answer
        BY <1>2, <1>3
      <3> QED BY <1>0, <1>t, <1>u, <2>1, <3>1, WriteKeeps
    <2>3. ModelTypes'
      <3>1. IsFiniteSet({1}) BY FS_Singleton
      <3>2. IsFiniteSet(DOMAIN mRows') /\ DOMAIN mRows' \subseteq Nat /\ mStamp' \in Nat
            /\ mRows' \in [DOMAIN mRows' -> Connections]
        BY <1>6, <2>0, <2>1, <3>1 DEF WritesRow
      <3> QED BY <1>t, <1>u, <1>3, <3>2 DEF ModelTypes
    <2>4. TextsStand'
      <3>1. ASSUME NEW s \in Requests
            PROVE  /\ mRequest'[s].text = mRequest'[s].docs.hash
                   /\ mRequest'[s].docs.text = mRequest'[s].docs.hash
                   /\ mRequest'[s].answer # Models!NoAnswer => mRequest'[s].answer.text = mRequest'[s].text
                   /\ mRequest'[s].at # "done" => mRequest'[s].answer = Models!NoAnswer
        BY <1>t, <1>2, <1>3, <1>4 DEF TextsStand
      <3> QED BY <1>t, <1>u, <3>1 DEF TextsStand, Models!NoAnswer
    <2>5. ProbesStand'
      <3>1. ASSUME NEW s \in Requests, s # r
            PROVE  mRequest'[s] = mRequest[s] /\ Models!Asked(s)' = Models!Asked(s)
        BY <1>3, <3>1 DEF Models!Asked
      <3>2. ~mRequest'[r].probes /\ mRequest'[r].at # "asks" BY <1>2, <1>4
      <3> QED BY <1>t, <1>u, <3>1, <3>2 DEF ProbesStand
    <2> QED BY <2>2, <2>3, <2>4, <2>5 DEF ModelInv
  <1> QED BY <1>5, <1>6 DEF Models!EnsureEndpoints

(* Pauses end, and what is kept ages.                                      *)
LEMMA AgeingKeeps ==
  ASSUME ModelInv, Models!PauseEnds \/ Models!KnowledgeAges \/ Models!AnswerAges
  PROVE  ModelInv'
  <1>t. ModelTypes /\ TextsStand /\ ProbesStand BY DEF ModelInv
  <1>0. PICK c \in Contents : ContentsFit(c) BY DEF ModelInv
  <1>u. UNCHANGED <<mFaults, mRows, mStamp, mDocs, mGiven, mRequest>> /\ mKnowledge' \subseteq mKnowledge
    BY DEF Models!PauseEnds, Models!KnowledgeAges, Models!AnswerAges, Models!store, Models!pool, Models!caches
  <1>1. /\ KeptFit(c)' /\ mAnswers' \in Seq(KeptAnswers)
        /\ \A k \in 1..Len(mAnswers') : mAnswers'[k].answer.text = mAnswers'[k].key[1]
    <2>1. CASE mAnswers' = mAnswers
      BY <1>0, <1>t, <1>u, <2>1 DEF ContentsFit, KeptFit, Named, ModelTypes, TextsStand
    <2>2. CASE Models!AnswerAges
      <3>0. mAnswers \in Seq(KeptAnswers) BY <1>t DEF ModelTypes
      <3>1. PICK n \in 1..Len(mAnswers) : mAnswers' = Models!Without(mAnswers[n].key)
        BY <2>2, <3>0 DEF Models!AnswerAges
      <3>2. PICK new \in KeptAnswers : new = mAnswers[n] BY <3>0
      <3>3. OldOr(mAnswers', new)
        <4>1. OldOr(Models!Without(mAnswers[n].key), new) BY <3>0, KeptAre
        <4> QED BY <3>1, <4>1 DEF OldOr
      <3>4. /\ new.answer.text = new.key[1] /\ new.key[2] \subseteq UpTo(mStamp)
            /\ new.answer.by \in Named(c, new.key[2])
        BY <1>0, <1>t, <3>1, <3>2 DEF ContentsFit, KeptFit, TextsStand
      <3>5. KeptFit(c) /\ mStamp' = mStamp BY <1>0, <1>u DEF ContentsFit
      <3> QED BY <1>t, <3>3, <3>4, <3>5, KeptStand
    <2> QED BY <2>1, <2>2 DEF Models!PauseEnds, Models!KnowledgeAges, Models!caches
  <1>2. ModelTypes' BY <1>t, <1>u, <1>1 DEF ModelTypes
  <1>3. TextsStand' BY <1>t, <1>u, <1>1 DEF TextsStand
  <1>4. ProbesStand' BY <1>t, <1>u DEF ProbesStand, Models!Asked
  <1>5. ContentsFit(c)' BY <1>0, <1>u, <1>1 DEF ContentsFit, RowsFit, QuestionsFit, Named
  <1> QED BY <1>0, <1>2, <1>3, <1>4, <1>5 DEF ModelInv

(* No step of the models breaks it.                                        *)
LEMMA ModelsStep == ASSUME EditsAreHashed, ModelInv, [Models!Next]_modelsVars PROVE ModelInv'
  <1>1. CASE Models!Command BY <1>1, ModelCommandsKeep
  <1>2. CASE Models!PauseEnds \/ Models!KnowledgeAges \/ Models!AnswerAges BY <1>2, AgeingKeeps
  <1>3. ASSUME NEW r \in Requests, Models!Step(r) PROVE ModelInv'
    BY <1>3, EnsureKeeps, ListKeeps, ReadKeeps, LookUpKeeps, TryKeeps, AnswersKeep, SimpleStepsKeep
       DEF Models!Step
  <1>4. CASE UNCHANGED modelsVars
    <2>1. UNCHANGED <<mFaults, mRows, mStamp, mDocs, mKnowledge, mAnswers, mGiven, mRequest>>
      BY <1>4 DEF modelsVars
    <2> QED BY <2>1, ConnectionsKeep
  <1> QED BY <1>1, <1>2, <1>3, <1>4 DEF Models!Next

(* Every answer, a kept one too, was made from the texts the request has   *)
(* read and by a connection the request has found enabled, and one request *)
(* at a time probes a provider's Responses route (process_ai,              *)
(* PooledProviderChain, ConfiguredProvider), whatever is saved, deleted,   *)
(* tested, paused, dropped or aged meanwhile, for any connections,         *)
(* requests and limits, as long as a document is saved with its hash.      *)
THEOREM AnswersStayFit == ASSUME EditsAreHashed PROVE MCSpec => []AnswersFit
  <1> DEFINE Inv == focus = "models" => ModelInv
  <1>1. MCInit => Inv BY ModelsStart
  <1>2. Inv /\ [MCNext]_mcVars => Inv'
    <2> SUFFICES ASSUME Inv, [MCNext]_mcVars, focus' = "models" PROVE ModelInv'
      OBVIOUS
    <2>1. focus = "models" BY Steps
    <2> QED BY <2>1, Steps, ModelsStep
  <1>3. Inv => AnswersFit
    <2> SUFFICES ASSUME ModelInv PROVE Models!AnswersFit BY DEF AnswersFit
    <2>t. ModelTypes /\ TextsStand /\ ProbesStand BY DEF ModelInv
    <2>1. Models!AnswersAreCurrent BY <2>t DEF TextsStand, Models!AnswersAreCurrent
    <2>2. ASSUME NEW r \in Requests, mRequest[r].answer # Models!NoAnswer
          PROVE  mRequest[r].answer.by \in Models!Range(mRequest[r].chain)
      <3>1. mRequest[r].answer.by \in {mRequest[r].chain[n] : n \in 1..Len(mRequest[r].chain)}
        BY <2>2 DEF ModelInv, ContentsFit, QuestionsFit
      <3>2. mRequest[r].chain \in Seq(ProviderNames) BY <2>t DEF ModelTypes, Questions
      <3> QED BY <3>1, <3>2 DEF Models!Range
    <2>3. ASSUME NEW r \in Requests, mRequest[r].probes, NEW s \in Requests \ {r}, mRequest[s].probes
          PROVE  Models!Asked(s) # Models!Asked(r)
      BY <2>t, <2>3 DEF ProbesStand
    <2> QED BY <2>1, <2>2, <2>3 DEF Models!AnswersFit
  <1> QED BY <1>1, <1>2, <1>3, PTL DEF MCSpec, mcVars

-----------------------------------------------------------------------------
(* The rules of a group.                                                   *)

(* What the automatic rules among the matched ones ask for.                *)
AskedFor(t, matched) ==
    UNION {Ruling!IntentsOf(t, r) : r \in {s \in matched : t[s].auto}}

(* The intents of the highest level are those of the deciding rules.       *)
LEMMA TopIsDeciding ==
  ASSUME NEW t, NEW matched, NEW e, e.table = t, e.matched = matched, NEW i
  PROVE  i \in Ruling!AtTop(AskedFor(t, matched)) <=>
           \E r \in Ruling!Deciding(e) : i \in Ruling!IntentsOf(t, r)
  <1> DEFINE A == {s \in matched : t[s].auto}
             U == AskedFor(t, matched)
             B == {r \in matched : t[r].auto /\ DOMAIN t[r].does # {}}
  <1>1. \A j : j \in U <=> \E r \in A : j \in Ruling!IntentsOf(t, r)
    BY DEF AskedFor
  <1>2. \A r : \A j \in Ruling!IntentsOf(t, r) : j.level = t[r].level /\ j.rule = r
    BY DEF Ruling!IntentsOf
  <1>3. \A r : Ruling!IntentsOf(t, r) # {} <=> DOMAIN t[r].does # {}
    BY DEF Ruling!IntentsOf
  <1>4. Ruling!Deciding(e) = {r \in B : \A s \in B : t[s].level <= t[r].level}
    BY DEF Ruling!Deciding
  <1>5. \A j : j \in Ruling!AtTop(U) <=> j \in U /\ \A k \in U : k.level <= j.level
    BY DEF Ruling!AtTop
  <1>6. ASSUME NEW r \in A, i \in Ruling!IntentsOf(t, r)
        PROVE  (\A k \in U : k.level <= i.level) <=> r \in Ruling!Deciding(e)
    <2>1. r \in B /\ i.level = t[r].level
      BY <1>2, <1>3, <1>6
    <2>2. ASSUME \A k \in U : k.level <= i.level, NEW s \in B
          PROVE  t[s].level <= t[r].level
      <3>1. PICK k \in Ruling!IntentsOf(t, s) : TRUE
        BY <1>3
      <3> QED
        BY <3>1, <2>1, <2>2, <1>1, <1>2
    <2>3. ASSUME \A s \in B : t[s].level <= t[r].level, NEW k \in U
          PROVE  k.level <= i.level
      <3>1. PICK s \in A : k \in Ruling!IntentsOf(t, s)
        BY <1>1
      <3>2. s \in B /\ k.level = t[s].level
        BY <3>1, <1>2, <1>3
      <3> QED
        BY <3>2, <2>1, <2>3
    <2> QED
      BY <2>1, <2>2, <2>3, <1>4
  <1> HIDE DEF U
  <1>7. ASSUME i \in Ruling!AtTop(U) PROVE \E r \in Ruling!Deciding(e) : i \in Ruling!IntentsOf(t, r)
    BY <1>1, <1>5, <1>6, <1>7
  <1>8. ASSUME NEW r \in Ruling!Deciding(e), i \in Ruling!IntentsOf(t, r) PROVE i \in Ruling!AtTop(U)
    <2>1. r \in A
      BY <1>4
    <2> QED
      BY <2>1, <1>1, <1>5, <1>6, <1>8
  <1> QED
    BY <1>7, <1>8 DEF U

(* What is asked of a kind at the highest level, by whom and how long.     *)
LEMMA TopOfKind ==
  ASSUME NEW t, NEW matched, NEW e, e.table = t, e.matched = matched, NEW k
  PROVE  LET K == Ruling!Asking(Ruling!AtTop(AskedFor(t, matched)), k)
         IN  /\ {i.rule : i \in K} = Ruling!Demanding(e, k)
             /\ K = {} <=> Ruling!Demanding(e, k) = {}
             /\ Ruling!Max({i.seconds : i \in K}) = Ruling!Longest(e, k)
  <1> DEFINE T == Ruling!AtTop(AskedFor(t, matched))
             K == Ruling!Asking(T, k)
             S == UNION {{e.table[r].does[i].seconds :
                            i \in {j \in DOMAIN e.table[r].does : e.table[r].does[j].kind = k}} :
                         r \in Ruling!Demanding(e, k)}
  <1>1. \A i : i \in T <=> \E r \in Ruling!Deciding(e) : i \in Ruling!IntentsOf(t, r)
    BY TopIsDeciding
  <1>2. \A i : i \in K <=> i \in T /\ i.kind = k
    BY DEF Ruling!Asking
  <1>3. \A r, i : i \in Ruling!IntentsOf(t, r) <=>
           \E n \in DOMAIN t[r].does :
              i = [kind |-> t[r].does[n].kind, seconds |-> t[r].does[n].seconds,
                   rule |-> r, level |-> t[r].level]
    BY DEF Ruling!IntentsOf
  <1>4. \A r : r \in Ruling!Demanding(e, k) <=>
           r \in Ruling!Deciding(e) /\ \E n \in DOMAIN t[r].does : t[r].does[n].kind = k
    BY DEF Ruling!Demanding, Ruling!Demands
  <1> HIDE DEF T, K
  <1>5. \A i \in K : /\ i.rule \in Ruling!Demanding(e, k)
                     /\ \E n \in DOMAIN t[i.rule].does :
                           t[i.rule].does[n].kind = k /\ t[i.rule].does[n].seconds = i.seconds
    <2> TAKE i \in K
    <2>1. PICK r \in Ruling!Deciding(e) : i \in Ruling!IntentsOf(t, r)
      BY <1>1, <1>2
    <2>2. PICK n \in DOMAIN t[r].does :
              i = [kind |-> t[r].does[n].kind, seconds |-> t[r].does[n].seconds,
                   rule |-> r, level |-> t[r].level]
      BY <2>1, <1>3
    <2>3. i.rule = r /\ i.kind = t[r].does[n].kind /\ i.seconds = t[r].does[n].seconds /\ i.kind = k
      BY <2>2, <1>2
    <2> QED
      BY <2>1, <2>3, <1>4
  <1>6. ASSUME NEW r \in Ruling!Demanding(e, k), NEW n \in DOMAIN t[r].does, t[r].does[n].kind = k
        PROVE  \E i \in K : i.rule = r /\ i.seconds = t[r].does[n].seconds
    <2> DEFINE i == [kind |-> t[r].does[n].kind, seconds |-> t[r].does[n].seconds,
                     rule |-> r, level |-> t[r].level]
    <2>1. i \in Ruling!IntentsOf(t, r)
      BY <1>3
    <2>2. r \in Ruling!Deciding(e)
      BY <1>4
    <2>3. i \in T /\ i.kind = k
      BY <2>1, <2>2, <1>1, <1>6
    <2>4. i \in K
      BY <2>3, <1>2
    <2>5. i.rule = r /\ i.seconds = t[r].does[n].seconds
      OBVIOUS
    <2> QED
      BY <2>4, <2>5
  <1>7. {i.rule : i \in K} = Ruling!Demanding(e, k)
    <2>1. \A r \in Ruling!Demanding(e, k) : \E i \in K : i.rule = r
      BY <1>4, <1>6
    <2> QED
      BY <2>1, <1>5
  <1>8. {i.seconds : i \in K} = S
    <2>1. ASSUME NEW i \in K PROVE i.seconds \in S
      BY <1>5
    <2>2. ASSUME NEW s \in S PROVE \E i \in K : i.seconds = s
      <3>1. PICK r \in Ruling!Demanding(e, k) :
              \E n \in DOMAIN t[r].does : t[r].does[n].kind = k /\ t[r].does[n].seconds = s
        OBVIOUS
      <3> QED
        BY <3>1, <1>6
    <2> HIDE DEF S
    <2> QED
      BY <2>1, <2>2
  <1>9. Ruling!Longest(e, k) = Ruling!Max(S)
    BY DEF Ruling!Longest
  <1> HIDE DEF S
  <1>10. K = {} <=> Ruling!Demanding(e, k) = {}
    BY <1>7
  <1>11. Ruling!Max({i.seconds : i \in K}) = Ruling!Longest(e, k)
    BY <1>8, <1>9
  <1> QED
    BY <1>7, <1>10, <1>11 DEF K, T

(* A decision and an action it makes due.                                  *)
Justifies(e, i) ==
    /\ Ruling!Due(e, i.kind) /\ i.by = Ruling!Demanding(e, i.kind)
    /\ i.kind = "mute" => i.seconds = Ruling!Longest(e, "mute")

(* The merged intents are what is due, once for each kind, and no less.    *)
LEMMA EvaluateIsRight ==
  ASSUME NEW t, NEW matched, NEW e, e.table = t, e.matched = matched
  PROVE  /\ \A i \in Ruling!Evaluate(t, matched) : Justifies(e, i)
         /\ \A k : Ruling!Due(e, k) => \E i \in Ruling!Evaluate(t, matched) : i.kind = k
  <1> DEFINE T == Ruling!AtTop(AskedFor(t, matched))
             D == Ruling!Undisputed(T)
             K(k) == Ruling!Asking(T, k)
  <1>1. \A k : /\ {i.rule : i \in K(k)} = Ruling!Demanding(e, k)
               /\ K(k) = {} <=> Ruling!Demanding(e, k) = {}
               /\ Ruling!Max({i.seconds : i \in K(k)}) = Ruling!Longest(e, k)
    BY TopOfKind
  <1>2. Ruling!Evaluate(t, matched) = {Ruling!Join(Ruling!Asking(D, k), k) : k \in {i.kind : i \in D}}
    BY DEF Ruling!Evaluate, Ruling!MergeActionIntents, AskedFor
  <1>3. \A k : \A i : i \in K(k) <=> i \in T /\ i.kind = k
    BY DEF Ruling!Asking
  <1>4. \A i : i \in D <=> /\ i \in T
                           /\ i.kind \in {"mute", "reply"} => K("remove") = {}
                           /\ i.kind = "reply" => K("mute") = {}
    BY DEF Ruling!Undisputed
  <1>5. \A k : \A i : i \in Ruling!Asking(D, k) <=> i \in D /\ i.kind = k
    BY DEF Ruling!Asking
  <1>6. \A k : Ruling!Due(e, k) <=> /\ Ruling!Demanding(e, k) # {}
                                    /\ k \in {"mute", "reply"} => Ruling!Demanding(e, "remove") = {}
                                    /\ k = "reply" => Ruling!Demanding(e, "mute") = {}
    BY DEF Ruling!Due
  <1>7. \A k : \A l, s : Ruling!Join(l, k).kind = k
    BY DEF Ruling!Join
  <1> HIDE DEF T, D, K
  <1>8. ASSUME NEW k PROVE k \in {i.kind : i \in D} <=> Ruling!Due(e, k)
    <2>1. ASSUME NEW i \in D, i.kind = k PROVE Ruling!Due(e, k)
      BY <2>1, <1>1, <1>3, <1>4, <1>6
    <2>2. ASSUME Ruling!Due(e, k) PROVE \E i \in D : i.kind = k
      <3>1. PICK i \in K(k) : TRUE
        BY <2>2, <1>1, <1>6
      <3> QED
        BY <3>1, <2>2, <1>1, <1>3, <1>4, <1>6
    <2> QED
      BY <2>1, <2>2
  <1>9. ASSUME NEW k, Ruling!Due(e, k) PROVE Ruling!Asking(D, k) = K(k)
    <2>1. \A i : i \in Ruling!Asking(D, k) <=> i \in K(k)
      BY <1>9, <1>1, <1>3, <1>4, <1>5, <1>6
    <2>2. Ruling!Asking(D, k) = {i \in D : i.kind = k} /\ K(k) = {i \in T : i.kind = k}
      BY DEF Ruling!Asking, K
    <2> QED
      BY <2>1, <2>2
  <1>10. ASSUME NEW i \in Ruling!Evaluate(t, matched) PROVE Justifies(e, i)
    <2>1. PICK k \in {j.kind : j \in D} : i = Ruling!Join(Ruling!Asking(D, k), k)
      BY <1>2
    <2>2. Ruling!Due(e, k) /\ i = Ruling!Join(K(k), k)
      BY <2>1, <1>8, <1>9
    <2>3. /\ i.kind = k /\ i.by = {j.rule : j \in K(k)}
          /\ i.seconds = IF k = "mute" THEN Ruling!Max({j.seconds : j \in K(k)}) ELSE 0
      BY <2>2 DEF Ruling!Join
    <2> QED
      BY <2>2, <2>3, <1>1 DEF Justifies
  <1>11. ASSUME NEW k, Ruling!Due(e, k) PROVE \E i \in Ruling!Evaluate(t, matched) : i.kind = k
    <2>1. k \in {i.kind : i \in D}
      BY <1>8, <1>11
    <2>2. Ruling!Join(Ruling!Asking(D, k), k) \in Ruling!Evaluate(t, matched)
      BY <2>1, <1>2
    <2> QED
      BY <2>2, <1>7
  <1> QED
    BY <1>10, <1>11

(* The decision's rules are on and spare nobody it is about.               *)
Fair(e) == \A r \in e.matched : e.table[r].on /\ ~e.table[r].spares

LEMMA DemandersMatch ==
  ASSUME NEW e, Fair(e), NEW k
  PROVE  \A r \in Ruling!Demanding(e, k) : e.table[r].on /\ ~e.table[r].spares
  BY DEF Fair, Ruling!Demanding, Ruling!Deciding

(* A decision recorded of a message that makes an action due.              *)
IsDue(m, i) == \E e \in uMade[m] : e.asked /\ Fair(e) /\ Justifies(e, i)

RulingTypes ==
    /\ DOMAIN uAt = Sayings /\ DOMAIN uPlan = Sayings /\ DOMAIN uMade = Sayings
    /\ DOMAIN uKind = Sayings /\ \A m \in Sayings : uAt[m] = "counted" => uKind[m] = "rename"
    /\ \A d \in uDeferred : d.message \in Sayings /\ \A r \in d.rules : d.table[r].on

(* What is queued, and what is still to be queued, is due.                 *)
AllIsDue ==
    /\ \A m \in Sayings : \A i \in uPlan[m] : IsDue(m, i)
    /\ \A r \in uRows : r.message \in Sayings /\ IsDue(r.message, r)

(* Unless the program ends, what is due is queued, recorded or still to be *)
(* queued, and there is no decision of a message nobody has asked about.   *)
Taken(m, k) ==
    \/ Ruling!Queued(m, k) \/ <<m, k>> \in uRefused
    \/ \E i \in uPlan[m] : i.kind = k
AllIsTaken ==
    "crash" \notin uFaults =>
        \A m \in Sayings :
            /\ uAt[m] \in {"absent", "stored", "counted"} => uMade[m] = {}
            /\ \A e \in uMade[m] : \A k \in Ruling!ActionKinds :
                  e.asked /\ e.source = "machine" /\ Ruling!Due(e, k)
                  /\ ~(k = "recall" /\ uKind[m] = "rename") => Taken(m, k)

RulingInv == RulingTypes /\ AllIsDue /\ AllIsTaken

LEMMA RulingInit ==
  ASSUME Ruling!Init PROVE RulingInv
  BY DEF Ruling!Init, RulingInv, RulingTypes, AllIsDue, AllIsTaken

(* Steps that leave decisions and their actions alone.                     *)
PlansRest ==
    /\ UNCHANGED <<uFaults, uPlan, uRows, uRefused, uMade>>
    /\ \A d \in uDeferred' :
          d \in uDeferred \/ (d.message \in Sayings /\ \A r \in d.rules : d.table[r].on)
MessagesGoOn ==
    \/ UNCHANGED <<uAt, uKind>>
    \/ \E m \in Sayings : \E p \in {"stored", "counted"} : \E k :
          /\ uAt[m] = "absent" /\ uAt' = [uAt EXCEPT ![m] = p]
          /\ uKind' = [uKind EXCEPT ![m] = k] /\ (p = "counted" => k = "rename")
    \/ \E m \in Sayings : \E p \in {"acting", "done"} :
          uAt[m] # "absent" /\ uAt' = [uAt EXCEPT ![m] = p] /\ uKind' = uKind

LEMMA RulingRests ==
  ASSUME RulingInv, PlansRest, MessagesGoOn
  PROVE  RulingInv'
  <1>1. /\ DOMAIN uAt' = Sayings /\ DOMAIN uKind' = Sayings
        /\ \A m \in Sayings : uKind'[m] = uKind[m] \/ uAt[m] = "absent"
        /\ \A m \in Sayings : uAt'[m] = "counted" => uKind'[m] = "rename"
        /\ \A m \in Sayings : uAt'[m] \in {"absent", "stored", "counted"} =>
                                  uAt[m] \in {"absent", "stored", "counted"}
    BY DEF RulingInv, RulingTypes, MessagesGoOn
  <1>2. RulingTypes'
    BY <1>1 DEF RulingInv, RulingTypes, PlansRest
  <1>3. AllIsDue'
    BY DEF RulingInv, AllIsDue, IsDue, PlansRest
  <1>4. AllIsTaken'
    BY <1>1 DEF RulingInv, PlansRest, AllIsTaken, Taken, Ruling!Queued
  <1> QED
    BY <1>2, <1>3, <1>4 DEF RulingInv

(* A decision: its actions are planned, and they are what it makes due.    *)
LEMMA RulingDecides ==
  ASSUME RulingInv, NEW m \in Sayings, NEW source, NEW t, NEW matched, NEW intents,
         Ruling!Decides(m, source, t, matched, intents),
         intents \subseteq Ruling!Evaluate(t, matched),
         \A r \in matched : t[r].on /\ ~t[r].spares,
         uRows' = uRows, uRefused' = uRefused, uFaults' = uFaults, uKind' = uKind,
         \/ source # "machine" /\ uAt' = uAt /\ uAt[m] = "done"
         \/ /\ uAt[m] \in {"stored", "counted"} /\ uAt' = [uAt EXCEPT ![m] = "acting"]
            /\ \A i \in Ruling!Evaluate(t, matched) :
                  i \in intents \/ (i.kind = "recall" /\ uKind[m] = "rename"),
         RulingTypes'
  PROVE  RulingInv'
  <1>1. PICK calibrating \in BOOLEAN :
          /\ uPlan' = [uPlan EXCEPT ![m] = @ \cup IF calibrating THEN {} ELSE intents]
          /\ uMade' = [uMade EXCEPT ![m] = @ \cup {[source |-> source, table |-> t, matched |-> matched,
                                                    asked |-> ~calibrating]}]
    BY DEF Ruling!Decides, Ruling!Calibrating
  <1> DEFINE e == [source |-> source, table |-> t, matched |-> matched, asked |-> ~calibrating]
  <1>2. /\ uPlan'[m] = uPlan[m] \cup IF calibrating THEN {} ELSE intents
        /\ uMade'[m] = uMade[m] \cup {e}
        /\ \A n \in Sayings \ {m} : uPlan'[n] = uPlan[n] /\ uMade'[n] = uMade[n]
    BY <1>1 DEF RulingInv, RulingTypes
  <1>3. /\ e.source = source /\ e.table = t /\ e.matched = matched /\ e.asked = ~calibrating
        /\ Fair(e)
    BY DEF Fair
  <1>4. /\ \A i \in Ruling!Evaluate(t, matched) : Justifies(e, i)
        /\ \A k : Ruling!Due(e, k) => \E i \in Ruling!Evaluate(t, matched) : i.kind = k
    BY <1>3, EvaluateIsRight
  <1> HIDE DEF e
  <1>5. \A n \in Sayings : uMade[n] \subseteq uMade'[n]
    BY <1>2
  <1>6. \A n \in Sayings : \A i : IsDue(n, i) => IsDue(n, i)'
    BY <1>5 DEF IsDue, Justifies
  <1>7. AllIsDue'
    <2>1. ASSUME NEW n \in Sayings, NEW i \in uPlan'[n] PROVE IsDue(n, i)'
      <3>1. CASE i \in uPlan[n]
        BY <3>1, <1>6 DEF RulingInv, AllIsDue
      <3>2. CASE n = m /\ ~calibrating /\ i \in intents
        <4>1. e \in uMade'[m] /\ e.asked /\ Fair(e) /\ Justifies(e, i)
          BY <3>2, <1>2, <1>3, <1>4
        <4> QED
          BY <4>1, <3>2 DEF IsDue
      <3> QED
        BY <3>1, <3>2, <1>2
    <2>2. \A r \in uRows' : r.message \in Sayings /\ IsDue(r.message, r)'
      BY <1>6 DEF RulingInv, AllIsDue
    <2> QED
      BY <2>1, <2>2 DEF AllIsDue, IsDue
  <1>8. \A n \in Sayings : \A k : Taken(n, k) => Taken(n, k)'
    BY <1>2 DEF Taken, Ruling!Queued
  <1>9. AllIsTaken'
    <2> SUFFICES ASSUME "crash" \notin uFaults, NEW n \in Sayings
                 PROVE  /\ uAt'[n] \in {"absent", "stored", "counted"} => uMade'[n] = {}
                        /\ \A f \in uMade'[n] : \A k \in Ruling!ActionKinds :
                              f.asked /\ f.source = "machine" /\ Ruling!Due(f, k)
                              /\ ~(k = "recall" /\ uKind[n] = "rename") => Taken(n, k)'
      BY DEF AllIsTaken, Taken, Ruling!Queued
    <2>1. /\ uAt[n] \in {"absent", "stored", "counted"} => uMade[n] = {}
          /\ \A f \in uMade[n] : \A k \in Ruling!ActionKinds :
                f.asked /\ f.source = "machine" /\ Ruling!Due(f, k)
                /\ ~(k = "recall" /\ uKind[n] = "rename") => Taken(n, k)
      BY DEF RulingInv, AllIsTaken
    <2>2. uAt'[n] \in {"absent", "stored", "counted"} => uMade'[n] = {}
      BY <2>1, <1>2 DEF RulingInv, RulingTypes
    <2>3. ASSUME NEW f \in uMade'[n], NEW k \in Ruling!ActionKinds,
                 f.asked, f.source = "machine", Ruling!Due(f, k),
                 ~(k = "recall" /\ uKind[n] = "rename")
          PROVE  Taken(n, k)'
      <3>1. CASE f \in uMade[n]
        BY <3>1, <2>1, <2>3, <1>8
      <3>2. CASE f = e /\ n = m
        <4>1. source = "machine" /\ ~calibrating
          BY <3>2, <2>3, <1>3
        <4>2. PICK i \in Ruling!Evaluate(t, matched) : i.kind = k
          BY <3>2, <2>3, <1>4
        <4>3. i \in intents
          BY <4>1, <4>2, <3>2, <2>3
        <4> QED
          BY <4>1, <4>2, <4>3, <3>2, <1>2 DEF Taken
      <3> QED
        BY <3>1, <3>2, <1>2
    <2> QED
      BY <2>2, <2>3
  <1> QED
    BY <1>7, <1>9 DEF RulingInv

LEMMA RulingProcess ==
  ASSUME RulingInv, NEW m \in Sayings, Ruling!Process(m) PROVE RulingInv'
  <1>1. /\ uAt[m] = "stored" /\ uAt' = [uAt EXCEPT ![m] = "acting"]
        /\ UNCHANGED <<uFaults, uKind, uRows, uRefused>>
    BY DEF Ruling!Process, Ruling!Goes, Ruling!input
  <1>2. \A d \in uDeferred' : \/ d \in uDeferred
                              \/ d.message \in Sayings /\ \A r \in d.rules : d.table[r].on
    BY DEF Ruling!Process, Ruling!Considered
  <1>3. CASE UNCHANGED <<uPlan, uMade>>
    <2>1. PlansRest
      BY <1>1, <1>2, <1>3 DEF PlansRest
    <2>2. MessagesGoOn
      BY <1>1 DEF MessagesGoOn
    <2> QED
      BY <2>1, <2>2, RulingRests
  <1>4. CASE Ruling!Decides(m, "machine", uTable, Ruling!Matched(uTable, Ruling!Considered(uTable, FALSE), m),
                            Ruling!Evaluate(uTable, Ruling!Matched(uTable, Ruling!Considered(uTable, FALSE), m)))
    <2> DEFINE matched == Ruling!Matched(uTable, Ruling!Considered(uTable, FALSE), m)
    <2>1. \A r \in matched : uTable[r].on /\ ~uTable[r].spares
      BY DEF Ruling!Matched, Ruling!Considered
    <2>2. RulingTypes'
      BY <1>1, <1>2, <1>4 DEF RulingInv, RulingTypes, Ruling!Decides
    <2> HIDE DEF matched
    <2>3. Ruling!Decides(m, "machine", uTable, matched, Ruling!Evaluate(uTable, matched))
      BY <1>4 DEF matched
    <2> QED
      BY <1>1, <2>1, <2>2, <2>3, RulingDecides
  <1> QED
    BY <1>3, <1>4 DEF Ruling!Process

(* A change of name has no message to recall.                              *)
LEMMA RulingProcessRename ==
  ASSUME RulingInv, NEW m \in Sayings, Ruling!ProcessRename(m) PROVE RulingInv'
  <1>1. /\ uAt[m] = "counted" /\ uAt' = [uAt EXCEPT ![m] = "acting"]
        /\ UNCHANGED <<uFaults, uKind, uRows, uRefused, uDeferred>>
    BY DEF Ruling!ProcessRename, Ruling!Goes, Ruling!input
  <1>2. CASE UNCHANGED <<uPlan, uMade>>
    <2>1. PlansRest
      BY <1>1, <1>2 DEF PlansRest
    <2>2. MessagesGoOn
      BY <1>1 DEF MessagesGoOn
    <2> QED
      BY <2>1, <2>2, RulingRests
  <1> DEFINE rs == {r \in Ruling!Considered(uTable, FALSE) : uTable[r].matcher = "rename"}
             matched == Ruling!Matched(uTable, rs, m)
  <1>3. CASE Ruling!Decides(m, "machine", uTable, matched, Ruling!NoRecall(Ruling!Evaluate(uTable, matched)))
    <2>1. \A r \in matched : uTable[r].on /\ ~uTable[r].spares
      BY DEF Ruling!Matched, Ruling!Considered
    <2>2. RulingTypes'
      BY <1>1, <1>3 DEF RulingInv, RulingTypes, Ruling!Decides
    <2> HIDE DEF matched
    <2>3. /\ Ruling!NoRecall(Ruling!Evaluate(uTable, matched)) \subseteq Ruling!Evaluate(uTable, matched)
          /\ \A i \in Ruling!Evaluate(uTable, matched) :
                i \in Ruling!NoRecall(Ruling!Evaluate(uTable, matched)) \/ i.kind = "recall"
      BY DEF Ruling!NoRecall
    <2>4. uKind[m] = "rename"
      BY <1>1 DEF RulingInv, RulingTypes
    <2> QED
      BY <1>1, <1>3, <2>1, <2>2, <2>3, <2>4, RulingDecides
  <1> QED
    BY <1>2, <1>3 DEF Ruling!ProcessRename

(* The rules judged are those that were on when the message was read.      *)
LEMMA RulingJudge ==
  ASSUME RulingInv, NEW d \in uDeferred, Ruling!Judge(d) PROVE RulingInv'
  <1>1. /\ uAt[d.message] = "done" /\ uDeferred' = uDeferred \ {d}
        /\ UNCHANGED <<uFaults, uAt, uKind, uRows, uRefused>>
        /\ d.message \in Sayings /\ \A r \in d.rules : d.table[r].on
    BY DEF Ruling!Judge, Ruling!input, RulingInv, RulingTypes
  <1>2. CASE UNCHANGED <<uPlan, uMade>>
    <2>1. PlansRest
      BY <1>1, <1>2 DEF PlansRest
    <2>2. MessagesGoOn
      BY <1>1 DEF MessagesGoOn
    <2> QED
      BY <2>1, <2>2, RulingRests
  <1>3. ASSUME NEW scored \in SUBSET d.rules,
               Ruling!Decides(d.message, "ai", d.table, {r \in scored : ~d.table[r].spares},
                   Ruling!FilterAiRuleIntents(Ruling!Evaluate(d.table, {r \in scored : ~d.table[r].spares})))
        PROVE  RulingInv'
    <2> DEFINE matched == {r \in scored : ~d.table[r].spares}
    <2>1. \A r \in matched : d.table[r].on /\ ~d.table[r].spares
      BY <1>1
    <2>2. RulingTypes'
      BY <1>1, <1>3 DEF RulingInv, RulingTypes, Ruling!Decides
    <2>3. Ruling!Decides(d.message, "ai", d.table, matched,
                         Ruling!FilterAiRuleIntents(Ruling!Evaluate(d.table, matched)))
      BY <1>3
    <2> HIDE DEF matched
    <2>4. Ruling!FilterAiRuleIntents(Ruling!Evaluate(d.table, matched)) \subseteq Ruling!Evaluate(d.table, matched)
      BY DEF Ruling!FilterAiRuleIntents
    <2> QED
      BY <1>1, <2>1, <2>2, <2>3, <2>4, RulingDecides
  <1> QED
    BY <1>2, <1>3 DEF Ruling!Judge

(* An action taken from a plan is queued, found queued, or recorded.       *)
LEMMA RulingExecute ==
  ASSUME RulingInv, NEW m \in Sayings, Ruling!ExecuteRuleAction(m) PROVE RulingInv'
  <1>1. PICK i \in uPlan[m] :
          /\ Ruling!EnqueueEffect(m, i) \/ Ruling!RecordFailure(m, i)
          /\ uPlan' = [uPlan EXCEPT ![m] = @ \ {i}]
    BY DEF Ruling!ExecuteRuleAction
  <1>2. UNCHANGED <<uFaults, uKind, uAt, uDeferred, uMade>>
    BY DEF Ruling!ExecuteRuleAction, Ruling!input
  <1>3. /\ uPlan'[m] = uPlan[m] \ {i} /\ \A n \in Sayings \ {m} : uPlan'[n] = uPlan[n]
        /\ DOMAIN uPlan' = Sayings
    BY <1>1 DEF RulingInv, RulingTypes
  <1> DEFINE row == Ruling!Row(m, i)
  <1>4. row.message = m /\ row.kind = i.kind /\ row.by = i.by /\ row.seconds = i.seconds
    BY DEF Ruling!Row
  <1>5. /\ uRows \subseteq uRows' /\ uRows' \subseteq uRows \cup {row} /\ uRefused \subseteq uRefused'
        /\ (\E r \in uRows' : r.message = m /\ r.kind = i.kind) \/ <<m, i.kind>> \in uRefused'
    <2>1. CASE Ruling!EnqueueEffect(m, i)
      BY <2>1, <1>4 DEF Ruling!EnqueueEffect, Ruling!Queued
    <2>2. CASE Ruling!RecordFailure(m, i)
      BY <2>2 DEF Ruling!RecordFailure
    <2> QED
      BY <1>1, <2>1, <2>2
  <1> HIDE DEF row
  <1>6. IsDue(m, i)
    BY <1>1 DEF RulingInv, AllIsDue
  <1>7. IsDue(m, row)
    BY <1>4, <1>6 DEF IsDue, Justifies
  <1>8. AllIsDue'
    BY <1>2, <1>3, <1>4, <1>5, <1>7 DEF RulingInv, AllIsDue, IsDue
  <1>9. \A n \in Sayings : \A k : Taken(n, k) => Taken(n, k)'
    BY <1>3, <1>5 DEF Taken, Ruling!Queued
  <1>10. AllIsTaken'
    BY <1>2, <1>9 DEF RulingInv, AllIsTaken
  <1>11. RulingTypes'
    BY <1>2, <1>3 DEF RulingInv, RulingTypes
  <1> QED
    BY <1>8, <1>10, <1>11 DEF RulingInv

(* The program ends: plans are lost, and what they had queued stays due.   *)
LEMMA RulingCrash ==
  ASSUME RulingInv, Ruling!Crash PROVE RulingInv'
  <1>1. /\ "crash" \in uFaults /\ uPlan' = [m \in Sayings |-> {}] /\ uDeferred' = {}
        /\ UNCHANGED <<uFaults, uKind, uRows, uRefused, uMade>>
        /\ DOMAIN uAt' = Sayings
        /\ \A m \in Sayings : uAt'[m] = "counted" => uAt[m] = "counted"
    BY DEF Ruling!Crash, Ruling!input
  <1>2. RulingTypes'
    BY <1>1 DEF RulingInv, RulingTypes
  <1>3. AllIsDue' /\ AllIsTaken'
    BY <1>1 DEF RulingInv, AllIsDue, AllIsTaken, IsDue
  <1> QED
    BY <1>2, <1>3 DEF RulingInv

LEMMA RulingStep ==
  ASSUME RulingInv, [Ruling!Next]_rulingVars PROVE RulingInv'
  <1>1. CASE \/ Ruling!SaveRule \/ Ruling!SetGroupRuleFeatures \/ Ruling!Tick \/ UNCHANGED rulingVars
    <2>1. UNCHANGED <<uFaults, uPlan, uRows, uRefused, uMade, uDeferred, uAt, uKind>>
      BY <1>1 DEF Ruling!SaveRule, Ruling!SetGroupRuleFeatures, Ruling!Tick, Ruling!input, rulingVars
    <2>2. PlansRest /\ MessagesGoOn
      BY <2>1 DEF PlansRest, MessagesGoOn
    <2> QED
      BY <2>2, RulingRests
  <1>2. ASSUME NEW m \in Sayings, Ruling!Store(m) \/ Ruling!CountRename(m) PROVE RulingInv'
    <2>1. /\ UNCHANGED <<uFaults, uPlan, uRows, uRefused, uMade, uDeferred>>
          /\ \E p \in {"stored", "counted"} : \E k :
               /\ uAt[m] = "absent" /\ uAt' = [uAt EXCEPT ![m] = p]
               /\ uKind' = [uKind EXCEPT ![m] = k] /\ (p = "counted" => k = "rename")
      <3>1. CASE Ruling!Store(m)
        BY <3>1 DEF Ruling!Store, Ruling!Goes
      <3>2. CASE Ruling!CountRename(m)
        BY <3>2 DEF Ruling!CountRename, Ruling!Goes
      <3> QED
        BY <1>2, <3>1, <3>2
    <2>2. PlansRest /\ MessagesGoOn
      BY <2>1 DEF PlansRest, MessagesGoOn
    <2> QED
      BY <2>2, RulingRests
  <1>3. ASSUME NEW m \in Sayings, Ruling!Finish(m) PROVE RulingInv'
    <2>1. /\ UNCHANGED <<uFaults, uPlan, uRows, uRefused, uMade, uDeferred, uKind>>
          /\ uAt[m] = "acting" /\ uAt' = [uAt EXCEPT ![m] = "done"]
      BY <1>3 DEF Ruling!Finish, Ruling!Goes, Ruling!input
    <2>2. PlansRest /\ MessagesGoOn
      BY <2>1 DEF PlansRest, MessagesGoOn
    <2> QED
      BY <2>2, RulingRests
  <1> QED
    BY <1>1, <1>2, <1>3, RulingCrash, RulingProcess, RulingProcessRename, RulingJudge, RulingExecute
       DEF Ruling!Next

LEMMA RulingMeans ==
  ASSUME RulingInv PROVE Ruling!RulesDecideRightly
  <1>1. Ruling!ActionsAreDue
    <2> SUFFICES ASSUME NEW r \in uRows
                 PROVE  \E e \in uMade[r.message] :
                           /\ e.asked /\ Ruling!Due(e, r.kind) /\ r.by = Ruling!Demanding(e, r.kind)
                           /\ r.kind = "mute" => r.seconds = Ruling!Longest(e, "mute")
                           /\ \A id \in r.by : e.table[id].on /\ ~e.table[id].spares
      BY DEF Ruling!ActionsAreDue
    <2>1. PICK e \in uMade[r.message] : e.asked /\ Fair(e) /\ Justifies(e, r)
      BY DEF RulingInv, AllIsDue, IsDue
    <2>2. \A id \in Ruling!Demanding(e, r.kind) : e.table[id].on /\ ~e.table[id].spares
      BY <2>1, DemandersMatch
    <2> QED
      BY <2>1, <2>2 DEF Justifies
  <1>2. Ruling!DueActionsAreTaken
    BY DEF RulingInv, AllIsTaken, Taken, Ruling!DueActionsAreTaken
  <1> QED
    BY <1>1, <1>2 DEF Ruling!RulesDecideRightly

(* Every action queued is due by a decision of its message, names the      *)
(* rules that decided it and mutes for the longest time asked; what is due *)
(* is queued or recorded, whatever the rules, the edits, the judgements of *)
(* the model and the order of things are (merge_action_intents,            *)
(* execute_rule_actions).                                                  *)
THEOREM RulesStayRight ==
  /\ Ruling!Spec => []Ruling!RulesDecideRightly
  /\ MCSpec => []RulesDecideRightly
  <1>1. RulingInv /\ [Ruling!Next]_rulingVars => RulingInv'
    BY RulingStep
  <1>2. Ruling!Spec => []Ruling!RulesDecideRightly
    <2>1. RulingInv /\ [Ruling!Next]_(Ruling!vars) => RulingInv'
      BY <1>1 DEF Ruling!vars, rulingVars
    <2> QED
      BY <2>1, RulingInit, RulingMeans, PTL DEF Ruling!Spec
  <1>3. MCInit => (focus = "ruling" => RulingInv)
    BY RulingInit DEF MCInit
  <1>4. (focus = "ruling" => RulingInv) /\ [MCNext]_mcVars => (focus = "ruling" => RulingInv)'
    BY <1>1, Steps
  <1>5. (focus = "ruling" => RulingInv) => RulesDecideRightly
    BY RulingMeans DEF RulesDecideRightly
  <1> QED
    BY <1>2, <1>3, <1>4, <1>5, PTL DEF MCSpec, mcVars
=============================================================================
