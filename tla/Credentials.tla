---------------------------- MODULE Credentials ----------------------------
(***************************************************************************)
(* The credential coordinator of the protocol client: two secrets of one   *)
(* login, renewed independently by refreshes that ask the provider while   *)
(* logins, logouts and other refreshes go on.  A secret is a number; what  *)
(* it was derived from is kept with it.                                    *)
(***************************************************************************)
EXTENDS Integers

CONSTANTS
    Refreshers,     \* calls of refresh_business and refresh_nim
    KindOf,         \* "business" or "nim"
    MaxGeneration   \* bound on logins and logouts

VARIABLES
    generation, revision, current,  \* State of credentials.rs
    place,          \* of each refresh
    observed,       \* the snapshot its caller had
    before          \* the snapshot it works from

vars == <<generation, revision, current, place, observed, before>>

LoggedOut == [business |-> 0, nim |-> 0]
Kinds == {"business", "nim"}
Snapshot == [generation |-> generation, revision |-> revision, current |-> current]
NoSnapshot == [generation |-> 0, revision |-> 0, current |-> LoggedOut]

Init ==
    /\ generation = 0 /\ revision = 0 /\ current = LoggedOut
    /\ place = [r \in Refreshers |-> "idle"]
    /\ observed = [r \in Refreshers |-> NoSnapshot]
    /\ before = [r \in Refreshers |-> NoSnapshot]

Goes(r, p) == place' = [place EXCEPT ![r] = p]

(* The secrets of a login are named after its revision; so is a renewed one*)
Change(new) ==
    /\ generation < MaxGeneration
    /\ generation' = generation + 1 /\ revision' = revision + 1
    /\ current' = new
    /\ UNCHANGED <<place, observed, before>>

Login == Change([business |-> revision + 1, nim |-> revision + 1])
Logout == Change(LoggedOut)

Observe(r) ==
    /\ place[r] = "idle" /\ current # LoggedOut
    /\ observed' = [observed EXCEPT ![r] = Snapshot]
    /\ Goes(r, "observed")
    /\ UNCHANGED <<generation, revision, current, before>>

(* One refresh of a kind at a time: the guard _single.                     *)
Busy(k) == \E r \in Refreshers : KindOf[r] = k /\ place[r] = "asks"

(* Somebody else may have renewed the secret meanwhile.                    *)
Begin(r) ==
    /\ place[r] = "observed" /\ ~Busy(KindOf[r])
    /\ IF \/ current = LoggedOut
          \/ generation # observed[r].generation
          \/ current[KindOf[r]] # observed[r].current[KindOf[r]]
       THEN Goes(r, "done") /\ before' = before
       ELSE Goes(r, "asks") /\ before' = [before EXCEPT ![r] = Snapshot]
    /\ UNCHANGED <<generation, revision, current, observed>>

(* Slip: only a new login makes a result obsolete.                         *)
CurrentLogin(r) ==
    /\ current # LoggedOut
    /\ generation = before[r].generation

(* A result is taken only if nothing has changed since the question.       *)
Current(r) ==
    /\ current # LoggedOut
    /\ generation = before[r].generation /\ revision = before[r].revision

End(r) ==
    /\ place[r] = "asks" /\ Goes(r, "done")
    /\ IF Current(r)
       THEN current' = [current EXCEPT ![KindOf[r]] = revision + 1] /\ revision' = revision + 1
       ELSE UNCHANGED <<current, revision>>
    /\ UNCHANGED <<generation, observed, before>>

ProviderFails(r) ==
    /\ place[r] = "asks" /\ Goes(r, "done")
    /\ UNCHANGED <<generation, revision, current, observed, before>>

Next == \/ Login \/ Logout
        \/ \E r \in Refreshers : Observe(r) \/ Begin(r) \/ End(r) \/ ProviderFails(r)

Spec == Init /\ [][Next]_vars

-----------------------------------------------------------------------------
(* Within a login a secret is only replaced by one derived from the pair   *)
(* in force, the other secret stays, and a logout is not undone (the       *)
(* head of credentials.rs: a refresh updates only its own field and cannot *)
(* resurrect a logout).                                                    *)
RefreshKeepsToItsLogin ==
    [][generation' = generation /\ current' # current =>
        \E r \in Refreshers :
            /\ place[r] = "asks" /\ before[r].current = current /\ before[r].generation = generation
            /\ \A k \in Kinds \ {KindOf[r]} : current'[k] = current[k]]_vars
=============================================================================
