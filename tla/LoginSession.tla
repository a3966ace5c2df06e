--------------------------- MODULE LoginSession -----------------------------
(* What the session of the web edition promises to those who work with it   *)
(* (protocol_login.rs, Session): there is one login at a time, it ends only *)
(* with a new epoch, and what a start restores is a login nobody ended.     *)
(* Everyone who notes the epoch before a wait and compares it afterwards    *)
(* (rust_gateway.rs, conversations.rs) relies on this.  WebLogin shows that *)
(* the handlers keep the promise, WebWrites builds on it.                   *)
EXTENDS Naturals

CONSTANTS MaxLogins, MaxEpoch       \* bounds of the runs

VARIABLES
    client,     \* the login in use, 0 for none
    epoch,      \* Session.epoch
    kept,       \* the login of the file session.sealed, 0 for none
    made        \* how many logins there have been

sessionVars == <<client, epoch, kept, made>>

SessionInit == client = 0 /\ epoch = 1 /\ kept = 0 /\ made = 0

(* A login begins where there is none, in an epoch that has had none, and   *)
(* is kept over a restart if its account for messages is known.             *)
Begin ==
    /\ client = 0 /\ made < MaxLogins
    /\ made' = made + 1 /\ client' = made'
    /\ kept' \in {kept, made'}
    /\ epoch' = epoch

(* The user ends the login, or asks for another one.                        *)
End ==
    /\ epoch < MaxEpoch /\ epoch' = epoch + 1
    /\ client' = 0 /\ kept' = 0
    /\ made' = made

(* The service no longer knows the login; its file may remain for a while.  *)
Expire ==
    /\ client # 0 /\ epoch < MaxEpoch /\ epoch' = epoch + 1
    /\ client' = 0
    /\ UNCHANGED <<kept, made>>

Clear ==
    /\ client = 0 /\ kept' = 0
    /\ UNCHANGED <<client, epoch, made>>

Restart ==
    /\ client' = kept /\ epoch' = 1
    /\ UNCHANGED <<kept, made>>

SessionNext == Begin \/ End \/ Expire \/ Clear \/ Restart
SessionSpec == SessionInit /\ [][SessionNext]_sessionVars
=============================================================================
