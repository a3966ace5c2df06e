------------------------------ MODULE WebLogin ------------------------------
(****************************************************************************)
(* The login of the web edition (dh-server's protocol_login.rs): one Session*)
(* behind a lock, which the handlers of the pages try to take and the       *)
(* receiver's loop takes between two receptions (main.rs).  A handler keeps *)
(* the lock while it waits for the service; it is dropped when its page     *)
(* hangs up.  The session is kept over a restart in a sealed file, and so   *)
(* is the password, if the user wants that.                                 *)
(****************************************************************************)
EXTENDS Naturals

CONSTANTS
    FaultSets,      \* sets of what may happen: "crash", "cancel" (a page hangs up),
                    \* "vault" (a file cannot be written)
    AttemptLimit,   \* attempts a minute (5)
    Expiry,         \* minutes a code can be used (10)
    MaxLogins, MaxEpoch, MaxMinutes     \* bounds of the runs

VARIABLES
    faults,
    client, epoch, kept, made,  \* as in LoginSession
    account,    \* nim_account is known
    socket,     \* the login whose token opened the connection for messages, or 0
    challenge,  \* the code that was sent to a telephone, or NoChallenge
    attempts,   \* of the last minute
    saved, savedFile,   \* a password is remembered, in memory and in its file
    at,         \* what the holder of the lock waits for
    minutes,    \* passed
    asked,      \* sends of this minute that the form for codes asked for
    ended       \* logins the user has ended

vars == <<faults, client, epoch, kept, made, account, socket, challenge, attempts,
          saved, savedFile, at, minutes, asked, ended>>

Promise == INSTANCE LoginSession

Waits == {"free", "business", "device", "start", "resend", "verify", "groups",
          "connect", "renew", "forget"}
NoChallenge == [open |-> FALSE, recent |-> FALSE, age |-> 0]
Sent == [open |-> TRUE, recent |-> TRUE, age |-> 0]

Writes(ok) == ok \/ "vault" \in faults
Service == <<client, epoch, kept, made, account, socket, ended>>
Passwords == <<saved, savedFile>>
Clock == <<minutes, asked>>

Init ==
    /\ faults \in FaultSets
    /\ client = 0 /\ epoch = 1 /\ kept = 0 /\ made = 0
    /\ account = FALSE /\ socket = 0
    /\ challenge = NoChallenge /\ attempts = 0
    /\ saved = FALSE /\ savedFile = FALSE
    /\ at = "free" /\ minutes = 0 /\ asked = 0 /\ ended = {}

LoggedOutInTheSameEpoch ==
    /\ client' = 0 /\ account' = FALSE /\ socket' = 0
    /\ epoch' = epoch

(* The login is over: in memory, and for all who compare the epoch.         *)
LoggedOut ==
    /\ client' = 0 /\ account' = FALSE /\ socket' = 0
    /\ epoch' = epoch + 1

UserEndsInMemory ==
    /\ epoch < MaxEpoch
    /\ LoggedOut
    /\ UNCHANGED <<kept, made>>
    /\ challenge' = NoChallenge
    /\ ended' = ended \cup ({client, kept} \ {0})

UserEnds ==
    /\ epoch < MaxEpoch
    /\ LoggedOut
    /\ kept' = 0 /\ made' = made
    /\ challenge' = NoChallenge
    /\ ended' = ended \cup ({client, kept} \ {0})

(* A password: it is remembered, or forgotten, before it has been tried; the *)
(* login there was ends, unless one of the files cannot be written.          *)
Login(remember, useSaved) ==
    /\ at = "free" /\ (useSaved => saved) /\ attempts < AttemptLimit
    /\ attempts' = attempts + 1
    /\ \E written, cleared \in BOOLEAN :
        /\ Writes(written) /\ Writes(cleared) /\ (~written => ~cleared)
        /\ IF written THEN saved' = remember /\ savedFile' = remember ELSE UNCHANGED Passwords
        /\ IF cleared
           THEN UserEnds /\ at' = "business"
           ELSE UNCHANGED <<Service, challenge, at>>
    /\ UNCHANGED <<faults, Clock>>

(* What the service says to the password: yes, that the device is new, or no.*)
BusinessAnswers ==
    /\ at = "business"
    /\ at' \in {"groups", "device", "free"}
    /\ UNCHANGED <<faults, Service, challenge, attempts, Passwords, Clock>>

DeviceAnswers ==
    /\ at = "device" /\ at' = "free"
    /\ challenge' \in {challenge, Sent}
    /\ UNCHANGED <<faults, Service, attempts, Passwords, Clock>>

(* finish_login: only a client that can read its groups is taken; if it      *)
(* cannot be kept it is not taken either.                                    *)
GroupsAnswer ==
    /\ at = "groups"
    /\ \/ at' = "free" /\ UNCHANGED <<Service, challenge>>
       \/ /\ made < MaxLogins
          /\ challenge' = NoChallenge
          /\ \E known, written, token \in BOOLEAN :
              /\ Writes(written)
              /\ IF ~known \/ written
                 THEN /\ made' = made + 1 /\ client' = made' /\ account' = known
                      /\ kept' = IF known THEN made' ELSE kept
                      /\ at' = IF token THEN "connect" ELSE "free"
                 ELSE /\ client' = 0 /\ account' = FALSE /\ at' = "free"
                      /\ UNCHANGED <<made, kept>>
          /\ UNCHANGED <<epoch, socket, ended>>
    /\ UNCHANGED <<faults, attempts, Passwords, Clock>>

(* connect_nim: the old connection is closed first, the new one counts once  *)
(* its first heartbeat has been answered.                                    *)
Connects ==
    /\ at = "connect" /\ at' = "free"
    /\ \/ socket' = 0
       \/ account /\ socket' = client
    /\ UNCHANGED <<faults, client, epoch, kept, made, account, ended>>
    /\ UNCHANGED <<challenge, attempts, Passwords, Clock>>

(* The receiver's loop: the member's own name may be looked up and kept with *)
(* the session; a heartbeat that fails gives up the connection.  How long it *)
(* waits after failures (30 s at most) is left open.                         *)
Maintain ==
    /\ at = "free" /\ client # 0 /\ account
    /\ \E named, written, heard \in BOOLEAN :
        /\ Writes(written)
        /\ kept' = IF named /\ written THEN client ELSE kept
        /\ socket' = IF heard THEN socket ELSE 0
        /\ at' \in {"free"} \cup (IF socket' = 0 THEN {"renew"} ELSE {})
    /\ UNCHANGED <<faults, client, epoch, made, account, ended>>
    /\ UNCHANGED <<challenge, attempts, Passwords, Clock>>

Refresh ==
    /\ at = "free" /\ client # 0
    /\ at' = "renew"
    /\ UNCHANGED <<faults, Service, challenge, attempts, Passwords, Clock>>

(* renew_connection: a token for a new connection, word that the login has   *)
(* expired, or an error; between forgetting the login and clearing its file  *)
(* the handler waits once more.                                              *)
RenewAnswers ==
    /\ at = "renew"
    /\ \/ at' = "connect" /\ socket' = 0
          /\ UNCHANGED <<client, epoch, kept, made, account>>
       \/ epoch < MaxEpoch /\ LoggedOut /\ at' = "forget" /\ UNCHANGED <<kept, made>>
       \/ at' = "free"
          /\ UNCHANGED <<client, epoch, kept, made, account, socket>>
    /\ UNCHANGED <<faults, challenge, attempts, Passwords, Clock, ended>>

FileForgets ==
    /\ at = "forget" /\ at' = "free"
    /\ \E written \in BOOLEAN : Writes(written) /\ kept' = IF written THEN 0 ELSE kept
    /\ UNCHANGED <<faults, client, epoch, made, account, socket, ended>>
    /\ UNCHANGED <<challenge, attempts, Passwords, Clock>>

(* A code by telephone, without a password: one a minute, whatever becomes   *)
(* of it.                                                                    *)
StartSms ==
    /\ at = "free" /\ client = 0 /\ ~challenge.recent /\ attempts = 0
    /\ attempts' = 1 /\ challenge' = NoChallenge /\ at' = "start"
    /\ asked' = asked + 1
    /\ UNCHANGED <<faults, Service, Passwords, minutes>>

StartAnswers ==
    /\ at = "start" /\ at' = "free"
    /\ challenge' \in {NoChallenge, Sent}
    /\ UNCHANGED <<faults, Service, attempts, Passwords, Clock>>

(* The code's form, with the id of the code there is.                        *)
ResendSms ==
    /\ at = "free" /\ challenge.open
    /\ IF challenge.age >= Expiry
       THEN challenge' = NoChallenge /\ UNCHANGED <<attempts, at, asked>>
       ELSE /\ ~challenge.recent /\ attempts < AttemptLimit
            /\ attempts' = attempts + 1
            /\ challenge' = [challenge EXCEPT !.recent = TRUE]
            /\ at' = "resend" /\ asked' = asked + 1
    /\ UNCHANGED <<faults, Service, Passwords, minutes>>

VerifySms ==
    /\ at = "free" /\ challenge.open
    /\ IF challenge.age >= Expiry
       THEN challenge' = NoChallenge /\ UNCHANGED <<attempts, at>>
       ELSE /\ attempts < AttemptLimit /\ attempts' = attempts + 1
            /\ at' = "verify" /\ UNCHANGED challenge
    /\ UNCHANGED <<faults, Service, Passwords, Clock>>

SmsAnswers ==
    /\ \/ at = "resend" /\ at' = "free"
       \/ at = "verify" /\ at' \in {"groups", "free"}
    /\ UNCHANGED <<faults, Service, challenge, attempts, Passwords, Clock>>

Logout ==
    /\ at = "free"
    /\ UserEnds
    /\ UNCHANGED <<faults, attempts, Passwords, at, Clock>>

ForgetLogin ==
    /\ at = "free"
    /\ saved' = FALSE /\ savedFile' = FALSE
    /\ UNCHANGED <<faults, Service, challenge, attempts, at, Clock>>

(* The page hangs up: its handler goes on no further.                        *)
Cancel ==
    /\ "cancel" \in faults /\ at # "free" /\ at' = "free"
    /\ UNCHANGED <<faults, Service, challenge, attempts, Passwords, Clock>>

Tick ==
    /\ minutes < MaxMinutes /\ minutes' = minutes + 1
    /\ attempts' = 0 /\ asked' = 0
    /\ challenge' = IF challenge.open
                    THEN [challenge EXCEPT !.recent = FALSE, !.age = @ + 1] ELSE challenge
    /\ UNCHANGED <<faults, Service, Passwords, at>>

(* A start reads the two files (attach_vault).                               *)
CrashAndRestart ==
    /\ "crash" \in faults
    /\ client' = kept /\ account' = (kept # 0) /\ socket' = 0 /\ epoch' = 1
    /\ challenge' = NoChallenge /\ attempts' = 0 /\ asked' = 0
    /\ saved' = savedFile /\ at' = "free"
    /\ UNCHANGED <<faults, kept, made, savedFile, minutes, ended>>

Next ==
    \/ \E remember, useSaved \in BOOLEAN : Login(remember, useSaved)
    \/ BusinessAnswers \/ DeviceAnswers \/ GroupsAnswer \/ Connects
    \/ Maintain \/ Refresh \/ RenewAnswers \/ FileForgets
    \/ StartSms \/ StartAnswers \/ ResendSms \/ VerifySms \/ SmsAnswers
    \/ Logout \/ ForgetLogin
    \/ Cancel \/ Tick \/ CrashAndRestart

Spec == Init /\ [][Next]_vars

TypeOK ==
    /\ client \in 0..MaxLogins /\ kept \in 0..MaxLogins /\ socket \in 0..MaxLogins
    /\ epoch \in 1..MaxEpoch /\ at \in Waits /\ attempts \in 0..AttemptLimit
    /\ challenge \in [open : BOOLEAN, recent : BOOLEAN, age : 0..MaxMinutes]

(* Logins are kept apart: a connection belongs to the login in use, a code   *)
(* can be redeemed only where there is no login, a login the user has ended  *)
(* is not in use again nor restored, the password remembered is the one of   *)
(* the file, and the form for codes asks for one a minute however often it   *)
(* is sent, also after refused requests (the comment in start_sms).          *)
LoginsAreKeptApart ==
    /\ socket # 0 => socket = client /\ account
    /\ challenge.open => client = 0
    /\ client \notin ended /\ kept \notin ended
    /\ saved = savedFile
    /\ asked <= 1

(* The handlers keep what LoginSession promises: an epoch has one login.     *)
ImplementsSession == Promise!SessionSpec
=============================================================================
