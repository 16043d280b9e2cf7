------------------------------ MODULE Sessions ------------------------------
(***************************************************************************)
(* Accounts and sessions: registration with a mailed code and an           *)
(* invitation, login, requests with a token, logout (apis/user.py,         *)
(* utils/authentication.py, cmd_set_invite_code of script.py).             *)
(*                                                                         *)
(* A request is a process; it waits where its handler awaits the database. *)
(* One email address is enough: keys and rows of different addresses never *)
(* meet.  A token is the number of the login that made it (its jti).       *)
(***************************************************************************)
EXTENDS Integers, FiniteSets

CONSTANTS
    Requests,       \* requests in flight at one time
    CodeLife,       \* 600 seconds in ticks: register_code and invite_code
    SessionLife,    \* six hours in ticks: user:{email}:jti
    ZoneOffset,     \* local time minus UTC in ticks: exp is built from datetime.now()
    MaxLogins,      \* bound: tokens ever made
    MaxCodes        \* bound: codes ever mailed and invitations ever made

VARIABLES
    registered,     \* how many rows of user_info_table have the address
    mailCode,       \* [code, left]: the code in Redis and its time to live
    invite,         \* the invitation in Redis
    codes,          \* codes and invitations made so far
    session,        \* [jti, left]: the key user:{email}:jti
    tokens,         \* per token: its age, No before it is made
    request,        \* per process: what it does and waits for
    loggedOut,      \* ghost: the tokens whose owner has logged out
    vouched         \* ghost: code and invitation that the last created row was made with

sessionVars == <<registered, mailCode, invite, codes, session, tokens, request, loggedOut, vouched>>

(* The values the constants may have. The proofs suppose it; Parts states  *)
(* it of its constants.                                                    *)
SessionAssumption ==
    /\ {CodeLife, SessionLife} \subseteq Nat \ {0} /\ {MaxLogins, MaxCodes} \subseteq Nat
    /\ ZoneOffset \in Int

No == -1
Token == 1 .. MaxLogins
Absent == [code |-> 0, left |-> 0]
Idle == [at |-> "idle", code |-> 0, invite |-> 0]

Init ==
    /\ registered = 0
    /\ mailCode = Absent /\ invite = Absent /\ codes = 0
    /\ session = [jti |-> 0, left |-> 0]
    /\ tokens = [t \in Token |-> No]
    /\ request = [r \in Requests |-> Idle]
    /\ loggedOut = {}
    /\ vouched = Idle

MakeCode == codes < MaxCodes /\ codes' = codes + 1

(* UserRegisterVerification: the code is stored and mailed only while the  *)
(* address has no account; the row may appear between the two.             *)
AskForCode(r) ==
    /\ request[r] = Idle
    /\ registered = 0
    /\ request' = [request EXCEPT ![r].at = "code"]
    /\ UNCHANGED <<registered, mailCode, invite, codes, session, tokens, loggedOut, vouched>>

StoreCode(r) ==
    /\ request[r].at = "code"
    /\ MakeCode
    /\ mailCode' = [code |-> codes', left |-> CodeLife]
    /\ request' = [request EXCEPT ![r] = Idle]
    /\ UNCHANGED <<registered, invite, session, tokens, loggedOut, vouched>>

(* cmd_set_invite_code: the administrator invites an address.              *)
Invite ==
    /\ MakeCode
    /\ invite' = [code |-> codes', left |-> CodeLife]
    /\ UNCHANGED <<registered, mailCode, session, tokens, request, loggedOut, vouched>>

(* Mutant: a code that is missing in Redis is not compared.                *)
RegisterUnchecked(r, c, i) ==
    /\ request[r] = Idle
    /\ mailCode = Absent \/ c = mailCode.code
    /\ invite # Absent /\ i = invite.code
    /\ request' = [request EXCEPT ![r] = [at |-> "register", code |-> c, invite |-> i]]
    /\ UNCHANGED <<registered, mailCode, invite, codes, session, tokens, loggedOut, vouched>>

(* UserRegisterView: both codes are compared with what Redis has now.      *)
Register(r, c, i) ==
    /\ request[r] = Idle
    /\ mailCode # Absent /\ c = mailCode.code
    /\ invite # Absent /\ i = invite.code
    /\ request' = [request EXCEPT ![r] = [at |-> "register", code |-> c, invite |-> i]]
    /\ UNCHANGED <<registered, mailCode, invite, codes, session, tokens, loggedOut, vouched>>

LookForAccount(r) ==
    /\ request[r].at = "register"
    /\ request' = [request EXCEPT ![r] = IF registered > 0 THEN Idle
                                         ELSE [request[r] EXCEPT !.at = "create"]]
    /\ UNCHANGED <<registered, mailCode, invite, codes, session, tokens, loggedOut, vouched>>

(* The unique column email stops the second of two that looked at once.    *)
(* The key deleted afterwards is email:invite_code:..., which nothing ever *)
(* sets: the invitation stays until it expires.                            *)
CreateAccount(r) ==
    /\ request[r].at = "create"
    /\ IF registered = 0
       THEN registered' = 1 /\ vouched' = [request[r] EXCEPT !.at = "idle"]
       ELSE UNCHANGED <<registered, vouched>>
    /\ request' = [request EXCEPT ![r] = Idle]
    /\ UNCHANGED <<mailCode, invite, codes, session, tokens, loggedOut>>

(* UserLoginView awaits the row, and makes and stores the token at once.   *)
LogIn(r) ==
    /\ request[r] = Idle
    /\ registered > 0
    /\ request' = [request EXCEPT ![r].at = "login"]
    /\ UNCHANGED <<registered, mailCode, invite, codes, session, tokens, loggedOut, vouched>>

IssueToken(r) ==
    /\ request[r].at = "login"
    /\ \E t \in Token :
          /\ tokens[t] = No /\ \A u \in Token : u < t => tokens[u] # No
          /\ tokens' = [tokens EXCEPT ![t] = 0]
          /\ session' = [jti |-> t, left |-> SessionLife]
    /\ request' = [request EXCEPT ![r] = Idle]
    /\ UNCHANGED <<registered, mailCode, invite, codes, loggedOut, vouched>>

(* verify_token: exp is local time that PyJWT takes for UTC, so the token  *)
(* itself ends earlier or later than six hours; the key in Redis does not. *)
Unexpired(t) == tokens[t] # No /\ tokens[t] < SessionLife + ZoneOffset
Verified(t) == Unexpired(t) /\ session.jti = t

(* UserLogoutView: nothing is awaited between the check and the deletion.  *)
LogOut(t) ==
    /\ Verified(t)
    /\ session' = [jti |-> 0, left |-> 0]
    /\ loggedOut' = loggedOut \cup {t}
    /\ UNCHANGED <<registered, mailCode, invite, codes, tokens, request, vouched>>

Older(key, gone) == IF key.left = 1 THEN gone ELSE IF key.left > 0 THEN [key EXCEPT !.left = @ - 1] ELSE key

Tick ==
    /\ mailCode' = Older(mailCode, Absent) /\ invite' = Older(invite, Absent)
    /\ session' = Older(session, [jti |-> 0, left |-> 0])
    /\ tokens' = [t \in Token |-> IF tokens[t] \in 0 .. 2 * SessionLife THEN tokens[t] + 1 ELSE tokens[t]]
    /\ UNCHANGED <<registered, codes, request, loggedOut, vouched>>

Next ==
    \/ \E r \in Requests :
          \/ AskForCode(r) \/ StoreCode(r)
          \/ \E c, i \in 1 .. MaxCodes : Register(r, c, i)
          \/ LookForAccount(r) \/ CreateAccount(r)
          \/ LogIn(r) \/ IssueToken(r)
    \/ Invite
    \/ \E t \in Token : LogOut(t)
    \/ Tick

Spec == Init /\ [][Next]_sessionVars

-----------------------------------------------------------------------------
TypeOK ==
    /\ registered \in 0 .. 1
    /\ {mailCode.code, invite.code, codes} \subseteq 0 .. MaxCodes
    /\ {mailCode.left, invite.left} \subseteq 0 .. CodeLife
    /\ session \in [jti : {0} \cup Token, left : 0 .. SessionLife]
    /\ tokens \in [Token -> {No} \cup 0 .. 2 * SessionLife + 1]
    /\ \A r \in Requests : request[r].at \in {"idle", "code", "register", "create", "login"}
    /\ loggedOut \subseteq Token

(* However requests interleave, an address has one account, and it was     *)
(* made with a mailed code and an invitation: two different ones, although *)
(* both keys may be gone or replaced when the row is written               *)
(* (apis/user.py:62-83, models/user.py:15).                                *)
OneVouchedAccount ==
    /\ registered <= 1
    /\ registered = 1 => /\ vouched.code \in 1 .. codes /\ vouched.invite \in 1 .. codes
                         /\ vouched.code # vouched.invite

(* A token is worth nothing six hours after its login, after a later       *)
(* login, and after its logout, whatever the time zone of the server makes *)
(* of its exp and whatever else is in flight (utils/authentication.py:39,  *)
(* 80, apis/user.py:109-126).                                              *)
SessionsEnd ==
    \A t \in Token : Verified(t) =>
        /\ tokens[t] < SessionLife
        /\ t \notin loggedOut
        /\ \A u \in Token : tokens[u] # No => u <= t

(* Who has an account was vouched for, and who has a session is logged in. *)
AccountsAndSessions == OneVouchedAccount /\ SessionsEnd

=============================================================================
