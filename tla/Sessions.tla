------------------------------ MODULE Sessions ------------------------------
(***************************************************************************)
(* Browser sessions: login, refresh, logout and the reset of a password,   *)
(* handled concurrently.  A token is a signed record that the server does  *)
(* not keep; what makes a token worthless before it expires is either a    *)
(* row of AppSessionRevocations, which itself expires and is purged, or a  *)
(* newer epoch of its user.  Every handler reads the clock and the tables  *)
(* in separate steps, so any of them may be overtaken by the others.       *)
(*                                                                         *)
(* Left out: the limit on failed logins (module LoginLimit); IsActive,     *)
(* which load_user_profile reads afresh in every request and no token      *)
(* depends on (module Accounts); signatures and CSRF values, which only    *)
(* make a token unforgeable and distinct; and the tokens of uploaded       *)
(* images, which load_user_profile never accepts.                          *)
(***************************************************************************)
EXTENDS Integers, FiniteSets

CONSTANTS
  Users,
  Passwords,
  Requests,        \* slots for requests in flight
  SessionTTL,      \* APP_SESSION_TTL_SECONDS
  MaxClock,        \* bound: the clock stops here
  MaxTokens,       \* bound: tokens handed out
  MaxStarts,       \* bound: requests started
  MaxResets        \* bound: password resets

ASSUME SessionsAssumptions ==
  /\ SessionTTL \in Nat \ {0}
  /\ MaxClock \in Nat
  /\ MaxTokens \in Nat
  /\ MaxStarts \in Nat
  /\ MaxResets \in Nat

VARIABLES
  clock,        \* int(time.time())
  credential,   \* Users.PasswordHash: the password each user has
  epoch,        \* the newest generation row of each user
  revocations,  \* the other rows of AppSessionRevocations
  tokens,       \* the tokens handed to browsers
  request,      \* the handler each slot is running
  logouts,      \* history: the session and the clock reading of every logout answered
  rotated,      \* history: the tokens exchanged by an answered refresh
  starts,       \* requests started so far
  resets        \* password resets so far

sessionVars == <<clock, credential, epoch, revocations, tokens, request,
                 logouts, rotated, starts, resets>>

-----------------------------------------------------------------------------
(* Data *)

\* The first token of a session lends the session its identity.
Token == [id : Nat, session : Nat, user : Users, epoch : Nat, issued : Nat,
          password : Passwords]

Expiry(t) == t.issued + SessionTTL

TokenKey(t) == <<"token", t.id>>
SessionKey(t) == <<"session", t.session>>

Step == {"read_epoch", "check_password", "verify", "verify_revoked",
         "check_epoch", "issue", "rotate", "read_clock", "revoke"}

\* The token a handler was given, or, for a login, is putting together; and the
\* clock reading it holds.
Handler == [step : Step, kind : {"login", "refresh", "logout"}, token : Token,
            read : Nat]

Idle == [step |-> "idle"]

\* Is one of the keys revoked now?
Revoked(keys) == \E row \in revocations : row.key \in keys /\ row.expires > clock

\* verify_session_token lets the token through.
Accepted(t) ==
  /\ Expiry(t) > clock
  /\ t.epoch = epoch[t.user]
  /\ ~Revoked({TokenKey(t), SessionKey(t)})

SessionsInit ==
  /\ clock = 0
  /\ credential \in [Users -> Passwords]
  /\ epoch = [u \in Users |-> 0]
  /\ revocations = {}
  /\ tokens = {}
  /\ request = [r \in Requests |-> Idle]
  /\ logouts = {}
  /\ rotated = {}
  /\ starts = 0
  /\ resets = 0

-----------------------------------------------------------------------------
(* Steps of a handler *)

At(r, step) == request[r].step = step

Goto(r, step) == request' = [request EXCEPT ![r].step = step]

Answer(r) == request' = [request EXCEPT ![r] = Idle]

\* The handler goes on if the check succeeds and answers 401 otherwise.
Check(r, ok, step) == IF ok THEN Goto(r, step) ELSE Answer(r)

NewId == Cardinality(tokens) + 1

HandOut(t) ==
  /\ Cardinality(tokens) < MaxTokens
  /\ tokens' = tokens \cup {t}

\* SqlSessionRevocations.revoke: expired rows go, the new ones come.
Insert(keys, expires, read) ==
  revocations' = {row \in revocations : row.expires > read}
                   \cup [key : keys, expires : {expires}]

accounts == <<credential, epoch, resets>>
history == <<logouts, rotated>>

\* All but the handlers themselves.
others == <<clock, accounts, revocations, tokens, history, starts>>

Start(r) ==
  /\ request[r] = Idle
  /\ starts < MaxStarts
  /\ starts' = starts + 1

-----------------------------------------------------------------------------
(* Login: the epoch is read before the password is checked, and compared    *)
(* again when the token is made.                                            *)

StartLogin(r, u, p) ==
  /\ Start(r)
  /\ request' = [request EXCEPT ![r] =
       [step |-> "read_epoch", kind |-> "login", read |-> 0,
        token |-> [id |-> 0, session |-> 0, user |-> u, epoch |-> 0, issued |-> 0,
                   password |-> p]]]
  /\ UNCHANGED <<clock, accounts, revocations, tokens, history>>

ReadEpoch(r) ==
  /\ At(r, "read_epoch")
  /\ request' = [request EXCEPT ![r].step = "check_password",
                                ![r].token.epoch = epoch[request[r].token.user]]
  /\ UNCHANGED others

CheckPassword(r) ==
  LET t == request[r].token IN
  /\ At(r, "check_password")
  /\ Check(r, credential[t.user] = t.password, "check_epoch")
  /\ UNCHANGED others

\* Mutant of CheckEpoch: the token gets the epoch of the moment it is made.
CheckEpochTaking(r) ==
  /\ At(r, "check_epoch")
  /\ request' = [request EXCEPT ![r].step = "issue",
                                ![r].token.epoch = epoch[request[r].token.user]]
  /\ UNCHANGED others

\* create_session_token, first read: login and refresh.
CheckEpoch(r) ==
  LET t == request[r].token IN
  /\ At(r, "check_epoch")
  /\ Check(r, t.epoch = epoch[t.user], "issue")
  /\ UNCHANGED others

\* A login makes a session of its own, which nobody can have revoked.
IssueNew(r) ==
  /\ At(r, "issue") /\ request[r].kind = "login"
  /\ HandOut([request[r].token EXCEPT !.id = NewId, !.session = NewId, !.issued = clock])
  /\ Answer(r)
  /\ UNCHANGED <<clock, accounts, revocations, history, starts>>

-----------------------------------------------------------------------------
(* Refresh and logout: both verify the token they were given. *)

\* The clock is read before the token is verified.
Present(r, t, kind) ==
  /\ Start(r)
  /\ request' = [request EXCEPT ![r] =
       [step |-> "verify", kind |-> kind, token |-> t, read |-> clock]]
  /\ UNCHANGED <<clock, accounts, revocations, tokens, history>>

Verify(r) ==
  LET t == request[r].token IN
  /\ At(r, "verify")
  /\ Check(r, Expiry(t) > clock /\ t.epoch = epoch[t.user], "verify_revoked")
  /\ UNCHANGED others

VerifyRevoked(r) ==
  LET t == request[r].token IN
  /\ At(r, "verify_revoked")
  /\ Check(r, ~Revoked({TokenKey(t), SessionKey(t)}),
           IF request[r].kind = "refresh" THEN "check_epoch" ELSE "read_clock")
  /\ UNCHANGED others

\* create_session_token, second read: only the session's key, the new token has none.
IssueRefreshed(r) ==
  /\ At(r, "issue") /\ request[r].kind = "refresh"
  /\ Check(r, ~Revoked({SessionKey(request[r].token)}), "rotate")
  /\ UNCHANGED others

\* Mutant of Rotate: the row of the old token expires one unit of time before it.
RotateBriefly(r) ==
  LET old == request[r].token IN
  /\ At(r, "rotate")
  /\ IF Expiry(old) > clock THEN Insert({TokenKey(old)}, Expiry(old) - 1, clock)
                            ELSE UNCHANGED revocations
  /\ HandOut([old EXCEPT !.id = NewId, !.issued = request[r].read])
  /\ rotated' = rotated \cup {old.id}
  /\ Answer(r)
  /\ UNCHANGED <<clock, accounts, logouts, starts>>

\* The old token is revoked until it would have expired, then the new one goes out.
Rotate(r) ==
  LET old == request[r].token IN
  /\ At(r, "rotate")
  /\ IF Expiry(old) > clock THEN Insert({TokenKey(old)}, Expiry(old), clock)
                            ELSE UNCHANGED revocations
  /\ HandOut([old EXCEPT !.id = NewId, !.issued = request[r].read])
  /\ rotated' = rotated \cup {old.id}
  /\ Answer(r)
  /\ UNCHANGED <<clock, accounts, logouts, starts>>

\* revoke_session computes the expiry from a clock reading of its own ...
ReadClock(r) ==
  /\ At(r, "read_clock")
  /\ request' = [request EXCEPT ![r].step = "revoke", ![r].read = clock]
  /\ UNCHANGED others

\* Mutant of RevocationExpiry: the session is revoked as long as the token lives.
RevocationExpiryOfToken(t, read) == Expiry(t)

RevocationExpiry(t, read) ==
  IF Expiry(t) > read + SessionTTL THEN Expiry(t) ELSE read + SessionTTL

\* ... and the row appears when its transaction commits.
Revoke(r) ==
  LET t == request[r].token
      read == request[r].read
  IN
  /\ At(r, "revoke")
  /\ Insert({TokenKey(t), SessionKey(t)}, RevocationExpiry(t, read), read)
  /\ logouts' = logouts \cup {[session |-> t.session, at |-> read]}
  /\ Answer(r)
  /\ UNCHANGED <<clock, accounts, tokens, rotated, starts>>

\* Any call to the store may fail: the request is answered with 503.
StoreUnavailable(r) ==
  /\ request[r] # Idle
  /\ Answer(r)
  /\ UNCHANGED others

-----------------------------------------------------------------------------
(* Administrators, and time *)

\* Mutant of ResetPassword: the generations are counted down.
ResetPasswordDown(u, p) ==
  /\ resets < MaxResets
  /\ credential' = [credential EXCEPT ![u] = p]
  /\ epoch' = [epoch EXCEPT ![u] = @ - 1]
  /\ resets' = resets + 1
  /\ UNCHANGED <<clock, revocations, tokens, request, history, starts>>

\* update_user_password: the hash and the epoch change in one transaction.
ResetPassword(u, p) ==
  /\ resets < MaxResets
  /\ credential' = [credential EXCEPT ![u] = p]
  /\ epoch' = [epoch EXCEPT ![u] = @ + 1]
  /\ resets' = resets + 1
  /\ UNCHANGED <<clock, revocations, tokens, request, history, starts>>

Tick ==
  /\ clock < MaxClock
  /\ clock' = clock + 1
  /\ UNCHANGED <<accounts, revocations, tokens, request, history, starts>>

Handle(r) ==
  \/ \E u \in Users, p \in Passwords : StartLogin(r, u, p)
  \/ \E t \in tokens, kind \in {"refresh", "logout"} : Present(r, t, kind)
  \/ ReadEpoch(r)
  \/ CheckPassword(r)
  \/ CheckEpoch(r)
  \/ IssueNew(r)
  \/ Verify(r)
  \/ VerifyRevoked(r)
  \/ IssueRefreshed(r)
  \/ Rotate(r)
  \/ ReadClock(r)
  \/ Revoke(r)
  \/ StoreUnavailable(r)

SessionsNext ==
  \/ \E r \in Requests : Handle(r)
  \/ \E u \in Users, p \in Passwords : ResetPassword(u, p)
  \/ Tick

SessionsSpec == SessionsInit /\ [][SessionsNext]_sessionVars

-----------------------------------------------------------------------------
(* Properties *)

RevocationRow == [key : {"token", "session"} \X Nat, expires : Nat]

\* Types of the variables.
SessionsTypeOK ==
  /\ clock \in Nat
  /\ credential \in [Users -> Passwords]
  /\ epoch \in [Users -> Nat]
  /\ revocations \subseteq RevocationRow
  /\ tokens \subseteq Token /\ IsFiniteSet(tokens)
  /\ request \in [Requests -> Handler \cup {Idle}]
  /\ logouts \subseteq [session : Nat, at : Nat]
  /\ rotated \subseteq Nat
  /\ starts \in Nat
  /\ resets \in Nat

\* A reset of the password ends every session that rests on another password, also
\* those whose login or refresh was being handled meanwhile.
ResetEndsSessions ==
  \A t \in tokens : Accepted(t) => t.password = credential[t.user]

\* After a logout no token of the session is accepted again if its issuing refresh
\* began no later than the clock reading of the logout, however long that refresh
\* takes and whatever is purged from the table of revocations.
LogoutIsFinal ==
  \A t \in tokens, l \in logouts :
    (t.session = l.session /\ t.issued <= l.at) => ~Accepted(t)

\* A token that was exchanged for a new one is not accepted again.
RotatedIsRetired ==
  \A t \in tokens : t.id \in rotated => ~Accepted(t)
=============================================================================
