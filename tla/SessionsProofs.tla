-------------------------- MODULE SessionsProofs --------------------------
(* Theorems about Sessions, for every value of its constants.              *)
EXTENDS Sessions, FiniteSetTheorems, TLAPS

-----------------------------------------------------------------------------
(* Types *)

RequestsTyped == request \in [Requests -> Handler \cup {Idle}]

\* A slot that is not idle runs a handler.
LEMMA HandlerRuns ==
  ASSUME RequestsTyped, NEW r \in Requests, request[r].step # "idle"
  PROVE  request[r] \in Handler
  BY DEF RequestsTyped, Idle

LEMMA TokenParts ==
  ASSUME NEW t \in Token
  PROVE  /\ t.id \in Nat /\ t.session \in Nat /\ t.user \in Users
         /\ t.epoch \in Nat /\ t.issued \in Nat /\ t.password \in Passwords
         /\ Expiry(t) \in Nat
  BY SessionsAssumptions DEF SessionsAssumptions, Token, Expiry

LEMMA HandlerParts ==
  ASSUME NEW h \in Handler
  PROVE  /\ h.step \in Step /\ h.kind \in {"login", "refresh", "logout"}
         /\ h.token \in Token /\ h.read \in Nat
  BY DEF Handler

\* A new handler may take the place of what a slot holds.
LEMMA SlotType ==
  ASSUME RequestsTyped, NEW r \in Requests, NEW h \in Handler \cup {Idle}
  PROVE  [request EXCEPT ![r] = h] \in [Requests -> Handler \cup {Idle}]
  BY DEF RequestsTyped

LEMMA GotoType ==
  ASSUME RequestsTyped, NEW r \in Requests, request[r] \in Handler, NEW s \in Step, Goto(r, s)
  PROVE  RequestsTyped'
  <1>1. [request[r] EXCEPT !.step = s] \in Handler
    BY DEF Handler
  <1> QED
    BY <1>1, SlotType DEF Goto, RequestsTyped

LEMMA AnswerType ==
  ASSUME RequestsTyped, NEW r \in Requests, Answer(r)
  PROVE  RequestsTyped'
  BY DEF Answer, RequestsTyped

LEMMA CheckType ==
  ASSUME RequestsTyped, NEW r \in Requests, request[r] \in Handler, NEW s \in Step,
         NEW ok \in BOOLEAN, Check(r, ok, s)
  PROVE  RequestsTyped'
  BY GotoType, AnswerType DEF Check

\* The tokens stay finitely many, and a new one has a number that is free.
LEMMA HandOutType ==
  ASSUME tokens \subseteq Token, IsFiniteSet(tokens), NEW t \in Token, HandOut(t)
  PROVE  tokens' \subseteq Token /\ IsFiniteSet(tokens')
  BY FS_AddElement DEF HandOut

LEMMA NewIdType ==
  ASSUME IsFiniteSet(tokens)
  PROVE  NewId \in Nat \ {0}
  BY FS_CardinalityType DEF NewId

LEMMA InsertType ==
  ASSUME revocations \subseteq RevocationRow, NEW keys \in SUBSET ({"token", "session"} \X Nat),
         NEW expires \in Nat, NEW read, Insert(keys, expires, read)
  PROVE  revocations' \subseteq RevocationRow
  BY DEF Insert, RevocationRow

LEMMA KeysType ==
  ASSUME NEW t \in Token
  PROVE  TokenKey(t) \in {"token", "session"} \X Nat /\ SessionKey(t) \in {"token", "session"} \X Nat
  BY TokenParts DEF TokenKey, SessionKey

LEMMA SessionsTypeInit == SessionsInit => SessionsTypeOK
  BY FS_EmptySet DEF SessionsInit, SessionsTypeOK

\* Steps that change nothing but the slot of their handler.
LEMMA QuietType ==
  ASSUME SessionsTypeOK, RequestsTyped', UNCHANGED others
  PROVE  SessionsTypeOK'
  BY DEF SessionsTypeOK, RequestsTyped, others, accounts, history

LEMMA StartType ==
  ASSUME SessionsTypeOK, NEW r \in Requests, Start(r)
  PROVE  starts' \in Nat
  BY DEF SessionsTypeOK, Start

LEMMA LoginType ==
  ASSUME SessionsTypeOK, NEW r \in Requests, NEW u \in Users, NEW p \in Passwords,
         StartLogin(r, u, p)
  PROVE  SessionsTypeOK'
  <1> DEFINE h == [step |-> "read_epoch", kind |-> "login", read |-> 0,
                   token |-> [id |-> 0, session |-> 0, user |-> u, epoch |-> 0,
                              issued |-> 0, password |-> p]]
  <1>1. h \in Handler
    BY DEF Handler, Step, Token
  <1>2. request' = [request EXCEPT ![r] = h]
    BY DEF StartLogin
  <1>3. RequestsTyped'
    BY <1>1, <1>2, SlotType DEF RequestsTyped, SessionsTypeOK
  <1> QED
    BY <1>3, StartType DEF StartLogin, SessionsTypeOK, RequestsTyped, accounts, history

LEMMA PresentType ==
  ASSUME SessionsTypeOK, NEW r \in Requests, NEW t \in tokens,
         NEW kind \in {"refresh", "logout"}, Present(r, t, kind)
  PROVE  SessionsTypeOK'
  <1> DEFINE h == [step |-> "verify", kind |-> kind, token |-> t, read |-> clock]
  <1>1. h \in Handler
    BY DEF Handler, Step, SessionsTypeOK
  <1>2. RequestsTyped'
    BY <1>1, SlotType DEF Present, RequestsTyped, SessionsTypeOK
  <1> QED
    BY <1>2, StartType DEF Present, SessionsTypeOK, RequestsTyped, accounts, history

LEMMA HandleType ==
  ASSUME SessionsTypeOK, NEW r \in Requests, Handle(r)
  PROVE  SessionsTypeOK'
  <1> DEFINE t == request[r].token
  <1>a. RequestsTyped
    BY DEF SessionsTypeOK, RequestsTyped
  <1>h. \/ request[r] \in Handler /\ t \in Token /\ request[r].read \in Nat
        \/ request[r] = Idle
    BY <1>a, HandlerParts DEF RequestsTyped
  <1>w. {"read_epoch", "check_password", "verify", "verify_revoked", "check_epoch",
         "issue", "rotate", "read_clock", "revoke"} = Step
    BY DEF Step
  <1>1. ASSUME NEW u \in Users, NEW p \in Passwords, StartLogin(r, u, p)
        PROVE  SessionsTypeOK'
    BY <1>1, LoginType
  <1>2. ASSUME NEW tok \in tokens, NEW kind \in {"refresh", "logout"}, Present(r, tok, kind)
        PROVE  SessionsTypeOK'
    BY <1>2, PresentType
  <1>3. CASE ReadEpoch(r)
    <2>1. request[r] \in Handler
      BY <1>3, <1>h DEF ReadEpoch, At, Idle
    <2>2. epoch[t.user] \in Nat
      BY <2>1, HandlerParts, TokenParts DEF SessionsTypeOK
    <2>3. [request[r] EXCEPT !.step = "check_password", !.token.epoch = epoch[t.user]] \in Handler
      BY <2>1, <2>2 DEF Handler, Step, Token
    <2>4. RequestsTyped'
      BY <1>3, <1>a, <2>3, SlotType DEF ReadEpoch, RequestsTyped
    <2> QED
      BY <1>3, <2>4, QuietType DEF ReadEpoch
  <1>4. CASE CheckPassword(r)
    <2>1. request[r] \in Handler
      BY <1>4, <1>h DEF CheckPassword, At, Idle
    <2>2. RequestsTyped'
      BY <1>4, <1>a, <1>w, <2>1, CheckType DEF CheckPassword
    <2> QED
      BY <1>4, <2>2, QuietType DEF CheckPassword
  <1>5. CASE CheckEpoch(r)
    <2>1. request[r] \in Handler
      BY <1>5, <1>h DEF CheckEpoch, At, Idle
    <2>2. RequestsTyped'
      BY <1>5, <1>a, <1>w, <2>1, CheckType DEF CheckEpoch
    <2> QED
      BY <1>5, <2>2, QuietType DEF CheckEpoch
  <1>6. CASE IssueNew(r)
    <2>1. request[r] \in Handler /\ t \in Token
      BY <1>6, <1>h DEF IssueNew, At, Idle
    <2>2. NewId \in Nat
      BY NewIdType DEF SessionsTypeOK
    <2>3. [t EXCEPT !.id = NewId, !.session = NewId, !.issued = clock] \in Token
      BY <2>1, <2>2 DEF Token, SessionsTypeOK
    <2>4. tokens' \subseteq Token /\ IsFiniteSet(tokens')
      BY <1>6, <2>3, HandOutType DEF IssueNew, SessionsTypeOK
    <2>5. RequestsTyped'
      BY <1>6, <1>a, AnswerType DEF IssueNew
    <2> QED
      BY <1>6, <2>4, <2>5 DEF IssueNew, SessionsTypeOK, RequestsTyped, accounts, history
  <1>7. CASE Verify(r)
    <2>1. request[r] \in Handler
      BY <1>7, <1>h DEF Verify, At, Idle
    <2>2. RequestsTyped'
      BY <1>7, <1>a, <1>w, <2>1, CheckType DEF Verify
    <2> QED
      BY <1>7, <2>2, QuietType DEF Verify
  <1>8. CASE VerifyRevoked(r)
    <2>1. request[r] \in Handler
      BY <1>8, <1>h DEF VerifyRevoked, At, Idle
    <2>2. RequestsTyped'
      BY <1>8, <1>a, <1>w, <2>1, CheckType DEF VerifyRevoked
    <2> QED
      BY <1>8, <2>2, QuietType DEF VerifyRevoked
  <1>9. CASE IssueRefreshed(r)
    <2>1. request[r] \in Handler
      BY <1>9, <1>h DEF IssueRefreshed, At, Idle
    <2>2. RequestsTyped'
      BY <1>9, <1>a, <1>w, <2>1, CheckType DEF IssueRefreshed
    <2> QED
      BY <1>9, <2>2, QuietType DEF IssueRefreshed
  <1>10. CASE Rotate(r)
    <2>1. request[r] \in Handler /\ t \in Token /\ request[r].read \in Nat
      BY <1>10, <1>h DEF Rotate, At, Idle
    <2>2. NewId \in Nat
      BY NewIdType DEF SessionsTypeOK
    <2>3. [t EXCEPT !.id = NewId, !.issued = request[r].read] \in Token
      BY <2>1, <2>2 DEF Token
    <2>4. tokens' \subseteq Token /\ IsFiniteSet(tokens')
      BY <1>10, <2>3, HandOutType DEF Rotate, SessionsTypeOK
    <2>5. RequestsTyped'
      BY <1>10, <1>a, AnswerType DEF Rotate
    <2>6. revocations' \subseteq RevocationRow
      BY <1>10, <2>1, KeysType, TokenParts, InsertType DEF Rotate, SessionsTypeOK
    <2>7. rotated' \subseteq Nat
      BY <1>10, <2>1, TokenParts DEF Rotate, SessionsTypeOK
    <2> QED
      BY <1>10, <2>4, <2>5, <2>6, <2>7 DEF Rotate, SessionsTypeOK, RequestsTyped, accounts
  <1>11. CASE ReadClock(r)
    <2>1. request[r] \in Handler
      BY <1>11, <1>h DEF ReadClock, At, Idle
    <2>2. [request[r] EXCEPT !.step = "revoke", !.read = clock] \in Handler
      BY <2>1 DEF Handler, Step, SessionsTypeOK
    <2>3. RequestsTyped'
      BY <1>11, <1>a, <2>2, SlotType DEF ReadClock, RequestsTyped
    <2> QED
      BY <1>11, <2>3, QuietType DEF ReadClock
  <1>12. CASE Revoke(r)
    <2>1. request[r] \in Handler /\ t \in Token /\ request[r].read \in Nat
      BY <1>12, <1>h DEF Revoke, At, Idle
    <2>2. RevocationExpiry(t, request[r].read) \in Nat
      BY <2>1, TokenParts, SessionsAssumptions DEF RevocationExpiry, SessionsAssumptions
    <2>3. revocations' \subseteq RevocationRow
      BY <1>12, <2>1, <2>2, KeysType, InsertType DEF Revoke, SessionsTypeOK
    <2>4. RequestsTyped'
      BY <1>12, <1>a, AnswerType DEF Revoke
    <2>5. logouts' \subseteq [session : Nat, at : Nat]
      BY <1>12, <2>1, TokenParts DEF Revoke, SessionsTypeOK
    <2> QED
      BY <1>12, <2>3, <2>4, <2>5 DEF Revoke, SessionsTypeOK, RequestsTyped, accounts
  <1>13. CASE StoreUnavailable(r)
    BY <1>13, <1>a, AnswerType, QuietType DEF StoreUnavailable
  <1> QED
    BY <1>1, <1>2, <1>3, <1>4, <1>5, <1>6, <1>7, <1>8, <1>9, <1>10, <1>11, <1>12, <1>13
    DEF Handle

LEMMA ResetType ==
  ASSUME SessionsTypeOK, NEW u \in Users, NEW p \in Passwords, ResetPassword(u, p)
  PROVE  SessionsTypeOK'
  BY DEF ResetPassword, SessionsTypeOK, history

LEMMA TickType ==
  ASSUME SessionsTypeOK, Tick
  PROVE  SessionsTypeOK'
  BY DEF Tick, SessionsTypeOK, accounts, history

LEMMA SessionsTypeNext ==
  ASSUME SessionsTypeOK, [SessionsNext]_sessionVars
  PROVE  SessionsTypeOK'
  <1>1. CASE UNCHANGED sessionVars
    BY <1>1 DEF sessionVars, SessionsTypeOK
  <1> QED
    BY <1>1, HandleType, ResetType, TickType DEF SessionsNext

\* Types of the variables.
THEOREM SessionsTypes == SessionsSpec => []SessionsTypeOK
  BY SessionsTypeInit, SessionsTypeNext, PTL DEF SessionsSpec

-----------------------------------------------------------------------------
(* What the tables and the handlers know.  A session ends because the row of  *)
(* its revocation outlives its tokens, or because the epoch of its user has   *)
(* moved on; neither follows from what a single step checks, since rows are   *)
(* purged and a handler may hold a token, an epoch and a clock reading while  *)
(* everything else goes on.                                                   *)

\* A token of the present epoch rests on the present password.
PasswordKnown(t) ==
  /\ t.epoch <= epoch[t.user]
  /\ t.epoch = epoch[t.user] => t.password = credential[t.user]

\* There is a row with the key until then, or it is later than that.
Lasting(key, until) ==
  \/ until <= clock
  \/ \E row \in revocations : row.key = key /\ row.expires >= until

\* Tokens are numbered, no two alike.
TokenNumbers ==
  /\ \A t \in tokens : t.id \in 1..Cardinality(tokens)
  /\ \A t, u \in tokens : t.id = u.id => t = u
  /\ rotated \subseteq 1..Cardinality(tokens)

TokensKnown == \A t \in tokens : PasswordKnown(t)

RotatedRevoked == \A t \in tokens : t.id \in rotated => Lasting(TokenKey(t), Expiry(t))

LogoutsRevoked == \A l \in logouts : Lasting(<<"session", l.session>>, l.at + SessionTTL)

\* What a handler may rely on at each of its steps.
LoginOK(h) ==
  /\ h.step \in {"read_epoch", "check_password", "check_epoch", "issue"}
  /\ h.step = "check_password" => h.token.epoch <= epoch[h.token.user]
  /\ h.step \in {"check_epoch", "issue"} => PasswordKnown(h.token)

PresentedOK(h) ==
  /\ h.step \notin {"read_epoch", "check_password"}
  /\ h.token \in tokens
  /\ h.read <= clock

SlotOK(h) ==
  h.step # "idle" => /\ h.kind = "login" => LoginOK(h)
                     /\ h.kind # "login" => PresentedOK(h)

SlotsOK == \A r \in Requests : SlotOK(request[r])

SessionsInv ==
  /\ SessionsTypeOK /\ TokenNumbers /\ TokensKnown /\ RotatedRevoked /\ LogoutsRevoked
  /\ SlotsOK

LEMMA SessionsInvInit == SessionsInit => SessionsInv
  <1> SUFFICES ASSUME SessionsInit PROVE SessionsInv
    OBVIOUS
  <1>1. \A r \in Requests : request[r].step = "idle"
    BY DEF SessionsInit, Idle
  <1> QED
    BY <1>1, SessionsTypeInit DEF SessionsInit, SessionsInv, TokenNumbers, TokensKnown,
       RotatedRevoked, LogoutsRevoked, SlotsOK, SlotOK

\* Passwords, epochs, tokens and the clock as handlers and time change them.
Forward ==
  /\ tokens \subseteq tokens'
  /\ clock <= clock'
  /\ epoch' = epoch /\ credential' = credential

LEMMA SlotForward ==
  ASSUME SessionsTypeOK, Forward, NEW h \in Handler, h.read <= clock \/ h.kind = "login",
         clock' \in Nat, SlotOK(h)
  PROVE  SlotOK(h)'
  BY HandlerParts DEF SlotOK, LoginOK, PresentedOK, PasswordKnown, Forward, SessionsTypeOK

\* One handler takes a step, or starts, or ends.
LEMMA SlotsForward ==
  ASSUME SessionsInv, Forward, clock' \in Nat, NEW r \in Requests, NEW h,
         request' = [request EXCEPT ![r] = h], SlotOK(h)'
  PROVE  SlotsOK'
  <1> SUFFICES ASSUME NEW q \in Requests PROVE SlotOK(request[q])'
    BY DEF SlotsOK
  <1>1. CASE q = r
    <2>1. request'[q] = h
      BY <1>1 DEF SessionsInv, SessionsTypeOK
    <2> QED
      BY <2>1 DEF SlotOK, LoginOK, PresentedOK, PasswordKnown
  <1>2. CASE q # r /\ request[q].step = "idle"
    BY <1>2 DEF SlotOK, SessionsInv, SessionsTypeOK
  <1>3. CASE q # r /\ request[q].step # "idle"
    <2>1. request[q] \in Handler /\ request'[q] = request[q]
      BY <1>3, HandlerRuns DEF SessionsInv, SessionsTypeOK, RequestsTyped
    <2>2. SlotOK(request[q])
      BY DEF SessionsInv, SlotsOK
    <2>3. request[q].read <= clock \/ request[q].kind = "login"
      BY <1>3, <2>2 DEF SlotOK, PresentedOK
    <2> DEFINE g == request[q]
    <2>4. SessionsTypeOK
      BY DEF SessionsInv
    <2>5. ASSUME NEW k \in Handler, k = request[q] PROVE SlotOK(request[q])'
      <3>1. SlotOK(k)'
        BY <2>2, <2>3, <2>4, <2>5, SlotForward
      <3>2. request'[q] = k
        BY <2>1, <2>5
      <3> QED
        BY <3>1, <3>2 DEF SlotOK, LoginOK, PresentedOK, PasswordKnown
    <2> QED
      BY <2>1, <2>5
  <1> QED
    BY <1>1, <1>2, <1>3

LEMMA SlotsAnswered ==
  ASSUME SessionsInv, Forward, clock' \in Nat, NEW r \in Requests, Answer(r)
  PROVE  SlotsOK'
  <1>1. SlotOK(Idle)'
    BY DEF SlotOK, Idle
  <1> QED
    BY <1>1, SlotsForward DEF Answer

\* A handler that passes a check keeps what it holds.
LEMMA SlotsChecked ==
  ASSUME SessionsInv, Forward, clock' \in Nat, NEW r \in Requests,
         NEW ok \in BOOLEAN, NEW s \in Step, Check(r, ok, s),
         NEW h, h = [request[r] EXCEPT !.step = s], ok => SlotOK(h)'
  PROVE  SlotsOK'
  <1>1. CASE ok
    BY <1>1, SlotsForward DEF Check, Goto
  <1>2. CASE ~ok
    BY <1>2, SlotsAnswered DEF Check
  <1> QED
    BY <1>1, <1>2

-----------------------------------------------------------------------------
(* The tables *)

\* No insertion ends a revocation before its time.
LEMMA LastingInserted ==
  ASSUME NEW key, NEW until \in Nat, Lasting(key, until),
         revocations \subseteq RevocationRow, clock \in Nat, clock' = clock,
         NEW read \in Nat, read <= clock, NEW keys, NEW expires, Insert(keys, expires, read)
  PROVE  Lasting(key, until)'
  <1>1. CASE until <= clock
    BY <1>1 DEF Lasting
  <1>2. ASSUME NEW row \in revocations, row.key = key, row.expires >= until, until > clock
        PROVE  row \in revocations'
    <2>1. row.expires \in Nat
      BY DEF RevocationRow
    <2>2. row.expires > read
      BY <1>2, <2>1
    <2> QED
      BY <2>2 DEF Insert
  <1> QED
    BY <1>1, <1>2 DEF Lasting

\* A key that is inserted is there until its row expires.
LEMMA LastingNew ==
  ASSUME NEW keys, NEW key \in keys, NEW expires \in Nat, NEW until \in Nat, until <= expires,
         NEW read, Insert(keys, expires, read)
  PROVE  Lasting(key, until)'
  <1>1. [key |-> key, expires |-> expires] \in revocations'
    BY DEF Insert
  <1> QED
    BY <1>1 DEF Lasting

LEMMA LastingQuiet ==
  ASSUME NEW key, NEW until \in Nat, Lasting(key, until), clock \in Nat, clock' \in Nat,
         clock <= clock', UNCHANGED revocations
  PROVE  Lasting(key, until)'
  BY DEF Lasting

\* A token handed out has a number of its own.
LEMMA NumbersHandOut ==
  ASSUME SessionsTypeOK, TokenNumbers, NEW t \in Token, t.id = NewId, HandOut(t),
         rotated' \subseteq 1..Cardinality(tokens)
  PROVE  TokenNumbers' /\ t.id \notin rotated' /\ t.id \notin rotated
  <1> DEFINE n == Cardinality(tokens)
  <1>1. n \in Nat
    BY FS_CardinalityType DEF SessionsTypeOK
  <1>2. \A u \in tokens : u.id \in 1..n
    BY DEF TokenNumbers
  <1>3. t.id = n + 1 /\ t \notin tokens
    BY <1>1, <1>2 DEF NewId
  <1>4. tokens' = tokens \cup {t} /\ Cardinality(tokens') = n + 1
    BY <1>3, FS_AddElement DEF HandOut, SessionsTypeOK
  <1> HIDE DEF n
  <1>5. \A u \in tokens' : u.id \in 1..(n + 1)
    BY <1>1, <1>2, <1>3, <1>4
  <1>6. \A u, v \in tokens' : u.id = v.id => u = v
    BY <1>1, <1>2, <1>3, <1>4 DEF TokenNumbers
  <1>7. rotated' \subseteq 1..(n + 1) /\ rotated \subseteq 1..n /\ rotated' \subseteq 1..n
    BY <1>1 DEF n, TokenNumbers
  <1>8. TokenNumbers'
    <2>1. Cardinality(tokens') = n + 1
      BY <1>4
    <2>2. \A u \in tokens' : u.id \in 1..Cardinality(tokens')
      BY <1>5, <2>1
    <2>3. rotated' \subseteq 1..Cardinality(tokens')
      BY <1>7, <2>1
    <2> QED
      BY <1>6, <2>2, <2>3 DEF TokenNumbers
  <1>9. t.id \notin 1..n
    BY <1>1, <1>3
  <1> QED
    BY <1>7, <1>8, <1>9

\* The tables, when neither tokens nor revocations change and time may pass.
TablesQuiet ==
  /\ UNCHANGED <<tokens, revocations, logouts, rotated, epoch, credential>>
  /\ clock <= clock'

LEMMA TablesKept ==
  ASSUME SessionsInv, SessionsTypeOK', TablesQuiet
  PROVE  TokenNumbers' /\ TokensKnown' /\ RotatedRevoked' /\ LogoutsRevoked'
  <1> USE DEF TablesQuiet
  <1>1. TokenNumbers' /\ TokensKnown'
    BY DEF SessionsInv, TokenNumbers, TokensKnown, PasswordKnown
  <1>2. clock \in Nat /\ clock' \in Nat
    BY DEF SessionsInv, SessionsTypeOK
  <1>3. RotatedRevoked'
    <2> SUFFICES ASSUME NEW t \in tokens, t.id \in rotated PROVE Lasting(TokenKey(t), Expiry(t))'
      BY DEF RotatedRevoked
    <2>1. Lasting(TokenKey(t), Expiry(t)) /\ Expiry(t) \in Nat
      BY TokenParts DEF SessionsInv, RotatedRevoked, SessionsTypeOK
    <2> QED
      BY <1>2, <2>1, LastingQuiet
  <1>4. LogoutsRevoked'
    <2> SUFFICES ASSUME NEW l \in logouts
                 PROVE  Lasting(<<"session", l.session>>, l.at + SessionTTL)'
      BY DEF LogoutsRevoked
    <2>1. Lasting(<<"session", l.session>>, l.at + SessionTTL) /\ l.at + SessionTTL \in Nat
      BY SessionsAssumptions DEF SessionsInv, LogoutsRevoked, SessionsTypeOK, SessionsAssumptions
    <2> QED
      BY <1>2, <2>1, LastingQuiet
  <1> QED
    BY <1>1, <1>3, <1>4

\* Steps that change nothing but the slot of their handler.
LEMMA QuietStepKeepsInv ==
  ASSUME SessionsInv, SessionsTypeOK', SlotsOK', UNCHANGED others
  PROVE  SessionsInv'
  <1>1. TablesQuiet
    BY DEF TablesQuiet, others, accounts, history, SessionsInv, SessionsTypeOK
  <1> QED
    BY <1>1, TablesKept DEF SessionsInv

\* A token that is handed out is known to no table yet.
LEMMA TablesHandOut ==
  ASSUME SessionsInv, SessionsTypeOK', NEW t \in Token, t.id = NewId, HandOut(t),
         PasswordKnown(t), UNCHANGED <<clock, revocations, epoch, credential, logouts, rotated>>
  PROVE  TokenNumbers' /\ TokensKnown' /\ RotatedRevoked' /\ LogoutsRevoked'
  <1>1. TokenNumbers' /\ t.id \notin rotated
    BY NumbersHandOut DEF SessionsInv, TokenNumbers
  <1>2. tokens' = tokens \cup {t}
    BY DEF HandOut
  <1>3. TokensKnown'
    BY <1>2 DEF SessionsInv, TokensKnown, PasswordKnown
  <1>4. RotatedRevoked' /\ LogoutsRevoked'
    BY <1>1, <1>2 DEF SessionsInv, RotatedRevoked, LogoutsRevoked, Lasting
  <1> QED
    BY <1>1, <1>3, <1>4

-----------------------------------------------------------------------------
(* Every step *)

\* No revocation ends before its time, and the old token of a refresh has one.
LEMMA RotateRevokes ==
  ASSUME SessionsInv, NEW r \in Requests, Rotate(r),
         NEW old \in Token, old = request[r].token
  PROVE  /\ \A key, until : until \in Nat /\ Lasting(key, until) => Lasting(key, until)'
         /\ Lasting(TokenKey(old), Expiry(old))'
  <1>1. clock \in Nat /\ clock' = clock /\ revocations \subseteq RevocationRow
    BY DEF SessionsInv, SessionsTypeOK, Rotate
  <1>2. Expiry(old) \in Nat
    BY TokenParts
  <1>3. CASE Expiry(old) > clock
    <2>1. Insert({TokenKey(old)}, Expiry(old), clock)
      BY <1>3 DEF Rotate
    <2>2. Lasting(TokenKey(old), Expiry(old))'
      BY <1>2, <2>1, LastingNew
    <2>3. \A key, until : until \in Nat /\ Lasting(key, until) => Lasting(key, until)'
      BY <1>1, <2>1, LastingInserted
    <2> QED
      BY <2>2, <2>3
  <1>4. CASE ~(Expiry(old) > clock)
    BY <1>1, <1>2, <1>4 DEF Rotate, Lasting
  <1> QED
    BY <1>3, <1>4

LEMMA RotateInv ==
  ASSUME SessionsInv, SessionsTypeOK', NEW r \in Requests, Rotate(r)
  PROVE  SessionsInv'
  <1>1. request[r].step = "rotate"
    BY DEF Rotate, At
  <1>2. request[r].token \in Token /\ request[r].read \in Nat
    BY <1>1, HandlerRuns, HandlerParts DEF SessionsInv, SessionsTypeOK, RequestsTyped
  <1>3. PICK old \in Token : old = request[r].token
    BY <1>2
  <1>4. old \in tokens /\ PasswordKnown(old)
    BY <1>1, <1>3 DEF SessionsInv, TokensKnown, SlotsOK, SlotOK, LoginOK, PresentedOK
  <1>5. PICK k : k = [old EXCEPT !.id = NewId, !.issued = request[r].read]
    OBVIOUS
  <1>6. NewId \in Nat
    BY NewIdType DEF SessionsInv, SessionsTypeOK
  <1>7. /\ k \in Token /\ k.id = NewId /\ k.user = old.user /\ k.epoch = old.epoch
        /\ k.password = old.password
    BY <1>2, <1>5, <1>6 DEF Token
  <1>8. /\ HandOut(k) /\ Answer(r) /\ rotated' = rotated \cup {old.id}
        /\ UNCHANGED <<clock, epoch, credential, logouts>>
    BY <1>3, <1>5 DEF Rotate, accounts
  <1>9. rotated' \subseteq 1..Cardinality(tokens)
    BY <1>4, <1>8 DEF SessionsInv, TokenNumbers
  <1>10. TokenNumbers' /\ k.id \notin rotated'
    BY <1>7, <1>8, <1>9, NumbersHandOut DEF SessionsInv
  <1>11. tokens' = tokens \cup {k}
    BY <1>8 DEF HandOut
  <1>12. TokensKnown'
    BY <1>4, <1>7, <1>8, <1>11 DEF SessionsInv, TokensKnown, PasswordKnown
  <1>13. RotatedRevoked'
    <2> SUFFICES ASSUME NEW u \in tokens', u.id \in rotated'
                 PROVE  Lasting(TokenKey(u), Expiry(u))'
      BY DEF RotatedRevoked
    <2>1. u \in tokens
      BY <1>10, <1>11
    <2>2. CASE u.id = old.id
      <3>1. u = old
        BY <1>4, <2>1, <2>2 DEF SessionsInv, TokenNumbers
      <3> QED
        BY <1>3, <3>1, RotateRevokes
    <2>3. CASE u.id \in rotated
      <3>1. Lasting(TokenKey(u), Expiry(u)) /\ Expiry(u) \in Nat
        BY <2>1, <2>3, TokenParts DEF SessionsInv, RotatedRevoked, SessionsTypeOK
      <3> QED
        BY <1>3, <3>1, RotateRevokes
    <2> QED
      BY <1>8, <2>2, <2>3
  <1>14. LogoutsRevoked'
    <2> SUFFICES ASSUME NEW l \in logouts
                 PROVE  Lasting(<<"session", l.session>>, l.at + SessionTTL)'
      BY <1>8 DEF LogoutsRevoked
    <2>1. Lasting(<<"session", l.session>>, l.at + SessionTTL) /\ l.at + SessionTTL \in Nat
      BY SessionsAssumptions DEF SessionsInv, LogoutsRevoked, SessionsTypeOK, SessionsAssumptions
    <2> QED
      BY <1>3, <2>1, RotateRevokes
  <1>15. Forward /\ clock' \in Nat
    BY <1>8, <1>11 DEF Forward, SessionsInv, SessionsTypeOK
  <1> QED
    BY <1>8, <1>10, <1>12, <1>13, <1>14, <1>15, SlotsAnswered DEF SessionsInv

\* A logout: the row of its session outlives every token that can have been issued.
LEMMA RevokeInv ==
  ASSUME SessionsInv, SessionsTypeOK', NEW r \in Requests, Revoke(r)
  PROVE  SessionsInv'
  <1>1. request[r].step = "revoke"
    BY DEF Revoke, At
  <1>2. request[r].token \in Token /\ request[r].read \in Nat
    BY <1>1, HandlerRuns, HandlerParts DEF SessionsInv, SessionsTypeOK, RequestsTyped
  <1>3. PICK t \in Token, read \in Nat : t = request[r].token /\ read = request[r].read
    BY <1>2
  <1>4. read <= clock
    BY <1>1, <1>3 DEF SessionsInv, SlotsOK, SlotOK, LoginOK, PresentedOK
  <1>5. /\ Insert({TokenKey(t), SessionKey(t)}, RevocationExpiry(t, read), read)
        /\ logouts' = logouts \cup {[session |-> t.session, at |-> read]}
        /\ Answer(r) /\ UNCHANGED <<clock, epoch, credential, tokens, rotated>>
    BY <1>3 DEF Revoke, accounts
  <1>6. RevocationExpiry(t, read) \in Nat /\ RevocationExpiry(t, read) >= read + SessionTTL
    BY TokenParts, SessionsAssumptions DEF RevocationExpiry, SessionsAssumptions
  <1>7. ASSUME NEW key, NEW until \in Nat, Lasting(key, until)
        PROVE  Lasting(key, until)'
    BY <1>4, <1>5, <1>7, LastingInserted DEF SessionsInv, SessionsTypeOK
  <1>8. TokenNumbers' /\ TokensKnown'
    BY <1>5 DEF SessionsInv, TokenNumbers, TokensKnown, PasswordKnown
  <1>9. RotatedRevoked'
    <2> SUFFICES ASSUME NEW u \in tokens, u.id \in rotated
                 PROVE  Lasting(TokenKey(u), Expiry(u))'
      BY <1>5 DEF RotatedRevoked
    <2>1. Lasting(TokenKey(u), Expiry(u)) /\ Expiry(u) \in Nat
      BY TokenParts DEF SessionsInv, RotatedRevoked, SessionsTypeOK
    <2> QED
      BY <1>7, <2>1
  <1>10. LogoutsRevoked'
    <2> SUFFICES ASSUME NEW l \in logouts'
                 PROVE  Lasting(<<"session", l.session>>, l.at + SessionTTL)'
      BY DEF LogoutsRevoked
    <2>1. CASE l \in logouts
      <3>1. Lasting(<<"session", l.session>>, l.at + SessionTTL) /\ l.at + SessionTTL \in Nat
        BY <2>1, SessionsAssumptions
        DEF SessionsInv, LogoutsRevoked, SessionsTypeOK, SessionsAssumptions
      <3> QED
        BY <1>7, <3>1
    <2>2. CASE l = [session |-> t.session, at |-> read]
      <3>1. l.session = t.session /\ l.at = read
        BY <2>2
      <3>2. <<"session", l.session>> \in {TokenKey(t), SessionKey(t)}
        BY <3>1 DEF SessionKey
      <3>3. l.at + SessionTTL \in Nat /\ l.at + SessionTTL <= RevocationExpiry(t, read)
        BY <1>6, <3>1, SessionsAssumptions DEF SessionsAssumptions
      <3> QED
        BY <1>5, <1>6, <3>2, <3>3, LastingNew
    <2> QED
      BY <1>5, <2>1, <2>2
  <1>11. Forward /\ clock' \in Nat
    BY <1>5 DEF Forward, SessionsInv, SessionsTypeOK
  <1> QED
    BY <1>5, <1>8, <1>9, <1>10, <1>11, SlotsAnswered DEF SessionsInv

LEMMA HandleInv ==
  ASSUME SessionsInv, SessionsTypeOK', NEW r \in Requests, Handle(r)
  PROVE  SessionsInv'
  <1> DEFINE t == request[r].token
  <1>a. SessionsTypeOK /\ RequestsTyped /\ SlotOK(request[r])
    BY DEF SessionsInv, SessionsTypeOK, RequestsTyped, SlotsOK
  <1>b. request[r].step # "idle" => request[r] \in Handler /\ t \in Token /\ t.user \in Users
    BY <1>a, HandlerRuns, HandlerParts, TokenParts
  <1>c. clock \in Nat /\ clock' \in Nat
    BY DEF SessionsInv, SessionsTypeOK
  <1>f. UNCHANGED others => Forward
    BY <1>c DEF Forward, others, accounts
  <1>1. ASSUME NEW u \in Users, NEW p \in Passwords, StartLogin(r, u, p)
        PROVE  SessionsInv'
    <2>1. PICK h : /\ request' = [request EXCEPT ![r] = h]
                   /\ h = [step |-> "read_epoch", kind |-> "login", read |-> 0,
                           token |-> [id |-> 0, session |-> 0, user |-> u, epoch |-> 0,
                                      issued |-> 0, password |-> p]]
      BY <1>1 DEF StartLogin
    <2>2. SlotOK(h)'
      BY <2>1 DEF SlotOK, LoginOK
    <2>3. Forward /\ TablesQuiet
      BY <1>1, <1>c DEF StartLogin, Forward, TablesQuiet, accounts, history
    <2> QED
      BY <1>c, <2>1, <2>2, <2>3, SlotsForward, TablesKept DEF SessionsInv
  <1>2. ASSUME NEW k \in tokens, NEW kind \in {"refresh", "logout"}, Present(r, k, kind)
        PROVE  SessionsInv'
    <2>1. PICK h : /\ request' = [request EXCEPT ![r] = h]
                   /\ h = [step |-> "verify", kind |-> kind, token |-> k, read |-> clock]
      BY <1>2 DEF Present
    <2>2. Forward /\ TablesQuiet
      BY <1>2, <1>c DEF Present, Forward, TablesQuiet, accounts, history
    <2>3. h.step = "verify" /\ h.kind # "login" /\ h.token \in tokens' /\ h.read <= clock'
      BY <1>2, <1>c, <2>1, <2>2 DEF Forward
    <2>4. SlotOK(h)'
      BY <2>3 DEF SlotOK, PresentedOK
    <2> QED
      BY <1>c, <2>1, <2>2, <2>4, SlotsForward, TablesKept DEF SessionsInv
  <1>3. CASE ReadEpoch(r)
    <2>1. request[r].step = "read_epoch"
      BY <1>3 DEF ReadEpoch, At
    <2>2. request[r] \in Handler /\ t \in Token /\ t.user \in Users /\ request[r].kind = "login"
      BY <1>a, <1>b, <2>1 DEF SlotOK, PresentedOK
    <2>3. PICK h : /\ request' = [request EXCEPT ![r] = h]
                   /\ h = [request[r] EXCEPT !.step = "check_password", !.token.epoch = epoch[t.user]]
      BY <1>3 DEF ReadEpoch
    <2>4. /\ h.step = "check_password" /\ h.kind = "login" /\ h.token.user = t.user
          /\ h.token.epoch = epoch[t.user]
      BY <2>2, <2>3 DEF Handler, Token
    <2>5. epoch' = epoch /\ epoch[t.user] \in Nat
      BY <1>3, <1>a, <2>2 DEF ReadEpoch, others, accounts, SessionsTypeOK
    <2>6. SlotOK(h)'
      BY <2>4, <2>5 DEF SlotOK, LoginOK
    <2> QED
      BY <1>3, <1>c, <1>f, <2>3, <2>6, SlotsForward, QuietStepKeepsInv DEF ReadEpoch
  <1>4. CASE CheckPassword(r)
    <2>1. request[r].step = "check_password"
      BY <1>4 DEF CheckPassword, At
    <2>2. request[r] \in Handler /\ request[r].kind = "login" /\ t.epoch <= epoch[t.user]
      BY <1>a, <1>b, <2>1 DEF SlotOK, PresentedOK, LoginOK
    <2>3. PICK h : h = [request[r] EXCEPT !.step = "check_epoch"]
      OBVIOUS
    <2>4. h.step = "check_epoch" /\ h.kind = "login" /\ h.token = t
      BY <2>2, <2>3 DEF Handler
    <2>5. epoch' = epoch /\ credential' = credential
      BY <1>4 DEF CheckPassword, others, accounts
    <2>6. credential[t.user] = t.password => SlotOK(h)'
      BY <2>2, <2>4, <2>5 DEF SlotOK, LoginOK, PasswordKnown
    <2>7. Check(r, credential[t.user] = t.password, "check_epoch")
      BY <1>4 DEF CheckPassword
    <2>8. SlotsOK'
      BY <1>4, <1>c, <1>f, <2>3, <2>6, <2>7, SlotsChecked DEF CheckPassword, Step
    <2> QED
      BY <1>4, <2>8, QuietStepKeepsInv DEF CheckPassword
  <1>5. CASE CheckEpoch(r)
    <2>1. request[r].step = "check_epoch"
      BY <1>5 DEF CheckEpoch, At
    <2>2. request[r] \in Handler
      BY <1>b, <2>1
    <2>3. PICK h : h = [request[r] EXCEPT !.step = "issue"]
      OBVIOUS
    <2>4. /\ h.step = "issue" /\ h.kind = request[r].kind /\ h.token = t
          /\ h.read = request[r].read
      BY <2>2, <2>3 DEF Handler
    <2>5. epoch' = epoch /\ credential' = credential /\ tokens' = tokens /\ clock' = clock
      BY <1>5 DEF CheckEpoch, others, accounts
    <2>6. SlotOK(h)'
      BY <1>a, <2>1, <2>4, <2>5 DEF SlotOK, LoginOK, PresentedOK, PasswordKnown
    <2>7. Check(r, t.epoch = epoch[t.user], "issue")
      BY <1>5 DEF CheckEpoch
    <2>8. SlotsOK'
      BY <1>5, <1>c, <1>f, <2>3, <2>6, <2>7, SlotsChecked DEF CheckEpoch, Step
    <2> QED
      BY <1>5, <2>8, QuietStepKeepsInv DEF CheckEpoch
  <1>6. CASE IssueNew(r)
    <2>1. request[r].step = "issue" /\ request[r].kind = "login"
      BY <1>6 DEF IssueNew, At
    <2>2. t \in Token /\ PasswordKnown(t)
      BY <1>a, <1>b, <2>1 DEF SlotOK, LoginOK
    <2>3. PICK k : k = [t EXCEPT !.id = NewId, !.session = NewId, !.issued = clock]
      OBVIOUS
    <2>4. NewId \in Nat
      BY NewIdType DEF SessionsInv, SessionsTypeOK
    <2>5. /\ k \in Token /\ k.id = NewId /\ k.user = t.user /\ k.epoch = t.epoch
          /\ k.password = t.password
      BY <1>c, <2>2, <2>3, <2>4 DEF Token
    <2>6. PasswordKnown(k)
      BY <2>2, <2>5 DEF PasswordKnown
    <2>7. HandOut(k) /\ Answer(r)
      BY <1>6, <2>3 DEF IssueNew
    <2>8. UNCHANGED <<clock, revocations, epoch, credential, logouts, rotated>>
      BY <1>6 DEF IssueNew, accounts, history
    <2>9. TokenNumbers' /\ TokensKnown' /\ RotatedRevoked' /\ LogoutsRevoked'
      BY <2>5, <2>6, <2>7, <2>8, TablesHandOut
    <2>10. Forward
      BY <1>c, <2>7, <2>8 DEF HandOut, Forward
    <2> QED
      BY <1>c, <2>7, <2>9, <2>10, SlotsAnswered DEF SessionsInv
  <1>7. CASE Verify(r)
    <2>1. request[r].step = "verify"
      BY <1>7 DEF Verify, At
    <2>2. request[r] \in Handler
      BY <1>b, <2>1
    <2>3. PICK h : h = [request[r] EXCEPT !.step = "verify_revoked"]
      OBVIOUS
    <2>4. /\ h.step = "verify_revoked" /\ h.kind = request[r].kind /\ h.token = t
          /\ h.read = request[r].read
      BY <2>2, <2>3 DEF Handler
    <2>5. tokens' = tokens /\ clock' = clock
      BY <1>7 DEF Verify, others, accounts
    <2>6. SlotOK(h)'
      BY <1>a, <2>1, <2>4, <2>5 DEF SlotOK, LoginOK, PresentedOK
    <2>7. Check(r, Expiry(t) > clock /\ t.epoch = epoch[t.user], "verify_revoked")
      BY <1>7 DEF Verify
    <2>8. SlotsOK'
      BY <1>7, <1>c, <1>f, <2>3, <2>6, <2>7, SlotsChecked DEF Verify, Step
    <2> QED
      BY <1>7, <2>8, QuietStepKeepsInv DEF Verify
  <1>8. CASE VerifyRevoked(r)
    <2> DEFINE s == IF request[r].kind = "refresh" THEN "check_epoch" ELSE "read_clock"
               ok == ~Revoked({TokenKey(t), SessionKey(t)})
    <2>1. request[r].step = "verify_revoked"
      BY <1>8 DEF VerifyRevoked, At
    <2>2. request[r] \in Handler
      BY <1>b, <2>1
    <2>3. PICK h : h = [request[r] EXCEPT !.step = s]
      OBVIOUS
    <2>4. /\ h.step \in {"check_epoch", "read_clock"} /\ h.kind = request[r].kind
          /\ h.token = t /\ h.read = request[r].read
      BY <2>2, <2>3 DEF Handler
    <2>5. tokens' = tokens /\ clock' = clock
      BY <1>8 DEF VerifyRevoked, others, accounts
    <2>6. SlotOK(h)'
      BY <1>a, <2>1, <2>4, <2>5 DEF SlotOK, LoginOK, PresentedOK
    <2>7. Check(r, ok, s)
      BY <1>8 DEF VerifyRevoked
    <2>8. s \in Step /\ ok \in BOOLEAN
      BY DEF Step
    <2>9. Forward
      BY <1>8, <1>f DEF VerifyRevoked
    <2> HIDE DEF ok, s
    <2>10. SlotsOK'
      BY <1>c, <2>3, <2>6, <2>7, <2>8, <2>9, SlotsChecked
    <2> QED
      BY <1>8, <2>10, QuietStepKeepsInv DEF VerifyRevoked
  <1>9. CASE IssueRefreshed(r)
    <2> DEFINE ok == ~Revoked({SessionKey(t)})
    <2>1. request[r].step = "issue" /\ request[r].kind = "refresh"
      BY <1>9 DEF IssueRefreshed, At
    <2>2. request[r] \in Handler
      BY <1>b, <2>1
    <2>3. PICK h : h = [request[r] EXCEPT !.step = "rotate"]
      OBVIOUS
    <2>4. /\ h.step = "rotate" /\ h.kind = "refresh" /\ h.token = t
          /\ h.read = request[r].read
      BY <2>1, <2>2, <2>3 DEF Handler
    <2>5. tokens' = tokens /\ clock' = clock
      BY <1>9 DEF IssueRefreshed, others, accounts
    <2>6. SlotOK(h)'
      BY <1>a, <2>1, <2>4, <2>5 DEF SlotOK, PresentedOK
    <2>7. Check(r, ok, "rotate")
      BY <1>9 DEF IssueRefreshed
    <2>8. "rotate" \in Step /\ ok \in BOOLEAN
      BY DEF Step
    <2>9. Forward
      BY <1>9, <1>f DEF IssueRefreshed
    <2> HIDE DEF ok
    <2>10. SlotsOK'
      BY <1>c, <2>3, <2>6, <2>7, <2>8, <2>9, SlotsChecked
    <2> QED
      BY <1>9, <2>10, QuietStepKeepsInv DEF IssueRefreshed
  <1>10. CASE Rotate(r)
    BY <1>10, RotateInv
  <1>11. CASE ReadClock(r)
    <2>1. request[r].step = "read_clock"
      BY <1>11 DEF ReadClock, At
    <2>2. request[r] \in Handler
      BY <1>b, <2>1
    <2>3. PICK h : /\ request' = [request EXCEPT ![r] = h]
                   /\ h = [request[r] EXCEPT !.step = "revoke", !.read = clock]
      BY <1>11 DEF ReadClock
    <2>4. h.step = "revoke" /\ h.kind = request[r].kind /\ h.token = t /\ h.read = clock
      BY <2>2, <2>3 DEF Handler
    <2>5. tokens' = tokens /\ clock' = clock
      BY <1>11 DEF ReadClock, others
    <2>6. SlotOK(h)'
      BY <1>a, <1>c, <2>1, <2>4, <2>5 DEF SlotOK, LoginOK, PresentedOK
    <2> QED
      BY <1>11, <1>c, <1>f, <2>3, <2>6, SlotsForward, QuietStepKeepsInv DEF ReadClock
  <1>12. CASE Revoke(r)
    BY <1>12, RevokeInv
  <1>13. CASE StoreUnavailable(r)
    BY <1>13, <1>c, <1>f, SlotsAnswered, QuietStepKeepsInv DEF StoreUnavailable
  <1> QED
    BY <1>1, <1>2, <1>3, <1>4, <1>5, <1>6, <1>7, <1>8, <1>9, <1>10, <1>11, <1>12, <1>13
    DEF Handle

\* After a reset no token and no handler has the present epoch of that user.
LEMMA ResetInv ==
  ASSUME SessionsInv, SessionsTypeOK', NEW u \in Users, NEW p \in Passwords,
         ResetPassword(u, p)
  PROVE  SessionsInv'
  <1>1. /\ epoch \in [Users -> Nat] /\ credential \in [Users -> Passwords]
        /\ epoch' = [epoch EXCEPT ![u] = @ + 1] /\ credential' = [credential EXCEPT ![u] = p]
        /\ UNCHANGED <<clock, revocations, tokens, request, logouts, rotated>>
    BY DEF SessionsInv, SessionsTypeOK, ResetPassword, history
  <1>2. ASSUME NEW t \in Token
        PROVE  /\ t.epoch <= epoch[t.user] => t.epoch <= epoch'[t.user]
               /\ PasswordKnown(t) => PasswordKnown(t)'
    BY <1>1, TokenParts DEF PasswordKnown
  <1>3. TokensKnown'
    BY <1>1, <1>2 DEF SessionsInv, TokensKnown, SessionsTypeOK
  <1>4. TokenNumbers' /\ RotatedRevoked' /\ LogoutsRevoked'
    BY <1>1 DEF SessionsInv, TokenNumbers, RotatedRevoked, LogoutsRevoked, Lasting
  <1>5. SlotsOK'
    <2> SUFFICES ASSUME NEW r \in Requests, request[r].step # "idle" PROVE SlotOK(request[r])'
      BY <1>1 DEF SlotsOK, SlotOK
    <2>1. request[r].token \in Token
      BY HandlerRuns, HandlerParts DEF SessionsInv, SessionsTypeOK, RequestsTyped
    <2>2. PICK t \in Token : t = request[r].token /\ t = request'[r].token
      BY <1>1, <2>1
    <2>3. CASE request[r].kind # "login"
      BY <1>1, <2>3 DEF SessionsInv, SlotsOK, SlotOK, PresentedOK
    <2>4. CASE request[r].kind = "login"
      <3>1. LoginOK(request[r])
        BY <2>4 DEF SessionsInv, SlotsOK, SlotOK
      <3>2. LoginOK(request[r])'
        BY <1>1, <1>2, <2>2, <3>1 DEF LoginOK, PasswordKnown
      <3> QED
        BY <1>1, <2>4, <3>2 DEF SlotOK
    <2> QED
      BY <2>3, <2>4
  <1> QED
    BY <1>3, <1>4, <1>5 DEF SessionsInv

LEMMA TickInv ==
  ASSUME SessionsInv, SessionsTypeOK', Tick
  PROVE  SessionsInv'
  <1>1. /\ clock \in Nat /\ clock' \in Nat /\ clock <= clock'
        /\ UNCHANGED <<epoch, credential, revocations, tokens, request, logouts, rotated>>
    BY DEF SessionsInv, SessionsTypeOK, Tick, accounts, history
  <1>2. SlotsOK'
    <2> SUFFICES ASSUME NEW r \in Requests, request[r].step # "idle" PROVE SlotOK(request[r])'
      BY <1>1 DEF SlotsOK, SlotOK
    <2>1. request[r].read \in Nat
      BY HandlerRuns, HandlerParts DEF SessionsInv, SessionsTypeOK, RequestsTyped
    <2> QED
      BY <1>1, <2>1 DEF SessionsInv, SlotsOK, SlotOK, LoginOK, PresentedOK, PasswordKnown
  <1> QED
    BY <1>1, <1>2, TablesKept DEF SessionsInv, TablesQuiet

LEMMA SessionsInvNext ==
  ASSUME SessionsInv, [SessionsNext]_sessionVars
  PROVE  SessionsInv'
  <1>1. SessionsTypeOK'
    BY SessionsTypeNext DEF SessionsInv
  <1>2. CASE UNCHANGED sessionVars
    <2>1. TablesQuiet /\ request' = request
      BY <1>2 DEF sessionVars, TablesQuiet, SessionsInv, SessionsTypeOK
    <2>2. SlotsOK'
      BY <1>2 DEF sessionVars, SessionsInv, SlotsOK, SlotOK, LoginOK, PresentedOK, PasswordKnown
    <2> QED
      BY <1>1, <2>1, <2>2, TablesKept DEF SessionsInv
  <1> QED
    BY <1>1, <1>2, HandleInv, ResetInv, TickInv DEF SessionsNext

LEMMA SessionsInvAlways == SessionsSpec => []SessionsInv
  BY SessionsInvInit, SessionsInvNext, PTL DEF SessionsSpec

-----------------------------------------------------------------------------
(* What follows *)

\* A reset of the password ends every session that rests on another password, whatever
\* logins and refreshes are in flight.
THEOREM ResetEndsSessionsAlways == SessionsSpec => []ResetEndsSessions
  <1>1. SessionsInv => ResetEndsSessions
    BY DEF SessionsInv, TokensKnown, PasswordKnown, ResetEndsSessions, Accepted
  <1> QED
    BY <1>1, SessionsInvAlways, PTL

\* A logout is final for every token issued up to its clock reading, for any lifetime of
\* tokens and any number of handlers.
THEOREM LogoutIsFinalAlways == SessionsSpec => []LogoutIsFinal
  <1>1. ASSUME SessionsInv, NEW t \in tokens, NEW l \in logouts,
               t.session = l.session, t.issued <= l.at, Expiry(t) > clock
        PROVE  Revoked({TokenKey(t), SessionKey(t)})
    <2>1. /\ t.issued \in Nat /\ l.at \in Nat /\ SessionTTL \in Nat /\ clock \in Nat
          /\ Lasting(<<"session", l.session>>, l.at + SessionTTL)
      BY <1>1, TokenParts, SessionsAssumptions
      DEF SessionsInv, SessionsTypeOK, LogoutsRevoked, SessionsAssumptions
    <2>2. l.at + SessionTTL > clock
      BY <1>1, <2>1 DEF Expiry
    <2>3. PICK row \in revocations : row.key = <<"session", l.session>>
                                     /\ row.expires >= l.at + SessionTTL
      BY <2>1, <2>2 DEF Lasting
    <2>4. row.expires > clock
      BY <1>1, <2>1, <2>2, <2>3 DEF SessionsInv, SessionsTypeOK, RevocationRow
    <2> QED
      BY <1>1, <2>3, <2>4 DEF Revoked, SessionKey
  <1>2. SessionsInv => LogoutIsFinal
    BY <1>1 DEF LogoutIsFinal, Accepted
  <1> QED
    BY <1>2, SessionsInvAlways, PTL

\* A token that was exchanged is never accepted again.
THEOREM RotatedIsRetiredAlways == SessionsSpec => []RotatedIsRetired
  <1>1. ASSUME SessionsInv, NEW t \in tokens, t.id \in rotated, Expiry(t) > clock
        PROVE  Revoked({TokenKey(t), SessionKey(t)})
    <2>1. clock \in Nat /\ Expiry(t) \in Nat /\ Lasting(TokenKey(t), Expiry(t))
      BY <1>1, TokenParts DEF SessionsInv, SessionsTypeOK, RotatedRevoked
    <2>2. PICK row \in revocations : row.key = TokenKey(t) /\ row.expires >= Expiry(t)
      BY <1>1, <2>1 DEF Lasting
    <2>3. row.expires > clock
      BY <1>1, <2>1, <2>2 DEF SessionsInv, SessionsTypeOK, RevocationRow
    <2> QED
      BY <2>2, <2>3 DEF Revoked
  <1>2. SessionsInv => RotatedIsRetired
    BY <1>1 DEF RotatedIsRetired, Accepted
  <1> QED
    BY <1>2, SessionsInvAlways, PTL
=============================================================================
