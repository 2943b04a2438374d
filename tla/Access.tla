-------------------------------- MODULE Access --------------------------------
(***************************************************************************)
(* Accounts and refresh sessions: registration and its confirmation, login,*)
(* renewal and revocation of a session, password reset, account deletion.  *)
(*                                                                         *)
(* Requests run concurrently and read before they write; only the SQL      *)
(* statements and transactions are atomic.  A login holds a snapshot of    *)
(* the account while the password is compared; a renewal holds a verified  *)
(* token and a clock reading while the session is read.  A request may     *)
(* stop between any two of its steps, and an answer may be lost.  Time is  *)
(* counted in units; lives of tokens are given in the same unit.           *)
(***************************************************************************)
EXTENDS Integers, FiniteSets

CONSTANTS Users,         \* identifiers of accounts, never used twice
          Emails, Passwords,
          Sessions,      \* identifiers of refresh sessions (random UUIDs)
          Callers,       \* concurrent requests
          Registered,    \* accounts that may exist, verified, at the start
          RefreshLife, AbsoluteLife, ResetLife, RegisterLife,
          MaxClock, MaxCalls, MaxResets,  \* bounds on the time, the requests, the reset tokens
          NotYet, Gone, Unopened, NoReset, NoRequest

VARIABLES clock,
          account,       \* row of each account
          session,       \* row of each refresh session
          delivered,     \* refresh tokens a client has received
          links,         \* registration links sent by mail
          mailed,        \* reset tokens sent by mail
          drawn,         \* how many reset tokens were drawn
          request,       \* the request each caller has in flight
          calls,
          renewals,      \* history: the tokens exchanged, and for which
          replayed,      \* history: sessions of the renewals refused at the exchange
          resetUses      \* history: how often each reset token set a password

vars == <<clock, account, session, delivered, links, mailed, drawn, request, calls,
          renewals, replayed, resetUses>>
-----------------------------------------------------------------------------
Times  == Nat
Resets == 1 .. MaxResets

Account == [email: Emails, password: Passwords, verified: BOOLEAN,
            reset: Resets \union {NoReset}, resetUntil: Times]
\* late: opened by a login that was comparing passwords when the password changed
Session == [user: Users, token: Nat, opened: Times, until: Times, revoked: BOOLEAN,
            password: Passwords, late: BOOLEAN]
Token   == [user: Users, session: Sessions, token: Nat, until: Times]
Renewal == [session: Sessions, from: Nat, to: Nat]
Link    == [user: Users, email: Emails, until: Times]

LoginRequest    == [step: {"compare", "open"}, user: Users, email: Emails,
                    password: Passwords, stored: Passwords, late: BOOLEAN]
RenewalRequest  == [step: {"limit", "revoke"}, token: Token]
ExchangeRequest == [step: {"exchange"}, token: Token, now: Times, life: Int]
RegisterRequest == [step: {"register"}, email: Emails, password: Passwords, exists: BOOLEAN]
PasswordRequest == [step: {"hash"}, reset: Resets, password: Passwords]
DeletionRequest == [step: {"delete"}, user: Users, email: Emails]
Pending == LoginRequest \union RenewalRequest \union ExchangeRequest \union RegisterRequest
           \union PasswordRequest \union DeletionRequest

ASSUME AccessAssumption ==
  /\ RefreshLife \in Nat /\ AbsoluteLife \in Nat /\ ResetLife \in Nat /\ RegisterLife \in Nat
  /\ RefreshLife <= AbsoluteLife
  /\ MaxClock \in Nat /\ MaxCalls \in Nat /\ MaxResets \in Nat
  /\ Registered \subseteq Users
  /\ {NotYet, Gone} \intersect Account = {} /\ NotYet # Gone
  /\ {Unopened, Gone} \intersect Session = {} /\ Unopened # Gone
  /\ NoReset \notin Nat /\ NoRequest \notin Pending

Exists(u)    == account[u] \notin {NotYet, Gone}
HasEmail(u, e) == Exists(u) /\ account[u].email = e
Taken(e)     == \E u \in Users : HasEmail(u, e)

\* Fault: any account of the address counts as confirmed.
ConfirmedOrNot(e) == Taken(e)

Confirmed(e) == \E u \in Users : HasEmail(u, e) /\ account[u].verified

Stored(s)    == session[s] \notin {Unopened, Gone}
Live(s)      == Stored(s) /\ ~session[s].revoked
SessionsOf(u) == {s \in Sessions : Stored(s) /\ session[s].user = u}

Idle(w)  == request[w] = NoRequest
At(w, step) == request[w] # NoRequest /\ request[w].step = step
Ask(w, r) == /\ Idle(w) /\ calls < MaxCalls
             /\ calls' = calls + 1
             /\ request' = [request EXCEPT ![w] = r]
Goto(w, r) == request' = [request EXCEPT ![w] = r] /\ UNCHANGED calls
Done(w)    == Goto(w, NoRequest)
-----------------------------------------------------------------------------
NewAccount(e, p, verified) == [email |-> e, password |-> p, verified |-> verified,
                               reset |-> NoReset, resetUntil |-> 0]

Init ==
  /\ clock = 0
  /\ \E first \in SUBSET Registered, email \in [Users -> Emails], password \in [Users -> Passwords] :
        /\ \A u, v \in first : email[u] = email[v] => u = v
        /\ account = [u \in Users |->
             IF u \in first THEN NewAccount(email[u], password[u], TRUE) ELSE NotYet]
  /\ session = [s \in Sessions |-> Unopened]
  /\ delivered = {} /\ links = {} /\ mailed = {} /\ drawn = 0
  /\ request = [w \in Callers |-> NoRequest] /\ calls = 0
  /\ renewals = {} /\ replayed = {} /\ resetUses = [k \in Resets |-> 0]

Tick ==
  /\ clock < MaxClock
  /\ clock' = clock + 1
  /\ UNCHANGED <<account, session, delivered, links, mailed, drawn, request, calls, renewals,
                 replayed, resetUses>>

\* the process dies, the database fails, or the mail server does
Stop(w) ==
  /\ ~Idle(w) /\ Done(w)
  /\ UNCHANGED <<clock, account, session, delivered, links, mailed, drawn, renewals, replayed,
                 resetUses>>
-----------------------------------------------------------------------------
(* Registration.  An address already registered but not verified is sent a *)
(* new link, and keeps the password it was registered with.                *)

\* exists and isUserAccountVerified; a verified address is answered like the others
BeginRegister(w, e, p) ==
  /\ ~Confirmed(e)
  /\ Ask(w, [step |-> "register", email |-> e, password |-> p, exists |-> Taken(e)])
  /\ UNCHANGED <<clock, account, session, delivered, links, mailed, drawn, renewals, replayed,
                 resetUses>>

SendLink(u, e) == \E received \in {{}, {[user |-> u, email |-> e, until |-> clock + RegisterLife]}} :
                    links' = links \union received

\* the unique index refuses a second account, the request then fails
Register(w) ==
  /\ At(w, "register")
  /\ LET r == request[w] IN
     \/ /\ ~r.exists /\ ~Taken(r.email)
        /\ \E u \in Users :
             /\ account[u] = NotYet
             /\ account' = [account EXCEPT ![u] = NewAccount(r.email, r.password, FALSE)]
             /\ SendLink(u, r.email)
     \/ /\ r.exists
        /\ \E u \in Users : HasEmail(u, r.email) /\ SendLink(u, r.email)
        /\ UNCHANGED account
     \/ /\ r.exists # Taken(r.email)
        /\ UNCHANGED <<account, links>>
  /\ Done(w)
  /\ UNCHANGED <<clock, session, delivered, mailed, drawn, renewals, replayed, resetUses>>

Confirm(link) ==
  /\ clock < link.until
  /\ HasEmail(link.user, link.email) /\ ~account[link.user].verified
  /\ account' = [account EXCEPT ![link.user].verified = TRUE]
  /\ UNCHANGED <<clock, session, delivered, links, mailed, drawn, request, calls, renewals,
                 replayed, resetUses>>
-----------------------------------------------------------------------------
(* Login *)

\* getUserByEmail: the account is read here, its password compared later
BeginLogin(w, e, p) ==
  /\ \E u \in Users :
        /\ HasEmail(u, e)
        /\ Ask(w, [step |-> "compare", user |-> u, email |-> e, password |-> p,
                   stored |-> account[u].password, late |-> FALSE])
  /\ UNCHANGED <<clock, account, session, delivered, links, mailed, drawn, renewals, replayed,
                 resetUses>>

\* isUserAccountVerified reads the address again, argon2 compares with the snapshot
Compare(w) ==
  /\ At(w, "compare")
  /\ LET r == request[w] IN
     \/ /\ Confirmed(r.email)
        /\ r.password = r.stored
        /\ Goto(w, [r EXCEPT !.step = "open"])
     \/ ~Confirmed(r.email) /\ Done(w)
     \/ r.password # r.stored /\ Done(w)
  /\ UNCHANGED <<clock, account, session, delivered, links, mailed, drawn, renewals, replayed,
                 resetUses>>

\* issue; the foreign key refuses the session of a deleted account
OpenSession(w, s) ==
  /\ At(w, "open") /\ session[s] = Unopened
  /\ LET r == request[w]
         t == [user |-> r.user, session |-> s, token |-> 0, until |-> clock + RefreshLife] IN
     \/ /\ Exists(r.user)
        /\ session' = [session EXCEPT ![s] =
             [user |-> r.user, token |-> 0, opened |-> clock, until |-> clock + RefreshLife,
              revoked |-> FALSE, password |-> r.stored, late |-> r.late]]
        /\ \E received \in {{}, {t}} : delivered' = delivered \union received
     \/ /\ ~Exists(r.user)
        /\ UNCHANGED <<session, delivered>>
  /\ Done(w)
  /\ UNCHANGED <<clock, account, links, mailed, drawn, renewals, replayed, resetUses>>
-----------------------------------------------------------------------------
(* Renewal and revocation of a session *)

Valid(t) == clock < t.until

\* verify, then getUserById
BeginRenewal(w, t) ==
  /\ Valid(t) /\ Exists(t.user)
  /\ Ask(w, [step |-> "limit", token |-> t])
  /\ UNCHANGED <<clock, account, session, delivered, links, mailed, drawn, renewals, replayed,
                 resetUses>>

Owned(t) == Stored(t.session) /\ session[t.session].user = t.user

\* Fault: the seven days alone, without the limit counted from the opening.
SlidingLife(s) == RefreshLife

RenewedLife(s) ==
  LET left == AbsoluteLife - (clock - session[s].opened) IN
  IF left < RefreshLife THEN left ELSE RefreshLife

\* rotate verifies the token again and computes what the session has left; a session that
\* is not found has nothing left
ReadLimit(w) ==
  /\ At(w, "limit")
  /\ LET t == request[w].token
         life == IF Owned(t) THEN RenewedLife(t.session) ELSE 0 IN
     \/ ~Valid(t) /\ Done(w)
     \/ /\ Valid(t)
        /\ Goto(w, IF life <= 0 THEN [step |-> "revoke", token |-> t]
                   ELSE [step |-> "exchange", token |-> t, now |-> clock, life |-> life])
  /\ UNCHANGED <<clock, account, session, delivered, links, mailed, drawn, renewals, replayed,
                 resetUses>>

\* Fault: the update names the session and not the token.
CurrentSession(t) == Owned(t) /\ ~session[t.session].revoked /\ clock <= session[t.session].until

\* Fault: the update does not look at revokedAt.
CurrentToken(t) == /\ Owned(t) /\ session[t.session].token = t.token
                   /\ clock <= session[t.session].until

\* the conditions of the UPDATE: the token is still the session's, and it may be used
Current(t) ==
  /\ Owned(t) /\ session[t.session].token = t.token
  /\ ~session[t.session].revoked /\ clock <= session[t.session].until

Exchange(w) ==
  /\ At(w, "exchange")
  /\ LET r == request[w]  t == r.token  s == t.session IN
     \/ /\ Current(t)
        /\ LET next == session[s].token + 1 IN
           /\ session' = [session EXCEPT ![s].token = next, ![s].until = r.now + r.life]
           /\ renewals' = renewals \union {[session |-> s, from |-> t.token, to |-> next]}
           /\ \E received \in {{}, {[user |-> t.user, session |-> s, token |-> next,
                                     until |-> clock + r.life]}} :
                 delivered' = delivered \union received
        /\ Done(w)
     \/ /\ ~Current(t)
        /\ Goto(w, [step |-> "revoke", token |-> t])
        /\ UNCHANGED <<session, delivered, renewals>>
  /\ UNCHANGED <<clock, account, links, mailed, drawn, replayed, resetUses>>

Revoked(S) == [s \in Sessions |->
                 IF s \in S /\ Stored(s) THEN [session[s] EXCEPT !.revoked = TRUE] ELSE session[s]]
\* Fault: only the holder of the current token ends the session.
TargetIfCurrent(t) == IF Current(t) THEN {t.session} ELSE {}

Target(t) == IF Owned(t) THEN {t.session} ELSE {}

\* the renewal was refused: the session it named is revoked
RevokeRefused(w) ==
  /\ At(w, "revoke")
  /\ LET t == request[w].token IN
     /\ session' = Revoked(Target(t))
     /\ replayed' = replayed \union {t.session}
  /\ Done(w)
  /\ UNCHANGED <<clock, account, delivered, links, mailed, drawn, renewals, resetUses>>

\* logout and native revocation: idempotent, an invalid token is ignored
Logout(t) ==
  /\ Valid(t)
  /\ session' = Revoked(Target(t))
  /\ UNCHANGED <<clock, account, delivered, links, mailed, drawn, request, calls, renewals,
                 replayed, resetUses>>
-----------------------------------------------------------------------------
(* Password reset *)

RequestReset(e) ==
  /\ drawn < MaxResets
  /\ \E u \in Users :
        /\ HasEmail(u, e)
        /\ account' = [account EXCEPT ![u].reset = drawn + 1,
                                      ![u].resetUntil = clock + ResetLife]
  /\ drawn' = drawn + 1
  /\ \E received \in {{}, {drawn + 1}} : mailed' = mailed \union received
  /\ UNCHANGED <<clock, session, delivered, links, request, calls, renewals, replayed, resetUses>>

Accepts(u, k) == Exists(u) /\ account[u].reset = k /\ clock <= account[u].resetUntil

\* hasValidResetToken, then the new password is hashed
BeginNewPassword(w, k, p) ==
  /\ Cardinality({u \in Users : Accepts(u, k)}) = 1
  /\ Ask(w, [step |-> "hash", reset |-> k, password |-> p])
  /\ UNCHANGED <<clock, account, session, delivered, links, mailed, drawn, renewals, replayed,
                 resetUses>>

\* Fault: the reset token stays in the row.
RowKeepingReset(row, p) == [row EXCEPT !.password = p]

WithPassword(row, p) == [row EXCEPT !.password = p, !.reset = NoReset, !.resetUntil = 0]

\* Fault: the sessions are left alone.
SessionsLeftTo(u) == session

SessionsEndedFor(u) == Revoked(SessionsOf(u))

LogsIn(r) == r # NoRequest /\ r.step \in {"compare", "open"}

\* a login of u that has read the account and not opened its session yet
Overtaken(r, u) == IF LogsIn(r) /\ r.user = u
                   THEN [r EXCEPT !.late = TRUE] ELSE r

\* one transaction: the token is consumed, the password set, the user's sessions revoked
NewPassword(w) ==
  /\ At(w, "hash")
  /\ LET r == request[w] IN
     \/ \E u \in Users :
          /\ {v \in Users : Accepts(v, r.reset)} = {u}
          /\ account' = [account EXCEPT ![u] = WithPassword(account[u], r.password)]
          /\ session' = SessionsEndedFor(u)
          /\ resetUses' = [resetUses EXCEPT ![r.reset] = resetUses[r.reset] + 1]
          /\ request' = [x \in Callers |-> IF x = w THEN NoRequest ELSE Overtaken(request[x], u)]
     \/ /\ Cardinality({u \in Users : Accepts(u, r.reset)}) # 1
        /\ request' = [request EXCEPT ![w] = NoRequest]
        /\ UNCHANGED <<account, session, resetUses>>
  /\ UNCHANGED <<clock, delivered, links, mailed, drawn, calls, renewals, replayed>>
-----------------------------------------------------------------------------
(* Deletion of an account *)

\* the address of the form must exist, the owner is the authenticated user
BeginDelete(w, u, e) ==
  /\ \E t \in delivered : t.user = u
  /\ Taken(e)
  /\ Ask(w, [step |-> "delete", user |-> u, email |-> e])
  /\ UNCHANGED <<clock, account, session, delivered, links, mailed, drawn, renewals, replayed,
                 resetUses>>

\* one transaction; the sessions go with the row.  An address of another account deletes
\* nothing, and the answer is the same
Delete(w) ==
  /\ At(w, "delete")
  /\ LET r == request[w] IN
     \/ /\ HasEmail(r.user, r.email)
        /\ account' = [account EXCEPT ![r.user] = Gone]
        /\ session' = [s \in Sessions |-> IF s \in SessionsOf(r.user) THEN Gone ELSE session[s]]
     \/ /\ ~HasEmail(r.user, r.email)
        /\ UNCHANGED <<account, session>>
  /\ Done(w)
  /\ UNCHANGED <<clock, delivered, links, mailed, drawn, renewals, replayed, resetUses>>
-----------------------------------------------------------------------------
Next ==
  \/ Tick
  \/ \E w \in Callers :
       \/ Stop(w) \/ Register(w) \/ Compare(w) \/ ReadLimit(w) \/ Exchange(w)
       \/ RevokeRefused(w) \/ NewPassword(w) \/ Delete(w)
       \/ \E s \in Sessions : OpenSession(w, s)
       \/ \E e \in Emails, p \in Passwords : BeginRegister(w, e, p) \/ BeginLogin(w, e, p)
       \/ \E t \in delivered : BeginRenewal(w, t)
       \/ \E k \in mailed, p \in Passwords : BeginNewPassword(w, k, p)
       \/ \E u \in Users, e \in Emails : BeginDelete(w, u, e)
  \/ \E link \in links : Confirm(link)
  \/ \E t \in delivered : Logout(t)
  \/ \E e \in Emails : RequestReset(e)

Spec == Init /\ [][Next]_vars
-----------------------------------------------------------------------------
(* Properties *)

TypeOK ==
  /\ clock \in Times /\ calls \in Nat /\ drawn \in 0 .. MaxResets
  /\ account \in [Users -> Account \union {NotYet, Gone}]
  /\ session \in [Sessions -> Session \union {Unopened, Gone}]
  /\ delivered \subseteq Token /\ links \subseteq Link /\ mailed \subseteq Resets
  /\ request \in [Callers -> Pending \union {NoRequest}]
  /\ renewals \subseteq Renewal /\ replayed \subseteq Sessions
  /\ resetUses \in [Resets -> Nat]

\* A refresh token is renewed once: two renewals of one token, started together or after a
\* lost answer, never both succeed (rotate, PrismaRefreshSessionRepository).
OneRenewalPerToken ==
  \A a, b \in renewals : a.session = b.session /\ a.from = b.from => a = b

\* A token presented again after its session moved on ends the session: no token of it, not
\* even the one just given to the other renewal, works any longer (rotate, not rotated).
RefusedRenewalEndsSession == \A s \in replayed : ~Live(s)

\* A session lives only under an account that exists and was confirmed, whatever deletion,
\* registration or login was running when it was opened (Login, issue, onDelete: Cascade).
SessionsHaveVerifiedOwner ==
  \A s \in Sessions : Stored(s) => Exists(session[s].user) /\ account[session[s].user].verified

\* After a password change no session opened with the former password is live, except the
\* one of a login that had already read the account (newPassword, one transaction).
SettledSessionsMatchPassword ==
  \A s \in Sessions : Live(s) /\ ~session[s].late =>
                          session[s].password = account[session[s].user].password

\* "Sessions opened with the former password must not survive the change."
SessionsFollowPassword ==
  \A s \in Sessions : Live(s) => session[s].password = account[session[s].user].password

\* A reset token sets a password once, though two forms may carry it at the same time
\* (hasValidResetToken, then newPassword).
ResetTokenWorksOnce == \A k \in Resets : resetUses[k] <= 1

\* What the properties rest on: a token held by a client or a request belongs to the session
\* it names, no address or reset token is in two rows, a login in flight that was not
\* overtaken still knows the password, and no lifetime granted exceeds the limit.
Holds(r)  == r # NoRequest /\ r.step \in {"limit", "exchange", "revoke"}
Held == delivered \union {request[w].token : w \in {x \in Callers : Holds(request[x])}}
NamesItsSession(t) == /\ session[t.session] # Unopened
                      /\ Stored(t.session) => session[t.session].user = t.user
HeldTokensNameTheirSession == \A t \in Held : NamesItsSession(t)
UniqueAddresses ==
  \A u, v \in Users : Exists(u) /\ Exists(v) /\ account[u].email = account[v].email => u = v
KnowsTheAccount(r) ==
  /\ account[r.user] # NotYet
  /\ Exists(r.user) => /\ account[r.user].email = r.email
                       /\ r.step = "open" => account[r.user].verified
                       /\ ~r.late => r.stored = account[r.user].password
LoginsKnowTheAccount == \A w \in Callers : LogsIn(request[w]) => KnowsTheAccount(request[w])
KeepsTheLimit(r) ==
  LET s == r.token.session IN
  /\ r.life > 0
  /\ Stored(s) => r.now + r.life <= session[s].opened + AbsoluteLife
SessionsKeepTheLimit ==
  \A s \in Sessions : Stored(s) => session[s].until <= session[s].opened + AbsoluteLife
ExchangesKeepTheLimit == \A w \in Callers : At(w, "exchange") => KeepsTheLimit(request[w])
RenewalsAreSpent ==
  \A a \in renewals : /\ a.to = a.from + 1 /\ session[a.session] # Unopened
                      /\ Stored(a.session) => a.from < session[a.session].token
ResetsAreSpent ==
  /\ \A u \in Users : Exists(u) /\ account[u].reset # NoReset => account[u].reset <= drawn
  /\ \A u, v \in Users : Exists(u) /\ Exists(v) /\ account[u].reset = account[v].reset =>
                           u = v \/ account[u].reset = NoReset
  /\ \A k \in Resets : resetUses[k] > 0 =>
       /\ k <= drawn /\ resetUses[k] = 1
       /\ \A u \in Users : Exists(u) => account[u].reset # k
RefusalsNameTheirSession == \A s \in replayed : session[s] # Unopened

IInv ==
  /\ TypeOK /\ HeldTokensNameTheirSession /\ UniqueAddresses /\ LoginsKnowTheAccount
  /\ SessionsHaveVerifiedOwner /\ SettledSessionsMatchPassword
  /\ SessionsKeepTheLimit /\ ExchangesKeepTheLimit
  /\ RenewalsAreSpent /\ ResetsAreSpent
  /\ RefusalsNameTheirSession /\ RefusedRenewalEndsSession

\* Refresh sessions keep the promises of the register: never past the absolute limit,
\* never exchanged once ended, never opened again.
Shown(s) ==
  IF session[s] = Unopened THEN [phase |-> "none", token |-> 0, opened |-> 0, until |-> 0]
  ELSE IF Live(s) THEN [phase |-> "open", token |-> session[s].token,
                        opened |-> session[s].opened, until |-> session[s].until]
  ELSE [phase |-> "ended", token |-> 0, opened |-> 0, until |-> 0]
SessionBook == INSTANCE SessionRegister WITH register <- [s \in Sessions |-> Shown(s)],
                                           time <- clock
RegisterSpec == SessionBook!Spec
==============================================================================
