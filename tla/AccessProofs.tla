----------------------------- MODULE AccessProofs -----------------------------
(***************************************************************************)
(* Proofs about Access, for every number of accounts, sessions, requests   *)
(* and every lifetime: its variables are typed, its sessions keep to their *)
(* limit, owner and password, a token works once, and the sessions         *)
(* implement SessionRegister.                                              *)
(***************************************************************************)
EXTENDS Access, TLAPS

(* ---------------------------------------------------------------------- *)
(* Requests                                                                *)

\* A request is of the kind its step says.
LEMMA RequestKinds ==
  ASSUME NEW r \in Pending
  PROVE  /\ r.step \in {"compare", "open"} => r \in LoginRequest
         /\ r.step \in {"limit", "revoke"} => r \in RenewalRequest
         /\ r.step = "exchange" => r \in ExchangeRequest
         /\ r.step = "register" => r \in RegisterRequest
         /\ r.step = "hash" => r \in PasswordRequest
         /\ r.step = "delete" => r \in DeletionRequest
BY DEF Pending, LoginRequest, RenewalRequest, ExchangeRequest, RegisterRequest,
       PasswordRequest, DeletionRequest

\* The token a request holds is a token.
LEMMA HeldToken ==
  ASSUME NEW r \in Pending \union {NoRequest}, Holds(r)
  PROVE  r.token \in Token
BY RequestKinds DEF Holds, RenewalRequest, ExchangeRequest

\* What is held once one request has changed was held before, was delivered, or is the new
\* request's.
LEMMA HeldAfter ==
  ASSUME TypeOK, NEW w \in Callers, NEW r, request' = [request EXCEPT ![w] = r]
  PROVE  \A t \in Held' : t \in delivered' \/ t \in Held \/ (Holds(r) /\ t = r.token)
<1>1. \A x \in Callers : request'[x] = IF x = w THEN r ELSE request[x] BY DEF TypeOK
<1>2. \A x \in Callers : Holds(request[x]) => request[x].token \in Held BY DEF Held
<1> SUFFICES ASSUME NEW t \in Held', t \notin delivered'
             PROVE  t \in Held \/ (Holds(r) /\ t = r.token)
  OBVIOUS
<1>3. PICK x \in Callers : Holds(request[x])' /\ t = request'[x].token BY DEF Held
<1> QED BY <1>1, <1>2, <1>3 DEF Holds

\* A step that only changes one request keeps the invariant, provided the new request keeps
\* to its part of it.
LEMMA RequestStep ==
  ASSUME IInv, NEW w \in Callers, NEW r \in Pending \union {NoRequest},
         request' = [request EXCEPT ![w] = r], calls' \in Nat,
         UNCHANGED <<clock, account, session, delivered, links, mailed, drawn, renewals,
                     replayed, resetUses>>,
         Holds(r) => NamesItsSession(r.token),
         LogsIn(r) => KnowsTheAccount(r),
         r # NoRequest /\ r.step = "exchange" => KeepsTheLimit(r)
  PROVE  IInv'
<1>1. \A x \in Callers : request'[x] = IF x = w THEN r ELSE request[x] BY DEF IInv, TypeOK
<1>2. TypeOK' BY DEF IInv, TypeOK
<1>3. \A t : NamesItsSession(t) => NamesItsSession(t)' BY DEF NamesItsSession, Stored
<1>4. HeldTokensNameTheirSession'
  <2>1. \A t \in Held' : t \in Held \/ (Holds(r) /\ t = r.token)
    BY HeldAfter DEF IInv, Held
  <2> QED BY <2>1, <1>3 DEF IInv, HeldTokensNameTheirSession
<1>5. LoginsKnowTheAccount'
  BY <1>1 DEF IInv, LoginsKnowTheAccount, LogsIn, KnowsTheAccount, Exists
<1>6. ExchangesKeepTheLimit'
  BY <1>1 DEF IInv, ExchangesKeepTheLimit, At, KeepsTheLimit, Stored
<1>7. UniqueAddresses' BY DEF IInv, UniqueAddresses, Exists
<1>8. SessionsHaveVerifiedOwner' BY DEF IInv, SessionsHaveVerifiedOwner, Stored, Exists
<1>9. SettledSessionsMatchPassword' BY DEF IInv, SettledSessionsMatchPassword, Live, Stored
<1>10. SessionsKeepTheLimit' BY DEF IInv, SessionsKeepTheLimit, Stored
<1>11. RenewalsAreSpent' BY DEF IInv, RenewalsAreSpent, Stored
<1>12. ResetsAreSpent' BY DEF IInv, ResetsAreSpent, Exists
<1>13. RefusalsNameTheirSession' /\ RefusedRenewalEndsSession'
  BY DEF IInv, RefusalsNameTheirSession, RefusedRenewalEndsSession, Live, Stored
<1> QED BY <1>2, <1>4, <1>5, <1>6, <1>7, <1>8, <1>9, <1>10, <1>11, <1>12, <1>13 DEF IInv

(* ---------------------------------------------------------------------- *)
(* Steps that change requests alone                                        *)

LEMMA NoRequestStep ==
  ASSUME IInv, NEW w \in Callers, Done(w),
         UNCHANGED <<clock, account, session, delivered, links, mailed, drawn, renewals,
                     replayed, resetUses>>
  PROVE  IInv'
<1>1. ~Holds(NoRequest) /\ ~LogsIn(NoRequest) BY DEF Holds, LogsIn
<1>2. request' = [request EXCEPT ![w] = NoRequest] /\ calls' \in Nat
  BY DEF Done, Goto, IInv, TypeOK
<1> QED BY <1>1, <1>2, RequestStep

LEMMA StopInv == ASSUME IInv, NEW w \in Callers, Stop(w) PROVE IInv'
BY NoRequestStep DEF Stop

LEMMA BeginRegisterInv ==
  ASSUME IInv, NEW w \in Callers, NEW e \in Emails, NEW p \in Passwords, BeginRegister(w, e, p)
  PROVE  IInv'
<1> DEFINE r == [step |-> "register", email |-> e, password |-> p, exists |-> Taken(e)]
<1>1. Taken(e) \in BOOLEAN BY DEF Taken
<1>2. r \in Pending BY <1>1 DEF Pending, RegisterRequest
<1>3. ~Holds(r) /\ ~LogsIn(r) /\ r.step # "exchange" BY DEF Holds, LogsIn
<1>4. request' = [request EXCEPT ![w] = r] /\ calls' \in Nat
  BY DEF BeginRegister, Ask, IInv, TypeOK
<1> HIDE DEF r
<1> QED BY <1>2, <1>3, <1>4, RequestStep DEF BeginRegister

LEMMA BeginLoginInv ==
  ASSUME IInv, NEW w \in Callers, NEW e \in Emails, NEW p \in Passwords, BeginLogin(w, e, p)
  PROVE  IInv'
<1>1. PICK u \in Users :
        /\ HasEmail(u, e)
        /\ Ask(w, [step |-> "compare", user |-> u, email |-> e, password |-> p,
                   stored |-> account[u].password, late |-> FALSE])
  BY DEF BeginLogin
<1> DEFINE r == [step |-> "compare", user |-> u, email |-> e, password |-> p,
                 stored |-> account[u].password, late |-> FALSE]
<1>2. account[u] \in Account BY <1>1 DEF IInv, TypeOK, HasEmail, Exists
<1>3. r \in Pending BY <1>2 DEF Pending, LoginRequest, Account
<1>4. ~Holds(r) /\ r.step # "exchange" BY DEF Holds
<1>5. KnowsTheAccount(r) BY <1>1 DEF KnowsTheAccount, HasEmail, Exists
<1>6. request' = [request EXCEPT ![w] = r] /\ calls' \in Nat
  BY <1>1 DEF Ask, IInv, TypeOK
<1> HIDE DEF r
<1> QED BY <1>3, <1>4, <1>5, <1>6, RequestStep DEF BeginLogin

LEMMA CompareInv == ASSUME IInv, NEW w \in Callers, Compare(w) PROVE IInv'
<1> DEFINE r == request[w]
           n == [r EXCEPT !.step = "open"]
<1>1. CASE Confirmed(r.email) /\ r.password = r.stored /\ Goto(w, n)
  <2>1. r \in LoginRequest /\ LogsIn(r)
    BY RequestKinds DEF Compare, At, IInv, TypeOK, LogsIn
  <2>2. n \in Pending BY <2>1 DEF Pending, LoginRequest
  <2>3. n.user = r.user /\ n.email = r.email /\ n.stored = r.stored /\ n.late = r.late
        /\ n.step = "open"
    BY <2>1 DEF LoginRequest
  <2>4. ~Holds(n) BY <2>3 DEF Holds
  <2>5. KnowsTheAccount(r) BY <2>1 DEF IInv, LoginsKnowTheAccount
  <2>6. Exists(r.user) => account[r.user].verified
    <3>1. PICK u \in Users : HasEmail(u, r.email) /\ account[u].verified
      BY <1>1 DEF Confirmed
    <3>2. Exists(r.user) => r.user = u
      BY <2>1, <2>5, <3>1 DEF KnowsTheAccount, HasEmail, IInv, UniqueAddresses, LoginRequest
    <3> QED BY <3>1, <3>2
  <2>7. KnowsTheAccount(n) BY <2>3, <2>5, <2>6 DEF KnowsTheAccount
  <2>8. request' = [request EXCEPT ![w] = n] /\ calls' \in Nat
    BY <1>1 DEF Goto, IInv, TypeOK
  <2> HIDE DEF n
  <2> QED BY <2>2, <2>3, <2>4, <2>7, <2>8, RequestStep DEF Compare
<1>2. CASE Done(w) BY <1>2, NoRequestStep DEF Compare
<1> QED BY <1>1, <1>2 DEF Compare

LEMMA BeginRenewalInv ==
  ASSUME IInv, NEW w \in Callers, NEW t \in delivered, BeginRenewal(w, t)
  PROVE  IInv'
<1> DEFINE r == [step |-> "limit", token |-> t]
<1>1. t \in Token /\ NamesItsSession(t)
  BY DEF IInv, TypeOK, HeldTokensNameTheirSession, Held
<1>2. r \in Pending BY <1>1 DEF Pending, RenewalRequest
<1>3. ~LogsIn(r) /\ r.step # "exchange" /\ r.token = t BY DEF LogsIn
<1>4. request' = [request EXCEPT ![w] = r] /\ calls' \in Nat
  BY DEF BeginRenewal, Ask, IInv, TypeOK
<1> HIDE DEF r
<1> QED BY <1>1, <1>2, <1>3, <1>4, RequestStep DEF BeginRenewal

\* The life a renewal grants ends within the session's limit.
LEMMA RenewedWithinLimit ==
  ASSUME IInv, NEW s \in Sessions, Stored(s)
  PROVE  /\ RenewedLife(s) \in Int
         /\ clock + RenewedLife(s) <= session[s].opened + AbsoluteLife
<1>1. session[s].opened \in Nat BY DEF IInv, TypeOK, Stored, Session, Times
<1>2. clock \in Nat BY DEF IInv, TypeOK, Times
<1>3. RefreshLife \in Nat /\ AbsoluteLife \in Nat BY AccessAssumption
<1> QED BY <1>1, <1>2, <1>3 DEF RenewedLife

LEMMA ReadLimitInv == ASSUME IInv, NEW w \in Callers, ReadLimit(w) PROVE IInv'
<1> DEFINE t == request[w].token
           s == t.session
           life == IF Owned(t) THEN RenewedLife(s) ELSE 0
           refused == [step |-> "revoke", token |-> t]
           granted == [step |-> "exchange", token |-> t, now |-> clock, life |-> life]
<1>1. t \in Token /\ s \in Sessions
  BY RequestKinds DEF ReadLimit, At, IInv, TypeOK, RenewalRequest, Token
<1>2. NamesItsSession(t)
  BY DEF ReadLimit, At, IInv, HeldTokensNameTheirSession, Held, Holds
<1>3. CASE Done(w) BY <1>3, NoRequestStep DEF ReadLimit
<1>4. CASE life <= 0 /\ Goto(w, refused)
  <2>1. refused \in Pending BY <1>1 DEF Pending, RenewalRequest
  <2>2. ~LogsIn(refused) /\ refused.step # "exchange" /\ refused.token = t BY DEF LogsIn
  <2>3. request' = [request EXCEPT ![w] = refused] /\ calls' \in Nat
    BY <1>4 DEF Goto, IInv, TypeOK
  <2> HIDE DEF refused
  <2> QED BY <1>2, <2>1, <2>2, <2>3, RequestStep DEF ReadLimit
<1>5. CASE ~(life <= 0) /\ Goto(w, granted)
  <2>1. Owned(t) BY <1>5
  <2>2. life \in Int /\ life > 0 /\ clock + life <= session[s].opened + AbsoluteLife
    <3>1. life = RenewedLife(s) BY <2>1
    <3>2. life \in Int /\ clock + life <= session[s].opened + AbsoluteLife
      BY <1>1, <2>1, <3>1, RenewedWithinLimit DEF Owned
    <3> HIDE DEF life
    <3> QED BY <1>5, <3>2
  <2> HIDE DEF life
  <2>3. granted \in Pending BY <1>1, <2>2 DEF Pending, ExchangeRequest, IInv, TypeOK
  <2>4. ~LogsIn(granted) /\ granted.token = t BY DEF LogsIn
  <2>5. KeepsTheLimit(granted) BY <2>2 DEF KeepsTheLimit
  <2>6. request' = [request EXCEPT ![w] = granted] /\ calls' \in Nat
    BY <1>5 DEF Goto, IInv, TypeOK
  <2> HIDE DEF granted
  <2> QED BY <1>2, <2>3, <2>4, <2>5, <2>6, RequestStep DEF ReadLimit
<1> QED BY <1>3, <1>4, <1>5 DEF ReadLimit

LEMMA BeginNewPasswordInv ==
  ASSUME IInv, NEW w \in Callers, NEW k \in mailed, NEW p \in Passwords,
         BeginNewPassword(w, k, p)
  PROVE  IInv'
<1> DEFINE r == [step |-> "hash", reset |-> k, password |-> p]
<1>1. r \in Pending BY DEF Pending, PasswordRequest, IInv, TypeOK
<1>2. ~Holds(r) /\ ~LogsIn(r) /\ r.step # "exchange" BY DEF Holds, LogsIn
<1>3. request' = [request EXCEPT ![w] = r] /\ calls' \in Nat
  BY DEF BeginNewPassword, Ask, IInv, TypeOK
<1> HIDE DEF r
<1> QED BY <1>1, <1>2, <1>3, RequestStep DEF BeginNewPassword

LEMMA BeginDeleteInv ==
  ASSUME IInv, NEW w \in Callers, NEW u \in Users, NEW e \in Emails, BeginDelete(w, u, e)
  PROVE  IInv'
<1> DEFINE r == [step |-> "delete", user |-> u, email |-> e]
<1>1. r \in Pending BY DEF Pending, DeletionRequest
<1>2. ~Holds(r) /\ ~LogsIn(r) /\ r.step # "exchange" BY DEF Holds, LogsIn
<1>3. request' = [request EXCEPT ![w] = r] /\ calls' \in Nat
  BY DEF BeginDelete, Ask, IInv, TypeOK
<1> HIDE DEF r
<1> QED BY <1>1, <1>2, <1>3, RequestStep DEF BeginDelete

(* ---------------------------------------------------------------------- *)
(* Steps that leave the sessions as they are, or revoke some               *)

\* The sessions are the same, except that some may be revoked.
SessionsKept ==
  \A s \in Sessions :
    /\ session'[s] = Unopened <=> session[s] = Unopened
    /\ Stored(s)' <=> Stored(s)
    /\ Stored(s) => /\ session'[s].user = session[s].user
                    /\ session'[s].token = session[s].token
                    /\ session'[s].opened = session[s].opened
                    /\ session'[s].until = session[s].until
                    /\ session'[s].password = session[s].password
                    /\ session'[s].late = session[s].late
                    /\ session[s].revoked => session'[s].revoked

LEMMA UnchangedSessions == ASSUME UNCHANGED session PROVE SessionsKept
BY DEF SessionsKept, Stored

LEMMA RevokedSessions ==
  ASSUME TypeOK, NEW S, session' = Revoked(S)
  PROVE  /\ SessionsKept
         /\ session' \in [Sessions -> Session \union {Unopened, Gone}]
         /\ \A s \in Sessions : s \in S => ~Live(s)'
<1> SUFFICES ASSUME NEW s \in Sessions
             PROVE  /\ session'[s] \in Session \union {Unopened, Gone}
                    /\ session'[s] = Unopened <=> session[s] = Unopened
                    /\ Stored(s)' <=> Stored(s)
                    /\ Stored(s) => /\ session'[s].user = session[s].user
                                    /\ session'[s].token = session[s].token
                                    /\ session'[s].opened = session[s].opened
                                    /\ session'[s].until = session[s].until
                                    /\ session'[s].password = session[s].password
                                    /\ session'[s].late = session[s].late
                                    /\ session[s].revoked => session'[s].revoked
                    /\ s \in S => ~Live(s)'
  BY DEF SessionsKept, Revoked
<1>1. session'[s] = IF s \in S /\ Stored(s) THEN [session[s] EXCEPT !.revoked = TRUE]
                    ELSE session[s]
  BY DEF Revoked
<1>2. session[s] \in Session \union {Unopened, Gone} BY DEF TypeOK
<1>3. CASE s \in S /\ Stored(s)
  <2>1. session[s] \in Session BY <1>2, <1>3 DEF Stored
  <2>2. session'[s] \in Session /\ session'[s] = [session[s] EXCEPT !.revoked = TRUE]
    BY <1>1, <1>3, <2>1 DEF Session
  <2>3. session'[s] \notin {Unopened, Gone} BY <2>2, AccessAssumption
  <2> QED BY <1>3, <2>1, <2>2, <2>3 DEF Stored, Live, Session
<1>4. CASE ~(s \in S /\ Stored(s)) BY <1>1, <1>2, <1>4 DEF Stored, Live
<1> QED BY <1>3, <1>4

\* The parts of the invariant about sessions and accounts when the accounts keep their
\* address, their confirmation and, where a session is live, their password.
LEMMA KeptSessionsInv ==
  ASSUME IInv, SessionsKept,
         UNCHANGED <<delivered, renewals>>,
         \A x \in Callers : request'[x] = request[x] \/ request'[x] = NoRequest,
         \A u \in Users : Exists(u) => /\ Exists(u)'
                                       /\ account[u].verified => account'[u].verified,
         \A s \in Sessions : Live(s)' => LET u == session[s].user IN
                                           account'[u].password = account[u].password
  PROVE  /\ HeldTokensNameTheirSession' /\ ExchangesKeepTheLimit' /\ SessionsKeepTheLimit'
         /\ SessionsHaveVerifiedOwner' /\ SettledSessionsMatchPassword' /\ RenewalsAreSpent'
<1>1. \A x \in Callers : request'[x] = request[x] \/ request'[x] = NoRequest OBVIOUS
<1>2. TypeOK BY DEF IInv
<1>3. HeldTokensNameTheirSession'
  <2>1. \A t \in Held' : t \in Held BY <1>1 DEF Held, Holds
  <2>2. \A t \in Held : t \in Token BY <1>2, HeldToken DEF Held, TypeOK
  <2>3. \A t \in Held : NamesItsSession(t)' BY <2>2 DEF IInv, HeldTokensNameTheirSession,
        NamesItsSession, SessionsKept, Token
  <2> QED BY <2>1, <2>3 DEF HeldTokensNameTheirSession
<1>4. ExchangesKeepTheLimit'
  <2> SUFFICES ASSUME NEW x \in Callers, At(x, "exchange")' PROVE KeepsTheLimit(request[x])'
    BY DEF ExchangesKeepTheLimit
  <2>1. request'[x] = request[x] /\ At(x, "exchange") BY <1>1 DEF At
  <2>2. request[x].token.session \in Sessions
    BY <1>2, <2>1, RequestKinds DEF At, TypeOK, ExchangeRequest, Token
  <2> QED BY <2>1, <2>2 DEF IInv, ExchangesKeepTheLimit, KeepsTheLimit, SessionsKept
<1>5. SessionsKeepTheLimit' BY DEF IInv, SessionsKeepTheLimit, SessionsKept
<1>6. \A s \in Sessions : Stored(s) => session[s].user \in Users
  BY <1>2 DEF TypeOK, Stored, Session
<1>7. SessionsHaveVerifiedOwner' BY <1>6 DEF IInv, SessionsHaveVerifiedOwner, SessionsKept
<1>8. SettledSessionsMatchPassword'
  BY <1>6 DEF IInv, SettledSessionsMatchPassword, SessionsKept, Live
<1>9. RenewalsAreSpent' BY <1>2 DEF IInv, RenewalsAreSpent, SessionsKept, TypeOK, Renewal
<1> QED BY <1>3, <1>4, <1>5, <1>7, <1>8, <1>9

LEMMA TickInv == ASSUME IInv, Tick PROVE IInv'
<1>1. TypeOK' BY DEF IInv, TypeOK, Tick, Times
<1>2. SessionsKept BY UnchangedSessions DEF Tick
<1>3. /\ HeldTokensNameTheirSession' /\ ExchangesKeepTheLimit' /\ SessionsKeepTheLimit'
      /\ SessionsHaveVerifiedOwner' /\ SettledSessionsMatchPassword' /\ RenewalsAreSpent'
  BY DEF Tick, IInv, HeldTokensNameTheirSession, Held, NamesItsSession, Stored, Live, Exists,
         ExchangesKeepTheLimit, At, KeepsTheLimit, SessionsKeepTheLimit,
         SessionsHaveVerifiedOwner, SettledSessionsMatchPassword, RenewalsAreSpent
<1>4. UniqueAddresses' /\ LoginsKnowTheAccount' /\ ResetsAreSpent'
  BY DEF Tick, IInv, UniqueAddresses, LoginsKnowTheAccount, KnowsTheAccount, Exists,
         ResetsAreSpent
<1>5. RefusalsNameTheirSession' /\ RefusedRenewalEndsSession'
  BY DEF Tick, IInv, RefusalsNameTheirSession, RefusedRenewalEndsSession, Live, Stored
<1> QED BY <1>1, <1>3, <1>4, <1>5 DEF IInv

LEMMA RevokeRefusedInv == ASSUME IInv, NEW w \in Callers, RevokeRefused(w) PROVE IInv'
<1>0. PICK t \in Token : t = request[w].token
  BY RequestKinds DEF RevokeRefused, At, IInv, TypeOK, RenewalRequest
<1>1. t.session \in Sessions BY DEF Token
<1>2. NamesItsSession(t)
  BY <1>0 DEF RevokeRefused, At, IInv, HeldTokensNameTheirSession, Held, Holds
<1>3. session' = Revoked(Target(t)) /\ replayed' = replayed \union {t.session}
  BY <1>0 DEF RevokeRefused
<1>4. /\ SessionsKept /\ session' \in [Sessions -> Session \union {Unopened, Gone}]
      /\ \A s \in Sessions : s \in Target(t) => ~Live(s)'
  BY <1>3, RevokedSessions DEF IInv
<1>5. TypeOK' BY <1>1, <1>3, <1>4 DEF RevokeRefused, Done, Goto, IInv, TypeOK
<1>6. /\ HeldTokensNameTheirSession' /\ ExchangesKeepTheLimit' /\ SessionsKeepTheLimit'
      /\ SessionsHaveVerifiedOwner' /\ SettledSessionsMatchPassword' /\ RenewalsAreSpent'
  BY <1>4, KeptSessionsInv DEF RevokeRefused, Exists, Done, Goto, IInv, TypeOK
<1>7. UniqueAddresses' /\ ResetsAreSpent'
  BY DEF RevokeRefused, IInv, UniqueAddresses, Exists, ResetsAreSpent
<1>8. LoginsKnowTheAccount'
  BY DEF RevokeRefused, Done, Goto, IInv, TypeOK, LoginsKnowTheAccount, KnowsTheAccount, LogsIn,
         Exists
<1>9. RefusalsNameTheirSession' /\ RefusedRenewalEndsSession'
  <2>1. ~Live(t.session)'
    <3>1. CASE Stored(t.session) BY <1>1, <1>2, <1>4, <3>1 DEF NamesItsSession, Target, Owned
    <3>2. CASE ~Stored(t.session) BY <1>1, <1>4, <3>2 DEF SessionsKept, Live
    <3> QED BY <3>1, <3>2
  <2>2. session'[t.session] # Unopened BY <1>1, <1>2, <1>4 DEF NamesItsSession, SessionsKept
  <2>3. \A s \in replayed : s \in Sessions /\ session'[s] # Unopened /\ ~Live(s)'
    BY <1>4 DEF IInv, TypeOK, RefusalsNameTheirSession, RefusedRenewalEndsSession, SessionsKept,
                Live
  <2> QED BY <1>3, <2>1, <2>2, <2>3 DEF RefusalsNameTheirSession, RefusedRenewalEndsSession
<1> QED BY <1>5, <1>6, <1>7, <1>8, <1>9 DEF IInv

LEMMA LogoutInv == ASSUME IInv, NEW t \in delivered, Logout(t) PROVE IInv'
<1>1. session' = Revoked(Target(t)) BY DEF Logout
<1>2. SessionsKept /\ session' \in [Sessions -> Session \union {Unopened, Gone}]
  BY <1>1, RevokedSessions DEF IInv
<1>3. TypeOK' BY <1>2 DEF Logout, IInv, TypeOK
<1>4. /\ HeldTokensNameTheirSession' /\ ExchangesKeepTheLimit' /\ SessionsKeepTheLimit'
      /\ SessionsHaveVerifiedOwner' /\ SettledSessionsMatchPassword' /\ RenewalsAreSpent'
  BY <1>2, KeptSessionsInv DEF Logout, Exists
<1>5. UniqueAddresses' /\ LoginsKnowTheAccount' /\ ResetsAreSpent'
  BY DEF Logout, IInv, UniqueAddresses, LoginsKnowTheAccount, KnowsTheAccount, Exists,
         ResetsAreSpent
<1>6. RefusalsNameTheirSession' /\ RefusedRenewalEndsSession'
  BY <1>2 DEF Logout, IInv, TypeOK, RefusalsNameTheirSession, RefusedRenewalEndsSession,
              SessionsKept, Live
<1> QED BY <1>3, <1>4, <1>5, <1>6 DEF IInv

(* ---------------------------------------------------------------------- *)
(* Steps that change accounts alone                                        *)

\* The rows of accounts are kept but for new accounts and fields no login looks at.
AccountsKept ==
  \A u \in Users :
    /\ Exists(u) => /\ Exists(u)' /\ account'[u].email = account[u].email
                    /\ account'[u].password = account[u].password
                    /\ account[u].verified => account'[u].verified
    /\ account[u] # NotYet => account'[u] # NotYet
    /\ Exists(u)' => Exists(u) \/ account[u] = NotYet

LEMMA KeptAccountsInv ==
  ASSUME IInv, AccountsKept, UNCHANGED <<session, delivered, renewals, replayed>>,
         \A x \in Callers : request'[x] = request[x] \/ request'[x] = NoRequest
  PROVE  /\ HeldTokensNameTheirSession' /\ ExchangesKeepTheLimit' /\ SessionsKeepTheLimit'
         /\ SessionsHaveVerifiedOwner' /\ SettledSessionsMatchPassword' /\ RenewalsAreSpent'
         /\ LoginsKnowTheAccount' /\ RefusalsNameTheirSession' /\ RefusedRenewalEndsSession'
<1>1. SessionsKept BY UnchangedSessions
<1>2. \A s \in Sessions : Stored(s) => session[s].user \in Users /\ Exists(session[s].user)
  BY DEF IInv, TypeOK, Stored, Session, SessionsHaveVerifiedOwner
<1>3. \A s \in Sessions : Live(s)' => LET u == session[s].user IN
                                       account'[u].password = account[u].password
  BY <1>2 DEF AccountsKept, Live, Stored
<1>4. /\ HeldTokensNameTheirSession' /\ ExchangesKeepTheLimit' /\ SessionsKeepTheLimit'
      /\ SessionsHaveVerifiedOwner' /\ SettledSessionsMatchPassword' /\ RenewalsAreSpent'
  BY <1>1, <1>3, KeptSessionsInv DEF AccountsKept
<1>5. LoginsKnowTheAccount'
  <2> SUFFICES ASSUME NEW x \in Callers, LogsIn(request[x])' PROVE KnowsTheAccount(request[x])'
    BY DEF LoginsKnowTheAccount
  <2>1. request'[x] = request[x] /\ LogsIn(request[x]) BY DEF LogsIn
  <2>2. request[x].user \in Users /\ KnowsTheAccount(request[x])
    BY <2>1, RequestKinds DEF LogsIn, IInv, TypeOK, LoginRequest, LoginsKnowTheAccount
  <2>3. account[request[x].user] # NotYet BY <2>2 DEF KnowsTheAccount
  <2>4. Exists(request[x].user)' => Exists(request[x].user)
    BY <2>1, <2>2, <2>3 DEF AccountsKept
  <2> QED BY <2>1, <2>2, <2>3, <2>4 DEF AccountsKept, KnowsTheAccount
<1>6. RefusalsNameTheirSession' /\ RefusedRenewalEndsSession'
  BY DEF IInv, RefusalsNameTheirSession, RefusedRenewalEndsSession, Live, Stored
<1> QED BY <1>4, <1>5, <1>6

\* A new account is a row, unconfirmed and without a reset token.
LEMMA NewAccountRow ==
  ASSUME NEW e \in Emails, NEW p \in Passwords, NEW v \in BOOLEAN
  PROVE  /\ NewAccount(e, p, v) \in Account /\ NewAccount(e, p, v) \notin {NotYet, Gone}
         /\ NewAccount(e, p, v).email = e /\ NewAccount(e, p, v).password = p
         /\ NewAccount(e, p, v).verified = v /\ NewAccount(e, p, v).reset = NoReset
<1>1. NewAccount(e, p, v) \in Account BY DEF NewAccount, Account, Times
<1> QED BY <1>1, AccessAssumption DEF NewAccount

LEMMA RegisterInv == ASSUME IInv, NEW w \in Callers, Register(w) PROVE IInv'
<1> DEFINE r == request[w]
<1>1. r \in RegisterRequest BY RequestKinds DEF Register, At, IInv, TypeOK
<1>2. r.email \in Emails /\ r.password \in Passwords BY <1>1 DEF RegisterRequest
<1>3. \A x \in Callers : request'[x] = request[x] \/ request'[x] = NoRequest
  BY DEF Register, Done, Goto, IInv, TypeOK
<1>4. \A u \in Users : [user |-> u, email |-> r.email, until |-> clock + RegisterLife] \in Link
  BY <1>2, AccessAssumption DEF Link, Times, IInv, TypeOK
<1>5. CASE ~r.exists /\ ~Taken(r.email) /\ account # account'
  <2>0. PICK n : n = NewAccount(r.email, r.password, FALSE) OBVIOUS
  <2>1. PICK u \in Users : /\ account[u] = NotYet /\ SendLink(u, r.email)
                           /\ account' = [account EXCEPT ![u] = n]
    BY <1>5, <2>0 DEF Register
  <2>2. \A v \in Users : account'[v] = IF v = u THEN n ELSE account[v]
    BY <2>1 DEF IInv, TypeOK
  <2>3. /\ account'[u] \in Account /\ account'[u] \notin {NotYet, Gone}
        /\ account'[u].email = r.email /\ account'[u].reset = NoReset
    <3>1. FALSE \in BOOLEAN OBVIOUS
    <3>2. /\ n \in Account /\ n \notin {NotYet, Gone} /\ n.email = r.email /\ n.reset = NoReset
      BY <1>2, <2>0, <3>1, NewAccountRow
    <3> QED BY <2>2, <3>2
  <2>4. AccountsKept BY <2>1, <2>2, <2>3 DEF AccountsKept, Exists
  <2>5. links' \subseteq Link BY <1>4, <2>1 DEF SendLink, IInv, TypeOK
  <2>6. TypeOK' BY <2>2, <2>3, <2>5, <2>1 DEF Register, Done, Goto, IInv, TypeOK
  <2>7. UniqueAddresses'
    <3>1. \A v \in Users : Exists(v) => account[v].email # r.email
      BY <1>5 DEF Taken, HasEmail
    <3>2. \A v \in Users : Exists(v)' => v = u \/ (Exists(v) /\ account'[v].email = account[v].email)
      BY <2>2 DEF Exists
    <3> QED BY <2>3, <3>1, <3>2 DEF UniqueAddresses, IInv
  <2>8. ResetsAreSpent'
    <3>1. drawn' = drawn /\ resetUses' = resetUses BY DEF Register
    <3>2. \A v \in Users : Exists(v)' => \/ Exists(v) /\ account'[v].reset = account[v].reset
                                         \/ account'[v].reset = NoReset
      BY <2>2, <2>3 DEF Exists
    <3>3. \A k \in Resets : k # NoReset BY AccessAssumption DEF Resets
    <3> QED BY <3>1, <3>2, <3>3 DEF IInv, ResetsAreSpent
  <2> QED BY <1>3, <2>4, <2>6, <2>7, <2>8, KeptAccountsInv DEF Register, IInv
<1>6. CASE account' = account
  <2>1. AccountsKept BY <1>6 DEF AccountsKept, Exists
  <2>2. links' \subseteq Link BY <1>4 DEF Register, SendLink, IInv, TypeOK
  <2>3. TypeOK' BY <1>6, <2>2 DEF Register, Done, Goto, IInv, TypeOK
  <2>4. UniqueAddresses' /\ ResetsAreSpent'
    BY <1>6 DEF Register, IInv, UniqueAddresses, Exists, ResetsAreSpent
  <2> QED BY <1>3, <2>1, <2>3, <2>4, KeptAccountsInv DEF Register, IInv
<1> QED BY <1>5, <1>6 DEF Register

LEMMA ConfirmInv == ASSUME IInv, NEW link \in links, Confirm(link) PROVE IInv'
<1> DEFINE u == link.user
<1>1. u \in Users BY DEF IInv, TypeOK, Link
<1>2. account[u] \in Account BY <1>1 DEF Confirm, HasEmail, Exists, IInv, TypeOK
<1>3. \A v \in Users : account'[v] = IF v = u THEN [account[u] EXCEPT !.verified = TRUE]
                                     ELSE account[v]
  BY <1>1 DEF Confirm, IInv, TypeOK
<1>4. /\ account'[u] \in Account /\ account'[u].email = account[u].email
      /\ account'[u].password = account[u].password /\ account'[u].reset = account[u].reset
      /\ account'[u].verified
  BY <1>1, <1>2, <1>3 DEF Account
<1>5. \A v \in Users : Exists(v)' <=> Exists(v)
  BY <1>2, <1>3, <1>4, AccessAssumption DEF Exists
<1> HIDE DEF u
<1>6. AccountsKept BY <1>3, <1>4, <1>5, AccessAssumption DEF AccountsKept, Exists
<1>7. TypeOK' BY <1>3, <1>4 DEF Confirm, IInv, TypeOK, u
<1>8. UniqueAddresses' BY <1>3, <1>4, <1>5 DEF IInv, UniqueAddresses
<1>9. ResetsAreSpent' BY <1>3, <1>4, <1>5 DEF Confirm, IInv, ResetsAreSpent
<1> QED BY <1>6, <1>7, <1>8, <1>9, KeptAccountsInv DEF Confirm, IInv

LEMMA RequestResetInv == ASSUME IInv, NEW e \in Emails, RequestReset(e) PROVE IInv'
<1>1. PICK u \in Users : /\ HasEmail(u, e)
                         /\ account' = [account EXCEPT ![u].reset = drawn + 1,
                                                       ![u].resetUntil = clock + ResetLife]
  BY DEF RequestReset
<1>2. account[u] \in Account BY <1>1 DEF HasEmail, Exists, IInv, TypeOK
<1>3. \A v \in Users : account'[v] =
        IF v = u THEN [account[u] EXCEPT !.reset = drawn + 1, !.resetUntil = clock + ResetLife]
        ELSE account[v]
  BY <1>1 DEF IInv, TypeOK
<1>4. drawn \in Nat /\ drawn + 1 \in Resets /\ clock + ResetLife \in Nat
  BY AccessAssumption DEF RequestReset, Resets, IInv, TypeOK, Times
<1>5. /\ account'[u] \in Account /\ account'[u].email = account[u].email
      /\ account'[u].password = account[u].password /\ account'[u].reset = drawn + 1
      /\ account'[u].verified = account[u].verified
  BY <1>2, <1>3, <1>4 DEF Account, Times
<1>6. \A v \in Users : Exists(v)' <=> Exists(v)
  BY <1>2, <1>3, <1>5, AccessAssumption DEF Exists
<1>7. AccountsKept BY <1>3, <1>5, <1>6, AccessAssumption DEF AccountsKept, Exists
<1>8. TypeOK'
  <2>1. drawn' \in 0 .. MaxResets /\ mailed' \subseteq Resets
    BY <1>4, AccessAssumption DEF RequestReset, Resets, IInv, TypeOK
  <2> QED BY <1>1, <1>3, <1>5, <2>1 DEF RequestReset, IInv, TypeOK
<1>9. UniqueAddresses' BY <1>3, <1>5, <1>6 DEF IInv, UniqueAddresses
<1>10. ResetsAreSpent'
  <2>1. drawn' = drawn + 1 /\ resetUses' = resetUses BY DEF RequestReset
  <2>2. \A v \in Users : Exists(v) /\ account[v].reset # NoReset =>
                           account[v].reset \in Nat /\ account[v].reset <= drawn
    BY AccessAssumption DEF IInv, TypeOK, ResetsAreSpent, Account, Resets, Exists
  <2>3. \A k \in Resets : k \in Nat /\ k # NoReset BY AccessAssumption DEF Resets
  <2>4. \A k \in Resets : resetUses[k] > 0 => k <= drawn BY DEF IInv, ResetsAreSpent
  <2> QED BY <1>3, <1>4, <1>5, <1>6, <2>1, <2>2, <2>3, <2>4, AccessAssumption
          DEF IInv, ResetsAreSpent
<1> QED BY <1>7, <1>8, <1>9, <1>10, KeptAccountsInv DEF RequestReset, IInv

(* ---------------------------------------------------------------------- *)
(* Opening and exchanging                                                  *)

LEMMA OpenSessionInv ==
  ASSUME IInv, NEW w \in Callers, NEW s \in Sessions, OpenSession(w, s)
  PROVE  IInv'
<1>0. PICK r \in LoginRequest : r = request[w] /\ LogsIn(r) /\ r.step = "open"
  BY RequestKinds DEF OpenSession, At, IInv, TypeOK, LogsIn
<1>1. r.user \in Users /\ KnowsTheAccount(r)
  BY <1>0 DEF LoginRequest, IInv, LoginsKnowTheAccount
<1>2. \A x \in Callers : request'[x] = request[x] \/ request'[x] = NoRequest
  BY DEF OpenSession, Done, Goto, IInv, TypeOK
<1>3. CASE UNCHANGED <<session, delivered>>
  <2>1. TypeOK' BY <1>3 DEF OpenSession, Done, Goto, IInv, TypeOK
  <2>2. AccountsKept BY DEF OpenSession, AccountsKept, Exists
  <2>3. UniqueAddresses' /\ ResetsAreSpent'
    BY DEF OpenSession, IInv, UniqueAddresses, Exists, ResetsAreSpent
  <2> QED BY <1>2, <1>3, <2>1, <2>2, <2>3, KeptAccountsInv DEF OpenSession, IInv
<1>4. CASE Exists(r.user) /\ ~UNCHANGED <<session, delivered>>
  <2>a. PICK row : row = [user |-> r.user, token |-> 0, opened |-> clock,
                          until |-> clock + RefreshLife, revoked |-> FALSE,
                          password |-> r.stored, late |-> r.late]
    OBVIOUS
  <2>b. PICK t : t = [user |-> r.user, session |-> s, token |-> 0, until |-> clock + RefreshLife]
    OBVIOUS
  <2>1. /\ session[s] = Unopened /\ session' = [session EXCEPT ![s] = row]
        /\ delivered' \subseteq delivered \union {t}
    BY <1>0, <1>4, <2>a, <2>b DEF OpenSession
  <2>2. clock \in Nat /\ RefreshLife \in Nat /\ AbsoluteLife \in Nat /\ RefreshLife <= AbsoluteLife
    BY AccessAssumption DEF IInv, TypeOK, Times
  <2>3. row \in Session /\ t \in Token
    BY <1>0, <1>1, <2>2, <2>a, <2>b DEF Session, Token, LoginRequest, Times
  <2>4. row \notin {Unopened, Gone} BY <2>3, AccessAssumption
  <2>5. /\ row.user = r.user /\ row.opened = clock /\ row.until = clock + RefreshLife
        /\ row.password = r.stored /\ row.late = r.late
        /\ t.session = s /\ t.user = r.user
    BY <2>a, <2>b
  <2>6. \A z \in Sessions : session'[z] = IF z = s THEN row ELSE session[z]
    BY <2>1 DEF IInv, TypeOK
  <2>7. \A z \in Sessions : Stored(z)' <=> (z = s \/ Stored(z)) BY <2>4, <2>6 DEF Stored
  <2>8. ~Stored(s) BY <2>1 DEF Stored
  <2>9. account' = account /\ \A u : Exists(u)' <=> Exists(u) BY DEF OpenSession, Exists
  <2>10. TypeOK' BY <2>1, <2>3 DEF OpenSession, Done, Goto, IInv, TypeOK
  <2>11. HeldTokensNameTheirSession'
    <3>1. \A x \in Held' : x \in Held \union {t}
      BY <1>2, <2>1 DEF Held, Holds
    <3>2. \A x \in Held : x \in Token BY HeldToken DEF Held, IInv, TypeOK
    <3>3. \A x \in Held : x.session \in Sessions /\ NamesItsSession(x) /\ x.session # s
      BY <2>1, <3>2 DEF IInv, HeldTokensNameTheirSession, NamesItsSession, Token
    <3>4. \A x \in Held : NamesItsSession(x)' BY <2>6, <2>7, <3>3 DEF NamesItsSession
    <3>5. NamesItsSession(t)' BY <2>4, <2>5, <2>6 DEF NamesItsSession
    <3> QED BY <3>1, <3>4, <3>5 DEF HeldTokensNameTheirSession
  <2>12. UniqueAddresses' /\ ResetsAreSpent'
    BY DEF OpenSession, IInv, UniqueAddresses, Exists, ResetsAreSpent
  <2>13. LoginsKnowTheAccount'
    BY <1>2, <2>9 DEF IInv, LoginsKnowTheAccount, KnowsTheAccount, LogsIn
  <2>14. SessionsHaveVerifiedOwner'
    BY <1>0, <1>1, <1>4, <2>5, <2>6, <2>7, <2>9 DEF IInv, SessionsHaveVerifiedOwner, KnowsTheAccount
  <2>15. SettledSessionsMatchPassword'
    BY <1>1, <1>4, <2>5, <2>6, <2>7, <2>9 DEF IInv, SettledSessionsMatchPassword, KnowsTheAccount, Live
  <2>16. SessionsKeepTheLimit' BY <2>2, <2>5, <2>6, <2>7 DEF IInv, SessionsKeepTheLimit
  <2>17. ExchangesKeepTheLimit'
    <3> SUFFICES ASSUME NEW x \in Callers, At(x, "exchange")' PROVE KeepsTheLimit(request[x])'
      BY DEF ExchangesKeepTheLimit
    <3>1. request'[x] = request[x] /\ At(x, "exchange") BY <1>2 DEF At
    <3>2. Holds(request[x]) /\ request[x].token \in Held BY <3>1 DEF At, Holds, Held
    <3>3. request[x].token.session \in Sessions /\ request[x].token.session # s
      BY <2>1, <3>1, <3>2, HeldToken DEF IInv, TypeOK, HeldTokensNameTheirSession,
         NamesItsSession, Token
    <3> QED BY <2>6, <2>7, <3>1, <3>3 DEF IInv, ExchangesKeepTheLimit, KeepsTheLimit
  <2>18. RenewalsAreSpent'
    <3>1. renewals' = renewals BY DEF OpenSession
    <3>2. \A a \in renewals : a.session \in Sessions /\ a.session # s
      <4> TAKE a \in renewals
      <4>1. a \in Renewal BY DEF IInv, TypeOK
      <4>2. session[a.session] # Unopened BY DEF IInv, RenewalsAreSpent
      <4> QED BY <2>1, <4>1, <4>2 DEF Renewal
    <3> QED BY <2>6, <2>7, <3>1, <3>2 DEF IInv, RenewalsAreSpent
  <2>19. RefusalsNameTheirSession' /\ RefusedRenewalEndsSession'
    <3>1. replayed' = replayed BY DEF OpenSession
    <3>2. \A a \in replayed : a \in Sessions /\ a # s
      BY <2>1 DEF IInv, TypeOK, RefusalsNameTheirSession
    <3> QED BY <2>6, <2>7, <3>1, <3>2 DEF IInv, RefusalsNameTheirSession,
            RefusedRenewalEndsSession, Live
  <2> QED BY <2>10, <2>11, <2>12, <2>13, <2>14, <2>15, <2>16, <2>17, <2>18, <2>19 DEF IInv
<1> QED BY <1>0, <1>3, <1>4 DEF OpenSession

LEMMA ExchangeInv == ASSUME IInv, NEW w \in Callers, Exchange(w) PROVE IInv'
<1>0. PICK r \in ExchangeRequest : r = request[w] /\ At(w, "exchange")
  BY RequestKinds DEF Exchange, At, IInv, TypeOK
<1>1. PICK t \in Token : t = r.token /\ NamesItsSession(t)
  BY <1>0 DEF ExchangeRequest, At, Holds, Held, IInv, HeldTokensNameTheirSession
<1>2. PICK s \in Sessions : s = t.session BY DEF Token
<1>3. CASE ~Current(t)
  <2> DEFINE n == [step |-> "revoke", token |-> t]
  <2>1. n \in Pending BY DEF Pending, RenewalRequest
  <2>2. ~LogsIn(n) /\ n.step # "exchange" /\ n.token = t BY DEF LogsIn
  <2>3. request' = [request EXCEPT ![w] = n] /\ calls' \in Nat
    BY <1>0, <1>1, <1>3 DEF Exchange, Goto, IInv, TypeOK
  <2>4. UNCHANGED <<session, delivered, renewals>> BY <1>0, <1>1, <1>3 DEF Exchange
  <2> HIDE DEF n
  <2> QED BY <1>1, <2>1, <2>2, <2>3, <2>4, RequestStep DEF Exchange
<1>4. CASE Current(t)
  <2>a. PICK next : next = session[s].token + 1 OBVIOUS
  <2>b. PICK fresh : fresh = [user |-> t.user, session |-> s, token |-> next,
                              until |-> clock + r.life]
    OBVIOUS
  <2>c. PICK renewal : renewal = [session |-> s, from |-> t.token, to |-> next] OBVIOUS
  <2>1. /\ session' = [session EXCEPT ![s].token = next, ![s].until = r.now + r.life]
        /\ renewals' = renewals \union {renewal}
        /\ delivered' \subseteq delivered \union {fresh}
        /\ Done(w)
    BY <1>0, <1>1, <1>2, <1>4, <2>a, <2>b, <2>c DEF Exchange
  <2>2. /\ Stored(s) /\ session[s].user = t.user /\ session[s].token = t.token
        /\ session[s] \in Session
    BY <1>2, <1>4 DEF Current, Owned, Stored, IInv, TypeOK
  <2>3. r.life \in Int /\ r.life > 0 /\ r.now \in Nat /\ clock \in Nat
        /\ r.now + r.life <= session[s].opened + AbsoluteLife
    BY <1>0, <1>1, <1>2, <2>2 DEF ExchangeRequest, IInv, TypeOK, Times, ExchangesKeepTheLimit,
       KeepsTheLimit
  <2>4. next \in Nat /\ next = t.token + 1 /\ t.token \in Nat
    BY <2>2, <2>a DEF Session, Token
  <2>5. fresh \in Token /\ renewal \in Renewal
    BY <2>3, <2>4, <2>b, <2>c DEF Token, Times, Renewal
  <2>6. fresh.session = s /\ fresh.user = t.user /\ renewal.session = s /\ renewal.from = t.token
        /\ renewal.to = next
    BY <2>b, <2>c
  <2>7. /\ session'[s] \in Session /\ session'[s].user = session[s].user
        /\ session'[s].token = next /\ session'[s].opened = session[s].opened
        /\ session'[s].until = r.now + r.life /\ session'[s].revoked = session[s].revoked
        /\ session'[s].password = session[s].password /\ session'[s].late = session[s].late
    <3>1. session'[s] = [session[s] EXCEPT !.token = next, !.until = r.now + r.life]
      BY <2>1 DEF IInv, TypeOK
    <3>2. r.now + r.life \in Nat BY <2>3
    <3> QED BY <2>2, <2>4, <3>1, <3>2 DEF Session, Times
  <2>8. \A z \in Sessions : z # s => session'[z] = session[z] BY <2>1 DEF IInv, TypeOK
  <2>9. \A z \in Sessions : Stored(z)' <=> Stored(z)
    BY <2>2, <2>7, <2>8, AccessAssumption DEF Stored
  <2>10. \A x \in Callers : request'[x] = request[x] \/ request'[x] = NoRequest
    BY <2>1 DEF Done, Goto, IInv, TypeOK
  <2>11. account' = account /\ \A u : Exists(u)' <=> Exists(u) BY DEF Exchange, Exists
  <2>12. \A z \in Sessions : session'[z] = Unopened <=> session[z] = Unopened
    BY <2>2, <2>7, <2>8, AccessAssumption
  <2>13. TypeOK' BY <2>1, <2>5, <2>7, <2>8 DEF Exchange, Done, Goto, IInv, TypeOK
  <2>14. HeldTokensNameTheirSession'
    <3>1. \A x \in Held' : x \in Held \union {fresh} BY <2>1, <2>10 DEF Held, Holds
    <3>2. \A x \in Held : x \in Token BY HeldToken DEF Held, IInv, TypeOK
    <3>3. \A x \in Held : x.session \in Sessions /\ NamesItsSession(x)
      BY <3>2 DEF IInv, HeldTokensNameTheirSession, Token
    <3>4. \A x \in Held : NamesItsSession(x)'
      BY <2>7, <2>8, <2>9, <2>12, <3>3 DEF NamesItsSession
    <3>5. NamesItsSession(fresh)' BY <1>1, <1>2, <2>6, <2>7, <2>2, <2>12 DEF NamesItsSession
    <3> QED BY <3>1, <3>4, <3>5 DEF HeldTokensNameTheirSession
  <2>15. UniqueAddresses' /\ ResetsAreSpent'
    BY DEF Exchange, IInv, UniqueAddresses, Exists, ResetsAreSpent
  <2>16. LoginsKnowTheAccount'
    BY <2>10, <2>11 DEF IInv, LoginsKnowTheAccount, KnowsTheAccount, LogsIn
  <2>17. SessionsHaveVerifiedOwner'
    BY <2>7, <2>8, <2>9, <2>11 DEF IInv, SessionsHaveVerifiedOwner
  <2>18. SettledSessionsMatchPassword'
    BY <2>7, <2>8, <2>9, <2>11 DEF IInv, SettledSessionsMatchPassword, Live
  <2>19. SessionsKeepTheLimit' BY <2>3, <2>7, <2>8, <2>9 DEF IInv, SessionsKeepTheLimit
  <2>20. ExchangesKeepTheLimit'
    <3> SUFFICES ASSUME NEW x \in Callers, At(x, "exchange")' PROVE KeepsTheLimit(request[x])'
      BY DEF ExchangesKeepTheLimit
    <3>1. request'[x] = request[x] /\ At(x, "exchange") BY <2>10 DEF At
    <3>2. request[x].token.session \in Sessions
      BY <3>1, RequestKinds DEF At, IInv, TypeOK, ExchangeRequest, Token
    <3> QED BY <2>7, <2>8, <2>9, <3>1, <3>2 DEF IInv, ExchangesKeepTheLimit, KeepsTheLimit
  <2>21. RenewalsAreSpent'
    <3>1. \A a \in renewals : a.session \in Sessions /\ a.from \in Nat
      <4>1. \A a \in renewals : a \in Renewal BY DEF IInv, TypeOK
      <4> QED BY <4>1 DEF Renewal
    <3>2. \A a \in renewals : /\ a.to = a.from + 1 /\ session'[a.session] # Unopened
                              /\ Stored(a.session)' => a.from < session'[a.session].token
      <4> TAKE a \in renewals
      <4>1. /\ a.to = a.from + 1 /\ session[a.session] # Unopened
            /\ Stored(a.session) => a.from < session[a.session].token
        BY DEF IInv, RenewalsAreSpent
      <4>2. a.session \in Sessions /\ a.from \in Nat BY <3>1
      <4>3. CASE a.session = s
        <5>1. a.from < session[s].token /\ session[s].token \in Nat BY <2>2, <4>1, <4>3 DEF Session
        <5>2. a.from < next BY <2>a, <4>2, <5>1
        <5> QED BY <2>7, <2>12, <4>1, <4>2, <4>3, <5>2
      <4>4. CASE a.session # s BY <2>8, <2>9, <4>1, <4>2, <4>4
      <4> QED BY <4>3, <4>4
    <3>3. session'[s] # Unopened BY <2>7, AccessAssumption
    <3>4. /\ renewal.to = renewal.from + 1 /\ session'[renewal.session] # Unopened
          /\ renewal.from < session'[renewal.session].token
      BY <2>4, <2>6, <2>7, <3>3
    <3> QED BY <2>1, <3>2, <3>4 DEF RenewalsAreSpent
  <2>22. RefusalsNameTheirSession' /\ RefusedRenewalEndsSession'
    <3>1. replayed' = replayed BY DEF Exchange
    <3> QED BY <2>7, <2>8, <2>9, <2>12, <3>1 DEF IInv, TypeOK, RefusalsNameTheirSession,
            RefusedRenewalEndsSession, Live
  <2> QED BY <2>13, <2>14, <2>15, <2>16, <2>17, <2>18, <2>19, <2>20, <2>21, <2>22 DEF IInv
<1> QED BY <1>3, <1>4

(* ---------------------------------------------------------------------- *)
(* Password and account                                                    *)

LEMMA NewPasswordInv == ASSUME IInv, NEW w \in Callers, NewPassword(w) PROVE IInv'
<1>0. PICK r \in PasswordRequest : r = request[w]
  BY RequestKinds DEF NewPassword, At, IInv, TypeOK
<1>1. r.reset \in Resets /\ r.password \in Passwords BY DEF PasswordRequest
<1>2. CASE UNCHANGED <<account, session, resetUses>> /\ request' = [request EXCEPT ![w] = NoRequest]
  BY <1>2, NoRequestStep DEF NewPassword, Done, Goto
<1>3. CASE \E u \in Users :
             /\ {v \in Users : Accepts(v, r.reset)} = {u}
             /\ account' = [account EXCEPT ![u] = WithPassword(account[u], r.password)]
             /\ session' = SessionsEndedFor(u)
             /\ resetUses' = [resetUses EXCEPT ![r.reset] = resetUses[r.reset] + 1]
             /\ request' = [x \in Callers |-> IF x = w THEN NoRequest ELSE Overtaken(request[x], u)]
  <2>1. PICK u \in Users :
          /\ Accepts(u, r.reset)
          /\ account' = [account EXCEPT ![u] = WithPassword(account[u], r.password)]
          /\ session' = Revoked(SessionsOf(u))
          /\ resetUses' = [resetUses EXCEPT ![r.reset] = resetUses[r.reset] + 1]
          /\ request' = [x \in Callers |-> IF x = w THEN NoRequest ELSE Overtaken(request[x], u)]
    BY <1>3 DEF SessionsEndedFor
  <2>2. account[u] \in Account /\ account[u].reset = r.reset
    BY <2>1 DEF Accepts, Exists, IInv, TypeOK
  <2>3. \A v \in Users : account'[v] = IF v = u THEN WithPassword(account[u], r.password)
                                       ELSE account[v]
    BY <2>1 DEF IInv, TypeOK
  <2>4. /\ account'[u] \in Account /\ account'[u].email = account[u].email
        /\ account'[u].password = r.password /\ account'[u].reset = NoReset
        /\ account'[u].verified = account[u].verified
    <3>1. account'[u] = [account[u] EXCEPT !.password = r.password, !.reset = NoReset,
                                           !.resetUntil = 0]
      BY <2>3 DEF WithPassword
    <3>2. account[u] = [email |-> account[u].email, password |-> account[u].password,
                        verified |-> account[u].verified, reset |-> account[u].reset,
                        resetUntil |-> account[u].resetUntil]
      BY <2>2 DEF Account
    <3>3. account'[u] = [email |-> account[u].email, password |-> r.password,
                         verified |-> account[u].verified, reset |-> NoReset, resetUntil |-> 0]
      BY <3>1, <3>2
    <3>4. account[u].email \in Emails /\ account[u].verified \in BOOLEAN BY <2>2 DEF Account
    <3> QED BY <1>1, <3>3, <3>4 DEF Account, Times
  <2>5. \A v \in Users : /\ Exists(v)' <=> Exists(v)
                         /\ account[v] # NotYet => account'[v] # NotYet
    BY <2>2, <2>3, <2>4, AccessAssumption DEF Exists
  <2>6. /\ SessionsKept /\ session' \in [Sessions -> Session \union {Unopened, Gone}]
        /\ \A s \in SessionsOf(u) : ~Live(s)'
    BY <2>1, RevokedSessions DEF IInv, SessionsOf
  <2>7. \A x \in Callers : /\ request'[x] \in Pending \union {NoRequest}
                           /\ x = w => request'[x] = NoRequest
                           /\ ~LogsIn(request[x]) => request'[x] \in {request[x], NoRequest}
                           /\ LogsIn(request'[x]) =>
                                /\ LogsIn(request[x]) /\ request'[x].user = request[x].user
                                /\ request'[x].email = request[x].email
                                /\ request'[x].step = request[x].step
                                /\ request'[x].stored = request[x].stored
                                /\ request[x].user \in Users
                                /\ request[x].user # u => request'[x].late = request[x].late
                                /\ request[x].user = u => request'[x].late
                           /\ ~Holds(request[x]) => ~Holds(request'[x])
                           /\ request'[x] # NoRequest => request'[x].step = request[x].step
    <3> TAKE x \in Callers
    <3>1. CASE x = w BY <2>1, <3>1 DEF LogsIn, Holds
    <3>2. CASE x # w /\ ~(LogsIn(request[x]) /\ request[x].user = u)
      <4>1. request'[x] = request[x] BY <2>1, <3>2 DEF Overtaken
      <4>2. LogsIn(request[x]) => request[x].user \in Users
        BY RequestKinds DEF LogsIn, IInv, TypeOK, LoginRequest
      <4> QED BY <3>2, <4>1, <4>2 DEF IInv, TypeOK
    <3>3. CASE x # w /\ LogsIn(request[x]) /\ request[x].user = u
      <4>1. request[x] \in LoginRequest BY <3>3, RequestKinds DEF LogsIn, IInv, TypeOK
      <4>2. request'[x] = [request[x] EXCEPT !.late = TRUE] BY <2>1, <3>3 DEF Overtaken
      <4>3. /\ request'[x] \in LoginRequest /\ request'[x].late
            /\ request'[x].user = request[x].user /\ request'[x].email = request[x].email
            /\ request'[x].step = request[x].step /\ request'[x].stored = request[x].stored
        BY <4>1, <4>2 DEF LoginRequest
      <4>4. ~Holds(request'[x]) BY <3>3, <4>3 DEF Holds, LogsIn
      <4> QED BY <3>3, <4>3, <4>4 DEF Pending
    <3> QED BY <3>1, <3>2, <3>3
  <2>8. TypeOK'
    <3>1. request' \in [Callers -> Pending \union {NoRequest}] BY <2>1, <2>7
    <3>2. account' \in [Users -> Account \union {NotYet, Gone}]
      BY <2>1, <2>3, <2>4 DEF IInv, TypeOK
    <3>3. resetUses' \in [Resets -> Nat] BY <1>1, <2>1 DEF IInv, TypeOK
    <3> QED BY <2>6, <3>1, <3>2, <3>3 DEF NewPassword, IInv, TypeOK
  <2>9. \A x \in Callers : Holds(request'[x]) => request'[x] = request[x]
    BY <2>7 DEF Holds, LogsIn
  <2>10. HeldTokensNameTheirSession'
    <3>1. \A t \in Held' : t \in Held
      <4>1. delivered' = delivered BY DEF NewPassword
      <4> QED BY <2>9, <4>1 DEF Held, Holds
    <3>2. \A t \in Held : t \in Token BY HeldToken DEF Held, IInv, TypeOK
    <3> QED BY <2>6, <3>1, <3>2 DEF IInv, HeldTokensNameTheirSession, NamesItsSession,
            SessionsKept, Token
  <2>11. UniqueAddresses' BY <2>3, <2>4, <2>5 DEF IInv, UniqueAddresses
  <2>12. LoginsKnowTheAccount'
    <3> SUFFICES ASSUME NEW x \in Callers, LogsIn(request[x])' PROVE KnowsTheAccount(request[x])'
      BY DEF LoginsKnowTheAccount
    <3>1. LogsIn(request'[x]) OBVIOUS
    <3>2. KnowsTheAccount(request[x]) /\ request[x].user \in Users
      BY <2>7, <3>1 DEF IInv, LoginsKnowTheAccount
    <3>3. CASE request[x].user = u
      BY <2>4, <2>5, <2>7, <3>1, <3>2, <3>3 DEF KnowsTheAccount
    <3>4. CASE request[x].user # u
      BY <2>3, <2>5, <2>7, <3>1, <3>2, <3>4 DEF KnowsTheAccount
    <3> QED BY <3>3, <3>4
  <2>13. \A s \in Sessions : Stored(s) => session[s].user \in Users
    BY DEF IInv, TypeOK, Stored, Session
  <2>14. SessionsHaveVerifiedOwner'
    BY <2>3, <2>4, <2>5, <2>6, <2>13 DEF IInv, SessionsHaveVerifiedOwner, SessionsKept
  <2>15. SettledSessionsMatchPassword'
    <3> SUFFICES ASSUME NEW s \in Sessions, Live(s)', ~session'[s].late
                 PROVE  session'[s].password = account'[session'[s].user].password
      BY DEF SettledSessionsMatchPassword
    <3>1. Live(s) /\ session'[s].user = session[s].user /\ ~session[s].late
          /\ session'[s].password = session[s].password
      BY <2>6 DEF SessionsKept, Live
    <3>2. session[s].user # u BY <2>6, <3>1 DEF SessionsOf, Live
    <3> QED BY <2>3, <2>13, <3>1, <3>2 DEF IInv, SettledSessionsMatchPassword, Live
  <2>16. SessionsKeepTheLimit' BY <2>6 DEF IInv, SessionsKeepTheLimit, SessionsKept
  <2>17. ExchangesKeepTheLimit'
    <3> SUFFICES ASSUME NEW x \in Callers, At(x, "exchange")' PROVE KeepsTheLimit(request[x])'
      BY DEF ExchangesKeepTheLimit
    <3>1. request'[x] = request[x] /\ At(x, "exchange") BY <2>9 DEF At, Holds
    <3>2. request[x].token.session \in Sessions
      BY <3>1, RequestKinds DEF At, IInv, TypeOK, ExchangeRequest, Token
    <3> QED BY <2>6, <3>1, <3>2 DEF IInv, ExchangesKeepTheLimit, KeepsTheLimit, SessionsKept
  <2>18. RenewalsAreSpent'
    <3>1. renewals' = renewals BY DEF NewPassword
    <3>2. \A a \in renewals : a \in Renewal BY DEF IInv, TypeOK
    <3>3. \A a \in renewals : a.session \in Sessions BY <3>2 DEF Renewal
    <3> QED BY <2>6, <3>1, <3>3 DEF IInv, RenewalsAreSpent, SessionsKept
  <2>19. ResetsAreSpent'
    <3>1. drawn' = drawn BY DEF NewPassword
    <3>2. r.reset # NoReset /\ r.reset \in Nat BY <1>1, AccessAssumption DEF Resets
    <3>3. \A v \in Users : v # u /\ Exists(v) => account[v].reset # r.reset
      BY <2>1, <2>2, <3>2 DEF IInv, ResetsAreSpent, Accepts
    <3>4. resetUses[r.reset] = 0 /\ r.reset <= drawn
      <4>1. Exists(u) /\ account[u].reset = r.reset BY <2>1 DEF Accepts
      <4>2. resetUses[r.reset] \in Nat BY <1>1 DEF IInv, TypeOK
      <4>3. ~(resetUses[r.reset] > 0) BY <1>1, <4>1 DEF IInv, ResetsAreSpent
      <4>4. r.reset <= drawn BY <3>2, <4>1 DEF IInv, ResetsAreSpent
      <4> QED BY <4>2, <4>3, <4>4
    <3>5. \A k \in Resets : resetUses'[k] = IF k = r.reset THEN 1 ELSE resetUses[k]
      BY <1>1, <2>1, <3>4 DEF IInv, TypeOK
    <3>6. \A v \in Users : Exists(v)' /\ account'[v].reset # NoReset =>
                             v # u /\ Exists(v) /\ account'[v].reset = account[v].reset
      BY <2>3, <2>4, <2>5
    <3>7. \A k \in Resets : k # NoReset BY AccessAssumption DEF Resets
    <3>8. \A v \in Users : Exists(v)' /\ account'[v].reset # NoReset => account'[v].reset <= drawn
      BY <3>6 DEF IInv, ResetsAreSpent
    <3>9. \A v, z \in Users : Exists(v)' /\ Exists(z)' /\ account'[v].reset = account'[z].reset =>
                                v = z \/ account'[v].reset = NoReset
      BY <3>6 DEF IInv, ResetsAreSpent
    <3>10. \A k \in Resets : resetUses'[k] > 0 =>
             /\ k <= drawn /\ resetUses'[k] = 1
             /\ \A v \in Users : Exists(v)' => account'[v].reset # k
      BY <3>3, <3>4, <3>5, <3>6, <3>7 DEF IInv, ResetsAreSpent
    <3> QED BY <3>1, <3>8, <3>9, <3>10 DEF ResetsAreSpent
  <2>20. RefusalsNameTheirSession' /\ RefusedRenewalEndsSession'
    BY <2>6 DEF NewPassword, IInv, TypeOK, RefusalsNameTheirSession, RefusedRenewalEndsSession,
       SessionsKept, Live
  <2> QED BY <2>8, <2>10, <2>11, <2>12, <2>14, <2>15, <2>16, <2>17, <2>18, <2>19, <2>20 DEF IInv
<1> QED BY <1>0, <1>2, <1>3 DEF NewPassword

LEMMA DeleteInv == ASSUME IInv, NEW w \in Callers, Delete(w) PROVE IInv'
<1>0. PICK r \in DeletionRequest : r = request[w]
  BY RequestKinds DEF Delete, At, IInv, TypeOK
<1>1. PICK u \in Users : u = r.user BY DEF DeletionRequest
<1>2. CASE UNCHANGED <<account, session>> BY <1>2, NoRequestStep DEF Delete
<1>3. CASE /\ HasEmail(u, r.email)
           /\ account' = [account EXCEPT ![u] = Gone]
           /\ session' = [s \in Sessions |-> IF s \in SessionsOf(u) THEN Gone ELSE session[s]]
  <2>1. \A v \in Users : account'[v] = IF v = u THEN Gone ELSE account[v]
    BY <1>3 DEF IInv, TypeOK
  <2>2. \A v \in Users : /\ Exists(v)' <=> (v # u /\ Exists(v))
                         /\ account[v] # NotYet => account'[v] # NotYet
    BY <2>1, AccessAssumption DEF Exists
  <2>3. \A s \in Sessions : /\ session'[s] = IF s \in SessionsOf(u) THEN Gone ELSE session[s]
                            /\ Stored(s)' <=> (Stored(s) /\ session[s].user # u)
                            /\ session[s] # Unopened => session'[s] # Unopened
    BY <1>3, AccessAssumption DEF SessionsOf, Stored
  <2>4. \A s \in Sessions : Stored(s)' => Stored(s) /\ session'[s] = session[s]
                                          /\ session[s].user # u
    BY <2>3 DEF SessionsOf, Stored
  <2>5. \A x \in Callers : request'[x] = request[x] \/ request'[x] = NoRequest
    BY DEF Delete, Done, Goto, IInv, TypeOK
  <2>6. TypeOK' BY <1>3 DEF Delete, Done, Goto, IInv, TypeOK
  <2>7. HeldTokensNameTheirSession'
    <3>1. \A t \in Held' : t \in Held
      <4>1. delivered' = delivered BY DEF Delete
      <4> QED BY <2>5, <4>1 DEF Held, Holds
    <3>2. \A t \in Held : t \in Token BY HeldToken DEF Held, IInv, TypeOK
    <3>3. \A t \in Held : t.session \in Sessions /\ NamesItsSession(t)
      BY <3>2 DEF IInv, HeldTokensNameTheirSession, Token
    <3>4. \A t \in Held : NamesItsSession(t)' BY <2>3, <2>4, <3>3 DEF NamesItsSession
    <3> QED BY <3>1, <3>4 DEF HeldTokensNameTheirSession
  <2>8. UniqueAddresses' BY <2>1, <2>2 DEF IInv, UniqueAddresses
  <2>9. LoginsKnowTheAccount'
    <3> SUFFICES ASSUME NEW x \in Callers, LogsIn(request[x])' PROVE KnowsTheAccount(request[x])'
      BY DEF LoginsKnowTheAccount
    <3>1. request'[x] = request[x] /\ LogsIn(request[x]) BY <2>5 DEF LogsIn
    <3>2. request[x].user \in Users /\ KnowsTheAccount(request[x])
      BY <3>1, RequestKinds DEF LogsIn, IInv, TypeOK, LoginRequest, LoginsKnowTheAccount
    <3> QED BY <2>1, <2>2, <3>1, <3>2 DEF KnowsTheAccount
  <2>10. \A s \in Sessions : Stored(s) => session[s].user \in Users
    BY DEF IInv, TypeOK, Stored, Session
  <2>11. SessionsHaveVerifiedOwner'
    BY <2>1, <2>2, <2>4, <2>10 DEF IInv, SessionsHaveVerifiedOwner
  <2>12. SettledSessionsMatchPassword'
    BY <2>1, <2>4, <2>10 DEF IInv, SettledSessionsMatchPassword, Live
  <2>13. SessionsKeepTheLimit' BY <2>4 DEF IInv, SessionsKeepTheLimit
  <2>14. ExchangesKeepTheLimit'
    <3> SUFFICES ASSUME NEW x \in Callers, At(x, "exchange")' PROVE KeepsTheLimit(request[x])'
      BY DEF ExchangesKeepTheLimit
    <3>1. request'[x] = request[x] /\ At(x, "exchange") BY <2>5 DEF At
    <3>2. request[x].token.session \in Sessions
      BY <3>1, RequestKinds DEF At, IInv, TypeOK, ExchangeRequest, Token
    <3> QED BY <2>4, <3>1, <3>2 DEF IInv, ExchangesKeepTheLimit, KeepsTheLimit
  <2>15. RenewalsAreSpent'
    <3>1. renewals' = renewals BY DEF Delete
    <3>2. \A a \in renewals : a \in Renewal BY DEF IInv, TypeOK
    <3>3. \A a \in renewals : a.session \in Sessions BY <3>2 DEF Renewal
    <3> QED BY <2>3, <2>4, <3>1, <3>3 DEF IInv, RenewalsAreSpent
  <2>16. ResetsAreSpent'
    <3>1. drawn' = drawn /\ resetUses' = resetUses BY DEF Delete
    <3>2. \A v \in Users : Exists(v)' => Exists(v) /\ account'[v] = account[v] BY <2>1, <2>2
    <3> QED BY <3>1, <3>2 DEF IInv, ResetsAreSpent
  <2>17. RefusalsNameTheirSession' /\ RefusedRenewalEndsSession'
    BY <2>3, <2>4 DEF Delete, IInv, TypeOK, RefusalsNameTheirSession, RefusedRenewalEndsSession,
       Live
  <2> QED BY <2>6, <2>7, <2>8, <2>9, <2>11, <2>12, <2>13, <2>14, <2>15, <2>16, <2>17 DEF IInv
<1> QED BY <1>0, <1>1, <1>2, <1>3 DEF Delete

(* ---------------------------------------------------------------------- *)
(* The invariant, and what follows from it                                 *)

LEMMA InitInv == ASSUME Init PROVE IInv
<1>1. PICK first \in SUBSET Registered, email \in [Users -> Emails],
           password \in [Users -> Passwords] :
        /\ \A u, v \in first : email[u] = email[v] => u = v
        /\ account = [u \in Users |->
             IF u \in first THEN NewAccount(email[u], password[u], TRUE) ELSE NotYet]
  BY DEF Init
<1>2. first \subseteq Users BY AccessAssumption
<1>3. \A u \in first : /\ account[u] \in Account /\ account[u] \notin {NotYet, Gone}
                       /\ account[u].email = email[u] /\ account[u].reset = NoReset
  <2> TAKE u \in first
  <2>1. email[u] \in Emails /\ password[u] \in Passwords /\ TRUE \in BOOLEAN BY <1>2
  <2>2. account[u] = NewAccount(email[u], password[u], TRUE) BY <1>1, <1>2
  <2> DEFINE n == NewAccount(email[u], password[u], TRUE)
  <2>3. n \in Account /\ n \notin {NotYet, Gone} /\ n.email = email[u] /\ n.reset = NoReset
    <3>1. n \in Account BY <2>1 DEF NewAccount, Account, Times
    <3> QED BY <3>1, AccessAssumption DEF NewAccount
  <2> QED BY <2>2, <2>3
<1>4. \A u \in Users : u \notin first => account[u] = NotYet BY <1>1
<1>5. \A u \in Users : Exists(u) => u \in first BY <1>4 DEF Exists
<1>6. Held = {} BY DEF Init, Held, Holds
<1>7. \A s \in Sessions : session[s] = Unopened /\ ~Stored(s) BY DEF Init, Stored
<1>8. TypeOK
  <2>1. account \in [Users -> Account \union {NotYet, Gone}]
    <3>1. \A u \in Users : account[u] \in Account \union {NotYet, Gone} BY <1>3, <1>4
    <3>2. account = [u \in Users |-> account[u]] BY <1>1
    <3> QED BY <3>1, <3>2
  <2>2. session \in [Sessions -> Session \union {Unopened, Gone}]
        /\ request \in [Callers -> Pending \union {NoRequest}] /\ resetUses \in [Resets -> Nat]
    BY DEF Init
  <2>3. drawn \in 0 .. MaxResets /\ clock \in Nat /\ calls \in Nat BY AccessAssumption DEF Init
  <2>4. /\ delivered \subseteq Token /\ links \subseteq Link /\ mailed \subseteq Resets
        /\ renewals \subseteq Renewal /\ replayed \subseteq Sessions
    BY DEF Init
  <2> QED BY <2>1, <2>2, <2>3, <2>4 DEF TypeOK, Times
<1>9. UniqueAddresses
  <2> SUFFICES ASSUME NEW u \in Users, NEW v \in Users, Exists(u), Exists(v),
                      account[u].email = account[v].email
               PROVE  u = v
    BY DEF UniqueAddresses
  <2>1. u \in first /\ v \in first BY <1>5
  <2>2. email[u] = email[v] BY <1>3, <2>1
  <2>3. \A x, y \in first : email[x] = email[y] => x = y BY <1>1
  <2> QED BY <2>1, <2>2, <2>3
<1>10. HeldTokensNameTheirSession BY <1>6 DEF HeldTokensNameTheirSession
<1>11. LoginsKnowTheAccount BY DEF Init, LoginsKnowTheAccount, LogsIn
<1>12. SessionsHaveVerifiedOwner /\ SettledSessionsMatchPassword /\ SessionsKeepTheLimit
  BY <1>7 DEF SessionsHaveVerifiedOwner, SettledSessionsMatchPassword, SessionsKeepTheLimit, Live
<1>13. ExchangesKeepTheLimit BY DEF Init, ExchangesKeepTheLimit, At
<1>14. RenewalsAreSpent /\ RefusalsNameTheirSession /\ RefusedRenewalEndsSession
  BY DEF Init, RenewalsAreSpent, RefusalsNameTheirSession, RefusedRenewalEndsSession
<1>15. ResetsAreSpent
  <2>1. \A k \in Resets : resetUses[k] = 0 BY DEF Init
  <2>2. \A u \in Users : Exists(u) => account[u].reset = NoReset BY <1>3, <1>5
  <2> QED BY <2>1, <2>2 DEF ResetsAreSpent
<1> QED BY <1>8, <1>9, <1>10, <1>11, <1>12, <1>13, <1>14, <1>15 DEF IInv

LEMMA StutterInv == ASSUME IInv, UNCHANGED vars PROVE IInv'
BY DEF vars, IInv, TypeOK, HeldTokensNameTheirSession, Held, Holds, NamesItsSession,
       UniqueAddresses, LoginsKnowTheAccount, LogsIn, KnowsTheAccount,
       SessionsHaveVerifiedOwner, SettledSessionsMatchPassword, SessionsKeepTheLimit,
       ExchangesKeepTheLimit, At, KeepsTheLimit, RenewalsAreSpent, ResetsAreSpent,
       RefusalsNameTheirSession, RefusedRenewalEndsSession, Stored, Live, Exists

LEMMA NextInv == ASSUME IInv, Next PROVE IInv'
<1>1. CASE Tick BY <1>1, TickInv
<1>2. CASE \E w \in Callers :
             Stop(w) \/ Register(w) \/ Compare(w) \/ ReadLimit(w) \/ Exchange(w)
             \/ RevokeRefused(w) \/ NewPassword(w) \/ Delete(w)
  BY <1>2, StopInv, RegisterInv, CompareInv, ReadLimitInv, ExchangeInv, RevokeRefusedInv,
     NewPasswordInv, DeleteInv
<1>3. CASE \E w \in Callers, s \in Sessions : OpenSession(w, s) BY <1>3, OpenSessionInv
<1>4. CASE \E w \in Callers, e \in Emails, p \in Passwords :
             BeginRegister(w, e, p) \/ BeginLogin(w, e, p)
  BY <1>4, BeginRegisterInv, BeginLoginInv
<1>5. CASE \E w \in Callers, t \in delivered : BeginRenewal(w, t) BY <1>5, BeginRenewalInv
<1>6. CASE \E w \in Callers, k \in mailed, p \in Passwords : BeginNewPassword(w, k, p)
  BY <1>6, BeginNewPasswordInv
<1>7. CASE \E w \in Callers, u \in Users, e \in Emails : BeginDelete(w, u, e)
  BY <1>7, BeginDeleteInv
<1>8. CASE \E link \in links : Confirm(link) BY <1>8, ConfirmInv
<1>9. CASE \E t \in delivered : Logout(t) BY <1>9, LogoutInv
<1>10. CASE \E e \in Emails : RequestReset(e) BY <1>10, RequestResetInv
<1> QED BY <1>1, <1>2, <1>3, <1>4, <1>5, <1>6, <1>7, <1>8, <1>9, <1>10 DEF Next

\* The invariant holds in every state: the types, and what sessions, tokens, accounts and
\* requests in flight know of each other.
THEOREM AccessInvariant == Spec => []IInv
<1>1. Init => IInv BY InitInv
<1>2. IInv /\ [Next]_vars => IInv' BY NextInv, StutterInv
<1> QED BY <1>1, <1>2, PTL DEF Spec

\* A refresh token is exchanged once, however many renewals carry it.
THEOREM RenewedOnce == Spec => []OneRenewalPerToken
<1>1. IInv => OneRenewalPerToken
  <2> SUFFICES ASSUME IInv, NEW a \in renewals, NEW b \in renewals,
                      a.session = b.session, a.from = b.from
               PROVE  a = b
    BY DEF OneRenewalPerToken
  <2>1. a \in Renewal /\ b \in Renewal BY DEF IInv, TypeOK
  <2>2. a.to = a.from + 1 /\ b.to = b.from + 1 BY DEF IInv, RenewalsAreSpent
  <2> QED BY <2>1, <2>2 DEF Renewal
<1> QED BY <1>1, AccessInvariant, PTL

\* The session named by a refused renewal is over.
THEOREM RefusalEndsSession == Spec => []RefusedRenewalEndsSession
<1>1. IInv => RefusedRenewalEndsSession BY DEF IInv
<1> QED BY <1>1, AccessInvariant, PTL

\* Every stored session is of an account that exists and was confirmed.
THEOREM OwnedByVerified == Spec => []SessionsHaveVerifiedOwner
<1>1. IInv => SessionsHaveVerifiedOwner BY DEF IInv
<1> QED BY <1>1, AccessInvariant, PTL

\* Only a login the password change overtook leaves a live session of the former password.
THEOREM OpenedWithThePassword == Spec => []SettledSessionsMatchPassword
<1>1. IInv => SettledSessionsMatchPassword BY DEF IInv
<1> QED BY <1>1, AccessInvariant, PTL

\* A reset token sets a password once.
THEOREM ResetOnce == Spec => []ResetTokenWorksOnce
<1>1. IInv => ResetTokenWorksOnce
  <2> SUFFICES ASSUME IInv, NEW k \in Resets PROVE resetUses[k] <= 1
    BY DEF ResetTokenWorksOnce
  <2>1. resetUses[k] \in Nat BY DEF IInv, TypeOK
  <2>2. resetUses[k] > 0 => resetUses[k] = 1 BY DEF IInv, ResetsAreSpent
  <2> QED BY <2>1, <2>2
<1> QED BY <1>1, AccessInvariant, PTL

(* ---------------------------------------------------------------------- *)
(* Sessions implement the register                                         *)

Book == [s \in Sessions |-> Shown(s)]

\* A step that keeps every session, the exchanges and the clock is a stutter.
LEMMA StutterBook ==
  ASSUME UNCHANGED <<session, renewals, clock>>
  PROVE  UNCHANGED <<Book, renewals, clock>>
BY DEF Book, Shown, Live, Stored

\* A step that ends a set of live sessions and keeps the others is an End.
LEMMA EndBook ==
  ASSUME NEW S \in SUBSET Sessions, \A s \in S : Live(s),
         \A s \in S : ~Live(s)' /\ session'[s] # Unopened,
         \A s \in Sessions \ S : session'[s] = session[s] \/ (~Live(s) /\ ~Live(s)'
                                   /\ session[s] # Unopened /\ session'[s] # Unopened),
         UNCHANGED <<renewals, clock>>
  PROVE  SessionBook!Next
<1>1. \A s \in S : Shown(s).phase = "open" BY DEF Shown, Live, Stored
<1>2. \A s \in S : Shown(s)' = [phase |-> "ended", token |-> 0, opened |-> 0, until |-> 0]
  BY DEF Shown
<1>3. \A s \in Sessions \ S : Shown(s)' = Shown(s)
  <2> TAKE s \in Sessions \ S
  <2>1. CASE session'[s] = session[s] BY <2>1 DEF Shown, Live, Stored
  <2>2. CASE ~Live(s) /\ ~Live(s)' /\ session[s] # Unopened /\ session'[s] # Unopened
    BY <2>2 DEF Shown
  <2> QED BY <2>1, <2>2
<1>4. SessionBook!End(S)
  <2>1. \A s \in S : SessionBook!Phase(s, "open") BY <1>1 DEF SessionBook!Phase
  <2>2. [s \in Sessions |-> Shown(s)]' =
          [s \in Sessions |-> IF s \in S
             THEN [phase |-> "ended", token |-> 0, opened |-> 0, until |-> 0]
             ELSE [z \in Sessions |-> Shown(z)][s]]
    BY <1>2, <1>3
  <2> QED BY <2>1, <2>2 DEF SessionBook!End
<1> QED BY <1>4 DEF SessionBook!Next

\* Revoking a set of sessions is an End.
LEMMA RevokeBook ==
  ASSUME IInv, NEW S \in SUBSET Sessions, session' = Revoked(S), UNCHANGED <<renewals, clock>>
  PROVE  SessionBook!Next
<1> DEFINE L == {s \in S : Live(s)}
<1>1. L \in SUBSET Sessions /\ \A s \in L : Live(s) OBVIOUS
<1>2. /\ SessionsKept
      /\ \A s \in Sessions : s \in S => ~Live(s)'
  BY RevokedSessions DEF IInv
<1>3. \A s \in L : ~Live(s)' /\ session'[s] # Unopened
  <2>1. \A s \in L : session[s] # Unopened BY DEF Live, Stored
  <2> QED BY <1>1, <1>2, <2>1 DEF SessionsKept
<1>4. \A s \in Sessions \ L : session'[s] = session[s] \/ (~Live(s) /\ ~Live(s)'
                                 /\ session[s] # Unopened /\ session'[s] # Unopened)
  <2> TAKE s \in Sessions \ L
  <2>1. CASE s \in S /\ Stored(s) BY <1>2, <2>1 DEF SessionsKept, Stored
  <2>2. CASE ~(s \in S /\ Stored(s)) BY <2>2 DEF Revoked
  <2> QED BY <2>1, <2>2
<1> HIDE DEF L
<1> QED BY <1>1, <1>3, <1>4, EndBook

\* Only session s changes, and the register shows it open afterwards.
LEMMA BecomesBook ==
  ASSUME NEW s \in Sessions, NEW token, NEW opened,
         \A z \in Sessions \ {s} : session'[z] = session[z],
         Live(s)', session'[s].token = token, session'[s].opened = opened,
         session'[s].until <= opened + AbsoluteLife, UNCHANGED clock
  PROVE  SessionBook!Becomes(s, token, opened)
<1>1. Shown(s)' = [phase |-> "open", token |-> token, opened |-> opened,
                   until |-> session'[s].until]
  BY DEF Shown, Live, Stored
<1>2. \A z \in Sessions \ {s} : Shown(z)' = Shown(z) BY DEF Shown, Live, Stored
<1>3. [z \in Sessions |-> Shown(z)]'[s] = Shown(s)' OBVIOUS
<1>4. [z \in Sessions |-> Shown(z)]' =
        [[z \in Sessions |-> Shown(z)] EXCEPT ![s] =
           [phase |-> "open", token |-> token, opened |-> opened,
            until |-> [z \in Sessions |-> Shown(z)]'[s].until]]
  <2>1. PICK row : row = [phase |-> "open", token |-> token, opened |-> opened,
                          until |-> session'[s].until]
    OBVIOUS
  <2>2. [z \in Sessions |-> Shown(z)]' = [[z \in Sessions |-> Shown(z)] EXCEPT ![s] = row]
    BY <1>1, <1>2, <2>1
  <2>3. [z \in Sessions |-> Shown(z)]'[s].until = session'[s].until BY <1>1, <1>3
  <2> QED BY <2>1, <2>2, <2>3
<1>5. [z \in Sessions |-> Shown(z)]'[s].until <= opened + AbsoluteLife BY <1>1, <1>3
<1> QED BY <1>4, <1>5 DEF SessionBook!Becomes

LEMMA StepBook ==
  ASSUME IInv, IInv', Next
  PROVE  SessionBook!Next \/ UNCHANGED <<Book, renewals, clock>>
<1>1. CASE Tick
  <2>1. \A s \in Sessions : Shown(s)' = Shown(s) BY <1>1 DEF Tick, Shown, Live, Stored
  <2>2. [s \in Sessions |-> Shown(s)]' = [s \in Sessions |-> Shown(s)] BY <2>1
  <2>3. SessionBook!Pass BY <1>1, <2>2 DEF Tick, SessionBook!Pass
  <2> QED BY <2>3 DEF SessionBook!Next
<1>2. CASE \E w \in Callers, s \in Sessions : OpenSession(w, s)
  <2>1. PICK w \in Callers, s \in Sessions : OpenSession(w, s) BY <1>2
  <2>2. CASE UNCHANGED session BY <2>1, <2>2, StutterBook DEF OpenSession
  <2>3. CASE ~UNCHANGED session
    <3>1. PICK row : row = [user |-> request[w].user, token |-> 0, opened |-> clock,
                     until |-> clock + RefreshLife, revoked |-> FALSE,
                     password |-> request[w].stored, late |-> request[w].late]
      OBVIOUS
    <3>2. session[s] = Unopened /\ session' = [session EXCEPT ![s] = row]
          /\ clock' = clock /\ renewals' = renewals
      BY <2>1, <2>3, <3>1 DEF OpenSession
    <3>3. session'[s] = row /\ \A z \in Sessions \ {s} : session'[z] = session[z]
      BY <3>2 DEF IInv, TypeOK
    <3>4. row # Unopened /\ row # Gone
      <4>1. request[w] \in LoginRequest
        BY <2>1, RequestKinds DEF OpenSession, At, IInv, TypeOK
      <4>2. clock \in Nat /\ clock + RefreshLife \in Nat
        BY AccessAssumption DEF IInv, TypeOK, Times
      <4>3. row \in Session BY <3>1, <4>1, <4>2 DEF Session, LoginRequest, Times
      <4> QED BY <4>3, AccessAssumption
    <3>5. Live(s)' BY <3>1, <3>3, <3>4 DEF Live, Stored
    <3>6. session'[s].until <= clock + AbsoluteLife
      BY <3>1, <3>3, AccessAssumption DEF IInv, TypeOK, Times
    <3>7. session'[s].token = 0 /\ session'[s].opened = clock BY <3>1, <3>3
    <3>8. SessionBook!Becomes(s, 0, clock) BY <3>2, <3>3, <3>5, <3>6, <3>7, BecomesBook
    <3>9. SessionBook!Phase(s, "none") BY <3>2 DEF SessionBook!Phase, Shown
    <3>10. SessionBook!Open(s) BY <3>2, <3>8, <3>9 DEF SessionBook!Open
    <3> QED BY <3>10 DEF SessionBook!Next
  <2> QED BY <2>2, <2>3
<1>3. CASE \E w \in Callers : Exchange(w)
  <2>1. PICK w \in Callers : Exchange(w) BY <1>3
  <2>2. PICK r \in ExchangeRequest : r = request[w] /\ At(w, "exchange")
    BY <2>1, RequestKinds DEF Exchange, At, IInv, TypeOK
  <2>3. PICK t \in Token : t = r.token BY DEF ExchangeRequest
  <2>4. PICK s \in Sessions : s = t.session BY DEF Token
  <2>5. CASE ~Current(t)
    <3>1. UNCHANGED <<session, renewals, clock>> BY <2>1, <2>2, <2>3, <2>5 DEF Exchange
    <3> QED BY <3>1, StutterBook
  <2>6. CASE Current(t)
    <3>1. PICK token : token = session[s].token OBVIOUS
    <3>2. PICK opened : opened = session[s].opened OBVIOUS
    <3>3. /\ session' = [session EXCEPT ![s].token = token + 1, ![s].until = r.now + r.life]
          /\ renewals' = renewals \union {[session |-> s, from |-> token, to |-> token + 1]}
          /\ clock' = clock
      BY <2>1, <2>2, <2>3, <2>4, <2>6, <3>1 DEF Exchange, Current
    <3>4. Live(s) /\ session[s] \in Session /\ clock <= session[s].until
      BY <2>4, <2>6 DEF Current, Owned, Live, Stored, IInv, TypeOK
    <3>5. session'[s] = [session[s] EXCEPT !.token = token + 1, !.until = r.now + r.life]
          /\ \A z \in Sessions \ {s} : session'[z] = session[z]
      BY <3>3 DEF IInv, TypeOK
    <3>6. session'[s].token = token + 1 /\ session'[s].opened = opened
          /\ session'[s].revoked = session[s].revoked
      BY <3>2, <3>4, <3>5 DEF Session
    <3>7. r.now + r.life \in Nat
      <4>1. r.now \in Nat /\ r.life \in Int BY DEF ExchangeRequest, Times
      <4>2. r.life > 0 BY <2>2 DEF IInv, ExchangesKeepTheLimit, KeepsTheLimit
      <4> QED BY <4>1, <4>2
    <3>8. session'[s] # Unopened /\ Stored(s)'
      <4>1. token + 1 \in Nat BY <3>1, <3>4 DEF Session
      <4>2. session'[s] \in Session BY <3>4, <3>5, <3>7, <4>1 DEF Session, Times
      <4> QED BY <4>2, AccessAssumption DEF Stored
    <3>9. Live(s)' BY <3>4, <3>6, <3>8 DEF Live
    <3>10. session'[s].until <= opened + AbsoluteLife
      BY <3>6, <3>8 DEF IInv, SessionsKeepTheLimit
    <3>11. SessionBook!Becomes(s, token + 1, opened)
      BY <3>3, <3>5, <3>6, <3>9, <3>10, BecomesBook
    <3>12. Shown(s) = [phase |-> "open", token |-> token, opened |-> opened,
                       until |-> session[s].until]
      BY <3>1, <3>2, <3>4 DEF Shown, Live, Stored
    <3>13. SessionBook!Exchange(s)
      BY <3>3, <3>4, <3>11, <3>12 DEF SessionBook!Exchange, SessionBook!Phase
    <3> QED BY <3>13 DEF SessionBook!Next
  <2> QED BY <2>5, <2>6
<1>4. CASE \E w \in Callers : RevokeRefused(w)
  <2>1. PICK w \in Callers : RevokeRefused(w) BY <1>4
  <2>2. request[w].token \in Token
    BY <2>1, RequestKinds DEF RevokeRefused, At, IInv, TypeOK, RenewalRequest
  <2>3. Target(request[w].token) \in SUBSET Sessions BY <2>2 DEF Target, Token
  <2> QED BY <2>1, <2>3, RevokeBook DEF RevokeRefused
<1>5. CASE \E t \in delivered : Logout(t)
  <2>1. PICK t \in delivered : Logout(t) BY <1>5
  <2>2. Target(t) \in SUBSET Sessions BY DEF Target, Token, IInv, TypeOK
  <2> QED BY <2>1, <2>2, RevokeBook DEF Logout
<1>6. CASE \E w \in Callers : NewPassword(w)
  <2>1. PICK w \in Callers : NewPassword(w) BY <1>6
  <2>2. CASE UNCHANGED session BY <2>1, <2>2, StutterBook DEF NewPassword
  <2>3. CASE \E u \in Users : session' = Revoked(SessionsOf(u))
    <3>1. PICK u \in Users : session' = Revoked(SessionsOf(u)) BY <2>3
    <3>2. SessionsOf(u) \in SUBSET Sessions BY DEF SessionsOf
    <3> QED BY <2>1, <3>1, <3>2, RevokeBook DEF NewPassword
  <2> QED BY <2>1, <2>2, <2>3 DEF NewPassword, SessionsEndedFor
<1>7. CASE \E w \in Callers : Delete(w)
  <2>1. PICK w \in Callers : Delete(w) BY <1>7
  <2>2. CASE UNCHANGED session BY <2>1, <2>2, StutterBook DEF Delete
  <2>3. CASE ~UNCHANGED session
    <3>1. PICK u : session' = [s \in Sessions |-> IF s \in SessionsOf(u) THEN Gone
                                                  ELSE session[s]]
      BY <2>1, <2>3 DEF Delete
    <3>2. PICK L \in SUBSET Sessions : L = {s \in SessionsOf(u) : Live(s)} BY DEF SessionsOf
    <3>3. \A s \in L : Live(s) /\ ~Live(s)' /\ session'[s] # Unopened
      BY <3>1, <3>2, AccessAssumption DEF Live, Stored
    <3>4. \A s \in Sessions \ L : session'[s] = session[s] \/ (~Live(s) /\ ~Live(s)'
                                     /\ session[s] # Unopened /\ session'[s] # Unopened)
      BY <3>1, <3>2, AccessAssumption DEF Live, Stored, SessionsOf
    <3> QED BY <2>1, <3>3, <3>4, EndBook DEF Delete
  <2> QED BY <2>2, <2>3
<1>8. CASE UNCHANGED <<session, renewals, clock>> BY <1>8, StutterBook
<1>9. \/ \E w \in Callers : Stop(w) \/ Register(w) \/ Compare(w) \/ ReadLimit(w)
      \/ \E w \in Callers, e \in Emails, p \in Passwords : BeginRegister(w, e, p) \/ BeginLogin(w, e, p)
      \/ \E w \in Callers, t \in delivered : BeginRenewal(w, t)
      \/ \E w \in Callers, k \in mailed, p \in Passwords : BeginNewPassword(w, k, p)
      \/ \E w \in Callers, u \in Users, e \in Emails : BeginDelete(w, u, e)
      \/ \E link \in links : Confirm(link)
      \/ \E e \in Emails : RequestReset(e)
      => UNCHANGED <<session, renewals, clock>>
  BY DEF Stop, Register, Compare, ReadLimit, BeginRegister, BeginLogin, BeginRenewal,
         BeginNewPassword, BeginDelete, Confirm, RequestReset
<1> QED BY <1>1, <1>2, <1>3, <1>4, <1>5, <1>6, <1>7, <1>8, <1>9 DEF Next

\* Refresh sessions keep the register's promises: opened once, exchanged only while open and
\* within the absolute limit, never back once ended.
THEOREM SessionsImplementRegister == Spec => RegisterSpec
<1>1. Init => SessionBook!Init
  <2> SUFFICES ASSUME Init PROVE SessionBook!Init OBVIOUS
  <2>1. clock \in Nat /\ renewals = {} BY DEF Init
  <2>2. \A s \in Sessions : Shown(s).phase = "none" BY DEF Init, Shown
  <2> QED BY <2>1, <2>2 DEF SessionBook!Init, SessionBook!Phase
<1>2. IInv /\ IInv' /\ [Next]_vars =>
        [SessionBook!Next]_<<[s \in Sessions |-> Shown(s)], renewals, clock>>
  <2> SUFFICES ASSUME IInv, IInv', [Next]_vars
               PROVE  [SessionBook!Next]_<<[s \in Sessions |-> Shown(s)], renewals, clock>>
    OBVIOUS
  <2>1. CASE Next BY <2>1, StepBook DEF Book
  <2>2. CASE UNCHANGED vars BY <2>2, StutterBook DEF vars, Book
  <2> QED BY <2>1, <2>2
<1> QED BY <1>1, <1>2, AccessInvariant, PTL DEF Spec, RegisterSpec, SessionBook!Spec
==============================================================================
