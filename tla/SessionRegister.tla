--------------------------- MODULE SessionRegister ---------------------------
(***************************************************************************)
(* What refresh sessions promise, without requests, accounts or passwords: *)
(* a session is opened once, its token is exchanged for the next one while *)
(* it is open and unexpired, never past its absolute limit, and once ended *)
(* it stays ended.  Several sessions may end together.                     *)
(***************************************************************************)
EXTENDS Integers

CONSTANTS Sessions, AbsoluteLife

VARIABLES register,  \* each session: its phase, its current token, when it was
                     \* opened and until when its token may be exchanged
          renewals,  \* the exchanges that were granted
          time

Phase(s, phase) == register[s].phase = phase

Init == /\ time \in Nat
        /\ \A s \in Sessions : Phase(s, "none")
        /\ renewals = {}

\* only session s changes, and it is open afterwards
Becomes(s, token, opened) ==
  /\ register'[s].until <= opened + AbsoluteLife
  /\ register' = [register EXCEPT ![s] = [phase |-> "open", token |-> token, opened |-> opened,
                                          until |-> register'[s].until]]
  /\ UNCHANGED time

Open(s) == Phase(s, "none") /\ Becomes(s, 0, time) /\ UNCHANGED renewals

Exchange(s) ==
  LET token == register[s].token IN
  /\ Phase(s, "open") /\ time <= register[s].until
  /\ Becomes(s, token + 1, register[s].opened)
  /\ renewals' = renewals \union {[session |-> s, from |-> token, to |-> token + 1]}

End(S) ==
  /\ \A s \in S : Phase(s, "open")
  /\ register' = [s \in Sessions |-> IF s \in S
                    THEN [phase |-> "ended", token |-> 0, opened |-> 0, until |-> 0]
                    ELSE register[s]]
  /\ UNCHANGED <<renewals, time>>

Pass == time' = time + 1 /\ UNCHANGED <<register, renewals>>

Next == \/ Pass
        \/ \E s \in Sessions : Open(s) \/ Exchange(s)
        \/ \E S \in SUBSET Sessions : End(S)

Spec == Init /\ [][Next]_<<register, renewals, time>>
==============================================================================
