SPECIFICATION Spec
CONSTANTS
  Users = {u1, u2}
  Emails = {e1}
  Passwords = {p1, p2}
  Sessions = {s1, s2}
  Callers = {w1, w2}
  Registered = {u1}
  RefreshLife = 2
  AbsoluteLife = 3
  ResetLife = 1
  RegisterLife = 1
  MaxClock = 3
  MaxResets = 2
  MaxCalls = 3
  NotYet = NotYet
  Gone = Gone
  Unopened = Unopened
  NoReset = NoReset
  NoRequest = NoRequest
INVARIANTS
  OneRenewalPerToken
  RefusedRenewalEndsSession
  SessionsHaveVerifiedOwner
  SettledSessionsMatchPassword
  ResetTokenWorksOnce
PROPERTIES
  RegisterSpec
SYMMETRY Symmetry
CHECK_DEADLOCK FALSE
