SPECIFICATION MCSpec
CONSTANTS
  Parts = {"sessions", "codes"}
  User = {u1}
  Token = {t1, t2, t3}
  Request = {q1, q2, q3}
  Asks <- TokenAsks
  TTL <- DaysValid
  Grace = 1
  MaxAge = 1
  MaxTime = 3
  MaxFaults = 1
  Address = {n1, n2}
  Secret = {"s1", "s2"}
  Mail = {n1, n2}
  Visitor = {q1, q2, q3, q4}
  Wishes <- CodeAsks
  MaxAttempts = 2
  CodeTTL = 0
  MaxHour = 1
  None = None
  u1 = u1
SYMMETRY Symmetry
CHECK_DEADLOCK FALSE
INVARIANTS
  OneSuccessor
  PruneSparesTokensInUse
  RotationNeverShortens
  GuessesBounded
  AcceptedOnce
  OneLiveUnlessRaced
PROPERTIES
  RevocationReachesAllKnown
  VerifiedByItsCode
