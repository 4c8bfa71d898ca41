SPECIFICATION MCSpec
CONSTANTS
  Parts = {"access", "services", "bookings", "growth"}
  Client = {c1}
  User = {u1, u2}
  Provider = {p1}
  Token = {t1, t2}
  Request = {q1}
  Admins = {u2}
  TTL = 1
  MaxTime = 1
  MaxChanges = 2
  None = None
  Junk = Junk
SYMMETRY Symmetry
CHECK_DEADLOCK FALSE
INVARIANTS
  OnlyWhoMayActs
  WhoMayIsLetIn
  PagesAreComplete
  FiguresAddUp
