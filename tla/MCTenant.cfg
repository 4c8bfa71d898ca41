SPECIFICATION MCSpec
CONSTANTS
  Parts = {"members", "providers"}
  User = {u1, u2}
  Invitation = {i1}
  Request = {q1, q2}
  Creator = {w1, w2, w3}
  Category <- Categories
  Creations <- CreationAsks
  Nth <- Derived
  MaxFaults = 1
  Asks <- AllAsks
  None = None
  u1 = u1
  u2 = u2
  i1 = i1
SYMMETRY AnyRequest
CHECK_DEADLOCK FALSE
INVARIANTS
  InvitationJoinsOne
  CreatedWholeAndNamed
PROPERTIES
  OwnerKeptUnlessRaced
  JoiningIsOwnDecision
