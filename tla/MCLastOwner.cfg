SPECIFICATION Spec
CONSTANTS
  User = {u1, u2}
  Invitation = {i1}
  Request = {q1, q2}
  Asks <- OwnerAsks
  None = None
  u1 = u1
  u2 = u2
  i1 = i1
SYMMETRY Symmetry
CHECK_DEADLOCK FALSE
PROPERTIES
  OwnerKept
