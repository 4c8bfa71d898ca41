SPECIFICATION Spec
CONSTANTS
  Request = {r1}
  Mover = {}
  Lister = {}
  Service = {s1}
  Provider = {p1, p2}
  Customer = {c1}
  Code = {k1, k2}
  Resource = {1}
  Owner <- OneOwner
  BayOwner <- OneBayOwner
  Performs <- AllPerform
  Opens <- OpenFrom0
  Closes <- CloseAt3
  Step = 1
  Minutes <- Durations2
  Inputs <- ForeignWalkIn
  MaxEdits = 0
  MaxFaults = 0
  None = None
  c1 = c1
  p1 = p1
  p2 = p2
  s1 = s1
  s2 = s2
SYMMETRY Symmetry
CHECK_DEADLOCK FALSE
INVARIANTS
  WalkInStaysAtHome
