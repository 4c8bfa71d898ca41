SPECIFICATION Spec
CONSTANTS
  Request = {r1, r2}
  Mover = {m1}
  Lister = {l1}
  Service = {s1}
  Provider = {p1}
  Customer = {c1}
  Code = {k1, k2}
  Resource = {1}
  Owner <- OneOwner
  BayOwner <- OneBayOwner
  Performs <- AllPerform
  Opens <- OpenFrom0
  Closes <- CloseAt2
  Step = 1
  Minutes <- Durations12
  Inputs <- OneStart
  MaxEdits = 1
  MaxFaults = 1
  None = None
  c1 = c1
  p1 = p1
  p2 = p2
  s1 = s1
  s2 = s2
SYMMETRY Symmetry
CHECK_DEADLOCK FALSE
INVARIANTS
  BookedResourceExists
  AnswerAgreesWithTable
  StaleOnlyIfRaced
