SPECIFICATION MCFairSpec
CONSTANTS
  Parts = {"booking", "providers"}
  Creator = {w1, w2, w3}
  Request = {r1, r2}
  Mover = {m1}
  Lister = {}
  Service = {s1}
  Provider = {p1}
  Customer = {c1}
  Code = {k1, k2}
  Resource = {1, 2}
  Owner <- OneOwner
  BayOwner <- OneBayOwner
  Performs <- AllPerform
  Opens <- OpenFrom0
  Closes <- CloseAt2
  Step = 1
  Minutes <- Durations2
  Inputs <- OneStart
  MaxEdits = 0
  MaxFaults = 0
  None = None
  c1 = c1
  p1 = p1
  p2 = p2
  s1 = s1
  s2 = s2
CHECK_DEADLOCK FALSE
PROPERTIES
  EveryRequestAnswered
  CreationAnswered
