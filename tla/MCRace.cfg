SPECIFICATION Spec
CONSTANTS
  Request = {r1, r2}
  Mover = {m1, m2}
  Lister = {}
  Service = {s1}
  Provider = {p1}
  Customer = {c1}
  Code = {k1, k2}
  Resource = {1, 2}
  Owner <- OneOwner
  BayOwner <- OneBayOwner
  Performs <- AllPerform
  Opens <- OpenFrom0
  Closes <- Uneven
  Step = 1
  Minutes <- Durations2
  Inputs <- RaceInputs
  MaxEdits = 0
  MaxFaults = 0
  None = None
  c1 = c1
  p1 = p1
  p2 = p2
  s1 = s1
  s2 = s2
SYMMETRY Symmetry
CHECK_DEADLOCK FALSE
INVARIANTS
  TypeOK
  NoDoubleBooking
  OneWinner
  SlotTakenMeansTaken
  ContentionIs500OnlyByCode
  InsideOpeningHours
PROPERTIES
  ImplementsCalendar
