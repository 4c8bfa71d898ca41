SPECIFICATION MCFairSpec
CONSTANTS
  Parts = {"cache", "resources", "weeks", "rules", "windows"}
  Key = {k1, k2}
  Provider = {p1, p2}
  ProviderOf <- Whose
  Browser = {b1, b2}
  Editor = {e1}
  TTL = 1
  MaxAge = 1
  MaxEdits = 1
  MaxBooks = 1
  Request = {q1, q2}
  Resource <- Bays
  Service <- Services
  Row <- Rows
  Exception = {"x1", "x2"}
  Owner <- OwnerOf
  Existing = {"s1"}
  Booked = {"b1"}
  Initially = {"b1", "b2", "b3"}
  Weeks <- ThisWeek
  Day = {"sunday"}
  Date = {"d1"}
  Midnight = 3
  Asks <- AllEdits
  MaxFaults = 1
  None = None
  k1 = k1
  p1 = p1
  p2 = p2
CHECK_DEADLOCK FALSE
INVARIANTS
  IndexExact
  
  OffersWhatIsOpen
PROPERTIES
  StaleForABoundedTime
  EditsAreWhole
  ListsSettle
