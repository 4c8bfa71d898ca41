SPECIFICATION MCSpec
CONSTANTS
  Parts = {"west"}
  Key = {k1}
  Provider = {p1, p2}
  ProviderOf <- Whose
  Browser = {}
  Editor = {}
  TTL = 0
  MaxAge = 0
  MaxEdits = 0
  MaxBooks = 0
  Request = {}
  Resource <- Bays
  Service <- Services
  Row <- Rows
  Exception = {"x1", "x2"}
  Owner <- OwnerOf
  Existing = {"s1"}
  Booked = {"b1"}
  Initially = {"b1", "b2", "b3"}
  Weeks <- ThisWeek
  Day = {"sunday"}
  Date = {"d1"}
  Midnight = 3
  Asks <- AllEdits
  MaxFaults = 1
  None = None
  k1 = k1
  p1 = p1
  p2 = p2
CHECK_DEADLOCK FALSE
INVARIANTS
  OfTheDayAsked
