SPECIFICATION TourSpec
CONSTANTS
  w1 = w1
  w2 = w2
  v1 = v1
  s1 = s1
  s2 = s2
  None = None
  Web = {w1, w2}
  Callers = {v1}
  Tabs = {d1}
  SlotIds = {s1, s2}
  OfferOf <- OneEach
  DayLength = 3
  Week = 2
  MaxTime = 1
  MaxBookings = 3
  Casts <- GuestsOrLandlord
CHECK_DEADLOCK FALSE
INVARIANTS  PeopleTold
