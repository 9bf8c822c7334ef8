CONSTANTS
  w1 = w1  w2 = w2
  Writer = {w1, w2}
  None = None
  MaxEvents = 2
  MaxReads = 0
  MaxFaults = 2
  MaxRestores = 0
SPECIFICATION FairSpec
CHECK_DEADLOCK FALSE
PROPERTIES
  ReservationsEnd
