CONSTANTS
  w1 = w1  w2 = w2
  Writer = {w1, w2}
  None = None
  MaxEvents = 2
  MaxReads = 1
  MaxFaults = 2
  MaxRestores = 1
SYMMETRY MCSymmetry
SPECIFICATION Spec
CHECK_DEADLOCK FALSE
INVARIANTS
  AckedIsCheckpointed
  DifferenceIsReserved
PROPERTIES
  InspectSeesAcked
  ImplementsAuditLog
