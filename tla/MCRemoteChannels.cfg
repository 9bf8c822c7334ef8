SPECIFICATION Spec
CHECK_DEADLOCK FALSE
CONSTANTS
  c1 = c1
  c2 = c2
  q1 = q1
  Component = {c1, c2}
  Request = {q1}
  None = None
  Initial <- MCInitial
  Release <- MCRelease
  Dwell = 1
  MaxSnapshot = 3
  MaxRun = 4
  MaxFault = 2
  MaxValidation = 2
  MaxVersion = 2
  MaxClock = 1
INVARIANT StableFromBeta
PROPERTY ImplementsStableChannel
PROPERTY PromotesCurrentBeta
PROPERTY SelectionMovesOneGroup
PROPERTY OrchestratedOnBeta
