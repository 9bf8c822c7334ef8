CONSTANTS
  b1 = b1  b2 = b2
  s1 = s1  s2 = s2
  a1 = a1  a2 = a2
  Registry <- MCRegistry
  Beta = {b1, b2}
  Content <- MCContent
  Evidence <- MCEvidence
  SnapshotId = {s1, s2}
  Attempt = {a1, a2}
  Dwell <- MCDwell
  Passed <- MCPassed
  MaxApproval = 1
  MaxRuns = 2
  MaxClock = 1
  None = None
SPECIFICATION Spec
SYMMETRY MCSymmetry
CHECK_DEADLOCK FALSE
PROPERTIES
  NoDowngrade
  PromotionExtendsHead
  DwellServed
  TestedAsPublished
  StableAdoptable
  HeadIsWhole
