CONSTANTS
  s1 = s1  s2 = s2  s3 = s3
  SnapshotId = {s1, s2, s3}
  None = None
  Registry <- MCRegistry
  Release <- MCRelease
  Attested <- MCAttested
  MaxRun = 3
  MaxPending = 1
  MaxBuild = 3
  MaxDamage = 1
SPECIFICATION Spec
SYMMETRY MCSymmetry
INVARIANTS
  LineageBound
  StoredIsAccepted
CHECK_DEADLOCK FALSE
