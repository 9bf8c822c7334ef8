CONSTANTS
  a1 = a1  a2 = a2  a3 = a3
  d1 = d1  d2 = d2
  t1 = t1  t2 = t2  t3 = t3
  Attempt = {a1, a2, a3}
  Digest = {d1, d2}
  Token = {t1, t2, t3}
  None = None
  Parent <- MCParent
  EvidenceLife = {1, 2}
  ApprovalLife = {1}
  Window = 0
  MaxRemotes = 1
  MaxClock = 1
SYMMETRY MCSymmetry
SPECIFICATION Spec
CHECK_DEADLOCK FALSE
INVARIANTS
  GenerationOwned
  MarkerIsNewestConfirmed
  ViewsAreConfirmed
  AuthorityNotForked
  WayOut
PROPERTIES
  ImplementsStableHead
  PublishedWhileFresh
