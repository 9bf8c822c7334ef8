CONSTANTS
  a1 = a1
  a2 = a2
  w1 = w1
  w2 = w2
  d1 = d1
  d2 = d2
  Attempt = {a1, a2}
  Worker = {w1, w2}
  Digest = {d1}
  None = None
  Past = {None, d1}
  MaxLeases = 2
  Retaken = {None}
SYMMETRY MCSymmetry
SPECIFICATION Spec
CHECK_DEADLOCK FALSE
INVARIANTS
  IntentTruth
  SoleWriter
  VerifiedIsAdvertised
PROPERTIES
  AdvertisedIsCurrent
