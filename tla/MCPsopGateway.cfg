SPECIFICATION Spec
CHECK_DEADLOCK FALSE
CONSTANTS
  a1 = a1
  a2 = a2
  a3 = a3
  w1 = w1
  w2 = w2
  p1 = p1
  Attempt = {a1, a2}
  Worker = {w1, w2}
  Plan = {p1}
  None = None
  Imported <- MCImported
  MaxFence = 2
  MaxEpoch = 1
SYMMETRY MCSymmetry
INVARIANT OutcomeTruth
INVARIANT HeadIsPublished
PROPERTY MovesAreAdmitted
