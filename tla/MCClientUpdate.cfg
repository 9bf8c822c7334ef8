SPECIFICATION Spec
CONSTANTS
  p1 = p1
  p2 = p2
  n1 = n1
  n2 = n2
  d1 = d1
  d2 = d2
  None = None
  Process = {p1, p2}
  Nonce = {n1, n2}
  Digest = {d1, d2}
  MaxEvents = 4
  MaxAnswers = 1
  MaxRestores = 1
SYMMETRY MCSymmetry
PROPERTY NeverBack
PROPERTY TransactsPinned
PROPERTY FollowsRequest
PROPERTY NeverLockedOut
