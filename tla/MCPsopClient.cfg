CONSTANTS
  n1 = n1  n2 = n2
  Name = {n1, n2}
  ClientView <- MCView
  NoValue = NoValue
  MaxLife = 2
  MaxGenerations = 3
  MaxDescriptors = 3
  MaxClock = 1
SPECIFICATION ClientSpec
CHECK_DEADLOCK FALSE
INVARIANTS
  AheadOnlyWhilePending
  PendingResumable
PROPERTIES
  ActiveFollowsStable
  TransactsUnderApproval
