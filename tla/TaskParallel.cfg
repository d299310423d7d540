SPECIFICATION FairSpec
CONSTANTS
  a = a
  b = b
  c = c
  d = d
  Node = {a, b, c, d}
  Branch <- Mixed
  BranchOf <- Owner
  Pos <- Order
  StageOf <- LastIs_d
  LastStage = 2
  Gateway = {1}
  Approval = {b}
  AutoSkip = {b}
  AutoRetryCount <- OneRetryFor_a
  MaxRuns = 6
  MaxExits = 1
  MaxRequests = 1
INVARIANTS
  NoLostRetry
  FailedIsRepairable
  Checkpointed
PROPERTIES
  RefinesLifecycle
  Settles
  AcceptedIsHonoured
\* A task that has ended, with no request left, does nothing.
CHECK_DEADLOCK FALSE
