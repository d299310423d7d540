SPECIFICATION Spec
CONSTANTS
  a = a
  b = b
  c = c
  d = d
  Node = {a, b}
  Branch <- Singles
  BranchOf <- Owner
  Pos <- Order
  StageOf <- BySingle
  LastStage = 2
  Gateway = {}
  Approval = {}
  AutoSkip = {}
  AutoRetryCount <- OneRetryFor_a
  MaxRuns = 3
  MaxExits = 1
  MaxRequests = 0
PROPERTIES
  RestartContinues
\* A task that has ended, with no request left, does nothing.
CHECK_DEADLOCK FALSE
