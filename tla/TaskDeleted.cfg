SPECIFICATION Spec
CONSTANTS
  a = a
  b = b
  c = c
  d = d
  Node = {a, b}
  Branch <- Singles
  BranchOf <- Owner
  Pos <- Order
  StageOf <- AllFirst
  LastStage = 1
  Gateway = {1}
  Approval = {}
  AutoSkip = {}
  AutoRetryCount <- OneRetryFor_a
  MaxRuns = 3
  MaxExits = 0
  MaxRequests = 0
PROPERTIES
  DeletedStaysDeleted
\* A task that has ended, with no request left, does nothing.
CHECK_DEADLOCK FALSE
