SPECIFICATION SqSpec
CONSTANTS
  gen = gen
  ask = ask
  val = val
  NoTarget = NoTarget
  Node <- SeqNodes
  Order <- MCOrder
  Starts = {1}
  Approval = {ask}
  AutoRetryCount <- GenRetries
  AutoSkip = {ask}
  Targets <- ValRejects
  MaxReject <- MCMax
  Resident = {gen}
  SqMaxExits = 1
  SqMaxRequests = 2
CHECK_DEADLOCK FALSE
INVARIANTS Validated
