SPECIFICATION MCSpec
CONSTANTS
  Parts = {"executors", "loop", "sequence"}
  m0 = m0
  m1 = m1
  Member = {m0, m1}
  Task = {t1}
  Pools <- MCPools
  Nobody = Nobody
  Controller = Controller
  NoRead = NoRead
  MaxEpoch = 4
  MaxSteps = 1
  MaxSent = 1
  MaxDeaths = 1
  MaxExits = 1
  MaxLost = 1
  MaxFaults = 2
  west = west
  east = east
  draft = draft
  check = check
  done = done
  None = None
  Node <- MCNode
  Branches = {west, east}
  Body <- MCBody
  ExitNode = done
  AutoRetryCount <- MCRetries
  AutoSkip = {check}
  MAX_LOOP_ITERATIONS = 2
  LpMaxExits = 1
  LpMaxRequests = 1
  Order <- MCOrder
  Starts = {1}
  Approval = {check}
  Targets <- MCRejects
  MaxReject <- MCMax
  Resident = {draft}
  NoTarget = NoTarget
  SqMaxExits = 1
  SqMaxRequests = 2
INVARIANTS RunnersTypeOK OneOwner ScriptsReaped LoopExact SequenceSound
PROPERTIES ProgressKept OncePerIteration OrderKept RunsGoOn
\* With no request left, a pool whose tasks have ended does nothing.
CHECK_DEADLOCK FALSE
