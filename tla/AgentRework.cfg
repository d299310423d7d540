SPECIFICATION TasksSpec
CONSTANTS
  Parts = {"agent"}
  a = a
  b = b
  c = c
  d = d
  Node = {a, b}
  Branch <- Singles
  BranchOf <- Owner
  Pos <- Order
  StageOf <- BySingle
  LastStage = 2
  Gateway = {}
  Approval = {b}
  AutoSkip = {b}
  AutoRetryCount <- OneRetryFor_a
  MaxRuns = 6
  MaxExits = 2
  MaxRequests = 2
  AnMaxAttempts = 2
  AnMaxExits = 1
  AnMaxReworks = 1
  MAX_REJECTION_COUNT = 2
  SpMaxAttempts = 4
  SpMaxExits = 2
  SpMaxEdits = 1
  SpMaxFaults = 1
  DkTasks = {1, 2}
  DkAgentNode = "agent"
  DkShapes <- DeskShapes
  DkDefault = "d"
  DkAgents = {"d", "w"}
  DkValues = {"", "w"}
  DkMaxSchemes = 1
  DkMaxOps = 4
  WpDefs <- Bypass
  WpTimes = {0, 2}
INVARIANT ReworkIsHeard
CHECK_DEADLOCK FALSE
