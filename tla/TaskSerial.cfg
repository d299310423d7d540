SPECIFICATION TasksSpec
CONSTANTS
  Parts = {"serial", "gateway", "agent", "subprocess", "plan", "desk"}
  a = a
  b = b
  c = c
  d = d
  Node = {a, b}
  Branch <- Singles
  BranchOf <- Owner
  Pos <- Order
  StageOf <- BySingle
  LastStage = 2
  Gateway = {}
  Approval = {b}
  AutoSkip = {b}
  AutoRetryCount <- OneRetryFor_a
  MaxRuns = 5
  MaxExits = 2
  MaxRequests = 2
  AnMaxAttempts = 2
  AnMaxExits = 1
  AnMaxReworks = 1
  MAX_REJECTION_COUNT = 2
  SpMaxAttempts = 4
  SpMaxExits = 2
  SpMaxEdits = 1
  SpMaxFaults = 1
  DkTasks = {1, 2}
  DkAgentNode = "agent"
  DkShapes <- DeskShapes
  DkDefault = "d"
  DkAgents = {"d", "w"}
  DkValues = {"", "w"}
  DkMaxSchemes = 1
  DkMaxOps = 4
  WpDefs <- AllDrawings
  WpTimes = {0, 2}
INVARIANTS
  TasksTypeOK
  AttemptsAccounted
  RetryBudgetHolds
  AgentDecided
  SubprocessKept
  PlanAsDrawn
  DeskKept
PROPERTIES
  DoneIsFinal
  EndedStaysEnded
  OneActionPerFailure
\* A task that has ended, with no request left, does nothing.
CHECK_DEADLOCK FALSE
