SPECIFICATION Spec
CONSTANTS
  Parts = {"cron"}
  RtMaxRounds = 2
  RtMaxSeats = 3
  RtMaxRunners = 2
  RtMaxAsks = 1
  RtMaxPauses = 1
  RtMaxMishaps = 1
  RtMaxLog = 2
  CxWindow = 6
  CxTrimTokens = 5
  CxThreshold = 4
  CxKeepTokens = 2
  CxKeepTools = 1
  CxMaxTools = 1
  CxToolBudget = 2
  CxRetries = 2
  CxRounds = 3
  CxMaxMsgs = 7
  CxMaxExits = 1
  AsMaxTurns = 2
  AsMaxTools = 1
  AsMaxMishaps = 3
  StSessions = {1, 2}
  StOthers = {2}
  StCold = 1
  StHistory = 1
  StMaxObjects = 3
  StMaxTurns = 1
  StMaxLost = 1
  StMaxExits = 1
  EvQueue = 1
  EvOverflow = 1
  EvMaxTurns = 2
  EvMaxTokens = 1
  EvMaxSent = 1
  EvMaxLinks = 2
  EvMaxDetach = 1
  EvMaxAll = 3
  ExCount = 4
  ExGraphs <- ExtensionGraphs
  ExWithProcess = {1, 3, 4}
  ExMaxFails = 3
  PlPlugins = {"base", "tool"}
  PlRevs = {1, 2}
  PlAbout <- PluginAbout
  PlOverrides = {"", "y"}
  NoPlugin = NoPlugin
  PlMaxOps = 4
  PlMaxFaults = 1
  CrJobs = {1, 2, 3}
  CrKind <- CronKinds
  CrEvery <- CronEvery
  CrRepeat <- CronRepeat
  CrMaxTime = 6
  CrMaxRequests = 3
  CrMaxExits = 1
  LyOwners = {"p"}
  LyItems = {"x", "y"}
  LyValues = {1, 2}
  LyReleases <- AgentReleases
  LyMaxMishaps = 2
  CtItems = {1, 2}
  CtGroups = {1}
  CtMaxOps = 4
  CtMaxMishaps = 1
  TgNames = {"read", "list", "m", "n", "xt", "yt"}
  TgCore = {"read", "list"}
  TgCoding = {"read"}
  TgServers <- ToolServers
  TgOffers <- ToolOffers
  TgExts <- ToolExtensions
  TgNeeds <- ToolNeeds
  TgBrings <- ToolsBrought
  TgGroups = {"default", "xg", "yg"}
  TgFiles <- GroupFiles
  TgMaxOps = 3
  TgMaxMishaps = 2
  CgCalls = {1, 2, 3, 4, 5}
  CgKind <- CallKinds
  CgLooks <- CallLooks
  CgTurns = {{1, 2, 3}, {4, 5}}
  CgBase <- FirstText
  CgMaxStops = 2
  MdKnown <- ProviderSettings
  MdFormat <- ProviderFormat
  MdRecords <- ProviderRecords
  MdFiles <- ProviderFiles
  MdClients = {"c"}
  MdWants <- ModelWants
  MdErrors <- ModelErrors
  MdRetries = 1
  MdMaxOps = 2
  MdMaxCalls = 1
  MdMaxMishaps = 1
INVARIANT OnceRunsOnce
CHECK_DEADLOCK FALSE
