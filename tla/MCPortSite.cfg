SPECIFICATION Spec
CONSTANTS
  Parts = {"llm", "models", "definitions", "tokens", "accounts", "realtime", "monitor", "registration", "worker", "rounds", "reporting", "flaky", "release"}
  Callers = {"c1", "c2"}
  Threshold = 2
  MaxFaults = 1
  Names = {"gateway", "openai", "local"}
  ModelRoles = {"senior"}
  DefKeys = {"k"}
  PresetKeys = {"p"}
  Contents = {"a", "b"}
  Saved = {1}
  MaxVersions = 5
  CacheTTL = 1
  CacheMax = 1
  LastNow = 1
  MaxWrites = 2
  MaxReads = 1
  MaxRestarts = 1
  Requests = {"c1", "c2"}
  AccessTime = 1
  RefreshTime = 2
  BlackTime = 1
  MaxAttempts = 2
  MaxTokens = 2
  MaxLosses = 1
  Keys = {"k1", "k2"}
  MaxDropped = 2
  Conns = {1, 2}
  MaxEvents = 3
  ReplayLimit = 4
  Watchers = {"w1", "w2"}
  Tasks = {"t1"}
  Sessions = {"s1", "s2"}
  CacheTime = 2
  MaxRead = 1
  MaxChanges = 2
  AgentKeys = {"qa", "preset"}
  StaticKeys = {"qa"}
  Admins = {"x", "y"}
  MaxIds = 5
  MaxAsked = 2
  MaxMishaps = 1
  Roles = {"analyst"}
  Children = {"c1", "c2"}
  Kinds = {"report", "security", "comprehensive_report"}
  MaxTasks = 2
  MaxCrashes = 1
  Scenarios = {"checkout"}
  CrewSuites <- MCSuites
  Errors <- MCErrors
  SeniorResults <- MCSeniors
  RawResults <- MCRaws
  Reporters = {"p"}
  MaxRuns = 2
  MaxReports = 1
  MaxTwice = 1
  Executions <- MCExecutions
  MaxExecutions = 5
  MaxAnalyses = 2
  Replies <- MCReplies
  Requirements <- MCRequirements
  TestCases = {1, 2}
  Components <- MCComponents
  RateHistories <- MCRates
  Features <- MCFeatures
INVARIANTS
  CallsSettled
  DefinitionsKept
  SessionsKept
  AccountsKept
  EventsReach
  DashboardTrue
  WorkKept
  ToolsAgree
  RoundsCounted
CHECK_DEADLOCK FALSE
