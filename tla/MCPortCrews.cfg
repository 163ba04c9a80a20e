SPECIFICATION Spec
CONSTANTS
  Parts = {"crew", "checkpoint", "registry", "placement", "gpus", "runs", "alone", "alerts", "reports", "audit"}
  n1 = n1
  n2 = n2
  a1 = a1
  a2 = a2
  NoDoc = NoDoc
  NoRecord = NoRecord
  Nodes = {n1, n2}
  Agents = {a1, a2}
  First = n1
  MaxCheckpoints = 0
  RegNodes = {n1}
  NodeTTL = 3
  MaxNow = 6
  FleetNodes = {1, 2, 3}
  NodeKinds <- MCNodeKinds
  PlacedAgents = {1, 2, 3}
  Penalty = 1
  GpuCrews = {"c1"}
  GpuDevices = {0, 1}
  GpuTeam = {1, 2}
  MaxMem = 2
  Nominal = 8
  Crews = {"c1", "c2"}
  Team = {1}
  Devices = {"g0"}
  Hidden = Hidden
  Unset = Unset
  MaxFailures = 0
  Watched = {"a1"}
  Ways <- MCWays
  Cooldown = 1
  EvictAge = 1
  EvictEvery = 2
  MaxEntries = 2
  MaxTries = 2
  MaxHappenings = 3
  ReportSessions = {"s1"}
  AgentWrites <- MCWrites
  Types = {"executive_summary", "detailed"}
  Channels <- MCChannels
  MaxRetries = 2
  MaxSecond = 1
  MaxCustom = 1
  MaxJobs = 2
  MaxAsked = 1
  Sites <- MCSites
  MaxOutages = 1
INVARIANTS
  CrewHonest
  NodesListed
  PlacementSound
  RunsSettled
  ReportsTrue
  AuditAgrees
CHECK_DEADLOCK FALSE
