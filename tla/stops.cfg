SPECIFICATION Spec
CONSTANTS
  Agents = {a1, a2, a3}
  NoAgent = NoAgent
  MaxRuns = 3
  MaxActive = 2
  MaxTopLevel = 2
  MaxTaskRuns = 1
  MaxQueue = 2
  ListLimit = 3
  ExistingDesktop = {a1, a2}
  Concurrency <- FullConcurrency
  Stoppers = {s1, s2}
  Teammates <- AllTeammates
  Direct = {}
  MaxRestarts = 0
  TaskKinds = {TRUE}
  Requests = {}
  Hazards = {}
SYMMETRY StopSymmetry
INVARIANTS TypeOK DesktopSerialized AgentExclusive Caps HandoffTree
CHECK_DEADLOCK FALSE
