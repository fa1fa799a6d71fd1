SPECIFICATION Spec
CONSTANTS
  Agents = {a1, a2, a3}
  NoAgent = NoAgent
  MaxRuns = 3
  MaxActive = 2
  MaxTopLevel = 1
  MaxTaskRuns = 1
  MaxQueue = 2
  ListLimit = 3
  ExistingDesktop = {}
  Concurrency <- FullConcurrency
  Stoppers = {s1}
  Teammates <- AllTeammates
  Direct = {}
  MaxRestarts = 0
  TaskKinds = {FALSE}
  Requests = {}
  Hazards = {}
SYMMETRY StopSymmetry
INVARIANTS NoOrphan
CHECK_DEADLOCK FALSE
