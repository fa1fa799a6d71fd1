SPECIFICATION FairSpec
CONSTANTS
  Agents = {a1, a2}
  NoAgent = NoAgent
  MaxRuns = 3
  MaxActive = 2
  MaxTopLevel = 1
  MaxTaskRuns = 1
  MaxQueue = 2
  ListLimit = 3
  ExistingDesktop = {}
  Concurrency <- FullConcurrency
  Stoppers = {s1}
  Teammates <- AllTeammates
  Direct = {a1}
  MaxRestarts = 0
  TaskKinds = {FALSE}
  Requests = {}
  Hazards = {}
INVARIANTS OneSession
PROPERTIES EveryRunEnds EveryStopReturns TerminalIsFinal
CHECK_DEADLOCK FALSE
