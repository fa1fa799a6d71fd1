SPECIFICATION Spec
CONSTANTS
  Agents = {a1, a2}
  NoAgent = NoAgent
  MaxRuns = 2
  MaxActive = 2
  MaxTopLevel = 1
  MaxTaskRuns = 1
  MaxQueue = 2
  ListLimit = 2
  ExistingDesktop = {}
  Concurrency <- FullConcurrency
  Stoppers = {s1}
  Teammates <- AllTeammates
  Direct = {a1}
  MaxRestarts = 1
  TaskKinds = {TRUE, FALSE}
  Requests = {"waiting_approval", "waiting_input"}
  Hazards = {"lateRequest", "lateReply", "stopFails", "crash"}
INVARIANTS NeverReplayed CancelledIsStopped NoMissedWakeup
PROPERTIES ImplementsRunService
CHECK_DEADLOCK FALSE
