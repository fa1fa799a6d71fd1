SPECIFICATION FairSpec
CONSTANTS
  Agents = {a1}
  NoAgent = NoAgent
  MaxRuns = 2
  MaxActive = 2
  MaxTopLevel = 2
  MaxTaskRuns = 1
  MaxQueue = 2
  ListLimit = 3
  ExistingDesktop = {}
  Concurrency <- FullConcurrency
  Owner <- OneAgent
  Attended = {1}
  MaxFaults <- FaultsWithOneRun
INVARIANTS TypeOK CompletedIsConfirmed AskedOnce OutcomeHeard
PROPERTIES AtMostOnce EveryWatchEnds ImplementsRunService
CHECK_DEADLOCK FALSE
