SPECIFICATION FairSpec
CONSTANTS
  Runs = {r1}
  NoRun = NoRun
  Batch = 2
  MaxLog = 4
  MaxReplies = 2
  Outages = TRUE
INVARIANTS ShownOnce BlockedRunShown
PROPERTIES EndShown
