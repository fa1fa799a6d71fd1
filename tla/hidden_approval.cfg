SPECIFICATION Spec
CONSTANTS
  Runs = {r1}
  NoRun = NoRun
  Batch = 2
  MaxLog = 3
  MaxReplies = 2
  Outages = FALSE
INVARIANTS ReloadHidesNothing
