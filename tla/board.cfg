SPECIFICATION Spec
CONSTANTS
  Boards = {b1}
  Stages = {1, 2, 3}
  Tasks = {t1}
  Teams = {}
  Clients = {c1}
  Runs = {r1, r2}
  Owners = {a1}
  NoOwner = NoOwner
  Slots = 1
  Revises = TRUE
  NoTeam = NoTeam
  NoTask = NoTask
  NoRun = NoRun
  NoDraft = NoDraft
  Workflow <- ShortColumns
  Requests = {"stages", "recategorise", "settings", "moves", "checks"}
  NewCategories = {"done"}
  Chosen = {}
SYMMETRY Symmetric
INVARIANTS TypeOK LinkIsNewest DraftIsCurrent
