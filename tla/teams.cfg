SPECIFICATION FairSpec
CONSTANTS
  Boards = {b1, b2}
  Stages = {1, 2}
  Tasks = {t1}
  Teams = {m1}
  Clients = {}
  Runs = {r1}
  Owners = {a1, a2}
  NoOwner = NoOwner
  Slots = 1
  Revises = TRUE
  NoTeam = NoTeam
  NoTask = NoTask
  NoRun = NoRun
  NoDraft = NoDraft
  Workflow <- ShortColumns
  Requests = {"boards", "teams", "archives", "moves"}
  NewCategories = {}
  Chosen = {}
INVARIANTS NoStaleLink TeamScoped OwnerExecutes
PROPERTIES CardReleased ServiceSpec LockedWhileActive
