SPECIFICATION UpdateSpec
CONSTANTS
  Ids = {1}
  MaxDoc = 2
  CommitEvery = 1
  MaxLoad = 0
  Poison = {}
  Env = {"update", "clear", "disk", "crash"}
  Actions = {"set", "add"}
  MaxUpdates = 2
  MaxTime = 2
INVARIANTS
  UpdateTypeOK
  MeetsItsDocument
PROPERTIES
  UpdateLossWindow
  SetsInOrder
