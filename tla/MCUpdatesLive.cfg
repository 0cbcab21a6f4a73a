SPECIFICATION UpdateSpec
CONSTANTS
  Ids = {1, 2}
  MaxDoc = 1
  CommitEvery = 1
  MaxLoad = 0
  Poison = {2}
  Env = {"update", "commit"}
  Actions = {"set", "add"}
  MaxUpdates = 2
  MaxTime = 1
INVARIANTS
  NoDocLost
PROPERTIES
  UpdatesTried
  ShieldedAccepted
