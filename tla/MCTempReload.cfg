SPECIFICATION Spec
CONSTANTS
  Ids = {1, 2}
  MaxDoc = 1
  CommitEvery = 2
  MaxLoad = 1
  Poison = {}
  Env = {"io"}
PROPERTIES
  TempReturns
