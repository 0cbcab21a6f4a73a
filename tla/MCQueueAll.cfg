SPECIFICATION Spec
CONSTANTS
  Ids = {1, 2}
  MaxDoc = 2
  CommitEvery = 1
  MaxLoad = 0
  Poison = {}
  Env = {"update", "delete", "clear", "shutdown", "io", "disk", "commit", "deleteIo", "crash"}
INVARIANTS
  TypeOK
PROPERTIES
  PromiseKept
  LossWindow
