SPECIFICATION FairSpec
CONSTANTS
  Ids = {1, 2, 3}
  MaxDoc = 1
  CommitEvery = 2
  MaxLoad = 1
  Poison = {}
  Env = {"delete", "deleteIo"}
INVARIANTS
  NoDocLost
  CommitPending
  GetFindsSaved
PROPERTIES
  EventuallySearchable
