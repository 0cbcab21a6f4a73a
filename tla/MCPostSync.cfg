SPECIFICATION PostSpec
CONSTANTS
  Ids = {1, 2}
  MaxDoc = 2
  CommitEvery = 1
  MaxLoad = 1
  Poison = {}
  Env = {"delete", "clear", "crash"}
  Seed = {1}
  SeedIntro = {}
  Resaves = {2}
INVARIANTS
  PostTypeOK
  OnlyCommittedArticles
  SearchMatchesPosts
