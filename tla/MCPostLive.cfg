SPECIFICATION FairPostSpec
CONSTANTS
  Ids = {1, 2}
  MaxDoc = 2
  CommitEvery = 2
  MaxLoad = 1
  Poison = {}
  Env = {"delete", "clear", "deleteIo"}
  Seed = {1, 2}
  SeedIntro = {2}
  Resaves = {1}
INVARIANTS
  SearchMatchesPosts
PROPERTIES
  ArticleBecomesSearchable
