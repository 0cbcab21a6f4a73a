SPECIFICATION RecentSpec
CONSTANTS
  Users = {u1, u2}
  Posts = {p1, p2, p3}
  NoPost = NoPost
  Threads = {t1, t2}
  Cap = 2
  MaxViews = 5
  Crashes = TRUE
SYMMETRY Symmetry
CHECK_DEADLOCK FALSE
INVARIANTS
  RecentTypeOK
  AtMostCap
  LastTwoViewsShown
