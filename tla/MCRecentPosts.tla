--------------------------- MODULE MCRecentPosts ---------------------------
(***************************************************************************)
(* RecentPosts for model checking: users and threads are interchangeable,  *)
(* and so are posts.                                                       *)
(***************************************************************************)
EXTENDS RecentPosts, TLC

Symmetry == Permutations(Users) \cup Permutations(Threads) \cup Permutations(Posts)
=============================================================================
