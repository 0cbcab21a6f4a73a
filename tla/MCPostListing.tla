--------------------------- MODULE MCPostListing ---------------------------
(***************************************************************************)
(* PostListing for model checking; the bounds are in MCListing.cfg.  Ids   *)
(* are interchangeable: nothing compares them but for equality.            *)
(***************************************************************************)
EXTENDS PostListing, TLC

Symmetry == Permutations(Ids)
=============================================================================
