-------------------------- MODULE MCLazyRepository --------------------------
(***************************************************************************)
(* LazyRepository for model checking.  Ids are small numbers, in the order *)
(* of their hash bins (so there is no symmetry); the bounds and the        *)
(* environment of each run are in its .cfg.                                *)
(***************************************************************************)
EXTENDS LazyRepository
=============================================================================
