--------------------------- MODULE MCUpdateQueue ---------------------------
(***************************************************************************)
(* UpdateQueue for model checking; the bounds and the environment of each  *)
(* run are in its .cfg.                                                    *)
(***************************************************************************)
EXTENDS UpdateQueue
=============================================================================
