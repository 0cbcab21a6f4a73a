--------------------------- MODULE MCPostIndexing ---------------------------
(***************************************************************************)
(* PostIndexing for model checking: one post of the file and one that a    *)
(* request creates, two versions each.                                     *)
(***************************************************************************)
EXTENDS PostIndexing
=============================================================================
