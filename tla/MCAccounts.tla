----------------------------- MODULE MCAccounts -----------------------------
(***************************************************************************)
(* Accounts for model checking: threads are interchangeable.               *)
(***************************************************************************)
EXTENDS Accounts, TLC

Symmetry == Permutations(Threads)
=============================================================================
