---------------------------- MODULE MCExamImport ----------------------------
(***************************************************************************)
(* ExamImport for model checking: three imports of two topics, the first   *)
(* of which stands twice in the list of the job.                           *)
(***************************************************************************)
EXTENDS ExamImport, TLC

CONSTANTS part, exam

Symmetry == Permutations(Requests)

Listed == <<part, exam, part>>
=============================================================================
