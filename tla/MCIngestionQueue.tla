-------------------------- MODULE MCIngestionQueue --------------------------
(***************************************************************************)
(* IngestionQueue for TLC.                                                 *)
(***************************************************************************)
EXTENDS IngestionQueue, TLC

\* Jobs are told apart by nothing but their rows, processes by nothing at all.
Symmetry == Permutations(Jobs) \cup Permutations(Workers)
=============================================================================
