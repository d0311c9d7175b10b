--------------------------- MODULE MCLocalIngest ---------------------------
(***************************************************************************)
(* LocalIngest for TLC.                                                    *)
(***************************************************************************)
EXTENDS LocalIngest, TLC

\* Neither processes, nor the documents the tool inserts, nor the chunks of a
\* generation differ in what is done to them.
Symmetry ==
    Permutations(Tools) \cup Permutations(Docs \ Uploads) \cup Permutations(Pieces)
=============================================================================
