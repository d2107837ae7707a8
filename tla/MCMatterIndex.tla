--------------------------- MODULE MCMatterIndex ---------------------------
(* MatterIndex for TLC: the documents are interchangeable.                 *)
EXTENDS MatterIndex, TLC

DocSymmetry == Permutations(Docs)
=============================================================================
