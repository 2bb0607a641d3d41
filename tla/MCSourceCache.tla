---------------------------- MODULE MCSourceCache ----------------------------
(***************************************************************************)
(* Values for SourceCache.                                                 *)
(***************************************************************************)
EXTENDS SourceCache, TLC

\* Nothing orders the revisions.
RevSymmetry == Permutations(Revs)
=============================================================================
