-------------------------- MODULE MCRegistryClient ---------------------------
(***************************************************************************)
(* Values for RegistryClient.                                              *)
(***************************************************************************)
EXTENDS RegistryClient, TLC

\* Nothing orders the versions.
ReleaseSymmetry == Permutations(Releases)
=============================================================================
