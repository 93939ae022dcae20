----------------------------- MODULE MCManifests -----------------------------
(***************************************************************************)
(* Small instances of Manifests for TLC.                                   *)
(***************************************************************************)
EXTENDS Manifests, TLC

\* Only for runs without a temporal property.
Symmetry == Permutations(Calls) \cup Permutations(Files)
=============================================================================
