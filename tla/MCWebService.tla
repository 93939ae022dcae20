---------------------------- MODULE MCWebService ----------------------------
(***************************************************************************)
(* Small instances of WebService for TLC.                                  *)
(***************************************************************************)
EXTENDS WebService, TLC

\* Only for runs without a temporal property.
Symmetry == Permutations(Calls)
=============================================================================
