--------------------------- MODULE MCGraderWorker ---------------------------
(***************************************************************************)
(* Small instances of GraderWorker for TLC.                                *)
(***************************************************************************)
EXTENDS GraderWorker

MCOneJob == <<1>>
=============================================================================
