--------------------------- MODULE MCFastApiRelay ---------------------------
(***************************************************************************)
(* Instance of FastApiRelay for TLC.                                       *)
(***************************************************************************)
EXTENDS FastApiRelay
=============================================================================
