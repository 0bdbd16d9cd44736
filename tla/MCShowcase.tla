----------------------------- MODULE MCShowcase -----------------------------
(***************************************************************************)
(* Showcase for TLC: a turn and a failing one, of one conversation or of   *)
(* two.                                                                    *)
(***************************************************************************)
EXTENDS Showcase

CONSTANTS t1, t2
=============================================================================
