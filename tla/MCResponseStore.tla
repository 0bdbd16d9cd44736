-------------------------- MODULE MCResponseStore --------------------------
(***************************************************************************)
(* Instance of ResponseStore for TLC.  Conversations only scope the keys,  *)
(* and approvals are compared only with each other, so both are symmetric. *)
(***************************************************************************)
EXTENDS ResponseStore, TLC

Symmetry == Permutations(Conversations) \cup Permutations(Approvals)
              \cup Permutations(ResponseIds)
=============================================================================
