----------------------------- MODULE MCHttpsKit -----------------------------
(***************************************************************************)
(* Instance of HttpsKit for TLC.  Processes, endpoints, directories and    *)
(* CAs are only compared with each other.                                  *)
(***************************************************************************)
EXTENDS HttpsKit, TLC

Symmetry == Permutations(Processes) \cup Permutations(Bases)
              \cup Permutations(Dirs) \cup Permutations(CAs)
=============================================================================
