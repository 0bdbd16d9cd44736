--------------------------- MODULE MCAgentServer ---------------------------
(***************************************************************************)
(* Instance of AgentServer for TLC.  Turns, conversations and provider ids *)
(* are only compared with each other.                                      *)
(***************************************************************************)
EXTENDS AgentServer, TLC

Symmetry == Permutations(Turns) \cup Permutations(Conversations)
              \cup Permutations(ProviderIds)
=============================================================================
