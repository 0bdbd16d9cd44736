---------------------------- MODULE MCStreamGate ----------------------------
(***************************************************************************)
(* Instances for TLC of what the gate does to a stream: SseFraming cuts it *)
(* into frames, DuplicateKeys scans the data of a frame, StreamGate takes  *)
(* the parsed frame.  Each stage takes all inputs up to its bounds and not *)
(* only what the stage before makes of its own: a behaviour is one of one  *)
(* stage.                                                                  *)
(***************************************************************************)
EXTENDS StreamGate, SseFraming, DuplicateKeys, TLC

VARIABLES
  stage  \* which of the three this behaviour is of

MCSources == Texts

MCInit ==
  /\ Init /\ FramingInit
  /\ \/ stage = "scan" /\ ScanInit
     \/ /\ stage \in {"framing", "gate"}
        /\ source = One /\ index = 1 /\ containers = <<>>
        /\ verdict = "accepted"

MCNext ==
  /\ UNCHANGED stage
  /\ \/ stage = "framing" /\ FramingNext /\ UNCHANGED <<vars, scanVars>>
     \/ stage = "scan" /\ ScanNext /\ UNCHANGED <<vars, framingVars>>
     \/ stage = "gate" /\ Next /\ UNCHANGED <<framingVars, scanVars>>

MCSpec == MCInit /\ [][MCNext]_<<stage, vars, framingVars, scanVars>>

Symmetry == Permutations(ResponseIds)
=============================================================================
