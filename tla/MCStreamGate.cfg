CONSTANTS
  ResponseIds = {r1, r2}
  None = None
  MaxFrames = 4
  Maximum = 3
  MaxStream = 8
  Letters = {"a", "u", "1"}
  MaxPieces = 2
  MaxMembers = 3
  Sources <- MCSources
SYMMETRY Symmetry
SPECIFICATION MCSpec
INVARIANTS NoCompletionAfterTerminal CompletionWithheld StreamPreserved CompletedIsCreated FramingIsExact ScanIsExact
CHECK_DEADLOCK FALSE
