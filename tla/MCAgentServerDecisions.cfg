CONSTANTS
  Turns = {t1, t2, t3}
  Conversations = {c1}
  ProviderIds = {p1, p2}
  None = None
  OrdinaryRetention = 2
  PendingRetention = 1
  MaxTime = 1
  MaxFrames = 1
  MaxStarts = 2
SYMMETRY Symmetry
SPECIFICATION Spec
INVARIANTS SeenIsDurable ExecutedIsApproved DecidedByOneTurn NoTurnPastPending
CHECK_DEADLOCK FALSE
