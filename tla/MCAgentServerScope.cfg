CONSTANTS
  Turns = {t1, t2}
  Conversations = {c1, c2}
  ProviderIds = {p1, p2}
  None = None
  OrdinaryRetention = 1
  PendingRetention = 1
  MaxTime = 1
  MaxFrames = 2
  MaxStarts = 1
SYMMETRY Symmetry
SPECIFICATION Spec
INVARIANTS ProviderStaysInConversation OnlyCompletionsAdvance
CHECK_DEADLOCK FALSE
