CONSTANTS
  Turns = {t1, t2}
  Conversations = {c1}
  ProviderIds = {p1, p2}
  None = None
  OrdinaryRetention = 1
  PendingRetention = 1
  MaxTime = 1
  MaxFrames = 1
  MaxStarts = 2
SPECIFICATION Spec
PROPERTIES TurnsEnd
CHECK_DEADLOCK FALSE
