CONSTANTS
  Processes = {w1, w2}
  Conversations = {c1}
  ResponseIds = {r1, r2, r3}
  Approvals = {a1, a2}
  None = None
  OrdinaryRetention = 3
  PendingRetention = 2
  BusyTimeout = 1
  MaxActions = 2
  MaxTime = 3
SYMMETRY Symmetry
SPECIFICATION Spec
CONSTRAINT Bound
INVARIANTS FileIsConsistent ActedOnce NoneGoesPast
PROPERTIES HeadKeptUntilExpiry ImplementsLedger
