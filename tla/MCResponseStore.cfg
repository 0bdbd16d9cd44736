CONSTANTS
  Conversations = {c1}
  ResponseIds = {r1, r2}
  Approvals = {a1, a2}
  None = None
  OrdinaryRetention = 3
  PendingRetention = 2
  HeadRetentions = {2, 3, 4}
  MaxActions = 2
  MaxTime = 3
SYMMETRY Symmetry
SPECIFICATION Spec
INVARIANTS IInv PendingHasHead
PROPERTIES HeadKeptUntilExpiry DecisionFinal DecidedWithResult ImplementsLedger
