CONSTANTS
  MaxText = 2
  Now = 1
  NowRest = 1
  Requests <- MCRequests
SPECIFICATION Spec
INVARIANTS AcceptedIsSafe PortableAlike
CHECK_DEADLOCK FALSE
