CONSTANTS
  MaxText = 2
  Now = 1
  NowRest = 1
  Requests <- MCRequests
SPECIFICATION Spec
INVARIANT ErrorsBecome502
CHECK_DEADLOCK FALSE
