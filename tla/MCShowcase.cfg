CONSTANTS
  t1 = t1
  t2 = t2
  None = None
  Turns = {t1, t2}
  Conversations = {c1, c2}
  Failing = {t2}
  MaxRestarts = 1
SPECIFICATION FairSpec
INVARIANT FilesAreAccountedFor
PROPERTIES ContinuedWhereItRan Ends
CHECK_DEADLOCK FALSE
