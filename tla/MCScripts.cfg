CONSTANTS
  r1 = r1
  r2 = r2
  r3 = r3
  p1 = p1
  p2 = p2
  b1 = b1
  b2 = b2
  e1 = e1
  e2 = e2
  t1 = t1
  Absent = Absent
  Revisions = {r1, r2, r3}
  Exportable = {r1, r2}
  Paths = {p1, p2}
  Blobs = {b1, b2}
  Tree <- MCTree
  Builders = {e1}
  Composers = {e2}
  Tags = {t1}
  TagOf <- MCTagOf
SPECIFICATION MCSpec
INVARIANTS ImageIsItsRevision CleanedUp
CHECK_DEADLOCK FALSE
