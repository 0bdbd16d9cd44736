CONSTANTS
  Processes = {w1, w2}
  Bases = {b1, b2}
  Dirs = {d1, d2}
  CAs = {k1, k2}
  None = None
  MaxCommands = 2
  MaxEvents = 2
SYMMETRY Symmetry
SPECIFICATION Spec
INVARIANTS DirectoriesAreSafe TrustIsOfOneSetup
PROPERTY DoctorProves
CHECK_DEADLOCK FALSE
