CONSTANTS
  a = a
  b = b
  None = None
  Callers = {a, b}
  Changes <- MCChanges
  Initially = 2
  MaxId = 3
  MaxCalls = 3
  MaxCrashes = 0
SPECIFICATION Spec
INVARIANTS IdsNeverReused
SYMMETRY Symmetry
CHECK_DEADLOCK FALSE
