CONSTANTS
  a = a
  b = b
  None = None
  Callers = {a, b}
  Changes <- MCChanges
  Initially = 2
  MaxId = 3
  MaxCalls = 3
  MaxCrashes = 1
SPECIFICATION Spec
INVARIANTS TypeOK NoIdReusedByReset NoLostUpdate ClaimTakesNothing NoDeadlock
SYMMETRY Symmetry
CHECK_DEADLOCK FALSE
