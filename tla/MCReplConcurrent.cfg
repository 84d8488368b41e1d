CONSTANTS
  p = p
  q = q
  s = s
  n = n
  m = m
  a = a
  None = None
  Commands = {p, s, n}
  Mode <- MCMode
  Meta = {}
  SubagentOnly = {}
  Turns = {t1, t2, t3}
  MaxCancels = 1
SPECIFICATION Spec
INVARIANTS NoConcurrentExecution
CHECK_DEADLOCK FALSE
