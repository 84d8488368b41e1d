CONSTANTS
  p = p
  q = q
  s = s
  n = n
  m = m
  a = a
  None = None
  Commands = {p, s, n, m, a}
  Mode <- MCMode
  Meta = {m}
  SubagentOnly = {a}
  Turns = {t1, t2, t3}
  MaxCancels = 1
SPECIFICATION MCSpec
INVARIANTS TypeOK GuardOwned NoPromptLost
PROPERTIES QueueDrains LeaseSpec OnlyHolderReleases
CHECK_DEADLOCK FALSE
