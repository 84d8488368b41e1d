SPECIFICATION Spec
CONSTANTS
  a = a
  b = b
  c = c
  once = once
  again = again
  daily = daily
  Sessions = {a}
  SessionId <- Ids
  Budgets <- TwoOneShotsBudgets
  Cases <- TwoOneShots
  Tasks = {once, again}
  Recurring = {}
  MaxTime = 2
  MaxAge = 2
  Never = Never
  Unset = Unset
INVARIANTS FiresOnce
CHECK_DEADLOCK FALSE
