SPECIFICATION CronSpec
CONSTANTS
  a = a
  b = b
  c = c
  once = once
  again = again
  daily = daily
  Sessions = {a, b, c}
  SessionId <- Ids
  Budgets <- SomeBudgets
  Cases <- SomeCases
  Tasks = {once, daily}
  Recurring = {daily}
  MaxTime = 2
  MaxAge = 2
  Never = Never
  Unset = Unset
INVARIANTS TypeOK Exclusive FileAccounted
PROPERTIES AtMostOnce Takeover DueTasksHandled
CHECK_DEADLOCK FALSE
