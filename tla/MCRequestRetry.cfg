\* A retry at the same origin after the startup budget was republished.
SPECIFICATION Spec
CONSTANTS
  Names = {x}
  Workers = {a, b}
  None = None
  Dt = 2
  Horizon = 12
  Settle = 1
  Allowance = 0
  Interval = 2
  Budgets = {1, 2}
  HistorySlots = 2
  Deadline = 3
  MaxRegistered = 1
  Settings = {"s"}
  MaxTime = 7
  MaxEdits = 3
INVARIANT RetryAnswered
CHECK_DEADLOCK FALSE
