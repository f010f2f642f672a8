SPECIFICATION FairSpec
CONSTANTS
  None = None
  Signals = {a, b}
  Threads = {t1}
  Readers = {q1}
  Cutoffs = {1, 2}
  MaxPending = 1
  MaxTickets = 2
  MaxCrashes = 1
CHECK_DEADLOCK FALSE
INVARIANTS FitsConsistent
PROPERTIES PromotesForward EveryCallReturns
