\* The tools around a deployment, one component per behaviour.
SPECIFICATION Spec
CONSTANTS
  None = None  Damaged = Damaged
  caller1 = caller1  caller2 = caller2  other1 = other1  other2 = other2
SYMMETRY Symmetry
CHECK_DEADLOCK FALSE
INVARIANTS HeldLinesKept HourBounded ResultsAgree IncidentsReported FrozenIsWhole NothingLater ShortageTrue
PROPERTIES HandedOver
