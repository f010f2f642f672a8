\* The collector the freeze names against the collector that writes the rows.
SPECIFICATION Spec
CONSTANTS
  COLLECTOR = "v9"
  Writer = "v10"
  None = None
  MaxSlots = 3
  MaxWrites = 3
  MaxRows = 1
INVARIANT FrozenRowsQualify
CHECK_DEADLOCK FALSE
