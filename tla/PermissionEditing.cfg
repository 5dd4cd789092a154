CONSTANTS
  Profiles = {p, q}
  Members = {m}
  Fields = {f, g}
  Vals = {x, y}
  None = None
  First = p
  MaxEdits = 1
  MaxRivals = 2
  MaxFaults = 1
  MaxWrites = 1
SYMMETRY Symmetry
SPECIFICATION Spec
CHECK_DEADLOCK FALSE
INVARIANTS StaleDialogIsFlagged
PROPERTIES WritesWhatWasTyped DeletesWhatWasReviewed
