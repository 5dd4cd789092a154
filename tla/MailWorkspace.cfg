SPECIFICATION Spec
CONSTANTS
  Received = {m}
  Sent = {s}
  Drafts = {d}
  None = None
  MaxInputs = 3
  MaxFaults = 1
  MaxLoads = 2
INVARIANTS
  OwnMovesAreShown
  NoContentAfterDenial
PROPERTIES
  EditorNotReplaced
  AutomaticMovesStayHome
CHECK_DEADLOCK FALSE
