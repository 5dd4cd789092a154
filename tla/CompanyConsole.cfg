SPECIFICATION Spec
CONSTANTS
  None = None
  Rights = {"can_read", "can_organize"}
  MaxMoves = 3
  MaxCalls = 2
  MaxRivals = 1
  MaxLost = 1
INVARIANTS
  DoneOnce
  ShownIsTrue
PROPERTIES
  TypedInputSurvives
  NoBlindOverwrite
  ReviewReleases
  ConfirmedAsShown
CHECK_DEADLOCK FALSE
