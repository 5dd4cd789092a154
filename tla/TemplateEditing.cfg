\* One template with a published version; the administrator, a rival, one lost
\* answer.
SPECIFICATION Spec
CONSTANTS
  None = None
  MaxMoves = 3
  MaxCalls = 2
  MaxRivals = 1
  MaxLost = 1
PROPERTIES
  OverwritesOnlySeen
  PublishedAsShown
  EditsSurviveReplies
CHECK_DEADLOCK FALSE
