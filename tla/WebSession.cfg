\* Two tabs, two users, a sign-in beside the session left behind, one reply lost.
\* No symmetry: RequestsSettle is a liveness property.
SPECIFICATION Spec
CONSTANTS
  Tabs = {a, b}
  Users = {u, w}
  None = None
  MaxTokens = 3
  MaxFamilies = 2
  MaxLost = 1
  MaxCalls = 2
INVARIANTS
  OneIdentity
  ResultsForAsker
  SuccessIsCurrent
PROPERTIES
  RenewalSignsNobodyIn
  RequestsSettle
CHECK_DEADLOCK FALSE
