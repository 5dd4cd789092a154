\* Whether an identity is only ever installed under the shared cookie lock.
SPECIFICATION Spec
CONSTANTS
  Tabs = {a, b}
  Users = {u, w}
  None = None
  MaxTokens = 3
  MaxFamilies = 2
  MaxLost = 0
  MaxCalls = 2
SYMMETRY Symmetry
PROPERTIES
  InstalledUnderLock
CHECK_DEADLOCK FALSE
