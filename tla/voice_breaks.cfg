CONSTANTS
  c1 = c1
  c2 = c2
  none = none
  Contexts <- OneContext
  Sessions <- OneSession
  None <- none
  Backlog = 1
  Inputs = 3
  Breaks = 1
SPECIFICATION FairSpec
INVARIANTS
  NoSessionOutlivesClient
PROPERTIES
  ReleaseEnds
CHECK_DEADLOCK FALSE
