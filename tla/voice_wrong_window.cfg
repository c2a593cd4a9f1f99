CONSTANTS
  c1 = c1
  c2 = c2
  none = none
  Contexts <- TwoContexts
  Sessions <- OneSession
  None <- none
  Backlog = 2
  Inputs = 4
  Breaks = 0
SPECIFICATION Spec
INVARIANTS
  TypedWhereSpoken
CHECK_DEADLOCK FALSE
