CONSTANTS
  c1 = c1
  c2 = c2
  none = none
  Contexts <- TwoContexts
  Sessions <- TwoSessions
  None <- none
  Backlog = 1
  Inputs = 4
  Breaks = 0
SPECIFICATION Spec
SYMMETRY Alike
INVARIANTS
  TypeOK
  TriggerNeverHangs
  PanelHasReason
  SelectionsAreAvailable
PROPERTIES
  TypedUnderKeyboard
CHECK_DEADLOCK FALSE
