CONSTANTS
  s1 = s1
  s2 = s2
  none = none
  Sessions <- TwoSessions
  None <- none
  Policies = {"default"}
  Toggles = {}
SPECIFICATION Spec
SYMMETRY Interchangeable
INVARIANTS
  GateFollowsSession
  NothingLeftRunning
PROPERTIES
  LegalTransitions
  SilentAfterSettlement
  StaleWorkIsHarmless
  ImplementsLifecycle
