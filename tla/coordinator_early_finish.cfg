CONSTANTS
  s1 = s1
  s2 = s2
  none = none
  Sessions <- OneSession
  None <- none
  Policies = {"absent", "default", "onDemand"}
  Toggles = {}
SPECIFICATION Spec
INVARIANTS
  FinishStillPossible
