CONSTANTS
  none = none
  Options = {"first", "padded", "second", "invalid"}
  Invalid = {"invalid"}
  Keys = {"old", "new"}
  None <- none
  Initial = "first"
  Trimmed <- TrimmedOptions
  Edits = 2
  Losses = 1
SPECIFICATION FairSpec
INVARIANTS
  RetryIsArmed
  SavedMeansApplied
  OneWriter
PROPERTIES
  GetsConnected
  WindowCloses
CHECK_DEADLOCK FALSE
