CONSTANTS
  none = none
  Options = {"first", "padded", "second", "invalid"}
  Invalid = {"invalid"}
  Keys = {"new"}
  None <- none
  Initial = "first"
  Trimmed <- TrimmedOptions
  Edits = 2
  Losses = 1
SPECIFICATION Spec
INVARIANT EditsAreSaved
CHECK_DEADLOCK FALSE
