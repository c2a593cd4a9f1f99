CONSTANTS
  none = none
  invalid = invalid
  Configs = {"default", "polished", "unpolished", "unfinished"}
  Default = "default"
  Complete = {"default", "polished", "unpolished"}
  Polished = {"polished", "unpolished"}
  Enabled = {"polished"}
  AsrNeeds <- AsrCredentials
  PolisherNeeds <- PolisherCredentials
  Names = {"asr key", "polisher key"}
  Dictionaries = {"one", "other"}
  Invalid <- invalid
  None <- none
  Requests = 2
  HandEdits = 1
  Stops = 1
SPECIFICATION Spec
INVARIANTS
  CredentialsAreKept
CHECK_DEADLOCK FALSE
