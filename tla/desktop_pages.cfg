CONSTANTS
  none = none
  Terms = {"first", "second", "third"}
  Stored <- TwoEntries
  Options = {"space", "F9", "unset", "unset slow"}
  Configured = {"space", "unset"}
  Unset = {"unset", "unset slow"}
  Sources = {"mine", "empty"}
  Broken = {"empty"}
  Default = "default"
  Empty = "empty"
  None <- none
  Events = 3
SPECIFICATION FairSpec
INVARIANTS
  DictionarySaved
  BehaviorSaved
PROPERTIES
  BusyEnds
  PagesClose
CHECK_DEADLOCK FALSE
