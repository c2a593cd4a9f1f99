CONSTANTS
  s1 = s1
  s2 = s2
  none = none
  Sessions <- OneSession
  None <- none
  Policies = {"absent", "default", "onDemand"}
  Toggles = {TRUE, FALSE}
SPECIFICATION FairSpec
INVARIANTS
  TypeOK
  CommittedResultWasOffered
  CancelledNeverCommits
  SuccessfulStartMeansRecording
  MarkerPromisesPolishing
PROPERTIES
  RecordingMeansReady
  ImplementsService
  GivenUpIsSettled
  RecordingEnds
  FinishLeadsToResults
  StartIsAnswered
