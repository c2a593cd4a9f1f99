CONSTANTS
  Protocols <- AllProtocols
  Sentences = 3
  FrameSizes = {1, 3}
  Packet = 2
  Frames = 3
  AudioLimit = 5
SPECIFICATION FairSpec
INVARIANTS
  CompletedIsWhole
PROPERTIES
  ImplementsRecognition
  RecognitionEnds
CHECK_DEADLOCK FALSE
