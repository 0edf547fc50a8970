SPECIFICATION FairSpec
CONSTANTS
  NMAX = 2
  MaxFrames = 5
INVARIANTS TypeOK CountInRange NoGarbageSent StrayOnlyByLostUpdates
  RewrittenOnlyByLapping
PROPERTIES TakenInOrder ImplementsQueue EveryCountedFrameTaken
CHECK_DEADLOCK FALSE
