SPECIFICATION FairSpec
CONSTANTS
  Kinds <- MCKinds
  Layout <- MCLayout
  Announces <- MCAnnounces
  MaxMsgs = 3
  RTSP_BUFFERSIZE = 11
  SizeMod = 1024
  OutReplies = 2
INVARIANTS TypeOK Framed OnceInOrder OwnHeaders RepliesInOrder
PROPERTIES RemovedIfWhole AllHandled
CHECK_DEADLOCK FALSE
