SPECIFICATION FairSpec
CONSTANTS
  Kinds <- MCKinds
  Layout <- MCLayout
  Announces <- MCAnnounces
  MaxMsgs = 2
  RTSP_BUFFERSIZE = 11
  SizeMod = 1024
  OutReplies = 2
PROPERTIES HandlerReturns
CHECK_DEADLOCK FALSE
