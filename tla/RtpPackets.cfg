SPECIFICATION Spec
CONSTANTS
  MAX_RTP_PKT_LENGTH = 2
  SeqMod = 4
  Sizes <- MCSizes
  MaxFrames = 4
  MaxGap = 2
  LongLongAlign = 8
INVARIANTS TypeOK SeqNumbersCount FlagsFrameTheData ReassemblyExact
CHECK_DEADLOCK FALSE
