SPECIFICATION FairIpc
CONSTANTS
  MaxConns = 2
  MaxFd = 3
  Nodes = {n1, n2, n3}
  Anchor = anchor
  MaxPacks = 3
  MaxFragments = 2
CONSTRAINT Window
INVARIANTS
  IpcTypeOK
  NewestOnly
  OrderlyAnswers
  OrderlyStream
  TidyListens
  ListSound
  GetterBacked
  Released
  NumberedFromZero
PROPERTIES
  EveryPackTaken
  IpcEnds
CHECK_DEADLOCK FALSE
