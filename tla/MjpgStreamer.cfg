SPECIFICATION FairSpec
CONSTANTS
  Writers = {file}
  Server = http
  Clients = {client}
  MaxFrames = 2
INVARIANTS
  TypeOK
  QuietUntilStopped
PROPERTIES
  ImplementsBoard
  FrameReachesWaiter
CONSTRAINT Window
CHECK_DEADLOCK FALSE
