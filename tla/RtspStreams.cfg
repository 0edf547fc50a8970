SPECIFICATION Spec
CONSTANTS
  Clients = {c1, c2, c3}
  MAX_CONNECTION = 2
  RtpIds = {r1, r2, r3}
  MaxSetups = 2
  Nil = Nil
  Unseen = Unseen
SYMMETRY Symmetry
INVARIANTS StreamedOnlyToPlayers
CHECK_DEADLOCK FALSE
