CONSTANTS
  NumPlayers = 2
  NumNodes = 3
  NET_MAXPLAYERS = 2
  BACKUPTICS = 4
  MaxLag = 1
  SoloLead = 0
  MaxAhead = 0
  ResendSpan = 0
  extratics = 1
  Watched = 1
  Leavers = {1}
  Word = 1024
  MaxLate = 64
  MaxTic = 3
  MaxInFlight = 1
SPECIFICATION Spec
INVARIANTS TypeOK NothingDiscardedEarly WithinReach HeldTogether
PROPERTIES Implements WaitForever
