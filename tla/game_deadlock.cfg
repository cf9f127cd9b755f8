CONSTANTS
  NumPlayers = 2
  NumNodes = 2
  NET_MAXPLAYERS = 2
  BACKUPTICS = 4
  MaxLag = 1
  SoloLead = 0
  MaxAhead = 1
  ResendSpan = 1
  extratics = 0
  Watched = 1
  Leavers = {}
  Word = 1024
  MaxLate = 64
  MaxTic = 3
  MaxInFlight = 1
SPECIFICATION Spec
INVARIANT NeverAllWait
