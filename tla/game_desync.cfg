CONSTANTS
  NumPlayers = 2
  NumNodes = 3
  NET_MAXPLAYERS = 2
  BACKUPTICS = 4
  MaxLag = 0
  SoloLead = 0
  MaxAhead = 1
  ResendSpan = 1
  extratics = 0
  Watched = 1
  Leavers = {1}
  Word = 1024
  MaxLate = 64
  MaxTic = 1
  MaxInFlight = 2
SPECIFICATION Spec
INVARIANT SameTics
