CONSTANTS
  NumPlayers = 2
  NumNodes = 2
  NET_MAXPLAYERS = 2
  BACKUPTICS = 3
  MaxLag = 1
  SoloLead = 0
  MaxAhead = 1
  ResendSpan = 0
  extratics = 0
  Watched = 1
  Leavers = {}
  Word = 1024
  MaxLate = 64
  MaxTic = 2
  MaxInFlight = 1
SPECIFICATION FairSpec
PROPERTIES GapsFilled FirstTicArrives
