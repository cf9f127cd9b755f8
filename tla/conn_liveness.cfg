CONSTANTS
  Modulus = 2
  MaxRetries = 1
  MaxSent <- Sent01
  MaxLosses = 0
  MaxInFlight = 1
  Prompt = FALSE
SPECIFICATION FairSpec
PROPERTIES DisconnectEnds NoHalfOpen ReliableArrives
CHECK_DEADLOCK FALSE
