CONSTANTS
  Modulus = 2
  MaxRetries = 5
  MaxSent <- Sent00
  MaxLosses = 1
  MaxInFlight = 8
  Prompt = TRUE
SPECIFICATION Spec
INVARIANT HandshakeSurvivesLoss
CHECK_DEADLOCK FALSE
