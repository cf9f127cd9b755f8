CONSTANTS
  Modulus = 2
  MaxRetries = 1
  MaxSent <- Sent03
  MaxLosses = 0
  MaxInFlight = 2
  Prompt = FALSE
SPECIFICATION Spec
INVARIANTS TypeOK NothingAckedUnseen NoSpuriousHangup
PROPERTIES Implements
CHECK_DEADLOCK FALSE
