CONSTANTS
  Songs <- SongsSmall
  Slice = 2
  MAX_OPL_QUEUE = 4
  FirstTempo = 1
  RestartDelay = 1
  MaxPause = 1
SPECIFICATION OplSpec
INVARIANT ClearedForGood
CHECK_DEADLOCK FALSE
