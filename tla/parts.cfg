CONSTANTS
  Word = 1024
  Spread = 64
  MaxTic = 260
  a = a
  b = b
  d = d
  Addrs = {a, d}
  Drones = {d}
  ValidSettings = {a}
  NumSlots = 2
  NET_MAXPLAYERS = 8
  MaxPlayersOf <- MaxTwo
  ModeOf <- OneMode
  Nobody = Nobody
  indetermined = indetermined
  Songs <- SongsSmall
  Slice = 2
  MAX_OPL_QUEUE = 4
  FirstTempo = 1
  RestartDelay = 1
  MaxPause = 1
  LoopPlayers = {0, 1}
  RingSize = 2
  NetLead = 0
  SoloAhead = 0
  OldLead = 1
  ServerLead = 1
  StallTics = 1
  LastTic = 3
  MaxDue = 2
  ZoneSize = 7
  MINFRAGMENT = 1
  Lumps = {2, 3}
  LumpSize <- Sizes
  PlainSizes = {2}
  NULL = NULL
  Sfx = {"pistol", "door", "broken"}
  InvalidSfx = {"broken"}
  Pitches = {1, 2}
  NORM_PITCH = 1
  SoundSize <- PitchBytes
  snd_cachesize = 3
  snd_pitchshift = TRUE
  Channels = {1, 2}
  NoSound = NoSound
  MaxUses = 3
  Servers = {"s1", "s2"}
  Master = "master"
  Broadcast = "broadcast"
  Listed = {"s1"}
  QUERY_TIMEOUT = 1
  QUERY_MAX_ATTEMPTS = 2
  MaxLate = 1
SPECIFICATION PartsSpec
INVARIANTS ExpandedExactly FirstIsEarliest EveryTrackOnce HeapSound CacheCoherent PlayingIsAllocated
PROPERTIES ServerRecovers BufferFilled MusicGoesOn RightTics GameGoesOn TryRunTicsReturns ZoneCallsEnd QueryEnds
CHECK_DEADLOCK FALSE
