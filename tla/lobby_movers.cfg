CONSTANTS
  a = a
  b = b
  d = d
  Addrs = {a, b, d}
  Drones = {d}
  ValidSettings = {a, b}
  NumSlots = 2
  NET_MAXPLAYERS = 8
  MaxPlayersOf <- MaxTwo
  ModeOf <- OneMode
  Nobody = Nobody
  indetermined = indetermined
  NumSectors = 2
  SectorTag <- OneTag
  Timed <- BothTimed
  RaiseDoors = {2}
  OpenLines <- ToSecond
  NextStairs <- SecondIsStep
  DonutRing <- RingsOfEach
  OnlyAround = {2}
  PlatTypes = {"downWaitUpStay", "perpetualRaise"}
  CeilingTypes = {"crushAndRaise", "raiseToHighest"}
  DoorTypes = {"open", "close", "close30ThenOpen"}
  Others = {"floor", "stairs", "donut", "stopPlat", "crushStop"}
  b1 = b1
  b2 = b2
  Blocks = {b1, b2}
  MAXPLATS = 1
  MAXCEILINGS = 1
  usergame = TRUE
  NULL = NULL
SPECIFICATION LobbyMoversSpec
SYMMETRY Same
CONSTRAINT LoadedAtOnce
INVARIANTS TypeOK OneSlotPerClient NoStaleReady NumbersAgree StartReachesPlaced NothingDangles AllListed OneMoverEach EachOncePerTic LoadRestores
PROPERTIES NumbersStable
CHECK_DEADLOCK FALSE
