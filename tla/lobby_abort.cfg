CONSTANTS
  a = a
  b = b
  d = d
  Addrs = {a, b}
  Drones = {}
  ValidSettings = {a, b}
  NumSlots = 2
  NET_MAXPLAYERS = 8
  MaxPlayersOf <- MaxTwo
  ModeOf <- OneMode
  Nobody = Nobody
  indetermined = indetermined
SPECIFICATION Spec
PROPERTIES AbortOnDisconnect
