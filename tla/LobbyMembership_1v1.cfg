\* 1v1 lobbies: four sockets play, drop, return and join two lobbies
SPECIFICATION Spec
CONSTANTS
  Conns = {c1, c2, c3, c4}
  Lobbies = {L1, L2}
  Codes = {K1, K2}
  NoConn = NoConn
  NoLobby = NoLobby
  NoCode = NoCode
  NoSlot = NoSlot
  HeadToHead = TRUE
  GroupMax = 2
  Disciplined = TRUE
  CodeReuse = FALSE
SYMMETRY MembershipSymmetry
CHECK_DEADLOCK FALSE
INVARIANTS
  OnePlacePerPlayer
  OneHost
  RegisteredWhilePopulated
