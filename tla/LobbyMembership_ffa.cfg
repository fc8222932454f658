\* one ffa lobby of up to three players: heirs, kicks, partial eliminations and the end of reservations
SPECIFICATION FairSpec
CONSTANTS
  Conns = {c1, c2, c3}
  Lobbies = {L1}
  Codes = {K1}
  NoConn = NoConn
  NoLobby = NoLobby
  NoCode = NoCode
  NoSlot = NoSlot
  HeadToHead = FALSE
  GroupMax = 3
  Disciplined = TRUE
  CodeReuse = FALSE
CHECK_DEADLOCK FALSE
PROPERTIES
  AbsentHostKeepsRole
  ReservationsEnd
  HostReturns
