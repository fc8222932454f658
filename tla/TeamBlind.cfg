\* teams lobbies under three score rules and a co-op lobby, of three players
SPECIFICATION Spec
CONSTANTS
  p1 = p1
  p2 = p2
  p3 = p3
  t1 = t1
  t2 = t2
  t3 = t3
  Players = {p1, p2, p3}
  Teams = {t1, t2, t3}
  Setups <- TeamsAndCoop
  Hands = 1
  Target = 2
  Base = 2
  Limit = 8
  Tables = {}
  Added = {}
CHECK_DEADLOCK FALSE
INVARIANTS
  TeamInOneBlind
  PvpTogether
  MatchNeedsTwoTeams
  NoOverduePvpBlind
PROPERTIES
  WonBlindCostsNothing
  TeamPaysOnce
