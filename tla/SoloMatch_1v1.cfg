\* a 1v1 lobby under the speedlatro ruleset: reported timeouts and the pvp timer
SPECIFICATION FairSpec
CONSTANTS
  Players = {p1, p2}
  Rows = {r1}
  NoRow = NoRow
  NoPlayer = NoPlayer
  NoScore = NoScore
  Hands = 1
  MaxScore = 1
  MaxRounds = 0
  MaxBlind = 0
  Disciplined = TRUE
  Base = 2
  Limit = 8
  Tables = {}
  Added = {}
  MaxMatches = 1
  Setups <- SpeedlatroSetups
CHECK_DEADLOCK FALSE
PROPERTIES
  OneLifePerRound
  TimerStops
