\* lobbies of three and four players: ffa under the shared ante timer, duels and survival
SPECIFICATION Spec
CONSTANTS
  Players = {p1, p2, p3, p4}
  Rows = {r1}
  NoRow = NoRow
  NoPlayer = NoPlayer
  NoScore = NoScore
  Hands = 1
  MaxScore = 1
  MaxRounds = 2
  MaxBlind = 1
  Disciplined = TRUE
  Base = 2
  Limit = 8
  Tables <- SomeTables
  Added = {0, 1, 2, 3, 4}
  MaxMatches = 1
  Setups <- GroupSetups
SYMMETRY PlayerSymmetry
CHECK_DEADLOCK FALSE
INVARIANTS
  MatchNeedsTwo
  BlindsInStep
  NoOverdueBlind
  TimerInGoodHands
  RulesAgree
  EarlyResultsStand
PROPERTIES
  OnlyBeatenPlayersLose
  ByesRotate
