\* a reserved participant of one match returns into the next
SPECIFICATION Spec
CONSTANTS
  Players = {p1, p2, p3}
  Rows = {r1}
  NoRow = NoRow
  NoPlayer = NoPlayer
  NoScore = NoScore
  Hands = 1
  MaxScore = 0
  MaxRounds = 0
  MaxBlind = 0
  Disciplined = TRUE
  Base = 2
  Limit = 8
  Tables = {}
  Added = {}
  MaxMatches = 2
  Setups <- RematchSetups
SYMMETRY PlayerSymmetry
CHECK_DEADLOCK FALSE
INVARIANTS
  OnlyCastPlays
