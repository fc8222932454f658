\* two teammates and an opponent, a card and a hand, over two runs
SPECIFICATION Spec
CONSTANTS
  a = a
  b = b
  c = c
  Players = {a, b, c}
  Group <- Teams
  Cards = {card}
  Hands = {hand}
  Data = {1, 2}
  Start = 1
  Gone = Gone
  NoEntry = NoEntry
  MaxEvents = 4
SYMMETRY Teammates
CHECK_DEADLOCK FALSE
INVARIANTS
  RemovedCardsStayGone
  FollowersAgree
  QuietMoneyAgrees
