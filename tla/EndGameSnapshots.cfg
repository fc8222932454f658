\* two players, three moves of the lobby
SPECIFICATION Spec
CONSTANTS
  a = a
  b = b
  Players = {a, b}
  Kinds = {"deck", "summary"}
  None = None
  MaxAsks <- Asks
  MaxOffers <- Offers
  MaxVersion <- States
  MaxMoves = 3
CHECK_DEADLOCK FALSE
PROPERTIES
  SnapshotsGetNewer
  RequestsAreAnswered
