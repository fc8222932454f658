\* three players, two lobbies, one save in up to two versions
SPECIFICATION Spec
CONSTANTS
  ann = ann
  bob = bob
  Clients = {ann, bob, cho}
  Names = {ann, bob, cho}
  NameOf <- OwnNames
  Lobbies = {l1, l2}
  SaveIds = {s1, s2}
  NoLobby = NoLobby
  NoSave = NoSave
  NoVote = NoVote
  NoRestore = NoRestore
  MinSeats = 3
  MaxFiles = 2
SYMMETRY Interchangeable
CHECK_DEADLOCK FALSE
INVARIANTS
  VotesFollowTheRun
PROPERTIES
  RestoredRunsAreManned
