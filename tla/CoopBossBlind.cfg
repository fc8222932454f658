\* three players, one with an unreliable connection
SPECIFICATION Spec
CONSTANTS
  p1 = p1
  p2 = p2
  p3 = p3
  b1 = b1
  b2 = b2
  Players = {p1, p2, p3}
  Bosses = {b1, b2}
  NoBoss = NoBoss
  Nobody = Nobody
  MayDrop = {p1}
  MaxRevision = 3
  MaxInbox = 2
SYMMETRY Interchangeable
CHECK_DEADLOCK FALSE
INVARIANTS
  FollowersKnowBoss
PROPERTIES
  BossStaysDuringBlind
