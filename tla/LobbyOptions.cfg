\* three players, every type, options from a small set of messages
SPECIFICATION Spec
CONSTANTS
  Players = {p1, p2, p3}
  None = None
  Messages <- OptionMessages
  MinGroup = 2
  MaxGroup = 4
  DefaultMax = 3
  StartLives = 2
  Teams = {1, 2}
SYMMETRY PlayerSymmetry
INVARIANTS NumbersFit OptionsFitType ViewsAgree NemesesAreOpponents
CHECK_DEADLOCK FALSE
