SPECIFICATION Spec
CONSTANTS
  ask = ask  run = run
  None = None
  Calls = {ask, run}
  Asks = {ask}
  Word <- Distinct
  Scripts <- TwoTurns
  MaxLag = 2
  Moves = {"open", "send"}
  MaxMoves = 2
CHECK_DEADLOCK FALSE
PROPERTY LoadKeepsNewer
