SPECIFICATION Spec
CONSTANTS
  ask = ask  run = run
  None = None
  Calls = {ask, run}
  Asks = {ask}
  Word <- Distinct
  Scripts <- TwoTurns
  MaxLag = 2
  Moves = {"open", "drop", "send", "tick"}
  MaxMoves = 2
CHECK_DEADLOCK FALSE
CONSTRAINT Unspoilt
INVARIANTS ConversationExact RestIsIdle LikeReload TicksKept
PROPERTY EndedStays
