SPECIFICATION Spec
CONSTANTS
  Threads = {t1, t2}
  NoThread = nt
  Advice = {a1}
  Plain = plain
  Selections = {}
  MaxTokens = 2
  MaxSwitches = 2
  MaxMounts = 1
INVARIANTS DraftsSurvive
CHECK_DEADLOCK FALSE
