SPECIFICATION MCSpec
CONSTANTS
  None = None  forge = forge  mochi = mochi
  t1 = t1  t2 = t2  NoThread = NoThread  Advice = {advice}  Plain = Plain  MaxTokens = 2  MaxSwitches = 2  MaxMounts = 2
  c1 = c1  MaxRuns = 2  MaxLoads = 2  MaxCuts = 1
  loop = loop  tell = tell  slash = slash  plain = plain  MaxEntries = 4
CHECK_DEADLOCK FALSE
INVARIANTS ComposedMessages HistoryShown OutboxShown
