SPECIFICATION MCSpec
CONSTANTS
  r1 = r1  None = None  OpenLoad = OpenLoad  MaxServers = 1  MaxSeq = 2  MaxHeld = 2
  Agents = {a}  TraceSids = {s1, s2}  MaxTurns = 2  MaxStalls = 2  MaxGen = 3
  Turns = {t1}  task1 = task1  task2 = task2  Todos <- TwoTasks  MaxMessages = 2  Mixes <- FourMixes  MaxSegs = 4
  RowAgents = {ann, bob}  Viewer = ann  MaxEvents = 3  MaxAhead = 1  MaxLoads = 1
CHECK_DEADLOCK FALSE
INVARIANTS TraceSafe WorkShown RowsLikeReload
PROPERTIES GapReleased SilenceReported
