SPECIFICATION Spec
CONSTANTS
  forge = forge  iori = iori
  m1 = m1  m2 = m2
  c1 = c1  c2 = c2
  cron = cron
  None = None
  Agents <- TwoAgents
  Msgs <- TwoMsgs
  Calls <- TwoCalls
  Foreign <- NoForeign
  Mention <- SomeMention
  Kinds = {"native", "cli"}
  MaxLag = 2
SYMMETRY CallSymmetry
CHECK_DEADLOCK FALSE
INVARIANT StopHolds
INVARIANT SseCountsCalls
INVARIANT OwnerInFlight
