SPECIFICATION Spec
CONSTANTS
  forge = forge  iori = iori
  m1 = m1  m2 = m2
  c1 = c1  c2 = c2
  cron = cron
  None = None
  Agents <- OneAgent
  Msgs <- TwoMsgs
  Calls <- TwoCalls
  Foreign <- OneForeign
  Mention <- NoMention
  Kinds = {"native"}
  MaxLag = 2
SYMMETRY CallSymmetry
CHECK_DEADLOCK FALSE
INVARIANT SentOnce
