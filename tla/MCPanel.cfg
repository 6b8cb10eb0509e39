SPECIFICATION MCSpec
CONSTANTS
  None = None
  Typed = Typed  q1 = q1  q2 = q2  Multi = {q2}  MaxAsks = 2  MaxMounts = 2
  Lost = Lost  Window = 1  Views = {1, 2}  MaxRows = 2  MaxLength = 2
  t1 = t1  t2 = t2
  forge = forge  mochi = mochi  MaxVisits = 5  MaxPulls = 2
  cli = cli  gone = gone  m1 = m1  m2 = m2  c1 = c1  c2 = c2  ModelThreads = {t1, t2}  Registered = {cli}
  Catalog <- PanelCatalog  Preferred <- PanelPreferred  MaxRoutes = 4  MaxJobs = 3
  game = game  wiki = wiki  iori = iori  wren = wren  MaxActs = 4
  Sids = {t1, t2}  Providers = {cli, gone}  CatalogIds = {cli}
  MaxAttempts = 2  MaxMoves = 5
CHECK_DEADLOCK FALSE
INVARIANTS AnswersMatch FollowKept FocusKept ModelTold SummonKept WarmSparing
