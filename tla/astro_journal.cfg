CONSTANTS
  Equipment = {e1}
  Site = {s1}
  Reference = {g1}
  Favorite = {c1}
  Record = {r1, r2}
  File = {f1}
  Catalog = {m31}
  NoCatalog = NoCatalog
  Requests = {t1, t2}
  Clients = {k1}
  Limit = 1
  MaxFlushes = 3
  MaxResets = 1
  MaxStores = 1
CONSTRAINT Focus
SYMMETRY Symmetry
SPECIFICATION Spec
INVARIANTS FeedMissesOnlyInFlight EditsKnownState HomeIntact LossIsRetryable
PROPERTIES SharedMediaKept DeleteFreesSites MasterImplementsRevisioned
