CONSTANTS
  Equipment = {e1}
  Site = {s1}
  Reference = {}
  Favorite = {}
  Record = {r1}
  File = {f1}
  Catalog = {m31}
  NoCatalog = NoCatalog
  Requests = {t1, t2}
  Clients = {}
  Limit = 1
  MaxFlushes = 3
  MaxResets = 0
  MaxStores = 0
SPECIFICATION Spec
CONSTRAINT Focus
PROPERTY DeleteIncrementsRevision
