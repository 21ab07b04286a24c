SPECIFICATION Spec
CONSTANTS
  Tenants = {t1, t2, t3}
  Requests = {r1, r2, r3}
  NoTenant = none
  Kinds = {"static", "binary", "cbom", "network", "governed"}
  SharedIds = {}
  MaxPerTenant = 1
  MaxSystem = 2
  NetPerTenant = 1
  NetGlobal = 2
  StorageFails = TRUE
SYMMETRY Interchangeable
INVARIANT BooksBalance
PROPERTY PoolsHold
