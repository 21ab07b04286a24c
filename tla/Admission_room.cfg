SPECIFICATION FairSpec
CONSTANTS
  Tenants = {t1, t2}
  Requests = {r1, r2}
  NoTenant = none
  Kinds = {"static", "binary", "cbom", "network", "governed"}
  SharedIds = {}
  MaxPerTenant = 1
  MaxSystem = 1
  NetPerTenant = 1
  NetGlobal = 1
  StorageFails = FALSE
PROPERTY RoomAgain
