SPECIFICATION FairSpec
CONSTANTS
  Clients = {c1, c2, c3}
  Requests <- AllRequests
  MaxCalls = 1
  UnitIds <- MCUnitIds
  RegCount = 2
  MayDrop = FALSE
  MayCorrupt = FALSE
INVARIANTS
  TypeOK
  Exclusive
PROPERTIES
  RefinesRegisterService
