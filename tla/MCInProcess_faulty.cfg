SPECIFICATION FairSpec
CONSTANTS
  Clients = {c1, c2}
  Requests <- FaultRequests
  MaxCalls = 2
  UnitIds <- MCUnitIds
  RegCount = 2
  MayDrop = TRUE
  MayCorrupt = TRUE
INVARIANTS
  RoutingInvariant
  StatsConserved
  FaultsAccounted
PROPERTIES
  EveryCallReturns
  RefinesRegisterService
CHECK_DEADLOCK FALSE
