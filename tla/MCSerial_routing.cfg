SPECIFICATION Spec
CONSTANTS
  Clients = {c1, c2}
  Requests <- TwoUnits
  MaxCalls = 1
  Devices = {17, 34}
  MayBeLate = TRUE
  MayBabble = FALSE
  NoiseSize = 128
  MaxUnplugs = 0
  MaxTicks = 0
INVARIANT RoutingInvariant
CHECK_DEADLOCK FALSE
