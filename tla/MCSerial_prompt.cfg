SPECIFICATION Spec
CONSTANTS
  Clients = {c1, c2}
  Requests <- TwoUnits
  MaxCalls = 2
  Devices = {17, 34}
  MayBeLate = FALSE
  MayBabble = FALSE
  NoiseSize = 128
  MaxUnplugs = 2
  MaxTicks = 1
SYMMETRY Alike
INVARIANTS
  AnswersOwnRequest
  RoutingInvariant
  BooksAgree
  DeadPortIsDropped
  BacksOff
CHECK_DEADLOCK FALSE
