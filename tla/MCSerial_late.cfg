SPECIFICATION Spec
CONSTANTS
  Clients = {c1, c2}
  Requests <- AndNoPdu
  MaxCalls = 1
  Devices = {17, 34}
  MayBeLate = TRUE
  MayBabble = TRUE
  NoiseSize = 128
  MaxUnplugs = 1
  MaxTicks = 1
INVARIANTS
  TypeOK
  InputIsFresh
  OnlyWholeAnswers
PROPERTY EveryCallReturns
CHECK_DEADLOCK FALSE
