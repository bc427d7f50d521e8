SPECIFICATION Spec
CONSTANTS
  Conns = {c1, c2}
  Main = main
  Fds <- MCFds
  MaxFrames = 1
  MaxStops = 2
INVARIANTS
  TypeOK
  DescriptorsAreOwn
  InFlightFinishes
PROPERTIES
  AcceptLoopEnds
  OnlyMastersDelayExit
  EveryMasterAccepted
CHECK_DEADLOCK FALSE
