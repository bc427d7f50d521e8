SPECIFICATION Spec
CONSTANTS
  Conns = {c1}
  Main = main
  Fds <- MCFds
  MaxFrames = 1
  MaxStops = 1
PROPERTIES
  DumpIsPrinted
CHECK_DEADLOCK FALSE
