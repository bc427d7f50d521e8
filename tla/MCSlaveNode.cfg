SPECIFICATION Spec
CONSTANTS
  Addr = 17
  RegCount = 130
  Frames <- MCFrames
  MaxFrames = 2
INVARIANTS
  TypeOK
  CountersAgree
  ReplyFits
  AckedWriteIsStored
PROPERTY RefusedLeavesRegisters
CHECK_DEADLOCK FALSE
