SPECIFICATION Spec
CONSTANTS
  Bodies <- MCBodies
  Bursts <- MCBursts
INVARIANTS
  CrcIsRemainder
  DamageIsDetected
CHECK_DEADLOCK FALSE
