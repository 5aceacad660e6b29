\* two files of up to two chunks
SPECIFICATION Spec

CONSTANTS
  None = None
  Sends = {s1, s2}
  MaxChunks = 2
  HighWater = 1
  LowWater = 0

INVARIANTS
  TypeOK
  Intact
  Delivered

PROPERTIES
  SendsSettle

CHECK_DEADLOCK FALSE
