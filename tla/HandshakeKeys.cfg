\* two sends to two guests or to one
SPECIFICATION Spec

CONSTANTS
  None = None
  Sends = {s1, s2}
  Peers = {g1, g2}
  MaxLogins = 1

INVARIANTS
  TypeOK
  KeysAgree
  NotStranded

SYMMETRY SendSymmetry

CHECK_DEADLOCK FALSE
