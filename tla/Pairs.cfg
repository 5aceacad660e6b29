\* a host and a guest, either of whom may join once more
SPECIFICATION Spec

CONSTANTS
  None = None
  Browsers = {h, g}
  Host = h
  Ids = {1, 2, 3}

INVARIANTS
  TypeOK
  MessagesFit
  NoGhosts

PROPERTIES
  PairsConnect

CHECK_DEADLOCK FALSE
