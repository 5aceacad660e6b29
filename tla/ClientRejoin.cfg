\* a guest whose connection is lost once
SPECIFICATION FairSpec

CONSTANTS
  Sockets = {w1, w2, w3}
  NoSocket = NoSocket
  Role = "guest"
  MaxDrops = 1
  OthersMove = FALSE

PROPERTY
  Settles

CHECK_DEADLOCK FALSE
