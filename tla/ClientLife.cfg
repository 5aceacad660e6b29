\* a host whose connection is lost three times
SPECIFICATION FairSpec

CONSTANTS
  Sockets = {w1, w2, w3}
  NoSocket = NoSocket
  Role = "host"
  MaxDrops = 3
  OthersMove = TRUE

INVARIANTS
  OneConnection
  LeaveIsFinal

PROPERTY
  KeepsTrying

CHECK_DEADLOCK FALSE
