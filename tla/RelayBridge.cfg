\* one session, one frame more than the limit, every way of ending
SPECIFICATION FairSpec

CONSTANTS
  h = h
  g = g
  NoConn = NoConn
  Peers = {h, g}
  Tokens = {t1}
  Conns = {k1, k2, k3}
  MaxSessions = 1
  ByteLimit = 2
  MaxFrames = 3

INVARIANTS
  TypeOK
  ActiveCountExact
  SessionShape
  FramesCarried

PROPERTY
  BridgesEnd

CHECK_DEADLOCK FALSE
