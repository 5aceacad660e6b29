\* two connections, every way to end
SPECIFICATION FairServerSpec

CONSTANTS
  ip = ip
  NoRoom = NoRoom
  Peers = {p1, p2}
  IPs = {ip}
  Codes = {k1}
  IPOf <- MCIPOf
  MaxGlobalConns = 2
  MaxIPConns = 2
  MaxGlobalRooms = 1
  MaxIPRooms = 1
  MaxMembers = 2
  SendCap = 1
  MaxRouted = 0
  DrawsMayCollide = FALSE

PROPERTIES
  ConnectionsEnd
  HandshakeEnforced
  JoinsEnd

VIEW Moving

CHECK_DEADLOCK FALSE
