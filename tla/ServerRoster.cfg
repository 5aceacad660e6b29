\* two connections come and go around one room, and one of them routes or asks for a relay
SPECIFICATION ServerSpec

CONSTANTS
  ip = ip
  NoRoom = NoRoom
  Peers = {p1, p2}
  IPs = {ip}
  Codes = {k1}
  IPOf <- MCIPOf
  MaxGlobalConns = 3
  MaxIPConns = 3
  MaxGlobalRooms = 1
  MaxIPRooms = 1
  MaxMembers = 3
  SendCap = 3
  MaxRouted = 1
  DrawsMayCollide = FALSE

INVARIANTS
  NobodyMissed
  ServedExactly

SYMMETRY PeerSymmetry

VIEW Told

CHECK_DEADLOCK FALSE
