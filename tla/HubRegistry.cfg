\* four connections, two rooms, every limit and every queue reached
SPECIFICATION HubSpec

CONSTANTS
  p1 = p1
  p2 = p2
  p3 = p3
  p4 = p4
  ip1 = ip1
  ip2 = ip2
  NoRoom = NoRoom
  Peers = {p1, p2, p3, p4}
  IPs = {ip1, ip2}
  Codes = {k1, k2}
  IPOf <- MCIPOf
  MaxGlobalConns = 3
  MaxIPConns = 2
  MaxGlobalRooms = 2
  MaxIPRooms = 1
  MaxMembers = 2
  SendCap = 1
  DrawsMayCollide = FALSE

INVARIANTS
  TypeOK
  MembershipAgrees
  CountersExact
  WithinLimits

PROPERTIES
  ImplementsRendezvous
  SignalsStayInRoom

SYMMETRY Symmetry

VIEW Lengths
