\* two Trystero rooms at a time, a peer in them and one at the Go server
SPECIFICATION Spec

CONSTANTS
  None = None
  Rooms = {t1, t2}
  TPeers = {p1}
  GPeers = {q1}
  Codes = {c1, c2}
  MaxLeaked = 1

INVARIANTS
  TypeOK
  Wanted
  Sendable
  GuestServed

SYMMETRY FallbackSymmetry

CHECK_DEADLOCK FALSE
