\* two addresses, bursts of two, buckets removed and made again
SPECIFICATION RateSpec

CONSTANTS
  IPs = {ip1, ip2}
  Burst = 2
  Rate = 1
  Scale = 2
  MaxIdle = 4
  MaxTime = 7

INVARIANTS
  AdmitsWhatFits

PROPERTY
  NothingForgotten

SYMMETRY Addresses
