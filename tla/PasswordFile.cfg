\* the server and two commands on one file; its saves may fail
SPECIFICATION FairSpec

CONSTANTS
  once = once
  timed = timed
  added = added
  l1 = l1
  l2 = l2
  l3 = l3
  gen = gen
  inv = inv
  Nobody = Nobody
  Expiring = {timed}
  OneTime = {once}
  Passwords = {once, timed, added}
  Logins = {l1, l2, l3}
  Secret <- MCSecret
  Generates = {gen}
  Invalidates = {inv}
  Of <- MCOf
  SavesMayFail = TRUE

INVARIANTS
  TypeOK
  FollowsFile
  OnceUndisturbed

PROPERTY
  CatchesUp
