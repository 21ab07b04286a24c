SPECIFICATION Spec
CONSTANTS
  Users = {u1, u2}
  Pairs = {p1, p2, p3}
  Keys = {k1, k2}
  NoUser = NoUser
  NoPair = NoPair
  InitialKey = k1
  AccessTtl = 2
  RefreshTtl = 3
  Grace = 2
  MaxClock = 4
SYMMETRY Interchangeable
INVARIANTS
  RefreshTokensWorkOnce
  RotationKeepsAccess
PROPERTY
  ReplayEndsSession
CHECK_DEADLOCK FALSE
