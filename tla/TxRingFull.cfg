CONSTANTS
  Driver = "ixgbe"
  LEN = 8
  MOD = 16
  Mbufs = {m1, m2, m3, m4}
  Iovs = {1}
  MaxSends = 1
  NULL = NULL
SPECIFICATION Spec
INVARIANT NoPanic
CHECK_DEADLOCK FALSE
