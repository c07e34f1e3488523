SPECIFICATION Spec
CONSTANTS
  u = u
  v = v
  g = g
  a = a
  b = b
  r1 = r1
  r2 = r2
  r3 = r3
  Free = Free
  Users <- MCUsers
  Guests <- MCGuests
  Skus <- MCSkus
  Quantities <- MCQuantities
  InitialCarts <- MCInitialCarts
  Requests <- MCRequests
  MaxFaults = 1
INVARIANTS LocksCoverTheOrder NothingIsLost NothingIsDuplicated
SYMMETRY MCSymmetry
CHECK_DEADLOCK FALSE
