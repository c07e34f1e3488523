SPECIFICATION FairSpec
CONSTANTS
  p1 = p1
  p2 = p2
  q1 = q1
  q2 = q2
  Payments <- MCPayments
  Unasked <- MCUnasked
  Procs <- MCProcs
  MaxRequests = 3
  MaxFaults = 1
PROPERTY SuccessReachesOrder
CHECK_DEADLOCK FALSE
