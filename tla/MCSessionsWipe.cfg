SPECIFICATION Spec
CONSTANTS
  r1 = r1
  r2 = r2
  r3 = r3
  s1 = s1
  s2 = s2
  Requests <- MCRequests
  OldTokens <- MCOldTokens
  MaxDevices = 2
  MaxFaults = 0
INVARIANT LogoutAllEndsSessions
CHECK_DEADLOCK FALSE
