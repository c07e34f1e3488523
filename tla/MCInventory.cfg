SPECIFICATION Spec
CONSTANTS
  r1 = r1
  r2 = r2
  r3 = r3
  NoRequest = NoRequest
  Requests <- MCRequests
  Quantities <- MCQuantities
  Changes <- MCChanges
  InitialStock = 1
  ReorderPoint = 0
INVARIANT TypeOK
PROPERTIES ReserveNeverOversells LedgerSpec
CHECK_DEADLOCK FALSE
