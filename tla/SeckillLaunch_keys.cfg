SPECIFICATION FairSpec
CONSTANTS
  r1 = r1  r2 = r2  r3 = r3
  Requests = {r1, r2, r3}
  Stock = 2
  Faults = 1
INVARIANTS TypeOK
PROPERTIES LoadsKeepLedger GoesOnSale
\* Every user may have got the voucher.
CHECK_DEADLOCK FALSE
