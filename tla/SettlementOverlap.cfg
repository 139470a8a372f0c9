SPECIFICATION Spec
CONSTANTS
  Txns = {t1}
  Accounts = {a1}
  Clients = {c1, c2}
  a1 = a1
  NoTxn = NoTxn
  AccountOf <- OneAccount
  Amount <- TenEach
  OpeningBalance <- OpenFifteen
  MaxAttempts = 2
  MaxResends = 1
  MaxCodes = 2
  MaxRuns = 1
  MaxFaults = 0
INVARIANT TypeOK
INVARIANT DebitAccounting
 
INVARIANT RowMatchesDecision
INVARIANT LockerPending
SYMMETRY ClientSymmetry
CHECK_DEADLOCK FALSE
