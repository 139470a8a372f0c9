SPECIFICATION Spec
CONSTANTS
  Txns = {t1}
  Accounts = {a1}
  Clients = {c1, c2}
  a1 = a1
  NoTxn = NoTxn
  AccountOf <- OneAccount
  Amount <- TenEach
  OpeningBalance <- OpenFifteen
  MaxAttempts = 3
  MaxResends = 0
  MaxCodes = 1
  MaxRuns = 1
  MaxFaults = 0
INVARIANT AtMostOneDebit
SYMMETRY ClientSymmetry
CHECK_DEADLOCK FALSE
