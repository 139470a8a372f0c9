SPECIFICATION Spec
CONSTANTS
  Txns = {t1, t2}
  Accounts = {a1}
  Clients = {c1}
  a1 = a1
  NoTxn = NoTxn
  AccountOf <- OneAccount
  Amount <- TenEach
  OpeningBalance <- OpenFifteen
  MaxAttempts = 1
  MaxResends = 0
  MaxCodes = 1
  MaxRuns = 1
  MaxFaults = 0
INVARIANT NoOverdraft
CHECK_DEADLOCK FALSE
