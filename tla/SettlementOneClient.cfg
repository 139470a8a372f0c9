SPECIFICATION FairSpec
CONSTANTS
  Txns = {t1}
  Accounts = {a1}
  Clients = {c1}
  a1 = a1
  NoTxn = NoTxn
  AccountOf <- OneAccount
  Amount <- TenEach
  OpeningBalance <- OpenFifteen
  MaxAttempts = 3
  MaxResends = 2
  MaxCodes = 3
  MaxRuns = 2
  MaxFaults = 0
PROPERTY ImplementsLedger
 
PROPERTY VerdictShown
PROPERTY AcceptedCodePays
CHECK_DEADLOCK FALSE
