SPECIFICATION Spec
CONSTANTS
  Txns = {t1}
  Accounts = {a1}
  Clients = {c1}
  a1 = a1
  NoTxn = NoTxn
  AccountOf <- OneAccount
  Amount <- TenEach
  OpeningBalance <- OpenFifteen
  MaxAttempts = 1
  MaxResends = 1
  MaxCodes = 2
  MaxRuns = 2
  MaxFaults = 1
INVARIANT DebitJustified
INVARIANT CodesFollowDecision
INVARIANT AuditFollowsDebit
 
 
PROPERTY ForwardOnly
CHECK_DEADLOCK FALSE
