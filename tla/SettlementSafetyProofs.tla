----------------------- MODULE SettlementSafetyProofs -----------------------
(***************************************************************************)
(* The safety theorems of TransferSettlement.  Two facts about single steps *)
(* carry them: a step writes the ledger only through complete_transaction  *)
(* or one UPDATE of a row's status (LedgerSteps), and history only grows   *)
(* (HistoryGrows).  The properties that trace an effect back to its cause  *)
(* need the inductive invariant CauseInv: they speak of the stores, while  *)
(* the cause is carried from step to step in the handlers' local copies.   *)
(***************************************************************************)
EXTENDS TransferSettlementProofs

\* One step writes the ledger by one complete_transaction, by one status
\* UPDATE to something other than 'success', or not at all.
LEMMA LedgerSteps ==
    ASSUME TypeOK, [Next]_vars
    PROVE  \/ UNCHANGED ledger
           \/ \E t \in Txns : CompleteTransaction(t)
           \/ \E t \in Txns, s \in RowStatus \ {"success"} : SetRow(t, s)
<1> DEFINE Goal == \/ UNCHANGED ledger
                   \/ \E t \in Txns : CompleteTransaction(t)
                   \/ \E t \in Txns, s \in RowStatus \ {"success"} : SetRow(t, s)
<1>p. proj.pc # "idle" => proj.txn \in Txns BY DEF TypeOK, ProjType
<1>r. \A c \in Clients : req[c].pc # "idle" => req[c].txn \in Txns BY DEF TypeOK, ReqType
<1>s. \A t \in Txns, s \in RowStatus \ {"success"} : SetRow(t, s) => Goal OBVIOUS
<1>c. \A t \in Txns : CompleteTransaction(t) => Goal OBVIOUS
<1>u. UNCHANGED ledger => Goal OBVIOUS
<1>k. {"pending", "failed", "blocked", "otp_required"} \subseteq RowStatus \ {"success"}
  BY DEF RowStatus
<1> HIDE DEF Goal
<1>1. ASSUME NEW t \in Txns,
             SubmitCheck(t) \/ SubmitStep(t) \/ SubmitPublishError(t) \/ SubmitError(t)
      PROVE  Goal
  BY <1>1, <1>s, <1>u, <1>k DEF SubmitCheck, SubmitStep, SubmitInsert, SubmitCache,
     SubmitPublish, SubmitFail, FailTransaction, SubmitPublishError, SubmitError
<1>2. ASSUME NEW t \in Txns, NEW d \in Finals,
             OrchStart(t) \/ OrchRedeliver(t) \/ OrchLose(t) \/ OrchDecide(t, d)
      PROVE  Goal
  BY <1>2, <1>u DEF OrchStart, OrchRedeliver, OrchLose, OrchDecide
<1>3. ASSUME NEW t \in Txns, ChallengeExpires(t) \/ ResendWindowEnds(t) \/ StateExpires(t)
      PROVE  Goal
  BY <1>3, <1>u DEF ChallengeExpires, ResendWindowEnds, StateExpires
<1>4. ASSUME NEW t \in Txns, NEW c \in Clients, VerifyLoad(c, t) \/ ResendLoad(c, t)
      PROVE  Goal
  BY <1>4, <1>u DEF VerifyLoad, ResendLoad
<1>5. ASSUME NEW c \in Clients, ReqStep(c) \/ ReqError(c) PROVE Goal
  <2>1. CASE ReqSettle(c)
    BY <2>1, <1>r, <1>s, <1>c, <1>k DEF ReqSettle, FailTransaction
  <2>2. CASE ~ReqSettle(c)
    BY <1>5, <2>2, <1>u DEF ReqStep, ReqError, VerifyCount, ReqDelete, ResendCount,
       ResendWindow, ResendStore, ResendArm, ReqEvent, ReqLoad, ReqSave
  <2> QED BY <2>1, <2>2
<1>6. ASSUME ProjStep \/ ProjOtpError \/ ProjError PROVE Goal
  <2>1. CASE ProjErrorRow \/ ProjBlock \/ ProjOtpRow \/ ProjOtpFail
    BY <2>1, <1>p, <1>s, <1>k DEF ProjErrorRow, ProjBlock, ProjOtpRow, ProjOtpFail,
       FailTransaction
  <2>2. CASE ProjPass BY <2>2, <1>p, <1>c DEF ProjPass
  <2>3. CASE ProjLoad \/ ProjErrorSave \/ ProjReadRow \/ ProjOtpStore \/ ProjOtpArm
             \/ ProjOtpLog \/ ProjSave \/ ProjOtpError \/ ProjError
    BY <2>3, <1>u DEF ProjLoad, ProjErrorSave, ProjReadRow, ProjOtpStore, ProjOtpArm,
       ProjOtpLog, ProjSave, ProjOtpError, ProjError
  <2> QED BY <1>6, <2>1, <2>2, <2>3 DEF ProjStep
<1>7. ASSUME AutoCommit \/ ConsumerRestart \/ Crash PROVE Goal
  BY <1>7, <1>u DEF AutoCommit, ConsumerRestart, Crash
<1>8. UNCHANGED vars => Goal BY <1>u DEF vars
<1>9. "PASS" \in Finals BY DEF Finals, Decisions
<1>10. Goal BY <1>1, <1>2, <1>3, <1>4, <1>5, <1>6, <1>7, <1>8, <1>9 DEF Next
<1> QED BY <1>10 DEF Goal

\* A single write of the ledger keeps the account of the debits exact.
LEMMA AccountingStep ==
    ASSUME TypeOK, DebitAccounting, [Next]_vars
    PROVE  DebitAccounting'
<1> USE SettlementAssumption DEF TypeOK, LedgerType, DebitAccounting
<1>1. CASE UNCHANGED ledger BY <1>1 DEF ledger
<1>2. ASSUME NEW t \in Txns, CompleteTransaction(t) PROVE DebitAccounting'
  BY <1>2 DEF CompleteTransaction, ledger
<1>3. ASSUME NEW t \in Txns, NEW s \in RowStatus \ {"success"}, SetRow(t, s)
      PROVE  DebitAccounting'
  BY <1>3 DEF SetRow
<1> QED BY <1>1, <1>2, <1>3, LedgerSteps

\* Debits are accounted for exactly, however the handlers interleave: a second
\* debit of a transfer needs some UPDATE that took its row away from 'success'.
THEOREM DebitsAccounted == Spec => []DebitAccounting
<1>1. Init => DebitAccounting BY DEF Init, DebitAccounting
<1> QED BY <1>1, TypeCorrect, AccountingStep, PTL DEF Spec

\* The balance moves only in the step that makes one transfer's row 'success',
\* and by that transfer's amount: no crash separates the two.
THEOREM DebitAtomic == Spec => DebitIsAtomic
<1> DEFINE Step == \A a \in Accounts : balance'[a] # balance[a] =>
          \E t \in Txns :
              /\ AccountOf[t] = a /\ balance'[a] = balance[a] - Amount[t]
              /\ row[t] # "success" /\ row'[t] = "success"
              /\ debits' = [debits EXCEPT ![t] = @ + 1]
<1>1. ASSUME TypeOK, [Next]_vars PROVE Step
  <2> USE <1>1, SettlementAssumption DEF TypeOK, LedgerType
  <2>1. CASE UNCHANGED ledger BY <2>1 DEF ledger
  <2>2. ASSUME NEW t \in Txns, CompleteTransaction(t) PROVE Step
    BY <2>2 DEF CompleteTransaction, ledger
  <2>3. ASSUME NEW t \in Txns, NEW s \in RowStatus \ {"success"}, SetRow(t, s) PROVE Step
    BY <2>3 DEF SetRow
  <2> QED BY <2>1, <2>2, <2>3, LedgerSteps
<1>2. Spec => [][Step]_vars BY <1>1, TypeCorrect, PTL DEF Spec
<1> QED BY <1>2 DEF DebitIsAtomic

-----------------------------------------------------------------------------
(* From effects back to causes. *)

\* A live key means a code was generated.
KeyCause == \A t \in Txns : challenge[t].live => codes[t] > 0

\* The branches a decision may be in.
Fits(pc, k) ==
    /\ pc \in {"errSave", "errRow"} => k = "ERROR"
    /\ pc = "pass" => k = "PASS"
    /\ pc = "block" => k = "BLOCK"
    /\ pc \in {"otpStore", "otpArm", "otpLog", "otpRow", "otpFail"} => k = "OTP"

\* The projector works on a published event, each branch on its own kind, and
\* a status it is about to save has its cause.
ProjCause ==
    proj.pc # "idle" =>
        /\ Published(proj.txn, proj.kind)
        /\ Fits(proj.pc, proj.kind)
        /\ proj.pc \in {"otpArm", "otpLog", "otpRow"}
              => codes[proj.txn] > 0 /\ proj.code <= codes[proj.txn]
        /\ proj.pc = "save" => Cause(proj.txn, proj.st)

\* A request works on a challenged transfer; one on the verify path past the
\* count has an accepted code, past the settlement a debit.
Resending == {"incr", "window", "store", "arm"}
Backed(r) ==
    /\ codes[r.txn] > 0 /\ r.code <= codes[r.txn] /\ r.op # "none"
    /\ r.pc \in Resending => r.op = "resend"
    /\ r.op = "verify" /\ r.pc # "count" => verified[r.txn]
    /\ r.op = "verify" /\ r.pc \in {"event", "load", "save"} => debits[r.txn] > 0
    /\ r.pc = "save" => Cause(r.txn, r.st)

ReqCause == \A c \in Clients : req[c].pc # "idle" => Backed(req[c])

CauseInv ==
    /\ DebitJustified /\ CodesFollowDecision /\ AuditFollowsDebit /\ StateJustified
    /\ KeyCause /\ ProjCause /\ ReqCause

\* What no step takes back: events, codes, accepted codes, debits.
Grows ==
    \A t \in Txns :
        /\ \A k \in Kinds : Published(t, k) => Published(t, k)'
        /\ codes[t] <= codes'[t]
        /\ verified[t] => verified'[t]
        /\ debits[t] <= debits'[t]

\* One step appends one event, generates one code, accepts one code, or does
\* none of these.
LEMMA HistorySteps ==
    ASSUME TypeOK, [Next]_vars
    PROVE  \/ UNCHANGED <<topic, codes, verified>>
           \/ /\ \E e \in [txn : Txns, kind : Kinds] : topic' = Append(topic, e)
              /\ UNCHANGED <<codes, verified>>
           \/ /\ \E t \in Txns : StoreCode(t)
              /\ UNCHANGED <<topic, verified>>
           \/ /\ \E t \in Txns : verified' = [verified EXCEPT ![t] = TRUE]
              /\ UNCHANGED <<topic, codes>>
<1> DEFINE Same == UNCHANGED <<topic, codes, verified>>
           More == /\ \E e \in [txn : Txns, kind : Kinds] : topic' = Append(topic, e)
                   /\ UNCHANGED <<codes, verified>>
           Code == /\ \E t \in Txns : StoreCode(t)
                   /\ UNCHANGED <<topic, verified>>
           Good == /\ \E t \in Txns : verified' = [verified EXCEPT ![t] = TRUE]
                   /\ UNCHANGED <<topic, codes>>
<1>p. proj.pc # "idle" => proj.txn \in Txns BY DEF TypeOK, ProjType
<1>r. \A c \in Clients : req[c].pc # "idle" => req[c].txn \in Txns BY DEF TypeOK, ReqType
<1> USE DEF kafka, otpStore, ledger
<1>1. ASSUME NEW t \in Txns,
             SubmitCheck(t) \/ SubmitStep(t) \/ SubmitPublishError(t) \/ SubmitError(t)
      PROVE  Same
  BY <1>1 DEF SubmitCheck, SubmitStep, SubmitInsert, SubmitCache,
     SubmitPublish, SubmitFail, SubmitPublishError, SubmitError
<1>2. ASSUME NEW t \in Txns, NEW d \in Finals,
             OrchStart(t) \/ OrchRedeliver(t) \/ OrchLose(t) \/ OrchDecide(t, d)
      PROVE  Same \/ More
  <2>1. CASE OrchStart(t) BY <2>1 DEF OrchStart, Kinds
  <2>2. CASE OrchDecide(t, d) BY <2>2 DEF OrchDecide, Kinds
  <2>3. CASE OrchRedeliver(t) \/ OrchLose(t) BY <2>3 DEF OrchRedeliver, OrchLose
  <2> QED BY <1>2, <2>1, <2>2, <2>3
<1>3. ASSUME NEW t \in Txns, ChallengeExpires(t) \/ ResendWindowEnds(t) \/ StateExpires(t)
      PROVE  Same
  BY <1>3 DEF ChallengeExpires, ResendWindowEnds, StateExpires, DeleteKey
<1>4. ASSUME NEW t \in Txns, NEW c \in Clients, VerifyLoad(c, t) \/ ResendLoad(c, t)
      PROVE  Same
  BY <1>4 DEF VerifyLoad, ResendLoad
<1>5. ASSUME NEW c \in Clients, ReqStep(c) \/ ReqError(c) PROVE Same \/ Code \/ Good
  <2>1. CASE VerifyCount(c) BY <2>1, <1>r DEF VerifyCount
  <2>2. CASE ResendStore(c) BY <2>2, <1>r DEF ResendStore
  <2>3. CASE ReqDelete(c) \/ ReqSettle(c) \/ ResendCount(c) \/ ResendWindow(c)
             \/ ResendArm(c) \/ ReqEvent(c) \/ ReqLoad(c) \/ ReqSave(c) \/ ReqError(c)
    BY <2>3 DEF ReqDelete, ReqSettle, ResendCount, ResendWindow, ResendArm, ReqEvent,
       ReqLoad, ReqSave, ReqError, DeleteKey, ArmCode, LogCode, CloseEvents
  <2> QED BY <1>5, <2>1, <2>2, <2>3 DEF ReqStep
<1>6. ASSUME ProjStep \/ ProjOtpError \/ ProjError PROVE Same \/ Code
  <2>1. CASE ProjOtpStore BY <2>1, <1>p DEF ProjOtpStore
  <2>2. CASE ~ProjOtpStore
    BY <1>6, <2>2 DEF ProjStep, ProjLoad, ProjErrorSave, ProjErrorRow, ProjReadRow, ProjPass,
       ProjBlock, ProjOtpArm, ProjOtpLog, ProjOtpRow, ProjOtpFail, ProjSave,
       ProjOtpError, ProjError, ArmCode, LogCode
  <2> QED BY <2>1, <2>2
<1>7. ASSUME AutoCommit \/ ConsumerRestart \/ Crash PROVE Same
  BY <1>7 DEF AutoCommit, ConsumerRestart, Crash
<1>8. UNCHANGED vars => Same BY DEF vars
<1>9. "PASS" \in Finals BY DEF Finals, Decisions
<1> HIDE DEF Same, More, Code, Good
<1>10. Same \/ More \/ Code \/ Good
  BY <1>1, <1>2, <1>3, <1>4, <1>5, <1>6, <1>7, <1>8, <1>9 DEF Next
<1> QED BY <1>10 DEF Same, More, Code, Good

\* An event in the topic stays there when another is appended.
LEMMA AppendKeeps ==
    ASSUME NEW S, NEW s \in Seq(S), NEW e \in S, NEW i \in DOMAIN s
    PROVE  i \in DOMAIN Append(s, e) /\ Append(s, e)[i] = s[i]
  OBVIOUS

\* History only grows.
LEMMA HistoryGrows ==
    ASSUME TypeOK, TypeOK', [Next]_vars
    PROVE  Grows
<1> SUFFICES ASSUME NEW t \in Txns
             PROVE  /\ \A k \in Kinds : Published(t, k) => Published(t, k)'
                    /\ codes[t] <= codes'[t]
                    /\ verified[t] => verified'[t]
                    /\ debits[t] <= debits'[t]
  BY DEF Grows
<1>1. debits[t] <= debits'[t]
  <2> USE SettlementAssumption DEF TypeOK, LedgerType
  <2>1. CASE UNCHANGED ledger BY <2>1 DEF ledger
  <2>2. ASSUME NEW u \in Txns, CompleteTransaction(u) PROVE debits[t] <= debits'[t]
    BY <2>2 DEF CompleteTransaction, ledger
  <2>3. ASSUME NEW u \in Txns, NEW s \in RowStatus \ {"success"}, SetRow(u, s)
        PROVE  debits[t] <= debits'[t]
    BY <2>3 DEF SetRow
  <2> QED BY <2>1, <2>2, <2>3, LedgerSteps
<1>2. codes[t] <= codes'[t]
  <2>1. codes \in [Txns -> 0..MaxCodes] /\ codes[t] \in Nat
    BY SettlementAssumption DEF TypeOK, OtpType
  <2>2. ASSUME NEW u \in Txns, StoreCode(u) PROVE codes[t] <= codes'[t]
    BY <2>1, <2>2 DEF StoreCode
  <2> QED BY <2>1, <2>2, HistorySteps
<1>3. verified[t] => verified'[t]
  <2>1. verified \in [Txns -> BOOLEAN] BY DEF TypeOK
  <2> QED BY <2>1, HistorySteps DEF StoreCode
<1>4. ASSUME NEW k \in Kinds, Published(t, k) PROVE Published(t, k)'
  <2>1. topic \in Seq([txn : Txns, kind : Kinds]) BY DEF TypeOK, KafkaType
  <2>2. PICK i \in DOMAIN topic : topic[i] = [txn |-> t, kind |-> k] BY <1>4 DEF Published
  <2>3. i \in DOMAIN topic' /\ topic'[i] = topic[i]
    BY <2>1, AppendKeeps, HistorySteps
  <2> QED BY <2>2, <2>3 DEF Published
<1> QED BY <1>1, <1>2, <1>3, <1>4

\* A cause stays a cause.
LEMMA CauseGrows ==
    ASSUME TypeOK, TypeOK', Grows, NEW t \in Txns, NEW s, Cause(t, s)
    PROVE  Cause(t, s)'
<1>1. codes[t] \in Nat /\ codes'[t] \in Nat
  BY SettlementAssumption DEF TypeOK, OtpType
<1> QED BY <1>1 DEF Grows, Cause, Decisions, Finals, Kinds

\* What backs a request keeps backing it.
LEMMA BackedGrows ==
    ASSUME TypeOK, TypeOK', Grows, NEW r, r.txn \in Txns, r.code \in Nat, Backed(r)
    PROVE  Backed(r)'
<1>1. /\ codes[r.txn] \in Nat /\ codes'[r.txn] \in Nat
      /\ debits[r.txn] \in Nat /\ debits'[r.txn] \in Nat
  BY SettlementAssumption DEF TypeOK, OtpType, LedgerType
<1>2. Cause(r.txn, r.st) => Cause(r.txn, r.st)' BY CauseGrows
<1> QED BY <1>1, <1>2 DEF Backed, Grows

\* Each part of the invariant survives a step that writes none of its variables.
LEMMA CauseFrame ==
    ASSUME TypeOK, TypeOK', CauseInv, Grows
    PROVE  /\ UNCHANGED <<debits, verified>> => DebitJustified'
           /\ UNCHANGED otpStore => CodesFollowDecision' /\ AuditFollowsDebit' /\ KeyCause'
           /\ UNCHANGED state => StateJustified'
           /\ UNCHANGED proj => ProjCause'
           /\ proj' = IdleProj => ProjCause'
           /\ UNCHANGED req => ReqCause'
<1>k. Decisions \subseteq Kinds /\ {"PASS", "OTP", "BLOCK", "ERROR"} \subseteq Kinds
  BY DEF Decisions, Finals, Kinds
<1>n. \A t \in Txns : /\ codes[t] \in Nat /\ codes'[t] \in Nat
                       /\ debits[t] \in Nat /\ debits'[t] \in Nat
  BY SettlementAssumption DEF TypeOK, OtpType, LedgerType
<1>1. UNCHANGED <<debits, verified>> => DebitJustified'
  BY <1>k DEF CauseInv, DebitJustified, Grows
<1>2. UNCHANGED otpStore => CodesFollowDecision' /\ KeyCause'
  BY <1>k DEF CauseInv, CodesFollowDecision, KeyCause, Grows, otpStore
<1>3. UNCHANGED otpStore => AuditFollowsDebit'
  BY <1>n DEF CauseInv, AuditFollowsDebit, Grows, otpStore
<1>4. UNCHANGED state => StateJustified'
  BY CauseGrows DEF CauseInv, StateJustified
<1>5. UNCHANGED proj => ProjCause'
  <2> SUFFICES ASSUME UNCHANGED proj, proj.pc # "idle" PROVE ProjCause'
    BY DEF ProjCause
  <2>1. proj.txn \in Txns /\ proj.kind \in Kinds /\ proj.code \in Nat
    BY SettlementAssumption DEF TypeOK, ProjType
  <2>2. Published(proj.txn, proj.kind)' BY <2>1 DEF CauseInv, ProjCause, Grows
  <2>3. Cause(proj.txn, proj.st) => Cause(proj.txn, proj.st)' BY <2>1, CauseGrows
  <2>4. codes[proj.txn] <= codes'[proj.txn] BY <2>1 DEF Grows
  <2> QED BY <2>1, <2>2, <2>3, <2>4, <1>n DEF CauseInv, ProjCause
<1>6. proj' = IdleProj => ProjCause' BY DEF ProjCause, IdleProj
<1>7. UNCHANGED req => ReqCause'
  <2> SUFFICES ASSUME UNCHANGED req, NEW c \in Clients, req[c].pc # "idle"
               PROVE  Backed(req[c])'
    BY DEF ReqCause
  <2>1. req[c].txn \in Txns /\ req[c].code \in Nat
    BY SettlementAssumption DEF TypeOK, ReqType
  <2>2. Backed(req[c]) BY DEF CauseInv, ReqCause
  <2> QED BY <2>1, <2>2, BackedGrows
<1> QED BY <1>1, <1>2, <1>3, <1>4, <1>5, <1>6, <1>7

\* What each operation on the one-time code keeps, for a challenged transfer.
LEMMA CodeOps ==
    ASSUME TypeOK, CauseInv, NEW t \in Txns, Published(t, "OTP"), Published(t, "OTP")',
           UNCHANGED <<topic, debits>>,
           \/ StoreCode(t)
           \/ \E n \in 1..codes[t] : ArmCode(t, n)
           \/ \E n \in 1..codes[t] : LogCode(t, n)
           \/ CloseEvents(t, "LOCKED")
           \/ debits[t] > 0 /\ CloseEvents(t, "VERIFIED")
           \/ DeleteKey(t)
    PROVE  CodesFollowDecision' /\ AuditFollowsDebit' /\ KeyCause'
<1> USE SettlementAssumption
<1>p. \A u \in Txns : Published(u, "OTP") => Published(u, "OTP")' BY DEF Published
<1>n. \A u \in Txns : /\ codes[u] \in 0..MaxCodes /\ sent[u] \subseteq 1..MaxCodes
                       /\ challenge[u].code \in 0..MaxCodes
  BY DEF TypeOK, OtpType
<1>t. /\ codes \in [Txns -> 0..MaxCodes]
      /\ sent \in [Txns -> SUBSET (1..MaxCodes)]
      /\ otpEvents \in [Txns -> [1..MaxCodes -> {"none", "SENT", "VERIFIED", "LOCKED"}]]
      /\ challenge \in [Txns -> [live : BOOLEAN, code : 0..MaxCodes, attempts : Nat,
                                 ttl : BOOLEAN]]
  BY DEF TypeOK, OtpType
<1>c. \A u \in Txns : sent[u] \subseteq 1..codes[u] /\ challenge[u].code <= codes[u]
  BY DEF CauseInv, CodesFollowDecision
<1>l. \A u \in Txns : challenge[u].live => codes[u] > 0 BY DEF CauseInv, KeyCause
<1>a. \A u \in Txns : \A n \in 1..MaxCodes :
        /\ otpEvents[u][n] = "VERIFIED" => debits[u] > 0
        /\ otpEvents[u][n] # "none" => n <= codes[u]
  BY DEF CauseInv, AuditFollowsDebit
<1> DEFINE Bounds ==
       \A u \in Txns : /\ codes'[u] > 0 => u = t \/ codes[u] > 0
                       /\ sent'[u] \subseteq 1..codes'[u]
                       /\ challenge'[u].code <= codes'[u]
           Lives == \A u \in Txns : challenge'[u].live => codes'[u] > 0
<1>b. Bounds /\ Lives => CodesFollowDecision' /\ KeyCause'
  <2> SUFFICES ASSUME Bounds, Lives, NEW u \in Txns
               PROVE  codes'[u] > 0 => Published(u, "OTP")'
    BY DEF CodesFollowDecision, KeyCause
  <2>1. codes[u] > 0 => Published(u, "OTP") BY DEF CauseInv, CodesFollowDecision
  <2> QED BY <2>1, <1>p
<1>1. CASE StoreCode(t)
  <2>1. Bounds BY <1>1, <1>n, <1>t, <1>c DEF StoreCode
  <2>l. Lives BY <1>1, <1>n, <1>t, <1>l DEF StoreCode
  <2>2. AuditFollowsDebit' BY <1>1, <1>n, <1>t, <1>a DEF StoreCode, AuditFollowsDebit
  <2> QED BY <1>b, <2>l, <2>1, <2>2
<1>2. ASSUME NEW n \in 1..codes[t], ArmCode(t, n)
      PROVE  CodesFollowDecision' /\ AuditFollowsDebit' /\ KeyCause'
  <2>1. \A u \in Txns : /\ challenge'[u].code = challenge[u].code
                         /\ challenge'[u].live = challenge[u].live
    BY <1>2, <1>t, SMTT(20) DEF ArmCode
  <2>2. Bounds BY <1>2, <1>n, <1>t, <1>c, <2>1 DEF ArmCode
  <2>l. Lives BY <1>2, <1>n, <1>t, <1>l, <2>1 DEF ArmCode
  <2>3. AuditFollowsDebit' BY <1>2, <1>a DEF ArmCode, AuditFollowsDebit
  <2> QED BY <1>b, <2>l, <2>2, <2>3
<1>3. ASSUME NEW n \in 1..codes[t], LogCode(t, n)
      PROVE  CodesFollowDecision' /\ AuditFollowsDebit' /\ KeyCause'
  <2>1. Bounds BY <1>3, <1>c DEF LogCode
  <2>l. Lives BY <1>3, <1>l DEF LogCode
  <2>2. AuditFollowsDebit' BY <1>3, <1>n, <1>t, <1>a, SMTT(20) DEF LogCode, AuditFollowsDebit
  <2> QED BY <1>b, <2>l, <2>1, <2>2
<1>4. ASSUME NEW s \in {"LOCKED", "VERIFIED"}, CloseEvents(t, s),
             s = "VERIFIED" => debits[t] > 0
      PROVE  CodesFollowDecision' /\ AuditFollowsDebit' /\ KeyCause'
  <2>1. Bounds BY <1>4, <1>c DEF CloseEvents
  <2>l. Lives BY <1>4, <1>l DEF CloseEvents
  <2>2. AuditFollowsDebit' BY <1>4, <1>t, <1>a DEF CloseEvents, AuditFollowsDebit
  <2> QED BY <1>b, <2>l, <2>1, <2>2
<1>5. CASE DeleteKey(t)
  <2>1. Bounds BY <1>5, <1>n, <1>t, <1>c DEF DeleteKey, NoKey
  <2>l. Lives BY <1>5, <1>n, <1>t, <1>l DEF DeleteKey, NoKey
  <2>2. AuditFollowsDebit' BY <1>5, <1>a DEF DeleteKey, AuditFollowsDebit
  <2> QED BY <1>b, <2>l, <2>1, <2>2
<1> QED BY <1>1, <1>2, <1>3, <1>4, <1>5

\* Saving a justified status keeps every status justified.
LEMMA SaveKeeps ==
    ASSUME TypeOK, TypeOK', CauseInv, Grows, NEW t \in Txns, NEW s, Cause(t, s),
           state' = [state EXCEPT ![t] = s]
    PROVE  StateJustified'
<1> SUFFICES ASSUME NEW u \in Txns, NEW v, v = state'[u] PROVE Cause(u, v)'
  BY DEF StateJustified, Cause, Published
<1>1. v = state[u] \/ (u = t /\ v = s) BY DEF TypeOK
<1>2. Cause(u, v) BY <1>1 DEF CauseInv, StateJustified
<1> QED BY <1>2, CauseGrows

\* Steps of POST /transfer keep the causes: they report "processing" only.
LEMMA SubmitCause ==
    ASSUME TypeOK, TypeOK', CauseInv, Grows, NEW t \in Txns,
           SubmitCheck(t) \/ SubmitStep(t) \/ SubmitPublishError(t) \/ SubmitError(t)
    PROVE  CauseInv'
<1>1. UNCHANGED <<debits, verified, otpStore, proj, req>>
  BY DEF SubmitCheck, SubmitStep, SubmitInsert, SubmitCache, SubmitPublish, SubmitFail,
     FailTransaction, SetRow, SubmitPublishError, SubmitError, ledger
<1>2. StateJustified'
  <2>1. CASE SubmitCache(t)
    <3>1. Cause(t, "processing") BY DEF Cause
    <3> QED BY <2>1, <3>1, SaveKeeps DEF SubmitCache
  <2>2. CASE ~SubmitCache(t)
    BY <2>2, CauseFrame DEF SubmitCheck, SubmitStep, SubmitInsert, SubmitPublish, SubmitFail,
       SubmitPublishError, SubmitError
  <2> QED BY <2>1, <2>2
<1> QED BY <1>1, <1>2, CauseFrame DEF CauseInv

\* The orchestrator only adds events, so what was justified stays justified.
LEMMA OrchCause ==
    ASSUME TypeOK, TypeOK', CauseInv, Grows, NEW t \in Txns, NEW d \in Finals,
           OrchStart(t) \/ OrchDecide(t, d) \/ OrchRedeliver(t) \/ OrchLose(t)
    PROVE  CauseInv'
<1>1. UNCHANGED <<debits, verified, otpStore, state, proj, req>>
  BY DEF OrchStart, OrchDecide, OrchRedeliver, OrchLose, ledger
<1> QED BY <1>1, CauseFrame DEF CauseInv

\* A move of the projector to a branch of its event's kind.
LEMMA ProjGotoCause ==
    ASSUME TypeOK, TypeOK', CauseInv, Grows, proj.pc # "idle", NEW pc, NEW st,
           ProjGoto(pc, st), Fits(pc, proj.kind),
           pc \in {"otpArm", "otpLog", "otpRow"}
              => codes[proj.txn] > 0 /\ proj.code <= codes[proj.txn],
           pc = "save" => Cause(proj.txn, st)
    PROVE  ProjCause'
<1>1. /\ proj.txn \in Txns /\ proj.kind \in Kinds /\ proj.code \in Nat
      /\ proj'.pc = pc /\ proj'.st = st
      /\ proj'.txn = proj.txn /\ proj'.kind = proj.kind /\ proj'.code = proj.code
  BY SettlementAssumption DEF TypeOK, ProjType, ProjGoto
<1>2. Published(proj.txn, proj.kind)' BY <1>1 DEF CauseInv, ProjCause, Grows, Published
<1>3. /\ codes[proj.txn] \in Nat /\ codes'[proj.txn] \in Nat
      /\ codes[proj.txn] <= codes'[proj.txn]
  BY <1>1, SettlementAssumption DEF TypeOK, OtpType, Grows
<1>4. \A u \in Txns : \A v : Cause(u, v) => Cause(u, v)' BY CauseGrows
<1>5. pc = "save" => Cause(proj.txn, proj.st)'
  <2> SUFFICES ASSUME pc = "save", NEW u \in Txns, u = proj.txn, NEW v, v = st
               PROVE  Cause(u, v)'
    BY <1>1 DEF Cause, Published
  <2> QED BY <1>4
<1> QED BY <1>1, <1>2, <1>3, <1>5 DEF ProjCause, Fits

\* Every step of the projector keeps the causes.
LEMMA ProjStepCause ==
    ASSUME TypeOK, TypeOK', CauseInv, Grows, ProjStep \/ ProjOtpError \/ ProjError
    PROVE  CauseInv'
<1>t. proj.pc # "idle" => proj.txn \in Txns /\ proj.kind \in Kinds /\ proj.code \in Nat
  BY SettlementAssumption DEF TypeOK, ProjType
<1>f. /\ UNCHANGED <<debits, verified>> => DebitJustified'
      /\ UNCHANGED otpStore => CodesFollowDecision' /\ AuditFollowsDebit' /\ KeyCause'
      /\ UNCHANGED state => StateJustified'
      /\ UNCHANGED proj => ProjCause'
      /\ proj' = IdleProj => ProjCause'
      /\ UNCHANGED req => ReqCause'
  BY CauseFrame
<1>p. proj.pc # "idle" => Published(proj.txn, proj.kind) /\ Fits(proj.pc, proj.kind)
  BY DEF CauseInv, ProjCause
<1>g. ASSUME proj.pc # "idle", NEW pc, NEW st, ProjGoto(pc, st), Fits(pc, proj.kind),
             pc \notin {"otpArm", "otpLog", "otpRow"}, pc = "save" => Cause(proj.txn, st)
      PROVE  ProjCause'
  BY <1>g, ProjGotoCause
<1> USE DEF CauseInv
<1>1. CASE ProjLoad
  <2>1. ProjCause'
    <3> SUFFICES ASSUME proj' # proj PROVE ProjCause' BY <1>f
    <3>1. /\ topic \in Seq([txn : Txns, kind : Kinds]) /\ pos \in 0..Len(topic)
          /\ Len(topic) \in Nat
      BY DEF TypeOK, KafkaType
    <3>2. pos + 1 \in 1..Len(topic) BY <1>1, <3>1 DEF ProjLoad
    <3> DEFINE e == topic[pos + 1]
    <3>3. e \in [txn : Txns, kind : Kinds] BY <3>1, <3>2, EventAt
    <3>4. PICK pc, st : /\ proj' = [pc |-> pc, txn |-> e.txn, kind |-> e.kind, st |-> st,
                                   code |-> 0]
                        /\ \/ pc = "save" /\ st = state[e.txn]
                           \/ pc = "errSave" /\ e.kind = "ERROR"
                           \/ pc = "row"
      BY <1>1 DEF ProjLoad
    <3>5. Published(e.txn, e.kind) BY <3>1, <3>2, <3>3 DEF Published
    <3>6. Cause(e.txn, state[e.txn]) BY <3>3 DEF StateJustified
    <3>7. \A u \in Txns : \A k \in Kinds : \A v :
             (u = e.txn /\ k = e.kind /\ v = state[e.txn])
                => Published(u, k)' /\ Cause(u, v)'
      BY <3>3, <3>5, <3>6, CauseGrows DEF Grows
    <3>8. PICK u, k, v : u \in Txns /\ k \in Kinds /\ u = e.txn /\ k = e.kind /\ v = state[e.txn]
      BY <3>3
    <3>9. Published(u, k)' /\ Cause(u, v)' BY <3>7, <3>8
    <3> HIDE DEF e
    <3> QED BY <3>4, <3>8, <3>9 DEF ProjCause, Fits, Published, Cause
  <2> QED BY <1>1, <2>1, <1>f DEF ProjLoad, ledger
<1>2. CASE ProjErrorSave
  <2>1. proj.kind = "ERROR" BY <1>2, <1>p DEF ProjErrorSave, Fits
  <2>2. Cause(proj.txn, "failed") BY <1>2, <1>p, <2>1 DEF ProjErrorSave, Cause
  <2>3. StateJustified' BY <1>2, <1>t, <2>2, SaveKeeps DEF ProjErrorSave
  <2>4. ProjCause' BY <1>2, <2>1, <1>g DEF ProjErrorSave, Fits
  <2> QED BY <1>2, <2>3, <2>4, <1>f DEF ProjErrorSave, ledger
<1>3. CASE ProjErrorRow
  BY <1>3, <1>f DEF ProjErrorRow, FailTransaction, SetRow
<1>4. CASE ProjReadRow
  <2>1. proj.kind \in Decisions /\ proj.pc = "row" BY <1>4 DEF ProjReadRow, TypeOK, ProjType
  <2>2. Cause(proj.txn, "completed") BY <1>p, <2>1 DEF Cause
  <2>3. ProjCause'
    BY <1>4, <2>1, <2>2, <1>g DEF ProjReadRow, Branch, Fits, Decisions
  <2> QED BY <1>4, <2>3, <1>f DEF ProjReadRow, ledger
<1>5. CASE ProjPass
  <2>1. proj.kind = "PASS" /\ proj.pc # "idle" BY <1>5, <1>p DEF ProjPass, Fits
  <2>2. Cause(proj.txn, "completed") BY <1>p, <2>1 DEF Cause, Decisions
  <2>3. ProjCause' BY <1>5, <2>1, <2>2, <1>g DEF ProjPass, Fits
  <2>4. DebitJustified'
    <3>1. Published(proj.txn, "PASS") BY <1>p, <2>1
    <3>2. \A u \in Txns, k \in {"PASS", "OTP"} : Published(u, k) => Published(u, k)'
      BY DEF Grows, Kinds, Finals, Decisions
    <3>3. \A u \in Txns : debits'[u] = debits[u] \/ u = proj.txn
      BY <1>5, <1>t DEF ProjPass, CompleteTransaction, ledger, TypeOK, LedgerType
    <3>4. UNCHANGED verified BY <1>5 DEF ProjPass
    <3> QED BY <3>1, <3>2, <3>3, <3>4 DEF DebitJustified
  <2> QED BY <1>5, <2>3, <2>4, <1>f DEF ProjPass
<1>6. CASE ProjBlock
  <2>1. proj.kind = "BLOCK" /\ proj.pc # "idle" BY <1>6, <1>p DEF ProjBlock, Fits
  <2>2. Cause(proj.txn, "blocked") BY <1>p, <2>1 DEF Cause
  <2>3. ProjCause' BY <1>6, <2>1, <2>2, <1>g DEF ProjBlock, Fits
  <2> QED BY <1>6, <2>3, <1>f DEF ProjBlock, SetRow
<1>7. CASE ProjOtpStore
  <2>1. proj.kind = "OTP" /\ proj.pc # "idle" BY <1>7, <1>p DEF ProjOtpStore, Fits
  <2>2. Published(proj.txn, "OTP") /\ Published(proj.txn, "OTP")'
    BY <1>7, <1>p, <2>1 DEF ProjOtpStore, Published, kafka
  <2>3. \A u \in Txns : u = proj.txn => Published(u, "OTP") /\ Published(u, "OTP")'
    BY <1>7, <1>p, <2>1 DEF ProjOtpStore, Published, kafka
  <2>4. StoreCode(proj.txn) /\ UNCHANGED <<topic, debits>>
    BY <1>7 DEF ProjOtpStore, kafka, ledger
  <2>5. CodesFollowDecision' /\ AuditFollowsDebit' /\ KeyCause'
    <3> SUFFICES ASSUME NEW u \in Txns, u = proj.txn
                 PROVE  CodesFollowDecision' /\ AuditFollowsDebit' /\ KeyCause'
      BY <1>t, <2>1
    <3> QED BY <2>3, <2>4, CodeOps
  <2>6. ProjCause'
    <3>1. /\ proj'.pc = "otpArm" /\ proj'.txn = proj.txn /\ proj'.kind = proj.kind
          /\ proj'.code = codes[proj.txn] + 1
      BY <1>7 DEF ProjOtpStore, TypeOK, ProjType
    <3>2. codes'[proj.txn] = codes[proj.txn] + 1 /\ codes[proj.txn] \in Nat
      BY <1>t, <2>1, <2>4, SettlementAssumption DEF StoreCode, TypeOK, OtpType
    <3>3. topic' = topic BY <2>4
    <3> QED BY <1>p, <2>1, <3>1, <3>2, <3>3 DEF ProjCause, Fits, Published
  <2> QED BY <1>7, <2>5, <2>6, <1>f DEF ProjOtpStore, ledger
<1>8. CASE ProjOtpArm \/ ProjOtpLog
  <2>1. proj.kind = "OTP" /\ proj.pc \in {"otpArm", "otpLog"}
    BY <1>8, <1>p DEF ProjOtpArm, ProjOtpLog, Fits
  <2>2. \A u \in Txns : u = proj.txn => Published(u, "OTP") /\ Published(u, "OTP")'
    BY <1>8, <1>p, <2>1 DEF ProjOtpArm, ProjOtpLog, Published, kafka
  <2>3. UNCHANGED <<topic, debits>> BY <1>8 DEF ProjOtpArm, ProjOtpLog, kafka, ledger
  <2>4. codes[proj.txn] > 0 /\ proj.code <= codes[proj.txn] BY <2>1 DEF ProjCause
  <2>5. proj.code \in 1..codes[proj.txn]
    BY <2>1, <2>4, <1>t, SettlementAssumption DEF TypeOK, OtpType, ProjType
  <2>6. CodesFollowDecision' /\ AuditFollowsDebit' /\ KeyCause'
    <3> SUFFICES ASSUME NEW u \in Txns, u = proj.txn
                 PROVE  CodesFollowDecision' /\ AuditFollowsDebit' /\ KeyCause'
      BY <1>t, <2>1
    <3> QED BY <1>8, <2>2, <2>3, <2>5, CodeOps DEF ProjOtpArm, ProjOtpLog
  <2>7. ProjCause'
    BY <1>8, <2>1, <2>4, ProjGotoCause DEF ProjOtpArm, ProjOtpLog, Fits
  <2> QED BY <1>8, <2>6, <2>7, <1>f DEF ProjOtpArm, ProjOtpLog, ledger
<1>9. CASE ProjOtpRow
  <2>1. proj.kind = "OTP" /\ proj.pc = "otpRow" BY <1>9, <1>p DEF ProjOtpRow, Fits
  <2>2. codes[proj.txn] > 0 BY <2>1 DEF ProjCause
  <2>3. Cause(proj.txn, "otp_pending") BY <2>2 DEF Cause
  <2>4. ProjCause' BY <1>9, <2>1, <2>3, <1>g DEF ProjOtpRow, Fits
  <2> QED BY <1>9, <2>4, <1>f DEF ProjOtpRow, SetRow
<1>10. CASE ProjOtpError
  <2>1. proj.kind = "OTP" /\ proj.pc # "idle" BY <1>10, <1>p DEF ProjOtpError, Fits
  <2>2. ProjCause' BY <1>10, <2>1, <1>g DEF ProjOtpError, Fits
  <2> QED BY <1>10, <2>2, <1>f DEF ProjOtpError, ledger
<1>11. CASE ProjOtpFail
  <2>1. proj.kind = "OTP" /\ proj.pc # "idle" BY <1>11, <1>p DEF ProjOtpFail, Fits
  <2>2. Cause(proj.txn, "failed") BY <1>p, <2>1 DEF Cause
  <2>3. ProjCause' BY <1>11, <2>1, <2>2, <1>g DEF ProjOtpFail, Fits
  <2> QED BY <1>11, <2>3, <1>f DEF ProjOtpFail, FailTransaction, SetRow
<1>12. CASE ProjSave
  <2>1. proj.pc = "save" /\ Cause(proj.txn, proj.st) BY <1>12 DEF ProjSave, ProjCause
  <2>2. StateJustified' BY <1>12, <1>t, <2>1, SaveKeeps DEF ProjSave
  <2> QED BY <1>12, <2>2, <1>f DEF ProjSave, ledger
<1>13. CASE ProjError BY <1>13, <1>f DEF ProjError, ledger
<1> QED BY <1>1, <1>2, <1>3, <1>4, <1>5, <1>6, <1>7, <1>8, <1>9, <1>10, <1>11, <1>12,
           <1>13 DEF ProjStep

\* A request that moves to a backed record keeps the causes of all requests.
LEMMA ReqMoveCause ==
    ASSUME TypeOK, TypeOK', CauseInv, Grows, NEW c \in Clients, NEW r,
           req' = [req EXCEPT ![c] = r],
           r.pc # "idle" => r.txn \in Txns /\ r.code \in Nat /\ Backed(r)'
    PROVE  ReqCause'
<1> SUFFICES ASSUME NEW x \in Clients, NEW q, q = req'[x], q.pc # "idle" PROVE Backed(q)'
  BY DEF ReqCause, Backed, Cause, Published
<1>1. (x = c /\ q = r) \/ (x # c /\ q = req[x]) BY DEF TypeOK
<1>2. CASE x = c /\ q = r BY <1>2
<1>3. CASE x # c /\ q = req[x]
  <2>1. q.txn \in Txns /\ q.code \in Nat BY <1>3, SettlementAssumption DEF TypeOK, ReqType
  <2>2. Backed(q) BY <1>3 DEF CauseInv, ReqCause
  <2> QED BY <2>1, <2>2, BackedGrows
<1> QED BY <1>1, <1>2, <1>3

\* Every step of a request keeps the causes.  The debit behind an audit row
\* needs the account of the debits: a row already 'success' has been paid.
LEMMA ReqStepCause ==
    ASSUME TypeOK, TypeOK', DebitAccounting, CauseInv, Grows, NEW c \in Clients,
           ReqStep(c) \/ ReqError(c)
    PROVE  CauseInv'
<1> DEFINE t == req[c].txn
<1>t. req[c].pc # "idle" => t \in Txns /\ req[c].code \in Nat /\ Backed(req[c])
  BY SettlementAssumption DEF TypeOK, ReqType, CauseInv, ReqCause
<1>f. /\ UNCHANGED <<debits, verified>> => DebitJustified'
      /\ UNCHANGED otpStore => CodesFollowDecision' /\ AuditFollowsDebit' /\ KeyCause'
      /\ UNCHANGED state => StateJustified'
      /\ UNCHANGED proj => ProjCause'
      /\ UNCHANGED req => ReqCause'
  BY CauseFrame
<1>i. req' = [req EXCEPT ![c] = IdleReq] => ReqCause' BY ReqMoveCause DEF IdleReq
<1>m. ASSUME NEW r, req' = [req EXCEPT ![c] = r], r.txn \in Txns, r.code \in Nat, Backed(r)
      PROVE  ReqCause'
  BY <1>m, BackedGrows, ReqMoveCause
<1>g. ASSUME NEW pc, Goto(c, pc), req[c].pc # "idle", pc # "save",
             pc \in Resending => req[c].pc \in Resending,
             req[c].op = "verify" => req[c].pc # "count" \/ pc = "count",
             req[c].op = "verify" /\ pc \in {"event", "load"}
                => req[c].pc \in {"event", "load", "save"}
      PROVE  ReqCause'
  <2> DEFINE r == [req[c] EXCEPT !.pc = pc]
  <2>1. req[c] \in [pc : ReqPc, txn : Txns \cup {NoTxn},
                    op : {"none", "verify", "lock", "resend"},
                    code : 0..MaxCodes, st : StateStatus]
    BY DEF TypeOK, ReqType
  <2>2. /\ r.pc = pc /\ r.txn = req[c].txn /\ r.op = req[c].op /\ r.code = req[c].code
        /\ r.st = req[c].st /\ req' = [req EXCEPT ![c] = r]
    BY <1>g, <2>1 DEF Goto
  <2> HIDE DEF r
  <2>3. Backed(r) BY <1>g, <1>t, <2>2 DEF Backed
  <2> QED BY <1>g, <1>t, <1>m, <2>2, <2>3
<1>o. ASSUME req[c].pc # "idle", UNCHANGED topic
      PROVE  \A u \in Txns : u = t => Published(u, "OTP") /\ Published(u, "OTP")'
  BY <1>o, <1>t DEF CauseInv, CodesFollowDecision, Backed, Published
<1>c. \A u \in Txns : codes[u] \in Nat /\ debits[u] \in Nat
  BY SettlementAssumption DEF TypeOK, OtpType, LedgerType
<1> HIDE DEF t
<1> USE DEF CauseInv
<1>1. CASE VerifyCount(c)
  <2>0. req[c].pc = "count" /\ t \in Txns BY <1>1, <1>t DEF VerifyCount
  <2>1. verified' = verified \/ verified' = [verified EXCEPT ![t] = TRUE]
    BY <1>1 DEF VerifyCount, t
  <2>2. DebitJustified'
    <3>1. \A u \in Txns : verified'[u] => verified[u] \/ u = t
      BY <2>0, <2>1 DEF TypeOK
    <3>2. \A u \in Txns : debits'[u] = debits[u] /\ (verified[u] => verified'[u])
      BY <1>1 DEF VerifyCount, ledger, Grows
    <3>3. \A u \in Txns, k \in {"PASS", "OTP"} : Published(u, k) => Published(u, k)'
      BY DEF Grows, Kinds, Finals, Decisions
    <3>4. \A u \in Txns : u = t => Published(u, "OTP")'
      BY <1>1, <2>0, <1>o DEF VerifyCount, kafka
    <3> QED BY <3>1, <3>2, <3>3, <3>4 DEF DebitJustified
  <2>3. CodesFollowDecision' /\ AuditFollowsDebit' /\ KeyCause'
    <3>1. UNCHANGED <<topic, debits, codes, sent, otpEvents>>
      BY <1>1 DEF VerifyCount, kafka, ledger
    <3>2. \A u \in Txns : challenge'[u].code = challenge[u].code
      BY <1>1 DEF VerifyCount, TypeOK, OtpType
    <3>3. \A u \in Txns : challenge'[u].live => challenge[u].live \/ u = t
      BY <1>1 DEF VerifyCount, TypeOK, OtpType, t
    <3>4. \A u \in Txns : Published(u, "OTP") => Published(u, "OTP")' BY <3>1 DEF Published
    <3>5. codes[t] > 0 BY <1>t, <2>0 DEF Backed, t
    <3>6. KeyCause'
      <4> SUFFICES ASSUME NEW u \in Txns, challenge'[u].live PROVE codes[u] > 0
        BY <3>1 DEF KeyCause
      <4> QED BY <3>3, <3>5 DEF KeyCause
    <3> QED BY <3>1, <3>2, <3>4, <3>6 DEF CodesFollowDecision, AuditFollowsDebit
  <2>4. ReqCause'
    <3> DEFINE lock == [req[c] EXCEPT !.pc = "delete", !.op = "lock"]
               good == [req[c] EXCEPT !.pc = "delete"]
    <3>0. req[c] \in [pc : ReqPc, txn : Txns \cup {NoTxn},
                      op : {"none", "verify", "lock", "resend"},
                      code : 0..MaxCodes, st : StateStatus]
      BY DEF TypeOK, ReqType
    <3>1. /\ lock.pc = "delete" /\ lock.op = "lock" /\ lock.txn = t /\ lock.code = req[c].code
          /\ good.pc = "delete" /\ good.op = req[c].op /\ good.txn = t
          /\ good.code = req[c].code
      BY <3>0 DEF t
    <3>2. \/ req' = [req EXCEPT ![c] = lock] \/ req' = [req EXCEPT ![c] = IdleReq]
          \/ req' = [req EXCEPT ![c] = good] /\ verified' = [verified EXCEPT ![t] = TRUE]
      BY <1>1 DEF VerifyCount, Goto, t
    <3> HIDE DEF lock, good
    <3>3. CASE req' = [req EXCEPT ![c] = lock]
      <4>1. Backed(lock) BY <1>t, <2>0, <3>1 DEF Backed, t, Resending
      <4> QED BY <3>3, <3>1, <4>1, <1>t, <2>0, <1>m
    <3>4. CASE req' = [req EXCEPT ![c] = good] /\ verified' = [verified EXCEPT ![t] = TRUE]
      <4>1. verified'[t] BY <3>4, <2>0 DEF TypeOK
      <4>2. codes' = codes BY <1>1 DEF VerifyCount
      <4>3. codes[t] > 0 /\ req[c].code <= codes[t] /\ req[c].op # "none"
        BY <1>t, <2>0 DEF Backed, t
      <4>4. ASSUME NEW r, r = good PROVE Backed(r)'
        BY <4>1, <4>2, <4>3, <4>4, <3>1 DEF Backed, Resending
      <4>5. \A r : r = good => Backed(r)' BY <4>4
      <4> QED BY <3>4, <3>1, <4>5, <1>t, <2>0, ReqMoveCause
    <3> QED BY <3>2, <3>3, <3>4, <1>i
  <2> QED BY <1>1, <2>2, <2>3, <2>4, <1>f DEF VerifyCount
<1>2. CASE ReqDelete(c)
  <2>0. req[c].pc = "delete" /\ t \in Txns BY <1>2, <1>t DEF ReqDelete
  <2>1. UNCHANGED <<topic, debits>> BY <1>2 DEF ReqDelete, kafka, ledger
  <2>2. CodesFollowDecision' /\ AuditFollowsDebit' /\ KeyCause'
    BY <1>2, <2>0, <2>1, <1>o, CodeOps DEF ReqDelete, t
  <2>3. ReqCause' BY <1>2, <2>0, <1>g DEF ReqDelete, Resending
  <2> QED BY <1>2, <2>2, <2>3, <1>f DEF ReqDelete, ledger
<1>3. CASE ReqSettle(c)
  <2>0. req[c].pc = "settle" /\ t \in Txns /\ Backed(req[c]) BY <1>3, <1>t DEF ReqSettle
  <2>1. CASE req[c].op = "verify" /\ CompleteTransaction(t) /\ Goto(c, "event")
    <3>1. verified[t] BY <2>0, <2>1 DEF Backed, t
    <3>2. debits'[t] > 0
      BY <2>0, <2>1 DEF CompleteTransaction, ledger, DebitAccounting, TypeOK, LedgerType
    <3>3. UNCHANGED <<topic, verified, codes>> BY <1>3 DEF ReqSettle, kafka, otpStore
    <3>4. DebitJustified'
      <4>1. \A u \in Txns : debits'[u] = debits[u] \/ u = t
        BY <2>0, <2>1 DEF CompleteTransaction, ledger, TypeOK, LedgerType
      <4>2. \A u \in Txns, k \in {"PASS", "OTP"} : Published(u, k) => Published(u, k)'
        BY <3>3 DEF Published
      <4> QED BY <4>1, <4>2, <3>1, <3>3 DEF DebitJustified
    <3>5. ReqCause'
      <4> DEFINE r == [req[c] EXCEPT !.pc = "event"]
      <4>1. req[c] \in [pc : ReqPc, txn : Txns \cup {NoTxn},
                        op : {"none", "verify", "lock", "resend"},
                        code : 0..MaxCodes, st : StateStatus]
        BY DEF TypeOK, ReqType
      <4>2. /\ r.pc = "event" /\ r.txn = t /\ r.op = "verify" /\ r.code = req[c].code
            /\ req' = [req EXCEPT ![c] = r]
        BY <2>1, <4>1 DEF Goto, t
      <4> HIDE DEF r
      <4>3. codes[t] > 0 /\ req[c].code <= codes[t] BY <2>0 DEF Backed, t
      <4>4. ASSUME NEW q, q = r PROVE Backed(q)'
        BY <4>2, <4>3, <4>4, <3>1, <3>2, <3>3 DEF Backed, Resending
      <4>5. \A q : q = r => Backed(q)' BY <4>4
      <4> QED BY <4>2, <4>5, <1>t, <2>0, ReqMoveCause
    <3> QED BY <1>3, <3>4, <3>5, <1>f DEF ReqSettle
  <2>2. CASE req[c].op = "lock" /\ FailTransaction(t) /\ Goto(c, "load")
    <3>1. ReqCause' BY <2>0, <2>2, <1>g DEF Resending
    <3> QED BY <1>3, <2>2, <3>1, <1>f DEF ReqSettle, FailTransaction, SetRow
  <2> QED BY <1>3, <2>1, <2>2 DEF ReqSettle, t
<1>4. CASE ResendCount(c) \/ ResendWindow(c)
  <2>0. req[c].pc \in {"incr", "window"} BY <1>4 DEF ResendCount, ResendWindow
  <2>a. req[c].op = "resend" BY <1>t, <2>0 DEF Backed, Resending
  <2>1. UNCHANGED <<topic, debits, codes, sent, otpEvents, challenge>>
    BY <1>4 DEF ResendCount, ResendWindow, kafka, ledger
  <2>2. CodesFollowDecision' /\ AuditFollowsDebit' /\ KeyCause'
    BY <2>1 DEF CodesFollowDecision, AuditFollowsDebit, KeyCause, Published
  <2>3. ReqCause'
    <3>1. CASE req' = [req EXCEPT ![c] = IdleReq] BY <3>1, <1>i
    <3>2. CASE Goto(c, "window") \/ Goto(c, "store") BY <3>2, <2>0, <2>a, <1>g DEF Resending
    <3> QED BY <1>4, <3>1, <3>2 DEF ResendCount, ResendWindow
  <2> QED BY <1>4, <2>2, <2>3, <1>f DEF ResendCount, ResendWindow, ledger
<1>5. CASE ResendStore(c)
  <2>0. req[c].pc = "store" /\ t \in Txns /\ Backed(req[c]) BY <1>5, <1>t DEF ResendStore
  <2>1. UNCHANGED <<topic, debits, verified>> BY <1>5 DEF ResendStore, kafka, ledger
  <2>2. StoreCode(t) BY <1>5 DEF ResendStore, t
  <2>3. CodesFollowDecision' /\ AuditFollowsDebit' /\ KeyCause'
    BY <2>0, <2>1, <2>2, <1>o, CodeOps
  <2>4. ReqCause'
    <3> DEFINE r == [req[c] EXCEPT !.pc = "arm", !.code = codes[t] + 1]
    <3>1. req[c] \in [pc : ReqPc, txn : Txns \cup {NoTxn},
                      op : {"none", "verify", "lock", "resend"},
                      code : 0..MaxCodes, st : StateStatus]
      BY DEF TypeOK, ReqType
    <3>2. /\ r.pc = "arm" /\ r.txn = t /\ r.op = req[c].op /\ r.code = codes[t] + 1
          /\ req' = [req EXCEPT ![c] = r]
      BY <1>5, <3>1 DEF ResendStore, t
    <3> HIDE DEF r
    <3>3. codes'[t] = codes[t] + 1 /\ codes[t] \in Nat
      BY <2>0, <2>2, <1>c DEF StoreCode, TypeOK, OtpType
    <3>4. req[c].op = "resend" BY <2>0 DEF Backed, Resending
    <3>5. ASSUME NEW q, q = r PROVE Backed(q)'
      BY <3>2, <3>3, <3>4, <3>5, <2>1 DEF Backed
    <3>6. \A q : q = r => Backed(q)' BY <3>5
    <3>7. r.code \in Nat BY <3>2, <3>3
    <3> QED BY <3>2, <3>6, <3>7, <2>0, ReqMoveCause
  <2> QED BY <1>5, <2>3, <2>4, <1>f DEF ResendStore, ledger
<1>6. CASE ResendArm(c)
  <2>0. req[c].pc = "arm" /\ t \in Txns /\ Backed(req[c]) BY <1>6, <1>t DEF ResendArm
  <2>1. req[c].op = "resend" BY <2>0 DEF Backed, Resending
  <2>2. UNCHANGED <<topic, debits>> BY <1>6 DEF ResendArm, kafka, ledger
  <2>3. req[c].code \in 1..codes[t]
    <3>1. req[c].code # 0 BY <2>0 DEF TypeOK, ReqType
    <3> QED BY <3>1, <1>t, <2>0, <1>c DEF Backed, t
  <2>4. ArmCode(t, req[c].code) BY <1>6 DEF ResendArm, t
  <2>5. CodesFollowDecision' /\ AuditFollowsDebit' /\ KeyCause'
    BY <2>0, <2>2, <2>3, <2>4, <1>o, CodeOps
  <2>6. ReqCause' BY <1>6, <2>0, <2>1, <1>g DEF ResendArm, Resending
  <2> QED BY <1>6, <2>5, <2>6, <1>f DEF ResendArm, ledger
<1>7. CASE ReqEvent(c)
  <2>0. req[c].pc = "event" /\ t \in Txns /\ Backed(req[c]) BY <1>7, <1>t DEF ReqEvent
  <2>1. UNCHANGED <<topic, debits>> BY <1>7 DEF ReqEvent, kafka, ledger
  <2>2. CASE req[c].op = "resend" /\ LogCode(t, req[c].code) /\ Goto(c, "load")
    <3>1. req[c].code # 0 BY <2>0, <2>2 DEF TypeOK, ReqType
    <3>2. req[c].code \in 1..codes[t] BY <3>1, <1>t, <2>0, <1>c DEF Backed, t
    <3>3. CodesFollowDecision' /\ AuditFollowsDebit' /\ KeyCause'
      BY <2>0, <2>1, <2>2, <3>2, <1>o, CodeOps
    <3>4. ReqCause' BY <2>0, <2>2, <1>g DEF Resending
    <3> QED BY <1>7, <3>3, <3>4, <1>f DEF ReqEvent, ledger
  <2>3. CASE req[c].op = "verify" /\ CloseEvents(t, "VERIFIED") /\ Goto(c, "load")
    <3>1. debits[t] > 0 BY <2>0, <2>3 DEF Backed, t
    <3>2. CodesFollowDecision' /\ AuditFollowsDebit' /\ KeyCause'
      BY <2>0, <2>1, <2>3, <3>1, <1>o, CodeOps
    <3>3. ReqCause' BY <2>0, <2>3, <1>g DEF Resending
    <3> QED BY <1>7, <3>2, <3>3, <1>f DEF ReqEvent, ledger
  <2>4. CASE CloseEvents(t, "LOCKED") /\ req' = [req EXCEPT ![c] = IdleReq]
    <3>1. CodesFollowDecision' /\ AuditFollowsDebit' /\ KeyCause'
      BY <2>0, <2>1, <2>4, <1>o, CodeOps
    <3> QED BY <1>7, <3>1, <2>4, <1>i, <1>f DEF ReqEvent, ledger
  <2> QED BY <1>7, <2>2, <2>3, <2>4 DEF ReqEvent, t
<1>a. AfterSave(c) /\ req[c].pc \in {"load", "save"} => ReqCause'
  <2> SUFFICES ASSUME AfterSave(c), req[c].pc \in {"load", "save"} PROVE ReqCause' OBVIOUS
  <2>1. CASE req[c].op = "lock"
    <3>1. Goto(c, "event") BY <2>1 DEF AfterSave, Goto, TypeOK
    <3> QED BY <2>1, <3>1, <1>g DEF Resending
  <2>2. CASE req[c].op # "lock" BY <2>2, <1>i DEF AfterSave
  <2> QED BY <2>1, <2>2
<1>8. CASE ReqLoad(c)
  <2>0. req[c].pc = "load" /\ t \in Txns /\ Backed(req[c]) BY <1>8, <1>t DEF ReqLoad
  <2> DEFINE s == NewStatus(req[c].op, state[t])
             r == [req[c] EXCEPT !.pc = "save", !.st = s]
  <2>1. ASSUME req' = [req EXCEPT ![c] = r] PROVE ReqCause'
    <3>1. req[c] \in [pc : ReqPc, txn : Txns \cup {NoTxn},
                      op : {"none", "verify", "lock", "resend"},
                      code : 0..MaxCodes, st : StateStatus]
      BY DEF TypeOK, ReqType
    <3>2. /\ r.pc = "save" /\ r.txn = t /\ r.op = req[c].op /\ r.code = req[c].code
          /\ r.st = s
      BY <3>1 DEF t
    <3>3. Cause(t, s)
      <4>1. Published(t, "OTP") BY <2>0 DEF Backed, CodesFollowDecision, t
      <4>2. Cause(t, state[t]) BY <2>0 DEF StateJustified
      <4> QED BY <4>1, <4>2 DEF NewStatus, Cause, Decisions
    <3> HIDE DEF r, s
    <3>4. Backed(r) BY <2>0, <3>2, <3>3 DEF Backed, Resending, t
    <3> QED BY <2>0, <2>1, <3>2, <3>4, <1>t, <1>m
  <2>2. req' = [req EXCEPT ![c] = r] \/ AfterSave(c) BY <1>8 DEF ReqLoad, t
  <2>3. ReqCause' BY <2>0, <2>1, <2>2, <1>a
  <2>4. UNCHANGED <<debits, verified, otpStore, state, proj>> BY <1>8 DEF ReqLoad, ledger
  <2> QED BY <2>3, <2>4, <1>f
<1>9. CASE ReqSave(c)
  <2>0. req[c].pc = "save" /\ t \in Txns /\ Backed(req[c]) BY <1>9, <1>t DEF ReqSave
  <2>1. Cause(t, req[c].st) BY <2>0 DEF Backed, t
  <2>2. StateJustified' BY <1>9, <2>0, <2>1, SaveKeeps DEF ReqSave, t
  <2>3. ReqCause' BY <1>9, <2>0, <1>a DEF ReqSave
  <2>4. UNCHANGED <<debits, verified, otpStore, proj>> BY <1>9 DEF ReqSave, ledger
  <2> QED BY <2>2, <2>3, <2>4, <1>f
<1>10. CASE ReqError(c) BY <1>10, <1>i, <1>f DEF ReqError, ledger
<1> QED BY <1>1, <1>2, <1>3, <1>4, <1>5, <1>6, <1>7, <1>8, <1>9, <1>10 DEF ReqStep

\* Expiry of a key removes what needed a cause and adds nothing.
LEMMA EnvCause ==
    ASSUME TypeOK, TypeOK', CauseInv, Grows, NEW t \in Txns,
           ChallengeExpires(t) \/ ResendWindowEnds(t) \/ StateExpires(t)
    PROVE  CauseInv'
<1> USE DEF CauseInv
<1>1. UNCHANGED <<topic, debits, verified, proj, req>>
  BY DEF ChallengeExpires, ResendWindowEnds, StateExpires, kafka, ledger
<1>2. CASE ChallengeExpires(t)
  <2>1. codes[t] > 0 /\ Published(t, "OTP")
    BY <1>2 DEF ChallengeExpires, KeyCause, CodesFollowDecision
  <2>2. Published(t, "OTP")' BY <1>1, <2>1 DEF Published
  <2>3. CodesFollowDecision' /\ AuditFollowsDebit' /\ KeyCause'
    BY <1>1, <1>2, <2>1, <2>2, CodeOps DEF ChallengeExpires
  <2> QED BY <1>1, <1>2, <2>3, CauseFrame DEF ChallengeExpires
<1>3. CASE ResendWindowEnds(t)
  <2>1. UNCHANGED <<codes, sent, challenge, otpEvents, state>> BY <1>3 DEF ResendWindowEnds
  <2>2. CodesFollowDecision' /\ AuditFollowsDebit' /\ KeyCause'
    BY <1>1, <2>1 DEF CodesFollowDecision, AuditFollowsDebit, KeyCause, Published
  <2> QED BY <1>1, <2>1, <2>2, CauseFrame
<1>4. CASE StateExpires(t)
  <2>1. Cause(t, "none") BY DEF Cause
  <2>2. StateJustified' BY <1>4, <2>1, SaveKeeps DEF StateExpires
  <2> QED BY <1>1, <1>4, <2>2, CauseFrame DEF StateExpires
<1> QED BY <1>2, <1>3, <1>4

\* Commits, reconnects and a crash keep the causes.
LEMMA ProcessCause ==
    ASSUME TypeOK, TypeOK', CauseInv, Grows, AutoCommit \/ ConsumerRestart \/ Crash
    PROVE  CauseInv'
<1> USE CauseFrame DEF CauseInv
<1>1. CASE AutoCommit \/ ConsumerRestart
  BY <1>1 DEF AutoCommit, ConsumerRestart, ledger
<1>2. CASE Crash
  <2>1. ReqCause' BY <1>2 DEF Crash, ReqCause, IdleReq
  <2> QED BY <1>2, <2>1 DEF Crash, ledger
<1> QED BY <1>1, <1>2

\* A request that arrives has no cause to show yet.
LEMMA LoadCause ==
    ASSUME TypeOK, TypeOK', CauseInv, Grows, NEW t \in Txns, NEW c \in Clients,
           VerifyLoad(c, t) \/ ResendLoad(c, t)
    PROVE  CauseInv'
<1>1. UNCHANGED <<debits, verified, otpStore, state, proj>>
  BY DEF VerifyLoad, ResendLoad, ledger
<1>2. PICK r : /\ req' = [req EXCEPT ![c] = r]
               /\ r.txn = t /\ r.code = challenge[t].code
               /\ \/ r.op = "verify" /\ r.pc = "count"
                  \/ r.op = "resend" /\ r.pc = "incr"
  BY DEF VerifyLoad, ResendLoad
<1>3. challenge[t].live BY DEF VerifyLoad, ResendLoad
<1>4. codes[t] > 0 BY <1>3 DEF CauseInv, KeyCause
<1>5. challenge[t].code <= codes[t] BY DEF CauseInv, CodesFollowDecision
<1>6. r.code \in Nat BY <1>2, SettlementAssumption DEF TypeOK, OtpType
<1>7. Backed(r) BY <1>2, <1>4, <1>5 DEF Backed, Resending
<1>8. ReqCause' BY <1>2, <1>6, <1>7, BackedGrows, ReqMoveCause
<1> QED BY <1>1, <1>8, CauseFrame DEF CauseInv

\* Nothing is stored at the start, so nothing needs a cause.
LEMMA InitCause == Init => CauseInv
<1> SUFFICES ASSUME Init PROVE CauseInv OBVIOUS
<1> USE SettlementAssumption DEF Init, CauseInv
<1>1. DebitJustified BY DEF DebitJustified
<1>2. CodesFollowDecision /\ KeyCause BY DEF CodesFollowDecision, KeyCause, NoKey
<1>3. AuditFollowsDebit BY DEF AuditFollowsDebit
<1>4. StateJustified BY DEF StateJustified, Cause
<1>5. ProjCause /\ ReqCause BY DEF ProjCause, ReqCause, IdleProj, IdleReq
<1> QED BY <1>1, <1>2, <1>3, <1>4, <1>5

\* Every step keeps the causes.
LEMMA CauseStep ==
    ASSUME TypeOK, TypeOK', DebitAccounting, CauseInv, [Next]_vars
    PROVE  CauseInv'
<1> USE HistoryGrows
<1>1. CASE UNCHANGED vars BY <1>1, CauseFrame DEF vars, CauseInv, ledger
<1>2. CASE Next
  <2>1. "PASS" \in Finals BY DEF Finals, Decisions
  <2> QED
    BY <1>2, <2>1, SubmitCause, OrchCause, ProjStepCause, ReqStepCause, LoadCause, EnvCause,
       ProcessCause DEF Next
<1> QED BY <1>1, <1>2

\* The inductive invariant holds in every reachable state.
THEOREM Causes == Spec => []CauseInv
<1> QED BY InitCause, CauseStep, TypeCorrect, DebitsAccounted, PTL DEF Spec

\* A debit follows a PASS decision or an accepted code, and a code is accepted
\* only for a challenged transfer: over every interleaving, redelivery and
\* crash, BLOCK and ERROR alone never move money.
THEOREM DebitsJustified == Spec => []DebitJustified
BY Causes, PTL DEF CauseInv

\* A code exists only after an OTP decision.
THEOREM CodesAfterDecision == Spec => []CodesFollowDecision
BY Causes, PTL DEF CauseInv

\* An audit row says VERIFIED only for a transfer that was debited.
THEOREM AuditAfterDebit == Spec => []AuditFollowsDebit
BY Causes, PTL DEF CauseInv

\* What the status endpoint reports has a cause.
THEOREM StatusJustified == Spec => []StateJustified
BY Causes, PTL DEF CauseInv

-----------------------------------------------------------------------------
(* Terminal statuses. *)

\* A submission that has not written its status yet is nobody else's to touch, and
\* of an unchallenged transfer the projector holds a status that is still open.
Early == {"new", "checked", "inserted"}
ForwardInv ==
    /\ \A t \in Txns : sub[t] \in Early =>
          state[t] = "none" /\ codes[t] = 0 /\ (proj.pc # "idle" => proj.txn # t)
    /\ proj.pc \notin {"idle", "errRow"} /\ codes[proj.txn] = 0 => state[proj.txn] \notin Terminal

\* Who writes a transfer's status, where it takes it from, and what happens to the
\* submission, the codes and the projector meanwhile.
SubMove(t)   == sub'[t] \in Early => sub[t] \in Early
CodeMove(t)  == \/ codes'[t] = codes[t]
                \/ proj.pc = "otpStore" /\ proj.txn = t
                \/ \E c \in Clients : req[c].pc # "idle" /\ req[c].txn = t
StateMove(t) == \/ state'[t] = state[t]
                \/ state'[t] = "none"
                \/ sub[t] = "inserted" /\ sub'[t] = "cached" /\ state'[t] = "processing"
                \/ proj.pc = "errSave" /\ proj.txn = t /\ proj'.pc = "errRow"
                \/ proj.pc = "save" /\ proj.txn = t /\ proj'.pc = "idle"
                \/ \E c \in Clients : req[c].pc # "idle" /\ req[c].txn = t
ProjMove     == \/ proj'.pc = "idle"
                \/ proj.pc = "idle" /\ state' = state /\ state[proj'.txn] \notin Terminal \cup {"none"}
                \/ proj.pc # "idle" /\ proj'.txn = proj.txn /\ (proj.pc = "errRow" => proj'.pc = "errRow")
                \/ proj' = proj

LEMMA StatusSteps ==
    ASSUME TypeOK, [Next]_vars
    PROVE  ProjMove /\ \A t \in Txns : SubMove(t) /\ CodeMove(t) /\ StateMove(t)
<1> DEFINE Moves == ProjMove /\ \A t \in Txns : SubMove(t) /\ CodeMove(t) /\ StateMove(t)
<1>t. /\ sub \in [Txns -> {"new", "checked", "inserted", "cached", "failing", "done"}]
      /\ state \in [Txns -> StateStatus]
      /\ codes \in [Txns -> 0..MaxCodes]
      /\ proj.pc # "idle" => proj.txn \in Txns
      /\ \A c \in Clients : req[c].pc # "idle" => req[c].txn \in Txns
  BY DEF TypeOK, SubType, OtpType, ProjType, ReqType
<1>p. proj \in [pc : ProjPc, txn : Txns \cup {NoTxn}, kind : Kinds, st : StateStatus, code : 0..MaxCodes]
  BY DEF TypeOK, ProjType
<1> USE DEF kafka, otpStore, ledger, SubMove, CodeMove, StateMove, ProjMove
<1>1. ASSUME NEW t \in Txns,
             SubmitCheck(t) \/ SubmitStep(t) \/ SubmitPublishError(t) \/ SubmitError(t)
      PROVE  Moves
  BY <1>1, <1>t DEF Early, SubmitCheck, SubmitStep, SubmitInsert, SubmitCache,
     SubmitPublish, SubmitFail, SubmitPublishError, SubmitError
<1>2. ASSUME NEW t \in Txns,
             \/ OrchStart(t) \/ OrchRedeliver(t) \/ OrchLose(t) \/ (\E d \in Finals : OrchDecide(t, d))
             \/ ChallengeExpires(t) \/ ResendWindowEnds(t)
             \/ \E c \in Clients : VerifyLoad(c, t) \/ ResendLoad(c, t)
      PROVE  Moves
  BY <1>2 DEF OrchStart, OrchRedeliver, OrchLose, OrchDecide, ChallengeExpires, ResendWindowEnds,
     DeleteKey, VerifyLoad, ResendLoad
<1>3. ASSUME NEW t \in Txns, StateExpires(t) PROVE Moves
  BY <1>3, <1>t DEF StateExpires
<1>4. ASSUME NEW c \in Clients, ReqStep(c) \/ ReqError(c) PROVE Moves
  <2>1. CASE ResendStore(c) BY <2>1, <1>t DEF ResendStore, StoreCode
  <2>2. CASE ReqSave(c) BY <2>2, <1>t DEF ReqSave
  <2>3. CASE VerifyCount(c) \/ ReqDelete(c) \/ ReqSettle(c) \/ ResendCount(c) \/ ResendWindow(c)
             \/ ResendArm(c) \/ ReqEvent(c) \/ ReqLoad(c) \/ ReqError(c)
    BY <2>3 DEF VerifyCount, ReqDelete, ReqSettle, ResendCount, ResendWindow, ResendArm, ReqEvent,
       ReqLoad, ReqError, DeleteKey, ArmCode, LogCode, CloseEvents
  <2> QED BY <1>4, <2>1, <2>2, <2>3 DEF ReqStep
<1>5. ASSUME ProjStep \/ ProjOtpError \/ ProjError PROVE Moves
  <2>g. \A pc, st : ProjGoto(pc, st) => proj'.txn = proj.txn /\ proj'.pc = pc
    BY <1>p DEF ProjGoto
  <2>i. IdleProj.pc = "idle" BY DEF IdleProj
  <2>1. CASE ProjLoad BY <2>1, <2>i DEF ProjLoad
  <2>2. CASE ProjErrorSave BY <2>2, <2>g, <1>t DEF ProjErrorSave
  <2>3. CASE ProjSave BY <2>3, <2>i, <1>t DEF ProjSave
  <2>4. CASE ProjOtpStore
    <3>1. proj'.txn = proj.txn BY <2>4, <1>p DEF ProjOtpStore
    <3> QED BY <2>4, <3>1, <1>t DEF ProjOtpStore, StoreCode
  <2>5. CASE ProjReadRow
    <3>1. \E pc, st : ProjGoto(pc, st) BY <2>5 DEF ProjReadRow, Branch
    <3> QED BY <2>5, <3>1, <2>g DEF ProjReadRow
  <2>6. CASE ProjErrorRow \/ ProjPass \/ ProjBlock \/ ProjOtpArm \/ ProjOtpLog \/ ProjOtpRow
             \/ ProjOtpFail \/ ProjOtpError \/ ProjError
    BY <2>6, <2>g, <2>i DEF ProjErrorRow, ProjPass, ProjBlock, ProjOtpArm, ProjOtpLog, ProjOtpRow,
       ProjOtpFail, ProjOtpError, ProjError, ArmCode, LogCode
  <2> QED BY <1>5, <2>1, <2>2, <2>3, <2>4, <2>5, <2>6 DEF ProjStep
<1>6. ASSUME AutoCommit \/ ConsumerRestart PROVE Moves
  BY <1>6 DEF AutoCommit, ConsumerRestart
<1>7. ASSUME Crash PROVE Moves
  <2>1. IdleProj.pc = "idle" BY DEF IdleProj
  <2> QED BY <1>7, <2>1 DEF Crash, Early
<1>8. ASSUME UNCHANGED vars PROVE Moves BY <1>8 DEF vars
<1> HIDE DEF Moves, kafka, otpStore, ledger, SubMove, CodeMove, StateMove, ProjMove
<1>9. Moves
  <2>1. ASSUME NEW t \in Txns,
               \/ SubmitCheck(t) \/ SubmitStep(t) \/ SubmitPublishError(t) \/ SubmitError(t)
               \/ OrchStart(t) \/ OrchRedeliver(t) \/ OrchLose(t)
               \/ \E d \in Finals : OrchDecide(t, d)
               \/ ChallengeExpires(t) \/ ResendWindowEnds(t) \/ StateExpires(t)
               \/ \E c \in Clients : VerifyLoad(c, t) \/ ResendLoad(c, t)
        PROVE  Moves
    BY <1>1, <1>2, <1>3, <2>1
  <2> QED BY <1>4, <1>5, <1>6, <1>7, <1>8, <2>1 DEF Next
<1> QED BY <1>9 DEF Moves

\* No step of the projector or of a request meets a status that is final for an
\* unchallenged transfer.
LEMMA ForwardStep ==
    ASSUME TypeOK, TypeOK', CauseInv, ForwardInv, [Next]_vars
    PROVE  ForwardInv'
<1>n. \A t \in Txns : codes[t] \in Nat /\ codes'[t] \in Nat /\ codes[t] <= codes'[t]
  <2>1. /\ codes \in [Txns -> 0..MaxCodes] /\ codes' \in [Txns -> 0..MaxCodes] /\ MaxCodes \in Nat
    BY SettlementAssumption DEF TypeOK, OtpType
  <2>2. \A t \in Txns : codes[t] <= codes'[t] BY HistoryGrows DEF Grows
  <2> QED BY <2>1, <2>2
<1>c. \A c \in Clients : req[c].pc # "idle" => codes[req[c].txn] > 0
  BY DEF CauseInv, ReqCause, Backed
<1>p. proj.pc # "idle" => proj.txn \in Txns BY DEF TypeOK, ProjType
<1>q. proj'.pc # "idle" => proj'.txn \in Txns BY DEF TypeOK, ProjType
<1>1. ASSUME NEW t \in Txns, sub'[t] \in Early
      PROVE  state'[t] = "none" /\ codes'[t] = 0 /\ (proj'.pc # "idle" => proj'.txn # t)
  <2>1. sub[t] \in Early /\ sub'[t] # "cached" BY <1>1, StatusSteps DEF SubMove, Early
  <2>2. state[t] = "none" /\ codes[t] = 0 /\ (proj.pc # "idle" => proj.txn # t)
    BY <2>1 DEF ForwardInv
  <2>3. ~\E c \in Clients : req[c].pc # "idle" /\ req[c].txn = t BY <1>c, <2>2
  <2>4. codes'[t] = 0 BY <2>2, <2>3, StatusSteps DEF CodeMove
  <2>5. state'[t] = "none" BY <2>1, <2>2, <2>3, StatusSteps DEF StateMove
  <2>6. proj'.pc # "idle" => proj'.txn # t BY <2>2, StatusSteps DEF ProjMove
  <2> QED BY <2>4, <2>5, <2>6
<1>2. ASSUME proj'.pc \notin {"idle", "errRow"}, NEW t, t = proj'.txn, codes'[t] = 0
      PROVE  state'[t] \notin Terminal
  <2>1. t \in Txns /\ codes[t] = 0 BY <1>2, <1>n, <1>q
  <2>2. ~\E c \in Clients : req[c].pc # "idle" /\ req[c].txn = t BY <1>c, <2>1
  <2>3. CASE proj.pc = "idle"
    BY <1>2, <2>3, StatusSteps DEF ProjMove
  <2>4. CASE proj.pc # "idle"
    <3>1. proj.txn = t /\ proj.pc # "errRow" BY <1>2, <2>4, StatusSteps DEF ProjMove
    <3>2. state[t] \notin Terminal BY <2>1, <2>4, <3>1 DEF ForwardInv
    <3>3. state'[t] \in {state[t], "none", "processing"}
      BY <1>2, <2>1, <2>2, StatusSteps DEF StateMove
    <3> QED BY <3>2, <3>3 DEF Terminal
  <2> QED BY <2>3, <2>4
<1> QED BY <1>1, <1>2 DEF ForwardInv

\* The status of a transfer that was never challenged is forward-only: once it is
\* terminal it stays what it is until its key expires, over every failure, restart
\* and repeated decision.
THEOREM StatusForwardOnly == Spec => ForwardOnly
<1> DEFINE Kept == \A t \in Txns : state[t] \in Terminal /\ codes[t] = 0
                                      => state'[t] \in {state[t], "none"}
<1>1. Init => ForwardInv BY DEF Init, ForwardInv, IdleProj, Early
<1>2. TypeOK /\ TypeOK' /\ CauseInv /\ ForwardInv /\ [Next]_vars => ForwardInv'
  BY ForwardStep
<1>3. TypeOK /\ CauseInv /\ ForwardInv /\ [Next]_vars => [Kept]_vars
  <2> SUFFICES ASSUME TypeOK, CauseInv, ForwardInv, [Next]_vars,
                      NEW t \in Txns, state[t] \in Terminal, codes[t] = 0
               PROVE  state'[t] \in {state[t], "none"}
    OBVIOUS
  <2>1. ~\E c \in Clients : req[c].pc # "idle" /\ req[c].txn = t
    BY DEF CauseInv, ReqCause, Backed
  <2>2. sub[t] # "inserted" BY DEF ForwardInv, Early, Terminal
  <2>3. ~(proj.pc \in {"errSave", "save"} /\ proj.txn = t) BY DEF ForwardInv
  <2> QED BY <2>1, <2>2, <2>3, StatusSteps DEF StateMove
<1> QED BY <1>1, <1>2, <1>3, Causes, TypeCorrect, PTL DEF Spec, ForwardOnly
=============================================================================
