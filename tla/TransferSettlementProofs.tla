---------------------- MODULE TransferSettlementProofs ----------------------
(***************************************************************************)
(* Proofs about TransferSettlement for every set of transfers, accounts    *)
(* and requests, and every value of its bounds.                            *)
(***************************************************************************)
EXTENDS TransferSettlement, TLAPS

(* Type correctness, part by part: what each shared operation preserves, and *)
(* that a part nobody writes keeps its type.                                 *)

\* A part none of whose variables a step writes keeps its type.
LEMMA Frame ==
    /\ LedgerType /\ UNCHANGED ledger => LedgerType'
    /\ OtpType /\ UNCHANGED otpStore => OtpType'
    /\ KafkaType /\ UNCHANGED kafka => KafkaType'
    /\ SubType /\ UNCHANGED sub => SubType'
    /\ ProjType /\ UNCHANGED proj => ProjType'
    /\ ReqType /\ UNCHANGED req => ReqType'
  BY DEF LedgerType, OtpType, KafkaType, SubType, ProjType, ReqType, ledger, otpStore, kafka

\* The initial state is well typed.
LEMMA InitTypeOK == Init => TypeOK
<1> SUFFICES ASSUME Init PROVE TypeOK OBVIOUS
<1> USE SettlementAssumption DEF Init
<1>1. LedgerType BY DEF LedgerType, RowStatus
<1>2. OtpType BY DEF OtpType, NoKey
<1>3. KafkaType BY DEF KafkaType
<1>4. SubType BY DEF SubType
<1>5. ProjType BY DEF ProjType, IdleProj, ProjPc, StateStatus, Kinds
<1>6. ReqType BY DEF ReqType, IdleReq, ReqPc, StateStatus
<1> QED BY <1>1, <1>2, <1>3, <1>4, <1>5, <1>6 DEF TypeOK, StateStatus

\* An UPDATE of the row to any known status keeps the ledger typed.
LEMMA SetRowType ==
    ASSUME LedgerType, NEW t \in Txns, NEW s \in RowStatus, SetRow(t, s)
    PROVE  LedgerType'
  BY DEF LedgerType, SetRow

\* So does complete_transaction, whether it debits or finds the row done.
LEMMA CompleteType ==
    ASSUME LedgerType, NEW t \in Txns, CompleteTransaction(t)
    PROVE  LedgerType'
  BY SettlementAssumption DEF LedgerType, CompleteTransaction, RowStatus, ledger

\* Storing a fresh code keeps the OTP stores typed and yields a real code number.
LEMMA StoreCodeType ==
    ASSUME OtpType, NEW t \in Txns, StoreCode(t)
    PROVE  OtpType' /\ codes[t] + 1 \in 1..MaxCodes
  BY SettlementAssumption DEF OtpType, StoreCode

\* So do the EXPIRE and the SMS,
LEMMA ArmCodeType ==
    ASSUME OtpType, NEW t \in Txns, NEW n \in 1..MaxCodes, ArmCode(t, n)
    PROVE  OtpType'
  BY SettlementAssumption DEF OtpType, ArmCode

\* the INSERT of the audit row,
LEMMA LogCodeType ==
    ASSUME OtpType, NEW t \in Txns, NEW n \in 1..MaxCodes, LogCode(t, n)
    PROVE  OtpType'
  BY SettlementAssumption DEF OtpType, LogCode

\* closing the SENT audit rows,
LEMMA CloseEventsType ==
    ASSUME OtpType, NEW t \in Txns, NEW s \in {"VERIFIED", "LOCKED"}, CloseEvents(t, s)
    PROVE  OtpType'
  BY SettlementAssumption DEF OtpType, CloseEvents

\* and deleting the key.
LEMMA DeleteKeyType ==
    ASSUME OtpType, NEW t \in Txns, DeleteKey(t)
    PROVE  OtpType'
  BY SettlementAssumption DEF OtpType, DeleteKey, NoKey

(* A handler's own record, and the topic, keep their types. *)

\* A busy projector may move to any point but the row branch and keep its event.
LEMMA ProjGotoType ==
    ASSUME ProjType, proj.pc # "idle", NEW pc \in ProjPc, NEW st \in StateStatus,
           ProjGoto(pc, st), pc # "row", pc \in {"otpArm", "otpLog"} => proj.code # 0
    PROVE  ProjType'
  BY DEF ProjType, ProjGoto

\* The idle projector is well typed.
LEMMA IdleProjType == proj' = IdleProj => ProjType'
  BY SettlementAssumption DEF ProjType, IdleProj, ProjPc, StateStatus, Kinds

\* A request that becomes a well-typed record keeps all requests typed.
LEMMA ReqUpdateType ==
    ASSUME TypeOK, NEW c \in Clients, NEW r, req' = [req EXCEPT ![c] = r],
           r \in [pc : ReqPc, txn : Txns \cup {NoTxn}, op : {"none", "verify", "lock", "resend"},
                  code : 0..MaxCodes, st : StateStatus],
           r.pc # "idle" => r.txn \in Txns,
           r.pc = "arm" \/ (r.pc = "event" /\ r.op = "resend") => r.code # 0
    PROVE  ReqType' /\ req' = [x \in Clients |-> req'[x]]
  BY DEF TypeOK, ReqType

\* Publishing an event keeps the topic and both offsets typed.
LEMMA AppendType ==
    ASSUME KafkaType, NEW e \in [txn : Txns, kind : Kinds], topic' = Append(topic, e),
           UNCHANGED <<pos, committed>>,
           orch' \in [Txns -> {"none", "queued", "running", "done"}],
           runs' \in [Txns -> Nat]
    PROVE  KafkaType'
  BY DEF KafkaType

\* Every step of POST /transfer keeps the types.
LEMMA SubmitTypeOK ==
    ASSUME TypeOK, NEW t \in Txns,
           SubmitCheck(t) \/ SubmitStep(t) \/ SubmitPublishError(t) \/ SubmitError(t)
    PROVE  TypeOK'
<1> USE Frame, SettlementAssumption DEF TypeOK, SubType
<1>1. CASE SubmitCheck(t) BY <1>1 DEF SubmitCheck
<1>2. CASE SubmitInsert(t)
  BY <1>2, SetRowType, "pending" \in RowStatus DEF SubmitInsert, RowStatus
<1>3. CASE SubmitCache(t) BY <1>3 DEF SubmitCache, StateStatus
<1>4. CASE SubmitPublish(t) BY <1>4 DEF SubmitPublish, KafkaType
<1>5. CASE SubmitFail(t)
  BY <1>5, SetRowType DEF SubmitFail, FailTransaction, RowStatus
<1>6. CASE SubmitPublishError(t) BY <1>6 DEF SubmitPublishError, KafkaType, Fault
<1>7. CASE SubmitError(t) BY <1>7 DEF SubmitError, Fault
<1> QED BY <1>1, <1>2, <1>3, <1>4, <1>5, <1>6, <1>7 DEF SubmitStep

\* Every step of the orchestrator keeps the types.
LEMMA OrchTypeOK ==
    ASSUME TypeOK, NEW t \in Txns, NEW d \in Finals,
           OrchStart(t) \/ OrchDecide(t, d) \/ OrchRedeliver(t) \/ OrchLose(t)
    PROVE  TypeOK'
<1> USE Frame, SettlementAssumption DEF TypeOK
<1>1. CASE OrchStart(t)
  <2>1. KafkaType' BY <1>1, AppendType, SMTT(20) DEF OrchStart, KafkaType, Kinds
  <2> QED BY <1>1, <2>1 DEF OrchStart
<1>2. CASE OrchDecide(t, d)
  <2>1. KafkaType' BY <1>2, AppendType DEF OrchDecide, KafkaType, Kinds
  <2> QED BY <1>2, <2>1 DEF OrchDecide
<1>3. CASE OrchRedeliver(t) BY <1>3 DEF OrchRedeliver, KafkaType
<1>4. CASE OrchLose(t) BY <1>4 DEF OrchLose, KafkaType, Fault
<1> QED BY <1>1, <1>2, <1>3, <1>4

\* An element of a sequence over S is in S.
LEMMA EventAt ==
    ASSUME NEW S, NEW s \in Seq(S), NEW i \in 1..Len(s)
    PROVE  s[i] \in S
  OBVIOUS

\* Every step of the projector keeps the types.
LEMMA ProjTypeOK ==
    ASSUME TypeOK, ProjStep \/ ProjOtpError \/ ProjError
    PROVE  TypeOK'
<1> USE Frame, IdleProjType, SettlementAssumption DEF TypeOK
<1>t. proj.pc # "idle" => proj.txn \in Txns BY DEF ProjType
<1>1. CASE ProjLoad
  <2>0. /\ topic \in Seq([txn : Txns, kind : Kinds])
        /\ pos \in 0..Len(topic) /\ committed \in 0..pos
    BY DEF KafkaType
  <2>a. Len(topic) \in Nat BY <2>0
  <2>b. pos + 1 \in 1..Len(topic) BY <1>1, <2>0, <2>a, SMTT(20) DEF ProjLoad
  <2>1. pos + 1 \in 1..Len(topic) /\ topic[pos + 1] \in [txn : Txns, kind : Kinds]
    BY <2>0, <2>b, EventAt
  <2>2. /\ pos' = pos + 1 /\ UNCHANGED <<topic, committed, orch, runs>>
    BY <1>1 DEF ProjLoad
  <2>c. pos' \in 0..Len(topic) /\ committed \in 0..pos' BY <2>0, <2>a, <2>b, <2>2, SMTT(20)
  <2>3. KafkaType'
    <3>1. topic' \in Seq([txn : Txns, kind : Kinds]) BY <2>0, <2>2
    <3>2. pos' \in 0..Len(topic') /\ committed' \in 0..pos' BY <2>c, <2>2
    <3>3. orch' = orch /\ runs' = runs BY <2>2
    <3> QED BY <3>1, <3>2, <3>3 DEF KafkaType
  <2>4. PICK pc \in {"save", "errSave", "row"}, st \in StateStatus :
          \/ UNCHANGED proj
          \/ /\ pc = "row" => topic[pos + 1].kind \in Decisions
             /\ proj' = [pc |-> pc, txn |-> topic[pos + 1].txn, kind |-> topic[pos + 1].kind,
                         st |-> st, code |-> 0]
    BY <1>1, <2>1 DEF ProjLoad, StateStatus
  <2>5. ProjType' BY <2>1, <2>4, SMTT(20) DEF ProjType, ProjPc
  <2> QED BY <1>1, <2>3, <2>5 DEF ProjLoad
<1>2. CASE ProjErrorSave
  BY <1>2, <1>t, ProjGotoType DEF ProjErrorSave, StateStatus, ProjPc
<1>3. CASE ProjErrorRow
  BY <1>3, <1>t, SetRowType DEF ProjErrorRow, FailTransaction, RowStatus
<1>4. CASE ProjReadRow
  <2>1. ProjType'
    BY <1>4, ProjGotoType DEF ProjReadRow, Branch, ProjType, ProjPc, StateStatus
  <2>2. decision' \in [Txns -> Decisions \cup {"none"}]
    BY <1>4, <1>t DEF ProjReadRow, ProjType
  <2> QED BY <1>4, <2>1, <2>2 DEF ProjReadRow
<1>5. CASE ProjPass
  BY <1>5, <1>t, CompleteType, ProjGotoType DEF ProjPass, StateStatus, ProjPc
<1>6. CASE ProjBlock
  BY <1>6, <1>t, SetRowType, ProjGotoType DEF ProjBlock, StateStatus, RowStatus, ProjPc
<1>7. CASE ProjOtpStore
  <2>1. OtpType' /\ codes[proj.txn] + 1 \in 1..MaxCodes
    BY <1>7, <1>t, StoreCodeType DEF ProjOtpStore
  <2>2. codes[proj.txn] + 1 \in 0..MaxCodes /\ codes[proj.txn] + 1 # 0 BY <2>1
  <2>3. ProjType' BY <1>7, <2>2 DEF ProjOtpStore, ProjType, ProjPc
  <2> QED BY <1>7, <2>1, <2>3 DEF ProjOtpStore
<1>8. CASE ProjOtpArm
  <2>1. proj.code \in 1..MaxCodes BY <1>8 DEF ProjOtpArm, ProjType
  <2>2. ProjType' BY <1>8, <2>1, ProjGotoType DEF ProjOtpArm, ProjType, ProjPc
  <2> QED BY <1>8, <1>t, <2>1, <2>2, ArmCodeType DEF ProjOtpArm
<1>9. CASE ProjOtpLog
  <2>1. proj.code \in 1..MaxCodes BY <1>9 DEF ProjOtpLog, ProjType
  <2>2. ProjType' BY <1>9, ProjGotoType DEF ProjOtpLog, ProjType, ProjPc
  <2> QED BY <1>9, <1>t, <2>1, <2>2, LogCodeType DEF ProjOtpLog
<1>10. CASE ProjOtpRow
  BY <1>10, <1>t, SetRowType, ProjGotoType DEF ProjOtpRow, StateStatus, RowStatus, ProjPc
<1>11. CASE ProjOtpFail
  BY <1>11, <1>t, SetRowType, ProjGotoType
     DEF ProjOtpFail, FailTransaction, StateStatus, RowStatus, ProjPc
<1>12. CASE ProjSave BY <1>12, <1>t DEF ProjSave, ProjType
<1>13. CASE ProjOtpError
  BY <1>13, ProjGotoType DEF ProjOtpError, Fault, StateStatus, ProjPc
<1>14. CASE ProjError BY <1>14 DEF ProjError, Fault
<1> QED BY <1>1, <1>2, <1>3, <1>4, <1>5, <1>6, <1>7, <1>8, <1>9, <1>10, <1>11, <1>12,
           <1>13, <1>14 DEF ProjStep

\* A busy request may move to any point at which it needs no code it lacks.
LEMMA GotoType ==
    ASSUME TypeOK, NEW c \in Clients, NEW pc \in ReqPc, Goto(c, pc), req[c].pc # "idle",
           pc = "arm" \/ (pc = "event" /\ req[c].op = "resend") => req[c].code # 0
    PROVE  ReqType' /\ req' = [x \in Clients |-> req'[x]]
  BY DEF TypeOK, ReqType, Goto

\* A request that ends leaves the requests typed.
LEMMA IdleReqType ==
    ASSUME TypeOK, NEW c \in Clients, req' = [req EXCEPT ![c] = IdleReq]
    PROVE  ReqType' /\ req' = [x \in Clients |-> req'[x]]
<1>1. IdleReq \in [pc : ReqPc, txn : Txns \cup {NoTxn}, op : {"none", "verify", "lock", "resend"},
                   code : 0..MaxCodes, st : StateStatus]
  BY SettlementAssumption DEF IdleReq, ReqPc, StateStatus
<1>2. IdleReq.pc = "idle" BY DEF IdleReq
<1> QED BY <1>1, <1>2, ReqUpdateType

\* So does one that has saved, or skipped, the state.
LEMMA AfterSaveType ==
    ASSUME TypeOK, NEW c \in Clients, AfterSave(c), req[c].pc # "idle"
    PROVE  ReqType' /\ req' = [x \in Clients |-> req'[x]]
<1>1. CASE req[c].op = "lock"
  <2>1. req' = [req EXCEPT ![c] = [req[c] EXCEPT !.pc = "event"]] BY <1>1 DEF AfterSave
  <2>2. /\ req[c] \in [pc : ReqPc, txn : Txns \cup {NoTxn},
                       op : {"none", "verify", "lock", "resend"},
                       code : 0..MaxCodes, st : StateStatus]
        /\ req[c].txn \in Txns
    BY DEF TypeOK, ReqType
  <2>3. [req[c] EXCEPT !.pc = "event"]
           \in [pc : ReqPc, txn : Txns \cup {NoTxn}, op : {"none", "verify", "lock", "resend"},
                code : 0..MaxCodes, st : StateStatus]
    BY <2>2 DEF ReqPc
  <2>4. /\ [req[c] EXCEPT !.pc = "event"].pc = "event"
        /\ [req[c] EXCEPT !.pc = "event"].op = "lock"
        /\ [req[c] EXCEPT !.pc = "event"].txn \in Txns
    BY <1>1, <2>2
  <2> QED BY <2>1, <2>3, <2>4, ReqUpdateType
<1>2. CASE req[c].op # "lock"
  <2>1. req' = [req EXCEPT ![c] = IdleReq] BY <1>2 DEF AfterSave
  <2> QED BY <2>1, IdleReqType
<1> QED BY <1>1, <1>2

\* HINCRBY leaves a well-typed hash.
LEMMA CountType ==
    ASSUME NEW h \in [live : BOOLEAN, code : 0..MaxCodes, attempts : Nat, ttl : BOOLEAN]
    PROVE  [h EXCEPT !.live = TRUE, !.attempts = h.attempts + 1]
              \in [live : BOOLEAN, code : 0..MaxCodes, attempts : Nat, ttl : BOOLEAN]
<1>1. h.attempts + 1 \in Nat OBVIOUS
<1> QED BY <1>1

\* Every step of a verify or resend under way keeps the types.
LEMMA ReqTypeOK ==
    ASSUME TypeOK, NEW c \in Clients, ReqStep(c) \/ ReqError(c)
    PROVE  TypeOK'
<1> USE Frame, SettlementAssumption DEF TypeOK
<1>t. /\ req[c].pc # "idle" => req[c].txn \in Txns
      /\ req[c].code \in 0..MaxCodes
      /\ req[c].pc = "arm" \/ (req[c].pc = "event" /\ req[c].op = "resend")
            => req[c].code \in 1..MaxCodes
  BY DEF ReqType
<1>g. \A pc \in ReqPc : Goto(c, pc) /\ req[c].pc # "idle"
          /\ (pc = "arm" \/ (pc = "event" /\ req[c].op = "resend") => req[c].code # 0)
          => ReqType' /\ req' = [x \in Clients |-> req'[x]]
  BY GotoType
<1>1. CASE VerifyCount(c)
  <2>1. OtpType'
    <3> DEFINE t == req[c].txn
               r == [challenge[t] EXCEPT !.live = TRUE, !.attempts = challenge[t].attempts + 1]
    <3>1. t \in Txns BY <1>1, <1>t DEF VerifyCount
    <3>2. challenge' = [challenge EXCEPT ![t] = r] BY <1>1 DEF VerifyCount
    <3>3. challenge[t] \in [live : BOOLEAN, code : 0..MaxCodes, attempts : Nat, ttl : BOOLEAN]
      BY <3>1 DEF OtpType
    <3>4. r \in [live : BOOLEAN, code : 0..MaxCodes, attempts : Nat, ttl : BOOLEAN]
      BY <3>3, CountType
    <3> HIDE DEF t, r
    <3>5. challenge' \in [Txns -> [live : BOOLEAN, code : 0..MaxCodes, attempts : Nat,
                                   ttl : BOOLEAN]]
      BY <3>1, <3>2, <3>4 DEF OtpType
    <3> QED BY <1>1, <3>5 DEF VerifyCount, OtpType
  <2>2. ReqType' /\ req' = [x \in Clients |-> req'[x]]
    <3>1. CASE req' = [req EXCEPT ![c].pc = "delete", ![c].op = "lock"]
      <4>1. req' = [req EXCEPT ![c] = [req[c] EXCEPT !.pc = "delete", !.op = "lock"]]
        BY <3>1
      <4>2. req[c] \in [pc : ReqPc, txn : Txns \cup {NoTxn},
                        op : {"none", "verify", "lock", "resend"},
                        code : 0..MaxCodes, st : StateStatus]
        BY DEF ReqType
      <4>3. [req[c] EXCEPT !.pc = "delete", !.op = "lock"]
               \in [pc : ReqPc, txn : Txns \cup {NoTxn},
                    op : {"none", "verify", "lock", "resend"},
                    code : 0..MaxCodes, st : StateStatus]
        BY <4>2 DEF ReqPc
      <4>4. /\ [req[c] EXCEPT !.pc = "delete", !.op = "lock"].pc = "delete"
            /\ [req[c] EXCEPT !.pc = "delete", !.op = "lock"].txn = req[c].txn
            /\ req[c].txn \in Txns
        BY <4>2, <1>1, <1>t DEF VerifyCount
      <4> QED BY <4>1, <4>3, <4>4, ReqUpdateType
    <3>2. CASE req' = [req EXCEPT ![c] = IdleReq] BY <3>2, IdleReqType
    <3>3. CASE Goto(c, "delete") BY <3>3, <1>1, <1>g DEF VerifyCount, ReqPc
    <3> QED BY <1>1, <3>1, <3>2, <3>3 DEF VerifyCount
  <2>3. verified' \in [Txns -> BOOLEAN] BY <1>1, <1>t DEF VerifyCount
  <2> QED BY <1>1, <2>1, <2>2, <2>3 DEF VerifyCount
<1>2. CASE ReqDelete(c)
  BY <1>2, <1>t, <1>g, DeleteKeyType DEF ReqDelete, ReqPc
<1>3. CASE ReqSettle(c)
  <2>1. LedgerType'
    BY <1>3, <1>t, CompleteType, SetRowType DEF ReqSettle, FailTransaction, RowStatus
  <2>2. ReqType' /\ req' = [x \in Clients |-> req'[x]]
    BY <1>3, <1>g DEF ReqSettle, ReqPc
  <2> QED BY <1>3, <2>1, <2>2 DEF ReqSettle
<1>4. CASE ResendCount(c)
  <2>0. req[c].txn \in Txns BY <1>4, <1>t DEF ResendCount
  <2>a. resends[req[c].txn].count \in Nat BY <2>0 DEF OtpType
  <2>b. resends[req[c].txn].count + 1 \in 0..(MaxResends + 1)
    BY <1>4, <2>a DEF ResendCount
  <2>1. OtpType' BY <1>4, <2>0, <2>b DEF ResendCount, OtpType
  <2>2. ReqType' /\ req' = [x \in Clients |-> req'[x]]
    BY <1>4, <1>g, IdleReqType DEF ResendCount, ReqPc
  <2> QED BY <1>4, <2>1, <2>2 DEF ResendCount
<1>5. CASE ResendWindow(c)
  <2>1. OtpType' BY <1>5, <1>t DEF ResendWindow, OtpType
  <2>2. ReqType' /\ req' = [x \in Clients |-> req'[x]]
    BY <1>5, <1>g, IdleReqType DEF ResendWindow, ReqPc
  <2> QED BY <1>5, <2>1, <2>2 DEF ResendWindow
<1>6. CASE ResendStore(c)
  <2>1. OtpType' /\ codes[req[c].txn] + 1 \in 1..MaxCodes
    BY <1>6, <1>t, StoreCodeType DEF ResendStore
  <2>2. codes[req[c].txn] + 1 \in 0..MaxCodes /\ codes[req[c].txn] + 1 # 0 BY <2>1
  <2>3. ReqType' /\ req' = [x \in Clients |-> req'[x]]
    BY <1>6, <1>t, <2>2, SMTT(20) DEF ResendStore, ReqType, ReqPc
  <2> QED BY <1>6, <2>1, <2>3 DEF ResendStore
<1>7. CASE ResendArm(c)
  <2>1. req[c].code \in 1..MaxCodes /\ req[c].code # 0 BY <1>7, <1>t DEF ResendArm
  <2> QED BY <1>7, <1>t, <1>g, <2>1, ArmCodeType DEF ResendArm, ReqPc
<1>8. CASE ReqEvent(c)
  <2>1. OtpType' BY <1>8, <1>t, LogCodeType, CloseEventsType DEF ReqEvent
  <2>2. ReqType' /\ req' = [x \in Clients |-> req'[x]]
    BY <1>8, <1>g, IdleReqType DEF ReqEvent, ReqPc
  <2> QED BY <1>8, <2>1, <2>2 DEF ReqEvent
<1>9. CASE ReqLoad(c)
  <2>1. CASE AfterSave(c) BY <2>1, <1>9, AfterSaveType DEF ReqLoad
  <2>2. CASE req' = [req EXCEPT ![c].pc = "save", ![c].st = NewStatus(req[c].op, state[req[c].txn])]
    <3>1. NewStatus(req[c].op, state[req[c].txn]) \in StateStatus
      BY <1>9, <1>t DEF ReqLoad, NewStatus, StateStatus
    <3>2. ReqType' /\ req' = [x \in Clients |-> req'[x]]
      BY <1>9, <1>t, <2>2, <3>1, ZenonT(40) DEF ReqLoad, ReqType, ReqPc
    <3> QED BY <1>9, <3>2 DEF ReqLoad
  <2> QED BY <1>9, <2>1, <2>2 DEF ReqLoad
<1>10. CASE ReqSave(c)
  <2>1. state' \in [Txns -> StateStatus] BY <1>10, <1>t DEF ReqSave, ReqType
  <2> QED BY <1>10, <2>1, AfterSaveType DEF ReqSave
<1>11. CASE ReqError(c) BY <1>11, IdleReqType DEF ReqError, Fault
<1> QED BY <1>1, <1>2, <1>3, <1>4, <1>5, <1>6, <1>7, <1>8, <1>9, <1>10, <1>11 DEF ReqStep

\* So does the arrival of one.
LEMMA LoadTypeOK ==
    ASSUME TypeOK, NEW t \in Txns, NEW c \in Clients, VerifyLoad(c, t) \/ ResendLoad(c, t)
    PROVE  TypeOK'
<1> USE Frame, SettlementAssumption DEF TypeOK
<1>c. challenge[t].code \in 0..MaxCodes BY DEF OtpType
<1>1. CASE VerifyLoad(c, t)
  BY <1>1, <1>c, ReqUpdateType DEF VerifyLoad, ReqPc, StateStatus
<1>2. CASE ResendLoad(c, t)
  BY <1>2, <1>c, ReqUpdateType DEF ResendLoad, ReqPc, StateStatus
<1> QED BY <1>1, <1>2

\* Expiry of a key keeps the types.
LEMMA EnvTypeOK ==
    ASSUME TypeOK, NEW t \in Txns,
           ChallengeExpires(t) \/ ResendWindowEnds(t) \/ StateExpires(t)
    PROVE  TypeOK'
<1> USE Frame, SettlementAssumption DEF TypeOK
<1>1. CASE ChallengeExpires(t) BY <1>1, DeleteKeyType DEF ChallengeExpires
<1>2. CASE ResendWindowEnds(t)
  <2>1. [count |-> 0, ttl |-> FALSE] \in [count : 0..(MaxResends + 1), ttl : BOOLEAN]
    OBVIOUS
  <2>2. OtpType' BY <1>2, <2>1 DEF ResendWindowEnds, OtpType
  <2> QED BY <1>2, <2>2 DEF ResendWindowEnds
<1>3. CASE StateExpires(t) BY <1>3 DEF StateExpires, StateStatus, Fault
<1> QED BY <1>1, <1>2, <1>3

\* Commits, reconnects and a crash of the API process keep the types.
LEMMA ProcessTypeOK ==
    ASSUME TypeOK, AutoCommit \/ ConsumerRestart \/ Crash
    PROVE  TypeOK'
<1> USE Frame, IdleProjType, SettlementAssumption DEF TypeOK
<1>k. Len(topic) \in Nat /\ pos \in 0..Len(topic) /\ committed \in 0..pos BY DEF KafkaType
<1>1. CASE AutoCommit BY <1>1, <1>k, SMTT(20) DEF AutoCommit, KafkaType
<1>2. CASE ConsumerRestart
  <2>1. pos' \in 0..Len(topic') /\ committed' \in 0..pos' BY <1>2, <1>k DEF ConsumerRestart
  <2>2. KafkaType' BY <1>2, <2>1 DEF ConsumerRestart, KafkaType
  <2> QED BY <1>2, <2>2 DEF ConsumerRestart, Fault
<1>3. CASE Crash
  <2>1. KafkaType' BY <1>3, <1>k DEF Crash, KafkaType
  <2>2. SubType' BY <1>3 DEF Crash, SubType
  <2>3. ReqType' /\ req' = [x \in Clients |-> req'[x]]
    BY <1>3 DEF Crash, ReqType, IdleReq, ReqPc, StateStatus
  <2> QED BY <1>3, <2>1, <2>2, <2>3 DEF Crash, Fault
<1> QED BY <1>1, <1>2, <1>3

\* Every reachable state is well typed, for every instance.
THEOREM TypeCorrect == Spec => []TypeOK
<1>1. TypeOK /\ [Next]_vars => TypeOK'
  <2> SUFFICES ASSUME TypeOK, [Next]_vars PROVE TypeOK' OBVIOUS
  <2>1. CASE UNCHANGED vars BY <2>1, Frame DEF vars, TypeOK
  <2>2. CASE Next
    <3>1. "PASS" \in Finals BY DEF Finals, Decisions
    <3> QED
      BY <2>2, <3>1, SubmitTypeOK, OrchTypeOK, ProjTypeOK, ReqTypeOK, LoadTypeOK,
         EnvTypeOK, ProcessTypeOK DEF Next
  <2> QED BY <2>1, <2>2
<1> QED BY InitTypeOK, <1>1, PTL DEF Spec
=============================================================================
