----------------------- MODULE OrderlySettlementProofs -----------------------
(***************************************************************************)
(* TransferSettlement when nothing fails: the theorems that need it.  The  *)
(* rest of the interleaving stays: the projector, the submissions and any  *)
(* number of requests, late and repeated decisions.  CalmInv is what holds *)
(* for any number of evaluations and requests; OnceInv adds what holds     *)
(* when the orchestrator evaluates a transfer once; AloneInv what holds    *)
(* when requests come one at a time, which is what the refinement of the   *)
(* ledger needs.                                                           *)
(***************************************************************************)
EXTENDS SettlementSafetyProofs, FiniteSetTheorems

\* The next-state relation without the actions that spend the fault budget.
CalmNext ==
    \/ \E t \in Txns : SubmitCheck(t) \/ SubmitStep(t)
    \/ \E t \in Txns : OrchStart(t) \/ OrchRedeliver(t) \/ \E d \in Finals : OrchDecide(t, d)
    \/ \E t \in Txns : ChallengeExpires(t) \/ ResendWindowEnds(t)
    \/ \E t \in Txns, c \in Clients : VerifyLoad(c, t) \/ ResendLoad(c, t)
    \/ \E c \in Clients : ReqStep(c)
    \/ ProjStep \/ AutoCommit \/ UNCHANGED vars

\* The i-th event is the verdict on t.
FinalAt(i, t) == topic[i].txn = t /\ topic[i].kind \in Finals

\* Events follow the submission and the evaluation they are of, and the first
\* evaluation has one verdict, its last event.
Evaluated ==
    \A t \in Txns :
        /\ sub[t] # "failing"
        /\ orch[t] # "none" \/ runs[t] > 0 => sub[t] = "done"
        /\ orch[t] = "running" => runs[t] > 0
        /\ \A i \in 1..Len(topic) : topic[i].txn = t => sub[t] = "done" /\ runs[t] > 0
        /\ runs[t] = 1 /\ orch[t] = "running" => \A i \in 1..Len(topic) : ~FinalAt(i, t)
        /\ runs[t] <= 1 => \A i, j \in 1..Len(topic) : FinalAt(i, t) /\ FinalAt(j, t) => i = j

\* A pending row is unpaid, and unchallenged unless the projector is about to say
\* otherwise; the projector's branches start from such a row.
RowOpens ==
    /\ \A t \in Txns :
        /\ sub[t] \in {"new", "checked"} => row[t] = "none"
        /\ row[t] \in {"none", "pending"} => debits[t] = 0
        /\ row[t] = "pending" /\ codes[t] > 0
              => proj.txn = t /\ proj.pc \in {"otpArm", "otpLog", "otpRow"}
    /\ proj.pc \in {"pass", "block", "otpStore"}
          => row[proj.txn] = "pending" /\ codes[proj.txn] = 0
    /\ proj.pc # "otpFail"

CalmInv == Evaluated /\ RowOpens

\* The projector has taken the verdict on t from the topic.
Handled(t) == \E i \in 1..pos : FinalAt(i, t)

\* What a transfer shows of its one verdict, before and after it is handled.
HandledOnce ==
    /\ \A t \in Txns :
        /\ decision[t] # "none" => Handled(t)
        /\ codes[t] > 0 => decision[t] = "OTP"
        /\ sub[t] \notin {"new", "checked"} /\ ~Handled(t) => row[t] = "pending"
    /\ proj.pc \notin {"idle", "save"} => Handled(proj.txn)
    /\ proj.pc = "row" => decision[proj.txn] = "none" /\ row[proj.txn] = "pending"
    /\ proj.pc \in {"pass", "block", "otpStore", "otpArm", "otpLog", "otpRow"}
          => decision[proj.txn] = proj.kind

\* "completed" is reported, or about to be, for a debited transfer only.
Paid ==
    /\ \A t \in Txns : state[t] = "completed" => debits[t] > 0
    /\ proj.pc = "save" /\ proj.st = "completed" => debits[proj.txn] > 0
    /\ \A c \in Clients : req[c].pc = "save" /\ req[c].st = "completed"
                             => debits[req[c].txn] > 0

OnceInv == RowMatchesDecision /\ HandledOnce /\ Paid

\* The key of t is gone, and what is left of the request that took it, if
\* anything, is past the settlement.
Spent(t, op) ==
    /\ codes[t] > 0 /\ ~challenge[t].live
    /\ \A c \in Clients : req[c].pc # "idle" /\ req[c].txn = t
          => req[c].op = op /\ req[c].pc \in {"event", "load", "save"}

\* A request about to settle finds the transfer unpaid and its key gone; a key
\* that paid or was locked is never live again.
AloneInv ==
    /\ \A c \in Clients :
        /\ req[c].pc \in {"delete", "settle"} /\ req[c].op = "verify" => debits[req[c].txn] = 0
        /\ req[c].pc = "settle" => ~challenge[req[c].txn].live
    /\ \A t \in Txns :
        /\ debits[t] <= 1
        /\ codes[t] > 0 /\ debits[t] > 0 => Spent(t, "verify")
        /\ row[t] = "failed" => Published(t, "ERROR") \/ Spent(t, "lock")

-----------------------------------------------------------------------------
(* Steps. *)

\* With no fault to spend, every step is one of the others.
LEMMA CalmSteps ==
    ASSUME MaxFaults = 0, TypeOK, [Next]_vars
    PROVE  CalmNext
<1>1. ~Fault BY DEF TypeOK, Fault
<1>2. CASE UNCHANGED vars BY <1>2 DEF CalmNext
<1>3. ASSUME NEW t \in Txns,
             \/ SubmitCheck(t) \/ SubmitStep(t) \/ SubmitPublishError(t) \/ SubmitError(t)
             \/ OrchStart(t) \/ OrchRedeliver(t) \/ OrchLose(t)
             \/ \E d \in Finals : OrchDecide(t, d)
             \/ ChallengeExpires(t) \/ ResendWindowEnds(t) \/ StateExpires(t)
             \/ \E c \in Clients : VerifyLoad(c, t) \/ ResendLoad(c, t)
      PROVE  CalmNext
  BY <1>1, <1>3 DEF CalmNext, SubmitPublishError, SubmitError, OrchLose, StateExpires
<1>4. ASSUME NEW c \in Clients, ReqStep(c) \/ ReqError(c) PROVE CalmNext
  BY <1>1, <1>4 DEF CalmNext, ReqError
<1>5. CASE ProjStep \/ ProjOtpError \/ ProjError \/ AutoCommit \/ ConsumerRestart \/ Crash
  BY <1>1, <1>5 DEF CalmNext, ProjOtpError, ProjError, ConsumerRestart, Crash
<1> QED BY <1>2, <1>3, <1>4, <1>5 DEF Next

\* The places an UPDATE of a row, or complete_transaction, is issued from.
LEMMA RowSteps ==
    ASSUME TypeOK, CalmNext, NEW t \in Txns
    PROVE  \/ row'[t] = row[t] /\ debits'[t] = debits[t]
           \/ SubmitInsert(t) \/ SubmitFail(t)
           \/ /\ proj.txn = t
              /\ ProjErrorRow \/ ProjPass \/ ProjBlock \/ ProjOtpRow \/ ProjOtpFail
           \/ \E c \in Clients : req[c].txn = t /\ ReqSettle(c)
<1> DEFINE Same == row'[t] = row[t] /\ debits'[t] = debits[t]
           Goal == \/ Same \/ SubmitInsert(t) \/ SubmitFail(t)
                   \/ /\ proj.txn = t
                      /\ ProjErrorRow \/ ProjPass \/ ProjBlock \/ ProjOtpRow \/ ProjOtpFail
                   \/ \E c \in Clients : req[c].txn = t /\ ReqSettle(c)
<1>u. UNCHANGED ledger => Same BY DEF ledger
<1>l. row \in [Txns -> RowStatus] /\ debits \in [Txns -> Nat] BY DEF TypeOK, LedgerType
<1>s. \A u \in Txns \ {t}, s \in RowStatus : SetRow(u, s) => Same BY <1>l DEF SetRow
<1>c. \A u \in Txns \ {t} : CompleteTransaction(u) => Same
  BY <1>l DEF CompleteTransaction, ledger
<1>k. {"pending", "failed", "blocked", "otp_required"} \subseteq RowStatus BY DEF RowStatus
<1> HIDE DEF Same
<1>1. ASSUME NEW u \in Txns, SubmitCheck(u) \/ SubmitStep(u)
      PROVE  Same \/ SubmitInsert(t) \/ SubmitFail(t)
  BY <1>1, <1>u, <1>s, <1>k DEF SubmitCheck, SubmitStep, SubmitInsert, SubmitCache, SubmitPublish,
     SubmitFail, FailTransaction
<1>2. ASSUME NEW u \in Txns, NEW d \in Finals,
             \/ OrchStart(u) \/ OrchRedeliver(u) \/ OrchDecide(u, d)
             \/ ChallengeExpires(u) \/ ResendWindowEnds(u)
      PROVE  Same
  BY <1>2, <1>u DEF OrchStart, OrchRedeliver, OrchDecide, ChallengeExpires, ResendWindowEnds
<1>3. ASSUME NEW u \in Txns, NEW c \in Clients, VerifyLoad(c, u) \/ ResendLoad(c, u)
      PROVE  Same
  BY <1>3, <1>u DEF VerifyLoad, ResendLoad
<1>4. ASSUME NEW c \in Clients, ReqStep(c)
      PROVE  Same \/ (req[c].txn = t /\ ReqSettle(c))
  <2>1. CASE ReqSettle(c) /\ req[c].txn # t
    <3>1. req[c].txn \in Txns BY <2>1 DEF ReqSettle, TypeOK, ReqType
    <3> QED BY <2>1, <3>1, <1>s, <1>c, <1>k DEF ReqSettle, FailTransaction
  <2>2. CASE ~ReqSettle(c)
    BY <1>4, <2>2, <1>u DEF ReqStep, VerifyCount, ReqDelete, ResendCount,
       ResendWindow, ResendStore, ResendArm, ReqEvent, ReqLoad, ReqSave
  <2> QED BY <2>1, <2>2
<1>5. ASSUME ProjStep
      PROVE  \/ Same
             \/ /\ proj.txn = t
                /\ ProjErrorRow \/ ProjPass \/ ProjBlock \/ ProjOtpRow \/ ProjOtpFail
  <2>1. proj.pc # "idle" => proj.txn \in Txns BY DEF TypeOK, ProjType
  <2>2. CASE proj.txn # t /\ (ProjErrorRow \/ ProjPass \/ ProjBlock \/ ProjOtpRow \/ ProjOtpFail)
    BY <2>1, <2>2, <1>s, <1>c, <1>k DEF ProjErrorRow, ProjPass, ProjBlock, ProjOtpRow,
       ProjOtpFail, FailTransaction
  <2>3. CASE ProjLoad \/ ProjErrorSave \/ ProjReadRow \/ ProjOtpStore \/ ProjOtpArm
             \/ ProjOtpLog \/ ProjSave
    BY <2>3, <1>u DEF ProjLoad, ProjErrorSave, ProjReadRow, ProjOtpStore, ProjOtpArm,
       ProjOtpLog, ProjSave
  <2> QED BY <1>5, <2>2, <2>3 DEF ProjStep
<1>6. AutoCommit => Same BY <1>u DEF AutoCommit
<1>7. UNCHANGED vars => Same BY <1>u DEF vars
<1>9. ASSUME NEW u \in Txns, OrchStart(u) \/ OrchRedeliver(u) \/ ChallengeExpires(u)
                             \/ ResendWindowEnds(u)
      PROVE  Same
  <2>1. "PASS" \in Finals BY DEF Finals, Decisions
  <2> QED BY <1>2, <1>9, <2>1
<1>8. Goal
  <2> HIDE DEF Goal
  <2>1. ASSUME NEW u \in Txns, SubmitCheck(u) \/ SubmitStep(u) PROVE Goal
    BY <1>1, <2>1 DEF Goal
  <2>2. ASSUME NEW c \in Clients, ReqStep(c) PROVE Goal
    BY <1>4, <2>2 DEF Goal
  <2>3. ProjStep => Goal
    BY <1>5 DEF Goal
  <2>4. Same => Goal
    BY DEF Goal
  <2> QED BY <1>2, <1>3, <1>6, <1>7, <1>9, <2>1, <2>2, <2>3, <2>4 DEF CalmNext
<1> QED BY <1>8 DEF Same, Goal

\* The events after an append.
LEMMA AppendAt ==
    ASSUME NEW S, NEW s \in Seq(S), NEW e \in S
    PROVE  /\ Len(Append(s, e)) = Len(s) + 1 /\ Len(s) \in Nat
           /\ \A i \in 1..(Len(s) + 1) : Append(s, e)[i] = IF i <= Len(s) THEN s[i] ELSE e
  OBVIOUS

\* An event has an index, a submission and an evaluation.
LEMMA PublishedDone ==
    ASSUME TypeOK, Evaluated, NEW t \in Txns, NEW k, Published(t, k)
    PROVE  /\ sub[t] = "done" /\ runs[t] > 0
           /\ \E i \in 1..Len(topic) : topic[i] = [txn |-> t, kind |-> k]
<1>1. DOMAIN topic = 1..Len(topic) BY DEF TypeOK, KafkaType
<1>2. PICK i \in 1..Len(topic) : topic[i] = [txn |-> t, kind |-> k]
  BY <1>1 DEF Published
<1>3. topic[i].txn = t BY <1>2
<1> QED BY <1>2, <1>3 DEF Evaluated

-----------------------------------------------------------------------------
(* CalmInv. *)

\* A step of the submission or of the orchestrator moves one transfer on; no other
\* step touches what Evaluated is about.
LEMMA EvaluatedStep ==
    ASSUME TypeOK, TypeOK', Evaluated, CalmNext
    PROVE  Evaluated'
<1>t. /\ topic \in Seq([txn : Txns, kind : Kinds]) /\ runs \in [Txns -> Nat]
      /\ orch \in [Txns -> {"none", "queued", "running", "done"}]
      /\ sub \in [Txns -> {"new", "checked", "inserted", "cached", "failing", "done"}]
  BY DEF TypeOK, KafkaType, SubType
<1>1. CASE UNCHANGED <<sub, orch, runs, topic>>
  BY <1>1 DEF Evaluated, FinalAt
<1>2. ASSUME NEW t \in Txns, SubmitCheck(t) \/ SubmitStep(t) PROVE Evaluated'
  <2>1. sub[t] # "done" /\ sub[t] # "failing" /\ UNCHANGED <<topic, runs>>
    BY <1>2 DEF Evaluated, SubmitCheck, SubmitStep, SubmitInsert, SubmitCache, SubmitPublish,
       SubmitFail, kafka
  <2>2. /\ orch[t] = "none" /\ runs[t] = 0 /\ \A i \in 1..Len(topic) : topic[i].txn # t
    BY <1>t, <2>1 DEF Evaluated
  <2>3. /\ sub'[t] # "failing" /\ orch'[t] \in {"none", "queued"}
        /\ orch'[t] = "none" \/ sub'[t] = "done"
        /\ \A u \in Txns \ {t} : sub'[u] = sub[u] /\ orch'[u] = orch[u]
    BY <1>2, <1>t, <2>1, <2>2 DEF SubmitCheck, SubmitStep, SubmitInsert, SubmitCache, SubmitPublish,
       SubmitFail, kafka
  <2> QED BY <2>1, <2>2, <2>3 DEF Evaluated, FinalAt
<1>3. ASSUME NEW t \in Txns, OrchStart(t) PROVE Evaluated'
  <2> DEFINE e == [txn |-> t, kind |-> "progress"]
  <2>1. e \in [txn : Txns, kind : Kinds] /\ e.txn = t /\ e.kind \notin Finals
    BY DEF Kinds, Finals, Decisions
  <2> HIDE DEF e
  <2>2. /\ orch[t] = "queued" /\ orch' = [orch EXCEPT ![t] = "running"]
        /\ runs' = [runs EXCEPT ![t] = @ + 1] /\ topic' = Append(topic, e) /\ sub' = sub
    BY <1>3 DEF OrchStart, e
  <2>3. /\ Len(topic') = Len(topic) + 1 /\ Len(topic) \in Nat
        /\ \A i \in 1..(Len(topic) + 1) : topic'[i] = IF i <= Len(topic) THEN topic[i] ELSE e
    BY <1>t, <2>1, <2>2, AppendAt
  <2>4. \A i \in 1..Len(topic'), u \in Txns :
            FinalAt(i, u)' <=> i \in 1..Len(topic) /\ FinalAt(i, u)
    BY <2>1, <2>3 DEF FinalAt
  <2>5. \A i \in 1..Len(topic') : topic'[i].txn = t \/ (i \in 1..Len(topic) /\ topic'[i] = topic[i])
    BY <2>1, <2>3
  <2>6. runs'[t] = 1 => \A i \in 1..Len(topic) : ~FinalAt(i, t)
    BY <1>t, <2>2 DEF Evaluated, FinalAt
  <2>7. /\ sub[t] = "done" /\ sub[t] # "failing" /\ runs[t] \in Nat /\ runs'[t] = runs[t] + 1
        /\ orch'[t] = "running"
        /\ \A u \in Txns \ {t} : orch'[u] = orch[u] /\ runs'[u] = runs[u]
    BY <1>t, <2>2 DEF Evaluated
  <2>8. \A u \in Txns : runs'[u] <= 1 =>
            \A i, j \in 1..Len(topic') : FinalAt(i, u)' /\ FinalAt(j, u)' => i = j
    BY <2>4, <2>7 DEF Evaluated
  <2>9. \A u \in Txns : runs'[u] = 1 /\ orch'[u] = "running"
            => \A i \in 1..Len(topic') : ~FinalAt(i, u)'
    BY <2>4, <2>6, <2>7 DEF Evaluated
  <2>10. \A u \in Txns : \A i \in 1..Len(topic') :
            topic'[i].txn = u => sub'[u] = "done" /\ runs'[u] > 0
    BY <2>2, <2>5, <2>7 DEF Evaluated
  <2> QED BY <2>2, <2>7, <2>8, <2>9, <2>10 DEF Evaluated
<1>4. ASSUME NEW t \in Txns, NEW d \in Finals, OrchDecide(t, d) PROVE Evaluated'
  <2> DEFINE e == [txn |-> t, kind |-> d]
  <2>1. e \in [txn : Txns, kind : Kinds] /\ e.txn = t /\ e.kind \in Finals
    BY DEF Kinds
  <2> HIDE DEF e
  <2>2. /\ orch[t] = "running" /\ orch' = [orch EXCEPT ![t] = "done"]
        /\ topic' = Append(topic, e) /\ sub' = sub /\ runs' = runs
    BY <1>4 DEF OrchDecide, e
  <2>3. /\ Len(topic') = Len(topic) + 1 /\ Len(topic) \in Nat
        /\ \A i \in 1..(Len(topic) + 1) : topic'[i] = IF i <= Len(topic) THEN topic[i] ELSE e
    BY <1>t, <2>1, <2>2, AppendAt
  <2>4. \A i \in 1..Len(topic'), u \in Txns :
            FinalAt(i, u)' <=> \/ i \in 1..Len(topic) /\ FinalAt(i, u)
                               \/ i = Len(topic) + 1 /\ u = t
    BY <2>1, <2>3 DEF FinalAt
  <2>5. \A i \in 1..Len(topic') : topic'[i].txn = t \/ (i \in 1..Len(topic) /\ topic'[i] = topic[i])
    BY <2>1, <2>3
  <2>6. /\ runs[t] > 0 /\ sub[t] = "done" /\ runs[t] \in Nat
        /\ runs[t] = 1 => \A i \in 1..Len(topic) : ~FinalAt(i, t)
    BY <1>t, <2>2 DEF Evaluated
  <2>7. orch'[t] = "done" /\ \A u \in Txns \ {t} : orch'[u] = orch[u]
    BY <1>t, <2>2
  <2>8. ASSUME NEW u \in Txns, u = t PROVE Len(topic) + 1 = Len(topic')
    BY <2>3
  <2>9. \A u \in Txns : runs'[u] <= 1 =>
            \A i, j \in 1..Len(topic') : FinalAt(i, u)' /\ FinalAt(j, u)' => i = j
    BY <2>2, <2>4, <2>6 DEF Evaluated
  <2>10. \A u \in Txns : runs'[u] = 1 /\ orch'[u] = "running"
            => \A i \in 1..Len(topic') : ~FinalAt(i, u)'
    BY <2>2, <2>4, <2>7 DEF Evaluated
  <2> QED BY <2>2, <2>5, <2>6, <2>7, <2>9, <2>10 DEF Evaluated
<1>5. ASSUME NEW t \in Txns, OrchRedeliver(t) PROVE Evaluated'
  <2>1. /\ orch[t] \in {"running", "done"} /\ orch'[t] = "queued" /\ UNCHANGED <<topic, runs, sub>>
        /\ \A u \in Txns \ {t} : orch'[u] = orch[u]
    BY <1>5, <1>t DEF OrchRedeliver
  <2> QED BY <2>1 DEF Evaluated, FinalAt
<1>6. ASSUME NEW t \in Txns, NEW c \in Clients,
             ChallengeExpires(t) \/ ResendWindowEnds(t) \/ VerifyLoad(c, t) \/ ResendLoad(c, t)
      PROVE  Evaluated'
  BY <1>1, <1>6 DEF ChallengeExpires, ResendWindowEnds, VerifyLoad, ResendLoad, kafka
<1>7. ASSUME NEW c \in Clients, ReqStep(c) PROVE Evaluated'
  BY <1>1, <1>7 DEF ReqStep, VerifyCount, ReqDelete, ReqSettle, ResendCount, ResendWindow,
     ResendStore, ResendArm, ReqEvent, ReqLoad, ReqSave, kafka
<1>8. CASE ProjStep
  BY <1>1, <1>8 DEF ProjStep, ProjLoad, ProjErrorSave, ProjErrorRow, ProjReadRow, ProjPass,
     ProjBlock, ProjOtpStore, ProjOtpArm, ProjOtpLog, ProjOtpRow, ProjOtpFail, ProjSave, kafka
<1>9. CASE AutoCommit \/ UNCHANGED vars BY <1>1, <1>9 DEF AutoCommit, vars, kafka
<1>10. ASSUME NEW t \in Txns, ChallengeExpires(t) \/ ResendWindowEnds(t) PROVE Evaluated'
  BY <1>1, <1>10 DEF ChallengeExpires, ResendWindowEnds, kafka
<1> QED BY <1>2, <1>3, <1>4, <1>5, <1>6, <1>7, <1>8, <1>9, <1>10 DEF CalmNext

\* Where ProjGoto leads.
LEMMA ProjGotoAt ==
    ASSUME TypeOK, NEW pc, NEW st, ProjGoto(pc, st)
    PROVE  /\ proj'.pc = pc /\ proj'.st = st
           /\ proj'.txn = proj.txn /\ proj'.kind = proj.kind /\ proj'.code = proj.code
  BY DEF TypeOK, ProjType, ProjGoto

\* The effect of each of the projector's steps on its program counter.
LEMMA ProjMoves ==
    ASSUME TypeOK, ProjStep
    PROVE  \/ ProjLoad /\ proj.pc = "idle" /\ proj'.pc \in {"idle", "save", "errSave", "row"}
           \/ ProjReadRow /\ proj.pc = "row" /\ proj'.txn = proj.txn /\ proj'.kind = proj.kind
              /\ proj'.pc \in {"save", "pass", "block", "otpStore"}
           \/ /\ \/ ProjErrorSave /\ proj.pc = "errSave" /\ proj'.pc = "errRow"
                 \/ ProjPass /\ proj.pc = "pass" /\ proj'.pc = "save" /\ proj'.st = "completed"
                 \/ ProjBlock /\ proj.pc = "block" /\ proj'.pc = "save" /\ proj'.st = "blocked"
                 \/ ProjOtpStore /\ proj.pc = "otpStore" /\ proj'.pc = "otpArm"
                 \/ ProjOtpArm /\ proj.pc = "otpArm" /\ proj'.pc = "otpLog"
                 \/ ProjOtpLog /\ proj.pc = "otpLog" /\ proj'.pc = "otpRow"
                 \/ ProjOtpRow /\ proj.pc = "otpRow" /\ proj'.pc = "save"
                    /\ proj'.st = "otp_pending"
                 \/ ProjOtpFail /\ proj.pc = "otpFail" /\ proj'.pc = "save" /\ proj'.st = "failed"
              /\ proj'.txn = proj.txn /\ proj'.kind = proj.kind
           \/ ProjErrorRow /\ proj.pc = "errRow" /\ proj'.pc = "idle"
           \/ ProjSave /\ proj.pc = "save" /\ proj'.pc = "idle"
<1> USE ProjGotoAt
<1>1. CASE ProjLoad BY <1>1 DEF ProjLoad
<1>2. CASE ProjReadRow BY <1>2 DEF ProjReadRow, Branch
<1>3. CASE ProjErrorSave BY <1>3 DEF ProjErrorSave
<1>4. CASE ProjPass BY <1>4 DEF ProjPass
<1>5. CASE ProjBlock BY <1>5 DEF ProjBlock
<1>6. CASE ProjOtpStore BY <1>6 DEF ProjOtpStore, TypeOK, ProjType
<1>7. CASE ProjOtpArm BY <1>7 DEF ProjOtpArm
<1>8. CASE ProjOtpLog BY <1>8 DEF ProjOtpLog
<1>9. CASE ProjOtpRow BY <1>9 DEF ProjOtpRow
<1>10. CASE ProjOtpFail BY <1>10 DEF ProjOtpFail
<1>11. CASE ProjErrorRow
  <2>1. proj.pc = "errRow" /\ proj'.pc = "idle" BY <1>11 DEF ProjErrorRow, IdleProj
  <2> QED BY <1>11, <2>1
<1>12. CASE ProjSave BY <1>12 DEF ProjSave, IdleProj
<1> QED BY <1>1, <1>2, <1>3, <1>4, <1>5, <1>6, <1>7, <1>8, <1>9, <1>10, <1>11, <1>12
        DEF ProjStep

\* A row stops being pending in a step of the projector or of a request that has a
\* code, and none of them works on an untouched transfer.
LEMMA RowOpensStep ==
    ASSUME TypeOK, TypeOK', CauseInv, CalmInv, CalmNext
    PROVE  RowOpens'
<1> USE DEF CalmInv
<1>t. /\ row \in [Txns -> RowStatus] /\ debits \in [Txns -> Nat]
      /\ codes \in [Txns -> 0..MaxCodes] /\ \A t \in Txns : codes[t] \in Nat
      /\ sub \in [Txns -> {"new", "checked", "inserted", "cached", "failing", "done"}]
  <2>1. codes \in [Txns -> 0..MaxCodes] BY DEF TypeOK, OtpType
  <2> QED BY <2>1, SettlementAssumption DEF TypeOK, LedgerType, SubType
<1>p. proj.pc # "idle" => /\ proj.txn \in Txns /\ sub[proj.txn] = "done"
                          /\ Published(proj.txn, proj.kind)
  <2>1. proj.pc # "idle" => proj.txn \in Txns BY DEF TypeOK, ProjType
  <2> QED BY <2>1, PublishedDone DEF CauseInv, ProjCause
<1>r. \A c \in Clients : req[c].pc # "idle" =>
          req[c].txn \in Txns /\ codes[req[c].txn] > 0 /\ sub[req[c].txn] = "done"
  <2> SUFFICES ASSUME NEW c \in Clients, req[c].pc # "idle"
               PROVE  req[c].txn \in Txns /\ codes[req[c].txn] > 0 /\ sub[req[c].txn] = "done"
    OBVIOUS
  <2>1. req[c].txn \in Txns BY DEF TypeOK, ReqType
  <2>2. codes[req[c].txn] > 0 BY DEF CauseInv, ReqCause, Backed
  <2>3. Published(req[c].txn, "OTP") BY <2>1, <2>2 DEF CauseInv, CodesFollowDecision
  <2> QED BY <2>1, <2>2, <2>3, PublishedDone
<1>n. \A t \in Txns : sub[t] # "done" => codes[t] = 0
  <2> SUFFICES ASSUME NEW t \in Txns, codes[t] > 0 PROVE sub[t] = "done"
    BY <1>t
  <2> QED BY PublishedDone DEF CauseInv, CodesFollowDecision
<1>f. UNCHANGED <<row, debits, codes, proj, sub>> => RowOpens'
  BY DEF RowOpens
<1>1. ASSUME NEW t \in Txns, SubmitCheck(t) \/ SubmitStep(t) PROVE RowOpens'
  <2>1. UNCHANGED <<codes, debits, proj>> /\ sub[t] # "failing" /\ sub[t] # "done"
        /\ \A u \in Txns \ {t} : sub'[u] = sub[u] /\ row'[u] = row[u]
    BY <1>1, <1>t DEF Evaluated, SubmitCheck, SubmitStep, SubmitInsert, SubmitCache, SubmitPublish,
       SubmitFail, SetRow, otpStore, ledger
  <2>2. codes[t] = 0 /\ (proj.pc # "idle" => proj.txn # t)
    BY <1>n, <1>p, <2>1
  <2>3. \/ sub'[t] \notin {"new", "checked"} /\ row'[t] = row[t]
        \/ sub[t] = "new" /\ row'[t] = row[t]
        \/ sub[t] = "checked" /\ sub'[t] = "inserted" /\ row'[t] = "pending"
    BY <1>1, <1>t, <2>1 DEF SubmitCheck, SubmitStep, SubmitInsert, SubmitCache, SubmitPublish,
       SubmitFail, SetRow, ledger
  <2>4. debits[t] = 0 \/ row'[t] \notin {"none", "pending"}
    BY <2>3 DEF RowOpens
  <2>5. proj.pc # "idle" => row'[proj.txn] = row[proj.txn]
    BY <1>p, <2>1, <2>2
  <2>6. ASSUME NEW u \in Txns, u # t
        PROVE  sub'[u] = sub[u] /\ row'[u] = row[u] /\ debits'[u] = debits[u] /\ codes'[u] = codes[u]
    BY <2>1, <2>6
  <2>7. /\ codes'[t] = 0 /\ debits'[t] = debits[t]
        /\ sub'[t] \in {"new", "checked"} => row'[t] = "none"
    <3>1. sub[t] \in {"new", "checked"} => row[t] = "none" BY DEF RowOpens
    <3> QED BY <2>1, <2>2, <2>3, <3>1
  <2> QED BY <2>1, <2>4, <2>5, <2>6, <2>7 DEF RowOpens
<1>2. ASSUME NEW t \in Txns, NEW d \in Finals,
             OrchStart(t) \/ OrchRedeliver(t) \/ OrchDecide(t, d)
      PROVE  RowOpens'
  BY <1>f, <1>2 DEF OrchStart, OrchRedeliver, OrchDecide, ledger, otpStore
<1>3. ASSUME NEW t \in Txns, ChallengeExpires(t) \/ ResendWindowEnds(t) PROVE RowOpens'
  BY <1>f, <1>3 DEF ChallengeExpires, ResendWindowEnds, DeleteKey, ledger, otpStore
<1>4. ASSUME NEW t \in Txns, NEW c \in Clients, VerifyLoad(c, t) \/ ResendLoad(c, t)
      PROVE  RowOpens'
  BY <1>f, <1>4 DEF VerifyLoad, ResendLoad, ledger, otpStore
<1>5. ASSUME NEW c \in Clients, ReqStep(c) PROVE RowOpens'
  <2> DEFINE t == req[c].txn
  <2>0. req[c].pc # "idle" /\ UNCHANGED <<proj, sub>>
    BY <1>5 DEF ReqStep, VerifyCount, ReqDelete, ReqSettle, ResendCount, ResendWindow,
       ResendStore, ResendArm, ReqEvent, ReqLoad, ReqSave
  <2>1. t \in Txns /\ codes[t] > 0 /\ sub[t] = "done" BY <1>r, <2>0
  <2> HIDE DEF t
  <2>2. CASE ReqSettle(c)
    <3>1. codes' = codes BY <2>2 DEF ReqSettle, otpStore
    <3>2. /\ \A u \in Txns \ {t} : row'[u] = row[u] /\ debits'[u] = debits[u]
          /\ row'[t] \in {"success", "failed"}
      BY <1>t, <2>1, <2>2 DEF ReqSettle, CompleteTransaction, FailTransaction, SetRow, ledger, t
    <3>3. proj.pc \in {"pass", "block", "otpStore"} => proj.txn \in Txns \ {t}
      BY <1>t, <1>p, <2>1 DEF RowOpens
    <3> QED BY <1>t, <2>0, <2>1, <3>1, <3>2, <3>3 DEF RowOpens
  <2>3. CASE ResendStore(c)
    <3>1. UNCHANGED <<row, debits>> /\ StoreCode(t) BY <2>3 DEF ResendStore, ledger, t
    <3>2. \A u \in Txns : codes'[u] = codes[u] \/ (u = t /\ codes'[t] > 0)
      BY <1>t, <2>1, <3>1 DEF StoreCode
    <3>3. proj.pc \in {"pass", "block", "otpStore"} => proj.txn \in Txns \ {t}
      BY <1>t, <1>p, <2>1 DEF RowOpens
    <3>4. \A u \in Txns : codes'[u] > 0 => codes[u] > 0
      BY <2>1, <3>2
    <3>5. proj.pc \in {"pass", "block", "otpStore"} => codes'[proj.txn] = codes[proj.txn]
      BY <3>2, <3>3
    <3> QED BY <2>0, <3>1, <3>4, <3>5 DEF RowOpens
  <2>4. CASE ~ReqSettle(c) /\ ~ResendStore(c)
    <3>1. UNCHANGED <<row, debits, codes>>
      BY <1>5, <2>4 DEF ReqStep, VerifyCount, ReqDelete, ResendCount, ResendWindow,
         ResendArm, ReqEvent, ReqLoad, ReqSave, ledger, otpStore, DeleteKey, ArmCode,
         LogCode, CloseEvents
    <3> QED BY <1>f, <2>0, <3>1
  <2> QED BY <2>2, <2>3, <2>4
<1>6. CASE ProjStep
  <2>s. sub' = sub
    BY <1>6 DEF ProjStep, ProjLoad, ProjErrorSave, ProjErrorRow, ProjReadRow, ProjPass,
       ProjBlock, ProjOtpStore, ProjOtpArm, ProjOtpLog, ProjOtpRow, ProjOtpFail, ProjSave
  <2>o. proj.pc \notin {"otpArm", "otpLog", "otpRow"} =>
            \A t \in Txns : row[t] = "pending" => codes[t] = 0
    BY <1>t DEF RowOpens
  <2>1. CASE ProjLoad \/ ProjErrorSave \/ ProjSave
    <3>1. UNCHANGED <<row, debits, codes>>
      BY <2>1 DEF ProjLoad, ProjErrorSave, ProjSave, ledger, otpStore
    <3>2. /\ proj.pc \notin {"otpArm", "otpLog", "otpRow"}
          /\ proj'.pc \in {"idle", "save", "errSave", "row", "errRow"}
      BY <2>1, <1>6, ProjMoves DEF ProjLoad, ProjErrorSave, ProjSave, IdleProj
    <3> QED BY <1>t, <2>s, <2>o, <3>1, <3>2 DEF RowOpens
  <2>2. CASE ProjReadRow
    <3>1. UNCHANGED <<row, debits, codes>> /\ proj.pc = "row"
      BY <2>2 DEF ProjReadRow, ledger, otpStore
    <3>2. \/ proj'.pc = "save"
          \/ /\ proj'.pc \in {"pass", "block", "otpStore"} /\ proj'.txn = proj.txn
             /\ row[proj.txn] = "pending"
      BY <2>2, ProjGotoAt DEF ProjReadRow, Branch
    <3> QED BY <1>t, <1>p, <2>s, <2>o, <3>1, <3>2 DEF RowOpens
  <2>3. CASE ProjErrorRow \/ ProjPass \/ ProjBlock \/ ProjOtpRow
    <3> DEFINE t == proj.txn
    <3>1. codes' = codes /\ proj.pc # "idle"
      BY <2>3 DEF ProjErrorRow, ProjPass, ProjBlock, ProjOtpRow, otpStore
    <3>2. t \in Txns /\ sub[t] = "done" BY <1>p, <3>1
    <3>3. proj'.pc \in {"idle", "save"}
      BY <2>3, ProjGotoAt DEF ProjErrorRow, ProjPass, ProjBlock, ProjOtpRow, IdleProj
    <3>4. /\ \A u \in Txns \ {t} : row'[u] = row[u] /\ debits'[u] = debits[u]
          /\ row'[t] \notin {"none", "pending"}
      BY <1>t, <2>3, <3>2 DEF ProjErrorRow, ProjPass, ProjBlock, ProjOtpRow, FailTransaction,
         SetRow, CompleteTransaction, ledger
    <3> QED BY <1>t, <2>s, <3>1, <3>2, <3>3, <3>4 DEF RowOpens
  <2>4. CASE ProjOtpStore \/ ProjOtpArm \/ ProjOtpLog
    <3> DEFINE t == proj.txn
    <3>1. UNCHANGED <<row, debits>> /\ proj.pc \in {"otpStore", "otpArm", "otpLog"}
      BY <2>4 DEF ProjOtpStore, ProjOtpArm, ProjOtpLog, ledger
    <3>2. t \in Txns BY <1>p, <3>1
    <3>3. proj'.pc \in {"otpArm", "otpLog", "otpRow"} /\ proj'.txn = t
      BY <2>4, <1>6, ProjMoves DEF ProjOtpStore, ProjOtpArm, ProjOtpLog
    <3>4. \A u \in Txns \ {t} : codes'[u] = codes[u]
      BY <1>t, <2>4 DEF ProjOtpStore, ProjOtpArm, ProjOtpLog, StoreCode, ArmCode, LogCode
    <3>5. \A u \in Txns \ {t} : row[u] = "pending" => codes[u] = 0
      BY <1>t DEF RowOpens
    <3> QED BY <1>t, <2>s, <3>1, <3>2, <3>3, <3>4, <3>5 DEF RowOpens
  <2>5. ~ProjOtpFail BY DEF ProjOtpFail, RowOpens
  <2> QED BY <1>6, <2>1, <2>2, <2>3, <2>4, <2>5 DEF ProjStep
<1>7. AutoCommit => RowOpens' BY <1>f DEF AutoCommit, ledger, otpStore
<1>8. UNCHANGED vars => RowOpens' BY <1>f DEF vars, ledger, otpStore
<1>9. ASSUME NEW t \in Txns, OrchStart(t) \/ OrchRedeliver(t) PROVE RowOpens'
  <2>1. "PASS" \in Finals BY DEF Finals, Decisions
  <2> QED BY <1>2, <1>9, <2>1
<1> QED BY <1>1, <1>2, <1>3, <1>4, <1>5, <1>6, <1>7, <1>8, <1>9 DEF CalmNext

\* What holds while nothing fails, for any number of evaluations and requests.
LEMMA Calm == MaxFaults = 0 => (Spec => []CalmInv)
<1> SUFFICES ASSUME MaxFaults = 0 PROVE Spec => []CalmInv
  OBVIOUS
<1>1. Init => CalmInv
  <2> SUFFICES ASSUME Init PROVE CalmInv OBVIOUS
  <2>1. Len(topic) = 0 BY DEF Init
  <2>2. Evaluated BY <2>1 DEF Init, Evaluated
  <2>3. RowOpens BY DEF Init, RowOpens, IdleProj
  <2> QED BY <2>2, <2>3 DEF CalmInv
<1>2. TypeOK /\ TypeOK' /\ CauseInv /\ CalmInv /\ [Next]_vars => CalmInv'
  BY CalmSteps, EvaluatedStep, RowOpensStep DEF CalmInv
<1> QED BY <1>1, <1>2, TypeCorrect, Causes, PTL DEF Spec

-----------------------------------------------------------------------------
(* OnceInv. *)

\* The orchestrator starts no more evaluations than its bound.
RunsBound == \A t \in Txns : runs[t] <= MaxRuns

LEMMA RunsBoundStep ==
    ASSUME TypeOK, RunsBound, CalmNext
    PROVE  RunsBound'
<1>t. runs \in [Txns -> Nat] BY DEF TypeOK, KafkaType
<1>f. runs' = runs => RunsBound' BY DEF RunsBound
<1>1. ASSUME NEW t \in Txns, OrchStart(t) PROVE RunsBound'
  BY <1>1, <1>t, SettlementAssumption DEF OrchStart, RunsBound
<1>2. ASSUME NEW t \in Txns, SubmitCheck(t) \/ SubmitStep(t) PROVE RunsBound'
  BY <1>2, <1>f DEF SubmitCheck, SubmitStep, SubmitInsert, SubmitCache, SubmitPublish,
     SubmitFail, kafka
<1>3. ASSUME NEW t \in Txns, OrchRedeliver(t) \/ \E d \in Finals : OrchDecide(t, d)
      PROVE  RunsBound'
  BY <1>3, <1>f DEF OrchRedeliver, OrchDecide
<1>4. ASSUME NEW t \in Txns, ChallengeExpires(t) \/ ResendWindowEnds(t) PROVE RunsBound'
  BY <1>4, <1>f DEF ChallengeExpires, ResendWindowEnds, kafka
<1>5. ASSUME NEW t \in Txns, NEW c \in Clients, VerifyLoad(c, t) \/ ResendLoad(c, t)
      PROVE  RunsBound'
  BY <1>5, <1>f DEF VerifyLoad, ResendLoad, kafka
<1>6. ASSUME NEW c \in Clients, ReqStep(c) PROVE RunsBound'
  BY <1>6, <1>f DEF ReqStep, VerifyCount, ReqDelete, ReqSettle, ResendCount, ResendWindow,
     ResendStore, ResendArm, ReqEvent, ReqLoad, ReqSave, kafka
<1>7. ProjStep => RunsBound'
  BY <1>f DEF ProjStep, ProjLoad, ProjErrorSave, ProjErrorRow, ProjReadRow, ProjPass,
     ProjBlock, ProjOtpStore, ProjOtpArm, ProjOtpLog, ProjOtpRow, ProjOtpFail, ProjSave, kafka
<1>8. AutoCommit \/ UNCHANGED vars => RunsBound' BY <1>f DEF AutoCommit, vars, kafka
<1> QED BY <1>1, <1>2, <1>3, <1>4, <1>5, <1>6, <1>7, <1>8 DEF CalmNext

\* The projector's place in the topic only moves on.
LEMMA HandledGrows ==
    ASSUME TypeOK, CalmNext, NEW t \in Txns, Handled(t)
    PROVE  Handled(t)'
<1>t. topic \in Seq([txn : Txns, kind : Kinds]) /\ pos \in 0..Len(topic) /\ Len(topic) \in Nat
  BY DEF TypeOK, KafkaType
<1>1. PICK i \in 1..pos : FinalAt(i, t) BY DEF Handled
<1>2. pos' \in {pos, pos + 1}
  <2>1. ASSUME NEW u \in Txns, SubmitCheck(u) \/ SubmitStep(u) PROVE pos' = pos
    BY <2>1 DEF SubmitCheck, SubmitStep, SubmitInsert, SubmitCache, SubmitPublish,
       SubmitFail, kafka
  <2>2. ASSUME NEW u \in Txns,
               OrchStart(u) \/ OrchRedeliver(u) \/ \E d \in Finals : OrchDecide(u, d)
        PROVE  pos' = pos
    BY <2>2 DEF OrchStart, OrchRedeliver, OrchDecide
  <2>3. ASSUME NEW u \in Txns, ChallengeExpires(u) \/ ResendWindowEnds(u) PROVE pos' = pos
    BY <2>3 DEF ChallengeExpires, ResendWindowEnds, kafka
  <2>4. ASSUME NEW u \in Txns, NEW c \in Clients, VerifyLoad(c, u) \/ ResendLoad(c, u)
        PROVE  pos' = pos
    BY <2>4 DEF VerifyLoad, ResendLoad, kafka
  <2>5. ASSUME NEW c \in Clients, ReqStep(c) PROVE pos' = pos
    BY <2>5 DEF ReqStep, VerifyCount, ReqDelete, ReqSettle, ResendCount, ResendWindow,
       ResendStore, ResendArm, ReqEvent, ReqLoad, ReqSave, kafka
  <2>6. ProjStep => pos' \in {pos, pos + 1}
    BY DEF ProjStep, ProjLoad, ProjErrorSave, ProjErrorRow, ProjReadRow, ProjPass,
       ProjBlock, ProjOtpStore, ProjOtpArm, ProjOtpLog, ProjOtpRow, ProjOtpFail, ProjSave, kafka
  <2>7. AutoCommit \/ UNCHANGED vars => pos' = pos BY DEF AutoCommit, vars, kafka
  <2> QED BY <2>1, <2>2, <2>3, <2>4, <2>5, <2>6, <2>7 DEF CalmNext
<1>3. i \in DOMAIN topic BY <1>t
<1>4. topic'[i] = topic[i]
  <2>1. [Next]_vars
    BY DEF CalmNext, Next
  <2> QED BY <2>1, <1>t, <1>3, HistorySteps, AppendKeeps
<1> QED BY <1>t, <1>1, <1>2, <1>4 DEF Handled, FinalAt

\* The parts of OnceInv survive a step that writes none of their variables.
LEMMA OnceFrame ==
    ASSUME TypeOK, TypeOK', OnceInv, CalmNext
    PROVE  /\ UNCHANGED <<row, decision, codes, proj, sub>>
                 => RowMatchesDecision' /\ HandledOnce'
           /\ UNCHANGED <<state, proj, req>> => Paid'
           /\ \A t \in Txns : debits[t] > 0 => debits'[t] > 0
<1>p. proj.pc # "idle" => proj.txn \in Txns BY DEF TypeOK, ProjType
<1>r. \A c \in Clients : req[c].pc # "idle" => req[c].txn \in Txns BY DEF TypeOK, ReqType
<1>1. UNCHANGED <<row, decision, codes, proj, sub>> => RowMatchesDecision' /\ HandledOnce'
  BY <1>p, HandledGrows DEF OnceInv, RowMatchesDecision, HandledOnce
<1>2. \A t \in Txns : debits[t] > 0 => debits'[t] > 0
  <2>1. [Next]_vars BY DEF CalmNext, Next
  <2>2. \A t \in Txns : debits[t] <= debits'[t] BY <2>1, HistoryGrows DEF Grows
  <2>3. \A t \in Txns : debits[t] \in Nat /\ debits'[t] \in Nat BY DEF TypeOK, LedgerType
  <2> QED BY <2>2, <2>3
<1>3. UNCHANGED <<state, proj, req>> => Paid'
  BY <1>p, <1>r, <1>2 DEF OnceInv, Paid
<1> QED BY <1>1, <1>2, <1>3

\* The submission inserts the row as pending; the rest touches only caches.
LEMMA SubmitOnce ==
    ASSUME TypeOK, TypeOK', CalmInv, OnceInv, CalmNext, NEW t \in Txns,
           SubmitCheck(t) \/ SubmitStep(t)
    PROVE  RowMatchesDecision' /\ HandledOnce' /\ Paid'
<1>t. /\ row \in [Txns -> RowStatus] /\ state \in [Txns -> StateStatus]
      /\ sub \in [Txns -> {"new", "checked", "inserted", "cached", "failing", "done"}]
  BY DEF TypeOK, LedgerType, SubType
<1>1. /\ UNCHANGED <<decision, codes, proj, req>> /\ sub[t] # "failing"
      /\ \A u \in Txns \ {t} : sub'[u] = sub[u] /\ row'[u] = row[u]
      /\ \/ row'[t] = row[t] /\ (sub'[t] \notin {"new", "checked"} => sub[t] \notin {"new", "checked"})
         \/ row'[t] = "pending"
      /\ \A u \in Txns : state'[u] = state[u] \/ state'[u] = "processing"
  BY <1>t DEF CalmInv, Evaluated, SubmitCheck, SubmitStep, SubmitInsert, SubmitCache, SubmitPublish,
     SubmitFail, SetRow, otpStore, ledger
<1>p. proj.pc # "idle" => proj.txn \in Txns BY DEF TypeOK, ProjType
<1>2. RowMatchesDecision'
  <2> SUFFICES ASSUME NEW u \in Txns
               PROVE  row'[u] \in {row[u], "pending"}
    BY <1>1 DEF OnceInv, RowMatchesDecision
  <2> QED BY <1>1
<1>3. HandledOnce'
  <2>1. \A u \in Txns : row'[u] \in {row[u], "pending"} BY <1>1
  <2>2. \A u \in Txns : sub'[u] \notin {"new", "checked"} /\ ~Handled(u)' => row'[u] = "pending"
    <3> SUFFICES ASSUME NEW u \in Txns, sub'[u] \notin {"new", "checked"}, ~Handled(u)',
                        row'[u] # "pending"
                 PROVE  FALSE
      OBVIOUS
    <3>1. ~Handled(u) BY HandledGrows
    <3>2. sub[u] \notin {"new", "checked"} /\ row'[u] = row[u] BY <1>1
    <3> QED BY <3>1, <3>2 DEF OnceInv, HandledOnce
  <2> QED BY <1>1, <1>p, <2>1, <2>2, HandledGrows DEF OnceInv, HandledOnce
<1>4. Paid'
  <2>1. \A u \in Txns : state'[u] = "completed" => state[u] = "completed" BY <1>1
  <2>2. proj.pc # "idle" => proj.txn \in Txns BY DEF TypeOK, ProjType
  <2>3. \A c \in Clients : req[c].pc # "idle" => req[c].txn \in Txns BY DEF TypeOK, ReqType
  <2> QED BY <1>1, <2>1, <2>2, <2>3, OnceFrame DEF OnceInv, Paid
<1> QED BY <1>2, <1>3, <1>4

\* A request acts on a challenged transfer, so on one decided OTP.
LEMMA ReqOnce ==
    ASSUME TypeOK, TypeOK', CauseInv, CalmInv, OnceInv, CalmNext, NEW c \in Clients, ReqStep(c)
    PROVE  RowMatchesDecision' /\ HandledOnce' /\ Paid'
<1> DEFINE t == req[c].txn
<1>0. req[c].pc # "idle" /\ UNCHANGED <<proj, sub, decision>>
  BY DEF ReqStep, VerifyCount, ReqDelete, ReqSettle, ResendCount, ResendWindow,
     ResendStore, ResendArm, ReqEvent, ReqLoad, ReqSave
<1>1. t \in Txns /\ codes[t] > 0 /\ Backed(req[c])
  BY <1>0 DEF TypeOK, ReqType, CauseInv, ReqCause, Backed
<1>2. decision[t] = "OTP" /\ Handled(t) BY <1>1 DEF OnceInv, HandledOnce
<1>p. proj.pc # "idle" => proj.txn \in Txns BY DEF TypeOK, ProjType
<1>r. \A b \in Clients : req[b].pc # "idle" => req[b].txn \in Txns BY DEF TypeOK, ReqType
<1> HIDE DEF t
<1>3. ASSUME \A u \in Txns \ {t} : row'[u] = row[u] /\ codes'[u] = codes[u],
             row'[t] \in {row[t], "success", "failed"}
      PROVE  RowMatchesDecision' /\ HandledOnce'
  <2>1. RowMatchesDecision'
    <3> SUFFICES ASSUME NEW u \in Txns
                 PROVE  /\ row'[u] = "blocked" => decision[u] = "BLOCK"
                        /\ row'[u] = "success" => decision[u] \in {"PASS", "OTP"}
                        /\ row'[u] = "otp_required" => decision[u] = "OTP"
      BY <1>0 DEF RowMatchesDecision
    <3> QED BY <1>2, <1>3 DEF OnceInv, RowMatchesDecision
  <2>2. ASSUME NEW u \in Txns PROVE Handled(u)' \/ row'[u] = row[u]
    BY <1>2, <1>3, HandledGrows
  <2>3. proj.pc = "row" => proj.txn # t
    BY <1>2 DEF OnceInv, HandledOnce
  <2>4. ASSUME NEW u \in Txns, sub[u] \notin {"new", "checked"}, ~Handled(u)'
        PROVE  row'[u] = "pending"
    <3>1. row'[u] = row[u] /\ ~Handled(u) BY <2>2, <2>4, HandledGrows
    <3> QED BY <2>4, <3>1 DEF OnceInv, HandledOnce
  <2>5. ASSUME NEW u \in Txns, codes'[u] > 0 PROVE decision[u] = "OTP"
    BY <1>2, <1>3, <2>5 DEF OnceInv, HandledOnce
  <2> QED BY <1>0, <1>3, <1>p, <2>1, <2>3, <2>4, <2>5, HandledGrows DEF OnceInv, HandledOnce
<1>4. ASSUME \A u \in Txns : state'[u] = "completed" =>
                 state[u] = "completed" \/ (u = t /\ debits[t] > 0),
             \A b \in Clients \ {c} : req'[b] = req[b],
             req'[c].pc = "save" /\ req'[c].st = "completed" => debits[t] > 0 /\ req'[c].txn = t
      PROVE  Paid'
  <2>1. ASSUME NEW u \in Txns, state'[u] = "completed" PROVE debits'[u] > 0
    <3>1. state[u] = "completed" \/ (u = t /\ debits[t] > 0) BY <1>4, <2>1
    <3>2. debits[u] > 0 BY <1>4, <3>1 DEF OnceInv, Paid
    <3> QED BY <3>2, OnceFrame
  <2>2. ASSUME NEW b \in Clients, req'[b].pc = "save", req'[b].st = "completed"
        PROVE  debits'[req'[b].txn] > 0
    <3>1. b # c => req'[b] = req[b] BY <1>4
    <3>2. req'[b].txn \in Txns /\ debits[req'[b].txn] > 0
      BY <1>1, <1>4, <1>r, <2>2, <3>1 DEF OnceInv, Paid
    <3> QED BY <3>2, OnceFrame
  <2>3. proj.pc = "save" /\ proj.st = "completed" => debits'[proj.txn] > 0
    BY <1>p, OnceFrame DEF OnceInv, Paid
  <2> QED BY <1>0, <2>1, <2>2, <2>3 DEF Paid
<1>q. req = [b \in Clients |-> req[b]] BY DEF TypeOK
<1>k. req[c] \in [pc : ReqPc, txn : Txns \cup {NoTxn}, op : {"none", "verify", "lock", "resend"},
                  code : 0..MaxCodes, st : StateStatus]
  BY DEF TypeOK, ReqType
<1>g. \A pc : Goto(c, pc) => /\ \A b \in Clients \ {c} : req'[b] = req[b]
                             /\ req'[c].pc = pc
  BY <1>q, <1>k DEF Goto
<1>i. req' = [req EXCEPT ![c] = IdleReq] => /\ \A b \in Clients \ {c} : req'[b] = req[b]
                                            /\ req'[c].pc = "idle"
  BY <1>q DEF IdleReq
<1>a. AfterSave(c) => /\ \A b \in Clients \ {c} : req'[b] = req[b]
                      /\ req'[c].pc \in {"event", "idle"}
  BY <1>q, <1>k DEF AfterSave, IdleReq
<1>5. CASE ReqSettle(c)
  <2>1. UNCHANGED <<codes, state>> BY <1>5 DEF ReqSettle, otpStore
  <2>2. /\ \A u \in Txns \ {t} : row'[u] = row[u]
        /\ row'[t] \in {"success", "failed"}
    BY <1>1, <1>5 DEF ReqSettle, CompleteTransaction, FailTransaction, SetRow, ledger, t,
       TypeOK, LedgerType
  <2>3. RowMatchesDecision' /\ HandledOnce' BY <1>3, <2>1, <2>2
  <2>4. (\A b \in Clients \ {c} : req'[b] = req[b]) /\ req'[c].pc # "save"
    BY <1>5, <1>g DEF ReqSettle
  <2> QED BY <1>4, <2>1, <2>3, <2>4
<1>6. CASE ResendStore(c)
  <2>1. UNCHANGED <<row, state>> /\ StoreCode(t) BY <1>6 DEF ResendStore, ledger, t
  <2>2. \A u \in Txns \ {t} : codes'[u] = codes[u] BY <2>1 DEF StoreCode, TypeOK, OtpType
  <2>3. RowMatchesDecision' /\ HandledOnce' BY <1>3, <2>1, <2>2
  <2>4. (\A b \in Clients \ {c} : req'[b] = req[b]) /\ req'[c].pc # "save"
    BY <1>6, <1>q, <1>k DEF ResendStore
  <2> QED BY <1>4, <2>1, <2>3, <2>4
<1>7. CASE ReqLoad(c)
  <2> DEFINE s == NewStatus(req[c].op, state[t])
  <2>0. UNCHANGED <<row, codes, state>> /\ req[c].pc = "load" BY <1>7 DEF ReqLoad, ledger, otpStore
  <2>1. RowMatchesDecision' /\ HandledOnce' BY <1>0, <2>0, OnceFrame
  <2>2. s = "completed" => debits[t] > 0
    <3>1. req[c].op = "verify" => debits[t] > 0 BY <1>1, <2>0 DEF Backed, t
    <3>2. state[t] = "completed" => debits[t] > 0 BY <1>1 DEF OnceInv, Paid
    <3> QED BY <3>1, <3>2 DEF NewStatus
  <2>3. \/ AfterSave(c)
        \/ req' = [req EXCEPT ![c] = [req[c] EXCEPT !.pc = "save", !.st = s]]
    BY <1>7 DEF ReqLoad, t
  <2> HIDE DEF s
  <2>4. ASSUME req' = [req EXCEPT ![c] = [req[c] EXCEPT !.pc = "save", !.st = s]]
        PROVE  /\ \A b \in Clients \ {c} : req'[b] = req[b]
               /\ req'[c].st = s /\ req'[c].txn = t
    BY <1>q, <1>k, <2>4 DEF t
  <2> QED BY <1>4, <1>a, <2>0, <2>1, <2>2, <2>3, <2>4
<1>8. CASE ReqSave(c)
  <2>0. /\ UNCHANGED <<row, codes>> /\ req[c].pc = "save"
        /\ state' = [state EXCEPT ![t] = req[c].st]
    BY <1>8 DEF ReqSave, ledger, otpStore, t
  <2>1. RowMatchesDecision' /\ HandledOnce' BY <1>0, <2>0, OnceFrame
  <2>2. req[c].st = "completed" => debits[t] > 0 BY <2>0 DEF OnceInv, Paid, t
  <2>3. (\A b \in Clients \ {c} : req'[b] = req[b]) /\ req'[c].pc # "save"
    BY <1>8, <1>a DEF ReqSave
  <2>4. \A u \in Txns : state'[u] = "completed" =>
            state[u] = "completed" \/ (u = t /\ debits[t] > 0)
    BY <2>0, <2>2 DEF TypeOK
  <2> QED BY <1>4, <2>1, <2>3, <2>4
<1>9. CASE \/ VerifyCount(c) \/ ReqDelete(c) \/ ResendCount(c) \/ ResendWindow(c)
           \/ ResendArm(c) \/ ReqEvent(c)
  <2>0. UNCHANGED <<row, codes, state>>
    BY <1>9 DEF VerifyCount, ReqDelete, ResendCount, ResendWindow, ResendArm, ReqEvent,
       ledger, otpStore, DeleteKey, ArmCode, LogCode, CloseEvents
  <2>1. RowMatchesDecision' /\ HandledOnce' BY <1>0, <2>0, OnceFrame
  <2>2. (\A b \in Clients \ {c} : req'[b] = req[b]) /\ req'[c].pc # "save"
    <3>1. CASE VerifyCount(c) /\ req' = [req EXCEPT ![c].pc = "delete", ![c].op = "lock"]
      BY <1>q, <1>k, <3>1
    <3>2. CASE ~(VerifyCount(c) /\ req' = [req EXCEPT ![c].pc = "delete", ![c].op = "lock"])
      <4>1. \/ req' = [req EXCEPT ![c] = IdleReq]
            \/ \E pc \in {"delete", "settle", "event", "load", "window", "store"} : Goto(c, pc)
        <5>1. CASE VerifyCount(c) BY <3>2, <5>1 DEF VerifyCount
        <5>2. CASE ReqDelete(c) BY <5>2 DEF ReqDelete
        <5>3. CASE ResendCount(c) BY <5>3 DEF ResendCount
        <5>4. CASE ResendWindow(c) BY <5>4 DEF ResendWindow
        <5>5. CASE ResendArm(c) BY <5>5 DEF ResendArm
        <5>6. CASE ReqEvent(c) BY <5>6 DEF ReqEvent
        <5> QED BY <1>9, <5>1, <5>2, <5>3, <5>4, <5>5, <5>6
      <4> QED BY <1>g, <1>i, <4>1
    <3> QED BY <3>1, <3>2
  <2> QED BY <1>4, <2>0, <2>1, <2>2
<1> QED BY <1>5, <1>6, <1>7, <1>8, <1>9 DEF ReqStep

\* The first verdict finds the row pending and the column empty, and each branch
\* writes what the column says.
LEMMA ProjOnce ==
    ASSUME TypeOK, TypeOK', CauseInv, CalmInv, OnceInv, \A t \in Txns : runs[t] <= 1,
           CalmNext, ProjStep
    PROVE  RowMatchesDecision' /\ HandledOnce' /\ Paid'
<1> DEFINE t == proj.txn
<1>p. proj.pc # "idle" => t \in Txns BY DEF TypeOK, ProjType
<1>q. UNCHANGED <<sub, req>>
  BY DEF ProjStep, ProjLoad, ProjErrorSave, ProjErrorRow, ProjReadRow, ProjPass,
     ProjBlock, ProjOtpStore, ProjOtpArm, ProjOtpLog, ProjOtpRow, ProjOtpFail, ProjSave
<1>r. \A b \in Clients : req[b].pc # "idle" => req[b].txn \in Txns BY DEF TypeOK, ReqType
<1>t. /\ row \in [Txns -> RowStatus] /\ state \in [Txns -> StateStatus]
      /\ codes \in [Txns -> 0..MaxCodes] /\ decision \in [Txns -> Decisions \cup {"none"}]
      /\ debits \in [Txns -> Nat]
  BY DEF TypeOK, LedgerType, OtpType
\* Paid: a status other than "completed", or a debited transfer.
<1>1. ASSUME \A u \in Txns : state'[u] = "completed" =>
                 state[u] = "completed" \/ (u = t /\ debits[t] > 0),
             proj'.pc = "save" /\ proj'.st = "completed" => proj'.txn = t /\ debits'[t] > 0
      PROVE  Paid'
  <2>1. ASSUME NEW u \in Txns, state'[u] = "completed" PROVE debits'[u] > 0
    <3>1. state[u] = "completed" \/ (u = t /\ debits[t] > 0) BY <1>1, <2>1
    <3>2. debits[u] > 0 BY <1>1, <3>1 DEF OnceInv, Paid
    <3> QED BY <3>2, OnceFrame
  <2>2. \A b \in Clients : req[b].pc = "save" /\ req[b].st = "completed"
                              => debits'[req[b].txn] > 0
    BY <1>r, OnceFrame DEF OnceInv, Paid
  <2> QED BY <1>1, <1>q, <2>1, <2>2 DEF Paid
\* The row and the column of the projector's own transfer move together.
<1>2. ASSUME proj.pc \notin {"idle", "save"}, decision' = decision,
             \A u \in Txns \ {t} : row'[u] = row[u] /\ codes'[u] = codes[u],
             row'[t] = "blocked" => decision[t] = "BLOCK",
             row'[t] = "success" => decision[t] \in {"PASS", "OTP"},
             row'[t] = "otp_required" => decision[t] = "OTP",
             codes'[t] > 0 => decision[t] = "OTP",
             proj'.pc \in {"idle", "save", "errRow"} \/
                /\ proj'.pc \in {"otpArm", "otpLog", "otpRow"}
                /\ proj'.txn = t /\ proj'.kind = proj.kind /\ decision[t] = proj.kind
             , proj'.pc = "errRow" => proj'.txn = t
      PROVE  RowMatchesDecision' /\ HandledOnce'
  <2>1. Handled(t) /\ t \in Txns BY <1>2, <1>p DEF OnceInv, HandledOnce
  <2>2. RowMatchesDecision'
    <3> SUFFICES ASSUME NEW u \in Txns
                 PROVE  /\ row'[u] = "blocked" => decision[u] = "BLOCK"
                        /\ row'[u] = "success" => decision[u] \in {"PASS", "OTP"}
                        /\ row'[u] = "otp_required" => decision[u] = "OTP"
      BY <1>2 DEF RowMatchesDecision
    <3> QED BY <1>2 DEF OnceInv, RowMatchesDecision
  <2>3. ASSUME NEW u \in Txns, sub[u] \notin {"new", "checked"}, ~Handled(u)'
        PROVE  row'[u] = "pending"
    <3>1. ~Handled(u) /\ u # t BY <2>1, <2>3, HandledGrows
    <3> QED BY <1>2, <2>3, <3>1 DEF OnceInv, HandledOnce
  <2>4. ASSUME NEW u \in Txns, codes'[u] > 0 PROVE decision[u] = "OTP"
    BY <1>2, <2>4 DEF OnceInv, HandledOnce
  <2>5. ASSUME NEW u \in Txns, decision[u] # "none" PROVE Handled(u)'
    BY <2>5, HandledGrows DEF OnceInv, HandledOnce
  <2>6. proj'.pc \notin {"idle", "save"} => proj'.txn = t /\ Handled(t)'
    BY <1>2, <2>1, HandledGrows
  <2> QED BY <1>2, <1>q, <2>2, <2>3, <2>4, <2>5, <2>6 DEF HandledOnce
<1>3. CASE ProjLoad
  <2>s. topic \in Seq([txn : Txns, kind : Kinds]) /\ pos \in 0..Len(topic) /\ Len(topic) \in Nat
    BY DEF TypeOK, KafkaType
  <2>e. \A i \in 1..Len(topic) : topic[i] \in [txn : Txns, kind : Kinds]
    BY <2>s, EventAt
  <2>0. /\ pos \in 0..Len(topic) /\ Len(topic) \in Nat
        /\ \A i \in 1..Len(topic) : topic[i] \in [txn : Txns, kind : Kinds]
    BY <2>s, <2>e
  <2>1. /\ proj.pc = "idle" /\ pos + 1 \in 1..Len(topic) /\ pos' = pos + 1
        /\ UNCHANGED <<row, decision, codes, debits, state, topic>>
    BY <1>3, <2>0 DEF ProjLoad, ledger, otpStore
  <2>2. PICK n \in 1..Len(topic) : n = pos + 1
    BY <2>1
  <2>3. PICK u \in Txns : u = topic[n].txn /\ sub[u] = "done"
    BY <2>0 DEF CalmInv, Evaluated
  <2>4. ASSUME topic[n].kind \in Finals PROVE ~Handled(u) /\ Handled(u)'
    <3>1. FinalAt(n, u) BY <2>3, <2>4 DEF FinalAt
    <3>2. ASSUME NEW i \in 1..pos, FinalAt(i, u) PROVE FALSE
      <4>1. i \in 1..Len(topic) /\ i # n BY <2>0, <2>2
      <4> QED BY <2>3, <3>1, <3>2, <4>1 DEF CalmInv, Evaluated
    <3>3. FinalAt(n, u)' BY <2>1, <3>1 DEF FinalAt
    <3>4. n \in 1..pos' BY <2>0, <2>1, <2>2
    <3> QED BY <3>2, <3>3, <3>4 DEF Handled
  <2>5. \/ proj' = proj
        \/ /\ proj'.txn = u /\ state[u] \notin Terminal
           /\ \/ proj'.pc = "save" /\ proj'.st = state[u]
              \/ proj'.pc = "errSave" /\ topic[n].kind = "ERROR"
              \/ proj'.pc = "row" /\ topic[n].kind \in Decisions
    BY <1>3, <2>2, <2>3 DEF ProjLoad
  <2>6. RowMatchesDecision'
    BY <2>1 DEF OnceInv, RowMatchesDecision
  <2>7. proj'.pc \notin {"idle", "save"}
            => /\ proj'.txn = u /\ Handled(u)' /\ proj'.pc \in {"errSave", "row"}
               /\ decision[u] = "none" /\ row[u] = "pending"
    <3> SUFFICES ASSUME proj'.pc \notin {"idle", "save"}
                 PROVE  /\ Handled(u)' /\ decision[u] = "none"
                        /\ row[u] = "pending"
      BY <2>1, <2>5
    <3>1. topic[n].kind \in Finals BY <2>1, <2>5 DEF Finals
    <3> QED BY <2>3, <2>4, <3>1 DEF OnceInv, HandledOnce
  <2>8. HandledOnce'
    <3>1. \A w \in Txns : Handled(w) => Handled(w)' BY HandledGrows
    <3>2. \A w \in Txns : decision[w] # "none" => Handled(w)' BY <3>1 DEF OnceInv, HandledOnce
    <3>3. \A w \in Txns : sub[w] \notin {"new", "checked"} /\ ~Handled(w)' => row[w] = "pending"
      BY <3>1 DEF OnceInv, HandledOnce
    <3>4. \A w \in Txns : codes[w] > 0 => decision[w] = "OTP" BY DEF OnceInv, HandledOnce
    <3>5. proj'.pc \notin {"idle", "save"} =>
              \E w \in Txns : proj'.txn = w /\ \E i \in 1..pos' : FinalAt(i, w)'
      BY <2>7 DEF Handled
    <3> QED BY <1>q, <2>1, <2>7, <3>2, <3>3, <3>4, <3>5 DEF HandledOnce, Handled, FinalAt
  <2>9. proj'.pc = "save" => proj'.st # "completed"
    BY <2>1, <2>5 DEF Terminal
  <2>10. Paid'
    BY <1>q, <2>1, <2>9 DEF OnceInv, Paid
  <2> QED BY <2>6, <2>8, <2>10
<1>4. CASE ProjReadRow
  <2>0. /\ proj.pc = "row" /\ t \in Txns /\ decision' = [decision EXCEPT ![t] = proj.kind]
        /\ UNCHANGED <<row, codes, debits, state>>
    BY <1>4, <1>p DEF ProjReadRow, ledger, otpStore
  <2>1. decision[t] = "none" /\ row[t] = "pending" /\ codes[t] = 0 /\ Handled(t)
    <3>1. decision[t] = "none" /\ row[t] = "pending" /\ Handled(t)
      BY <2>0 DEF OnceInv, HandledOnce
    <3>2. ~(codes[t] > 0) BY <2>0, <3>1 DEF OnceInv, HandledOnce
    <3>3. codes[t] \in Nat BY <1>t, <2>0, SettlementAssumption
    <3> QED BY <3>1, <3>2, <3>3
  <2>2. /\ proj'.pc \in {"pass", "block", "otpStore"}
        /\ proj'.txn = t /\ proj'.kind = proj.kind
    BY <1>4, <2>1, ProjGotoAt DEF ProjReadRow, Branch
  <2>3. decision'[t] = proj.kind /\ \A u \in Txns \ {t} : decision'[u] = decision[u]
    BY <1>t, <2>0
  <2>4. RowMatchesDecision'
    <3> SUFFICES ASSUME NEW u \in Txns
                 PROVE  /\ row[u] = "blocked" => decision'[u] = "BLOCK"
                        /\ row[u] = "success" => decision'[u] \in {"PASS", "OTP"}
                        /\ row[u] = "otp_required" => decision'[u] = "OTP"
      BY <2>0 DEF RowMatchesDecision
    <3> QED BY <2>1, <2>3 DEF OnceInv, RowMatchesDecision
  <2>5. HandledOnce'
    <3>1. \A u \in Txns : Handled(u) => Handled(u)' BY HandledGrows
    <3>2. \A u \in Txns : decision'[u] # "none" => Handled(u)'
      BY <2>1, <2>3, <3>1 DEF OnceInv, HandledOnce
    <3>3. \A u \in Txns : sub[u] \notin {"new", "checked"} /\ ~Handled(u)' => row[u] = "pending"
      BY <3>1 DEF OnceInv, HandledOnce
    <3>4. \A u \in Txns : codes[u] > 0 => decision'[u] = "OTP"
      BY <2>1, <2>3 DEF OnceInv, HandledOnce
    <3> QED BY <1>q, <2>0, <2>1, <2>2, <2>3, <3>1, <3>2, <3>3, <3>4 DEF HandledOnce
  <2>6. Paid' BY <1>q, <2>0, <2>2 DEF OnceInv, Paid
  <2> QED BY <2>4, <2>5, <2>6
<1>5. CASE ProjErrorSave
  <2>1. /\ proj.pc = "errSave" /\ proj'.pc = "errRow" /\ proj'.txn = t
        /\ UNCHANGED <<row, codes, decision>> /\ state' = [state EXCEPT ![t] = "failed"]
    BY <1>5, ProjGotoAt DEF ProjErrorSave, ledger, otpStore
  <2>2. RowMatchesDecision' /\ HandledOnce'
    BY <1>2, <1>p, <2>1 DEF OnceInv, RowMatchesDecision, HandledOnce
  <2>3. Paid' BY <1>1, <1>t, <2>1
  <2> QED BY <2>2, <2>3
<1>6. CASE ProjErrorRow
  <2>1. /\ proj.pc = "errRow" /\ proj'.pc = "idle" /\ UNCHANGED <<codes, decision, state>>
        /\ \A u \in Txns \ {t} : row'[u] = row[u]
        /\ row'[t] = "failed"
    BY <1>6, <1>p, <1>t DEF ProjErrorRow, IdleProj, FailTransaction, SetRow, otpStore
  <2>2. RowMatchesDecision' /\ HandledOnce'
    BY <1>2, <1>p, <2>1 DEF OnceInv, HandledOnce
  <2>3. Paid' BY <1>1, <2>1
  <2> QED BY <2>2, <2>3
<1>7. CASE ProjPass
  <2>1. /\ proj.pc = "pass" /\ proj'.pc = "save" /\ proj'.txn = t
        /\ UNCHANGED <<codes, decision, state>> /\ CompleteTransaction(t)
    BY <1>7, ProjGotoAt DEF ProjPass, otpStore
  <2>2. t \in Txns /\ row[t] = "pending" /\ codes[t] = 0
    BY <1>p, <2>1 DEF CalmInv, RowOpens
  <2>3. decision[t] = "PASS" /\ proj.kind = "PASS"
    BY <2>1 DEF OnceInv, HandledOnce, CauseInv, ProjCause, Fits
  <2>4. (\A u \in Txns \ {t} : row'[u] = row[u]) /\ row'[t] = "success" /\ debits'[t] = debits[t] + 1
    BY <1>t, <2>1, <2>2 DEF CompleteTransaction, ledger
  <2>5. debits[t] \in Nat BY <1>t, <2>2
  <2>6. RowMatchesDecision' /\ HandledOnce'
    BY <1>2, <2>1, <2>2, <2>3, <2>4
  <2>7. debits'[t] > 0 BY <2>4, <2>5
  <2>8. Paid' BY <1>1, <2>1, <2>7
  <2> QED BY <2>6, <2>8
<1>8. CASE ProjBlock
  <2>1. /\ proj.pc = "block" /\ proj'.pc = "save" /\ proj'.st = "blocked"
        /\ UNCHANGED <<codes, decision, state>>
        /\ (\A u \in Txns \ {t} : row'[u] = row[u]) /\ row'[t] = "blocked"
    BY <1>8, <1>p, <1>t, ProjGotoAt DEF ProjBlock, SetRow, otpStore
  <2>2. codes[t] = 0 BY <2>1 DEF CalmInv, RowOpens
  <2>3. decision[t] = "BLOCK"
    BY <2>1 DEF OnceInv, HandledOnce, CauseInv, ProjCause, Fits
  <2>4. RowMatchesDecision' /\ HandledOnce' BY <1>2, <2>1, <2>2, <2>3
  <2>5. Paid' BY <1>1, <2>1
  <2> QED BY <2>4, <2>5
<1>9. CASE ProjOtpStore \/ ProjOtpArm \/ ProjOtpLog
  <2>1. /\ proj.pc \in {"otpStore", "otpArm", "otpLog"}
        /\ UNCHANGED <<row, decision, state>>
    BY <1>9 DEF ProjOtpStore, ProjOtpArm, ProjOtpLog, ledger
  <2>2. proj'.pc \in {"otpArm", "otpLog", "otpRow"} /\ proj'.txn = t /\ proj'.kind = proj.kind
    BY <1>9, ProjMoves DEF ProjOtpStore, ProjOtpArm, ProjOtpLog
  <2>3. \A u \in Txns \ {t} : codes'[u] = codes[u]
    BY <1>9, <1>t, <1>p, <2>1 DEF ProjOtpStore, ProjOtpArm, ProjOtpLog, StoreCode, ArmCode, LogCode
  <2>4. decision[t] = "OTP" /\ proj.kind = "OTP" /\ t \in Txns
    BY <1>p, <2>1 DEF OnceInv, HandledOnce, CauseInv, ProjCause, Fits
  <2>6. RowMatchesDecision' BY <2>1 DEF OnceInv, RowMatchesDecision
  <2>7. HandledOnce'
    <3>1. \A u \in Txns : Handled(u) => Handled(u)' BY HandledGrows
    <3>2. \A u \in Txns : codes'[u] > 0 => decision[u] = "OTP"
      BY <2>3, <2>4 DEF OnceInv, HandledOnce
    <3>3. Handled(t) BY <2>1 DEF OnceInv, HandledOnce
    <3> QED BY <1>q, <2>1, <2>2, <2>4, <3>1, <3>2, <3>3 DEF OnceInv, HandledOnce
  <2>8. Paid' BY <1>1, <2>1, <2>2
  <2> QED BY <2>6, <2>7, <2>8
<1>10. CASE ProjOtpRow
  <2>1. /\ proj.pc = "otpRow" /\ proj'.pc = "save" /\ proj'.st = "otp_pending"
        /\ UNCHANGED <<codes, decision, state>>
        /\ (\A u \in Txns \ {t} : row'[u] = row[u]) /\ row'[t] = "otp_required"
    BY <1>10, <1>p, <1>t, ProjGotoAt DEF ProjOtpRow, SetRow, otpStore
  <2>2. decision[t] = "OTP"
    BY <2>1 DEF OnceInv, HandledOnce, CauseInv, ProjCause, Fits
  <2>3. RowMatchesDecision' /\ HandledOnce' BY <1>2, <2>1, <2>2
  <2>4. Paid' BY <1>1, <2>1
  <2> QED BY <2>3, <2>4
<1>11. CASE ProjSave
  <2>1. /\ proj.pc = "save" /\ proj'.pc = "idle" /\ UNCHANGED <<row, codes, decision>>
        /\ state' = [state EXCEPT ![t] = proj.st]
    BY <1>11 DEF ProjSave, IdleProj, ledger, otpStore
  <2>2. RowMatchesDecision' BY <2>1 DEF OnceInv, RowMatchesDecision
  <2>3. HandledOnce' BY <1>q, <2>1, HandledGrows DEF OnceInv, HandledOnce
  <2>4. proj.st = "completed" => debits[t] > 0 BY <2>1 DEF OnceInv, Paid
  <2>5. \A u \in Txns : state'[u] = "completed" =>
            state[u] = "completed" \/ (u = t /\ debits[t] > 0)
    BY <1>t, <2>1, <2>4
  <2>6. Paid' BY <1>1, <2>1, <2>5
  <2> QED BY <2>2, <2>3, <2>6
<1>12. ~ProjOtpFail BY DEF ProjOtpFail, CalmInv, RowOpens
<1> QED BY <1>3, <1>4, <1>5, <1>6, <1>7, <1>8, <1>9, <1>10, <1>11, <1>12 DEF ProjStep

\* The verdict on a transfer evaluated once is handled once, in every step.
LEMMA OnceStep ==
    ASSUME MaxFaults = 0, MaxRuns <= 1, TypeOK, TypeOK', CauseInv, CalmInv, RunsBound,
           OnceInv, [Next]_vars
    PROVE  OnceInv'
<1>0. CalmNext BY CalmSteps
<1>b. \A t \in Txns : runs[t] <= 1
  BY SettlementAssumption DEF RunsBound, TypeOK, KafkaType
<1>f. /\ UNCHANGED <<row, decision, codes, proj, sub>>
            => RowMatchesDecision' /\ HandledOnce'
      /\ UNCHANGED <<state, proj, req>> => Paid'
  BY <1>0, OnceFrame
<1>1. ASSUME NEW t \in Txns, SubmitCheck(t) \/ SubmitStep(t) PROVE OnceInv'
  BY <1>0, <1>1, SubmitOnce DEF OnceInv
<1>2. ASSUME NEW t \in Txns,
             OrchStart(t) \/ OrchRedeliver(t) \/ \E d \in Finals : OrchDecide(t, d)
      PROVE  OnceInv'
  BY <1>f, <1>2 DEF OnceInv, OrchStart, OrchRedeliver, OrchDecide, ledger, otpStore
<1>3. ASSUME NEW t \in Txns, ChallengeExpires(t) \/ ResendWindowEnds(t) PROVE OnceInv'
  BY <1>f, <1>3 DEF OnceInv, ChallengeExpires, ResendWindowEnds, DeleteKey, ledger, otpStore
<1>4. ASSUME NEW t \in Txns, NEW c \in Clients, VerifyLoad(c, t) \/ ResendLoad(c, t)
      PROVE  OnceInv'
  <2>1. UNCHANGED <<row, decision, codes, proj, sub, state, debits>>
    BY <1>4 DEF VerifyLoad, ResendLoad, ledger, otpStore
  <2>2. \A b \in Clients : req'[b] = req[b] \/ req'[b].pc \in {"count", "incr"}
    BY <1>4 DEF VerifyLoad, ResendLoad, TypeOK
  <2>3. Paid' BY <2>1, <2>2 DEF OnceInv, Paid
  <2> QED BY <1>f, <2>1, <2>3 DEF OnceInv
<1>5. ASSUME NEW c \in Clients, ReqStep(c) PROVE OnceInv'
  BY <1>0, <1>5, ReqOnce DEF OnceInv
<1>6. ProjStep => OnceInv' BY <1>0, <1>b, ProjOnce DEF OnceInv
<1>7. AutoCommit \/ UNCHANGED vars => OnceInv'
  BY <1>f DEF OnceInv, AutoCommit, vars, ledger, otpStore
<1> QED BY <1>0, <1>1, <1>2, <1>3, <1>4, <1>5, <1>6, <1>7 DEF CalmNext

\* What holds while nothing fails and the orchestrator evaluates each transfer once.
LEMMA Once == MaxFaults = 0 /\ MaxRuns <= 1 => (Spec => []OnceInv)
<1> SUFFICES ASSUME MaxFaults = 0, MaxRuns <= 1 PROVE Spec => []OnceInv
  OBVIOUS
<1>1. Init => OnceInv
  <2> SUFFICES ASSUME Init PROVE OnceInv OBVIOUS
  <2>1. RowMatchesDecision BY DEF Init, RowMatchesDecision
  <2>2. HandledOnce BY DEF Init, HandledOnce, IdleProj
  <2>3. Paid BY DEF Init, Paid, IdleProj, IdleReq
  <2> QED BY <2>1, <2>2, <2>3 DEF OnceInv
<1>2. Init => RunsBound BY SettlementAssumption DEF Init, RunsBound
<1>3. TypeOK /\ RunsBound /\ [Next]_vars => RunsBound'
  BY CalmSteps, RunsBoundStep
<1>4. TypeOK /\ TypeOK' /\ CauseInv /\ CalmInv /\ RunsBound /\ OnceInv /\ [Next]_vars
          => OnceInv'
  BY OnceStep
<1>5. Spec => []CalmInv BY Calm
<1> QED BY <1>1, <1>2, <1>3, <1>4, <1>5, TypeCorrect, Causes, PTL DEF Spec

\* With one evaluation of a transfer and no failure, its row's lifecycle stage and its
\* decision column agree, whoever moved the row last.
THEOREM RowFollowsDecision == MaxFaults = 0 /\ MaxRuns <= 1 => (Spec => []RowMatchesDecision)
<1> SUFFICES ASSUME MaxFaults = 0, MaxRuns <= 1 PROVE Spec => []RowMatchesDecision
  OBVIOUS
<1> QED BY Once, PTL DEF OnceInv

\* Under the same hypotheses the customer is told "completed", by the cached state or
\* by the row that stands in for it, only for a transfer that was paid.
THEOREM CompletedIsPaid == MaxFaults = 0 /\ MaxRuns <= 1 => (Spec => []CompletedMeansPaid)
<1> SUFFICES ASSUME MaxFaults = 0, MaxRuns <= 1 PROVE Spec => []CompletedMeansPaid
  OBVIOUS
<1>1. TypeOK /\ DebitAccounting /\ OnceInv => CompletedMeansPaid
  <2> SUFFICES ASSUME TypeOK, DebitAccounting, OnceInv, NEW t \in Txns, Status(t) = "completed"
               PROVE  debits[t] > 0
    BY DEF CompletedMeansPaid
  <2>1. row[t] \in RowStatus /\ reverted[t] \in Nat BY DEF TypeOK, LedgerType
  <2>2. CASE state[t] = "none"
    <3>1. row[t] = "success" BY <2>1, <2>2 DEF Status, OfRow, RowStatus
    <3> QED BY <2>1, <3>1 DEF DebitAccounting
  <2>3. CASE state[t] # "none" BY <2>3 DEF Status, OnceInv, Paid
  <2> QED BY <2>2, <2>3
<1> QED BY <1>1, Once, TypeCorrect, DebitsAccounted, PTL

-----------------------------------------------------------------------------
(* Requests: what each step does to a request and to a transfer's key. *)

\* A request starts from a live key, and then walks its handler.
LEMMA ReqMoves ==
    ASSUME TypeOK, CalmNext, NEW c \in Clients
    PROVE  \/ req'[c] = req[c]
           \/ /\ req[c].pc = "idle" /\ req'[c].pc \in {"count", "incr"}
              /\ req'[c].txn \in Txns /\ challenge[req'[c].txn].live
              /\ UNCHANGED <<challenge, codes>>
           \/ ReqStep(c) /\ req'[c].pc = "idle"
           \/ /\ ReqStep(c) /\ req'[c].txn = req[c].txn
              /\ \/ VerifyCount(c) /\ req[c].pc = "count" /\ req'[c].pc = "delete"
                 \/ /\ req'[c].op = req[c].op
                    /\ \/ ReqDelete(c) /\ req[c].pc = "delete" /\ req'[c].pc = "settle"
                       \/ ReqSettle(c) /\ req[c].pc = "settle" /\ req'[c].pc \in {"event", "load"}
                       \/ /\ req[c].pc \in {"incr", "window", "store", "arm"}
                          /\ req'[c].pc \in {"window", "store", "arm", "event"}
                       \/ /\ req[c].pc \in {"event", "load", "save"}
                          /\ req'[c].pc \in {"event", "load", "save"}
<1> DEFINE Same == req'[c] = req[c]
           Start == /\ req[c].pc = "idle" /\ req'[c].pc \in {"count", "incr"}
                    /\ req'[c].txn \in Txns /\ challenge[req'[c].txn].live
                    /\ UNCHANGED <<challenge, codes>>
           Stop == ReqStep(c) /\ req'[c].pc = "idle"
           Walk == /\ req'[c].op = req[c].op
                   /\ \/ ReqDelete(c) /\ req[c].pc = "delete" /\ req'[c].pc = "settle"
                      \/ ReqSettle(c) /\ req[c].pc = "settle" /\ req'[c].pc \in {"event", "load"}
                      \/ /\ req[c].pc \in {"incr", "window", "store", "arm"}
                         /\ req'[c].pc \in {"window", "store", "arm", "event"}
                      \/ /\ req[c].pc \in {"event", "load", "save"}
                         /\ req'[c].pc \in {"event", "load", "save"}
           Move == /\ ReqStep(c) /\ req'[c].txn = req[c].txn
                   /\ \/ VerifyCount(c) /\ req[c].pc = "count" /\ req'[c].pc = "delete"
                      \/ Walk
           Goal == Same \/ Start \/ Stop \/ Move
<1>q. req = [b \in Clients |-> req[b]] BY DEF TypeOK
<1>k. \A b \in Clients :
          req[b] \in [pc : ReqPc, txn : Txns \cup {NoTxn}, op : {"none", "verify", "lock", "resend"},
                      code : 0..MaxCodes, st : StateStatus]
  BY DEF TypeOK, ReqType
<1>g. \A pc : Goto(c, pc) => req'[c].pc = pc /\ req'[c].txn = req[c].txn /\ req'[c].op = req[c].op
  BY <1>q, <1>k DEF Goto
<1>i. req' = [req EXCEPT ![c] = IdleReq] => req'[c].pc = "idle"
  BY <1>q DEF IdleReq
<1>a. AfterSave(c) => \/ req'[c].pc = "idle"
                      \/ req'[c].pc = "event" /\ req'[c].txn = req[c].txn /\ req'[c].op = req[c].op
  BY <1>q, <1>k DEF AfterSave, IdleReq
<1>1. UNCHANGED req => Same OBVIOUS
<1>2. ASSUME NEW t \in Txns, VerifyLoad(c, t) \/ ResendLoad(c, t) PROVE Start
  BY <1>2, <1>q DEF VerifyLoad, ResendLoad, otpStore
<1>3. ASSUME NEW b \in Clients, b # c, NEW t \in Txns, VerifyLoad(b, t) \/ ResendLoad(b, t)
      PROVE  Same
  BY <1>3, <1>q DEF VerifyLoad, ResendLoad
<1>4. ASSUME NEW b \in Clients, b # c, ReqStep(b) PROVE Same
  BY <1>4, <1>q DEF ReqStep, VerifyCount, ReqDelete, ReqSettle, ResendCount, ResendWindow,
     ResendStore, ResendArm, ReqEvent, ReqLoad, ReqSave, Goto, AfterSave
<1>5. ASSUME ReqStep(c) PROVE Stop \/ Move
  <2>1. CASE VerifyCount(c)
    <3>1. CASE req' = [req EXCEPT ![c].pc = "delete", ![c].op = "lock"]
      <4>1. req'[c].pc = "delete" /\ req'[c].txn = req[c].txn BY <1>q, <1>k, <3>1
      <4> QED BY <1>5, <2>1, <4>1 DEF VerifyCount
    <3>2. CASE ~(req' = [req EXCEPT ![c].pc = "delete", ![c].op = "lock"])
      BY <1>5, <1>g, <1>i, <2>1, <3>2 DEF VerifyCount
    <3> QED BY <3>1, <3>2
  <2>2. CASE ReqDelete(c) BY <1>5, <1>g, <2>2 DEF ReqDelete
  <2>3. CASE ReqSettle(c) BY <1>5, <1>g, <2>3 DEF ReqSettle
  <2>4. CASE ResendCount(c) BY <1>5, <1>g, <1>i, <2>4 DEF ResendCount
  <2>5. CASE ResendWindow(c) BY <1>5, <1>g, <1>i, <2>5 DEF ResendWindow
  <2>6. CASE ResendStore(c)
    <3>1. req'[c].pc = "arm" /\ req'[c].txn = req[c].txn /\ req'[c].op = req[c].op
      BY <1>q, <1>k, <2>6 DEF ResendStore
    <3> QED BY <1>5, <2>6, <3>1 DEF ResendStore
  <2>7. CASE ResendArm(c) BY <1>5, <1>g, <2>7 DEF ResendArm
  <2>8. CASE ReqEvent(c) BY <1>5, <1>g, <1>i, <2>8 DEF ReqEvent
  <2>9. CASE ReqLoad(c)
    <3>1. CASE AfterSave(c) BY <1>5, <1>a, <2>9, <3>1 DEF ReqLoad
    <3>2. ASSUME NEW s, req' = [req EXCEPT ![c].pc = "save", ![c].st = s]
          PROVE  Move
      <4>1. req'[c].pc = "save" /\ req'[c].txn = req[c].txn /\ req'[c].op = req[c].op
        BY <1>q, <1>k, <3>2
      <4> QED BY <1>5, <2>9, <4>1 DEF ReqLoad
    <3> QED BY <2>9, <3>1, <3>2 DEF ReqLoad
  <2>10. CASE ReqSave(c) BY <1>5, <1>a, <2>10 DEF ReqSave
  <2> QED BY <1>5, <2>1, <2>2, <2>3, <2>4, <2>5, <2>6, <2>7, <2>8, <2>9, <2>10 DEF ReqStep
<1>6. ASSUME NEW t \in Txns,
             \/ SubmitCheck(t) \/ SubmitStep(t) \/ OrchStart(t) \/ OrchRedeliver(t)
             \/ \E d \in Finals : OrchDecide(t, d)
             \/ ChallengeExpires(t) \/ ResendWindowEnds(t)
      PROVE  Same
  BY <1>6 DEF SubmitCheck, SubmitStep, SubmitInsert, SubmitCache, SubmitPublish, SubmitFail,
     OrchStart, OrchRedeliver, OrchDecide, ChallengeExpires, ResendWindowEnds
<1>7. ProjStep \/ AutoCommit \/ UNCHANGED vars => Same
  BY DEF ProjStep, ProjLoad, ProjErrorSave, ProjErrorRow, ProjReadRow, ProjPass, ProjBlock,
     ProjOtpStore, ProjOtpArm, ProjOtpLog, ProjOtpRow, ProjOtpFail, ProjSave, AutoCommit, vars
<1>8. Goal
  <2> HIDE DEF Same, Start, Stop, Move
  <2>1. ASSUME NEW t \in Txns, NEW b \in Clients, VerifyLoad(b, t) \/ ResendLoad(b, t)
        PROVE  Goal
    BY <1>2, <1>3, <2>1
  <2>2. ASSUME NEW b \in Clients, ReqStep(b) PROVE Goal
    BY <1>4, <1>5, <2>2
  <2> QED BY <1>6, <1>7, <2>1, <2>2 DEF CalmNext
<1> QED BY <1>8

\* The places a code is stored from, and those that bring a key to life.
LEMMA KeySteps ==
    ASSUME TypeOK, CalmNext, NEW t \in Txns
    PROVE  \/ /\ codes'[t] = codes[t]
              /\ challenge'[t].live => challenge[t].live
              /\ challenge'[t].attempts \in {challenge[t].attempts, 0}
           \/ ProjOtpStore /\ proj.txn = t
           \/ \E c \in Clients : req[c].txn = t /\ (ResendStore(c) \/ VerifyCount(c))
<1> DEFINE Same == /\ codes'[t] = codes[t]
                   /\ challenge'[t].live => challenge[t].live
                   /\ challenge'[t].attempts \in {challenge[t].attempts, 0}
           Goal == \/ Same
                   \/ ProjOtpStore /\ proj.txn = t
                   \/ \E c \in Clients : req[c].txn = t /\ (ResendStore(c) \/ VerifyCount(c))
<1>k. /\ codes \in [Txns -> 0..MaxCodes]
      /\ challenge \in [Txns -> [live : BOOLEAN, code : 0..MaxCodes, attempts : Nat, ttl : BOOLEAN]]
  BY DEF TypeOK, OtpType
<1>u. UNCHANGED <<codes, challenge>> => Same OBVIOUS
<1>a. \A u \in Txns : \A n : ArmCode(u, n) => Same BY <1>k DEF ArmCode
<1>d. \A u \in Txns : DeleteKey(u) => Same BY <1>k DEF DeleteKey, NoKey
<1>s. \A u \in Txns : u # t /\ StoreCode(u) => Same BY <1>k DEF StoreCode
<1> HIDE DEF Same
<1>1. ASSUME NEW u \in Txns,
             \/ SubmitCheck(u) \/ SubmitStep(u) \/ OrchStart(u) \/ OrchRedeliver(u)
             \/ \E d \in Finals : OrchDecide(u, d)
      PROVE  Same
  BY <1>1, <1>u DEF SubmitCheck, SubmitStep, SubmitInsert, SubmitCache, SubmitPublish, SubmitFail,
     OrchStart, OrchRedeliver, OrchDecide, otpStore
<1>2. ASSUME NEW u \in Txns, ChallengeExpires(u) \/ ResendWindowEnds(u) PROVE Same
  BY <1>2, <1>u, <1>d DEF ChallengeExpires, ResendWindowEnds
<1>3. ASSUME NEW u \in Txns, NEW c \in Clients, VerifyLoad(c, u) \/ ResendLoad(c, u) PROVE Same
  BY <1>3, <1>u DEF VerifyLoad, ResendLoad, otpStore
<1>4. ASSUME NEW c \in Clients, ReqStep(c)
      PROVE  Same \/ (req[c].txn = t /\ (ResendStore(c) \/ VerifyCount(c)))
  <2>0. req[c].pc # "idle" => req[c].txn \in Txns BY DEF TypeOK, ReqType
  <2>1. CASE ReqDelete(c) BY <1>d, <2>0, <2>1 DEF ReqDelete
  <2>2. CASE ResendArm(c) BY <1>a, <2>0, <2>2 DEF ResendArm
  <2>3. CASE ResendStore(c) BY <1>s, <2>0, <2>3 DEF ResendStore
  <2>4. CASE VerifyCount(c)
    <3> SUFFICES ASSUME req[c].txn # t PROVE Same BY <2>4
    <3>1. codes' = codes /\ challenge'[t] = challenge[t] BY <1>k, <2>0, <2>4 DEF VerifyCount
    <3> QED BY <3>1 DEF Same
  <2>5. CASE ReqSettle(c) \/ ResendCount(c) \/ ResendWindow(c) \/ ReqEvent(c) \/ ReqLoad(c)
             \/ ReqSave(c)
    BY <1>u, <2>5 DEF ReqSettle, ResendCount, ResendWindow, ReqEvent, ReqLoad, ReqSave, otpStore,
       LogCode, CloseEvents
  <2> QED BY <1>4, <2>1, <2>2, <2>3, <2>4, <2>5 DEF ReqStep
<1>5. ASSUME ProjStep PROVE Same \/ (ProjOtpStore /\ proj.txn = t)
  <2>0. proj.pc # "idle" => proj.txn \in Txns BY DEF TypeOK, ProjType
  <2>1. CASE ProjOtpStore BY <1>s, <2>0, <2>1 DEF ProjOtpStore
  <2>2. CASE ProjOtpArm BY <1>a, <2>0, <2>2 DEF ProjOtpArm
  <2>3. CASE ~ProjOtpStore /\ ~ProjOtpArm
    BY <1>5, <1>u, <2>3 DEF ProjStep, ProjLoad, ProjErrorSave, ProjErrorRow, ProjReadRow, ProjPass,
       ProjBlock, ProjOtpLog, ProjOtpRow, ProjOtpFail, ProjSave, otpStore, LogCode
  <2> QED BY <2>1, <2>2, <2>3
<1>6. AutoCommit \/ UNCHANGED vars => Same BY <1>u DEF AutoCommit, vars, otpStore
<1>7. Goal
  <2>1. ASSUME NEW c \in Clients, ReqStep(c) PROVE Goal BY <1>4, <2>1
  <2>2. ProjStep => Goal BY <1>5
  <2> HIDE DEF Goal
  <2>3. Same => Goal BY DEF Goal
  <2> QED BY <1>1, <1>2, <1>3, <1>6, <2>1, <2>2, <2>3 DEF CalmNext
<1> QED BY <1>7 DEF Same, Goal

-----------------------------------------------------------------------------
(* The attempt counter. *)

\* The requests that are about to delete the key of t because it is exhausted.
Lockers(t) == {c \in Clients : req[c].txn = t /\ req[c].op = "lock" /\ req[c].pc = "delete"}

\* Only HINCRBY raises the counter, and past the limit it adds the request to the
\* lockers; a locker leaves by deleting the key.
LEMMA LockerStep ==
    ASSUME IsFiniteSet(Clients), TypeOK, TypeOK', LockerPending, CalmNext
    PROVE  LockerPending'
<1>p. \A t \in Txns : challenge[t].attempts <= MaxAttempts + Cardinality(Lockers(t))
  BY DEF LockerPending, Lockers
<1>g. (\A t \in Txns : challenge'[t].attempts <= MaxAttempts + Cardinality(Lockers(t)'))
          => LockerPending'
  BY DEF LockerPending, Lockers
<1> SUFFICES ASSUME NEW t \in Txns
             PROVE  challenge'[t].attempts <= MaxAttempts + Cardinality(Lockers(t)')
  BY <1>g
<1> DEFINE A == Lockers(t)
           B == Lockers(t)'
<1>f. /\ IsFiniteSet(A) /\ IsFiniteSet(B)
      /\ Cardinality(A) \in Nat /\ Cardinality(B) \in Nat
  BY FS_Subset, FS_CardinalityType DEF Lockers
<1>h. challenge \in [Txns -> [live : BOOLEAN, code : 0..MaxCodes, attempts : Nat, ttl : BOOLEAN]]
  BY DEF TypeOK, OtpType
<1>n. challenge[t].attempts \in Nat /\ challenge'[t].attempts \in Nat /\ MaxAttempts \in Nat
  BY SettlementAssumption DEF TypeOK, OtpType
<1>z. challenge'[t].attempts <= MaxAttempts => challenge'[t].attempts <= MaxAttempts + Cardinality(B)
  BY <1>f, <1>n
<1>m. ASSUME A \subseteq B, challenge'[t].attempts \in {challenge[t].attempts, 0}
      PROVE  challenge'[t].attempts <= MaxAttempts + Cardinality(B)
  <2>1. Cardinality(A) <= Cardinality(B) BY <1>f, <1>m, FS_Subset
  <2> HIDE DEF A, B
  <2>2. challenge[t].attempts <= MaxAttempts + Cardinality(A) BY <1>p DEF A
  <2> QED BY <1>f, <1>m, <1>n, <2>1, <2>2
<1>1. CASE \E c \in Clients : req[c].txn = t /\ ReqDelete(c)
  <2>1. PICK c \in Clients : req[c].txn = t /\ ReqDelete(c) BY <1>1
  <2>2. challenge'[t].attempts = 0 BY <1>h, <2>1 DEF ReqDelete, DeleteKey, NoKey
  <2> QED BY <1>n, <1>z, <2>2
<1>2. CASE \E c \in Clients : req[c].txn = t /\ VerifyCount(c)
  <2>1. PICK c \in Clients : req[c].txn = t /\ VerifyCount(c) BY <1>2
  <2>2. challenge'[t].attempts = challenge[t].attempts + 1
    BY <1>h, <2>1 DEF VerifyCount
  <2>3. CASE challenge[t].attempts + 1 <= MaxAttempts BY <1>z, <2>2, <2>3
  <2>4. CASE ~(challenge[t].attempts + 1 <= MaxAttempts)
    <3>1. req' = [req EXCEPT ![c].pc = "delete", ![c].op = "lock"]
      BY <2>1, <2>4 DEF VerifyCount
    <3>q. req = [b \in Clients |-> req[b]] BY DEF TypeOK
    <3>k. req[c] \in [pc : ReqPc, txn : Txns \cup {NoTxn}, op : {"none", "verify", "lock", "resend"},
                      code : 0..MaxCodes, st : StateStatus]
      BY DEF TypeOK, ReqType
    <3>2. /\ req'[c].pc = "delete" /\ req'[c].op = "lock" /\ req'[c].txn = t
          /\ \A b \in Clients \ {c} : req'[b] = req[b]
      BY <3>q, <3>k, <3>1, <2>1
    <3>3. req[c].pc = "count" BY <2>1 DEF VerifyCount
    <3>4. c \notin A /\ B = A \cup {c} BY <3>2, <3>3 DEF Lockers
    <3>5. Cardinality(B) = Cardinality(A) + 1 BY <1>f, <3>4, FS_AddElement
    <3> HIDE DEF A, B
    <3>6. challenge[t].attempts <= MaxAttempts + Cardinality(A) BY <1>p DEF A
    <3>7. challenge'[t].attempts <= MaxAttempts + Cardinality(B)
      BY <1>f, <1>n, <2>2, <3>5, <3>6
    <3> QED BY <3>7 DEF B
  <2> QED BY <2>3, <2>4
<1>3. CASE /\ ~\E c \in Clients : req[c].txn = t /\ ReqDelete(c)
           /\ ~\E c \in Clients : req[c].txn = t /\ VerifyCount(c)
  <2>1. A \subseteq B
    <3> SUFFICES ASSUME NEW c \in Clients, req[c].txn = t, req[c].op = "lock", req[c].pc = "delete"
                 PROVE  req'[c] = req[c]
      BY DEF Lockers
    <3>1. ~ReqDelete(c) BY <1>3
    <3>2. ReqStep(c) => ReqDelete(c)
      BY DEF ReqStep, VerifyCount, ReqSettle, ResendCount, ResendWindow, ResendStore, ResendArm,
         ReqEvent, ReqLoad, ReqSave
    <3> QED BY <3>1, <3>2, ReqMoves
  <2>2. challenge'[t].attempts \in {challenge[t].attempts, 0}
    <3>1. ASSUME NEW u \in Txns, StoreCode(u) PROVE challenge'[t].attempts \in {challenge[t].attempts, 0}
      BY <1>h, <3>1 DEF StoreCode
    <3>2. CASE ProjOtpStore /\ proj.txn = t BY <3>1, <3>2 DEF ProjOtpStore
    <3>3. CASE \E c \in Clients : req[c].txn = t /\ ResendStore(c) BY <3>1, <3>3 DEF ResendStore
    <3> QED BY <1>3, <3>2, <3>3, KeySteps
  <2> QED BY <1>m, <2>1, <2>2
<1> QED BY <1>1, <1>2, <1>3

\* An exhausted attempt counter is always on its way out: whatever the number of
\* requests in flight, each attempt past the limit has one that has yet to delete the key.
THEOREM LockersPending == MaxFaults = 0 /\ IsFiniteSet(Clients) => (Spec => []LockerPending)
<1> SUFFICES ASSUME MaxFaults = 0, IsFiniteSet(Clients) PROVE Spec => []LockerPending
  OBVIOUS
<1>1. Init => LockerPending
  <2> SUFFICES ASSUME Init, NEW t \in Txns
               PROVE  challenge[t].attempts <= MaxAttempts + Cardinality(Lockers(t))
    BY DEF LockerPending, Lockers
  <2>1. challenge[t].attempts = 0 BY DEF Init, NoKey
  <2>2. Cardinality(Lockers(t)) \in Nat BY FS_Subset, FS_CardinalityType DEF Lockers
  <2> QED BY <2>1, <2>2, SettlementAssumption
<1>2. TypeOK /\ TypeOK' /\ LockerPending /\ [Next]_vars => LockerPending'
  BY CalmSteps, LockerStep
<1> QED BY <1>1, <1>2, TypeCorrect, PTL DEF Spec

-----------------------------------------------------------------------------
(* One request at a time. *)

\* A key that paid or was locked stays gone: no load finds it, no request is left that
\* would bring it back, and the projector challenges only what was never challenged.
LEMMA SpentStays ==
    ASSUME TypeOK, TypeOK', CauseInv, CalmInv, CalmNext, NEW t \in Txns, NEW op, Spent(t, op)
    PROVE  Spent(t, op)'
<1>k. codes \in [Txns -> 0..MaxCodes] BY DEF TypeOK, OtpType
<1>1. ~(ProjOtpStore /\ proj.txn = t)
  <2>1. codes[t] > 0 BY DEF Spent
  <2>2. codes[t] # 0 BY <2>1
  <2> QED BY <2>2 DEF ProjOtpStore, CalmInv, RowOpens
<1>2. ~\E c \in Clients : req[c].txn = t /\ (ResendStore(c) \/ VerifyCount(c))
  BY DEF Spent, ResendStore, VerifyCount
<1>3. codes'[t] = codes[t] /\ (challenge'[t].live => challenge[t].live)
  BY <1>1, <1>2, KeySteps
<1>4. codes'[t] > 0 /\ ~challenge'[t].live BY <1>3 DEF Spent
<1>5. ASSUME NEW c \in Clients, req'[c].pc # "idle", req'[c].txn = t
      PROVE  req'[c].op = op /\ req'[c].pc \in {"event", "load", "save"}
  <2>1. req[c].pc # "idle" /\ req[c].txn = t => req[c].op = op /\ req[c].pc \in {"event", "load", "save"}
    BY DEF Spent
  <2>2. ~challenge[t].live BY DEF Spent
  <2> QED BY <1>5, <2>1, <2>2, ReqMoves
<1> QED BY <1>4, <1>5 DEF Spent

\* What a busy request works on: a challenged transfer, unpaid until it is settled.
LEMMA ReqWorksOn ==
    ASSUME TypeOK, CauseInv, AloneInv, NEW c \in Clients, req[c].pc # "idle"
    PROVE  /\ req[c].txn \in Txns /\ codes[req[c].txn] > 0
           /\ codes[req[c].txn] # 0 /\ Published(req[c].txn, "OTP")
           /\ req[c].pc \notin {"event", "load", "save"} => debits[req[c].txn] = 0
<1> DEFINE t == req[c].txn
<1>1. t \in Txns /\ codes[t] > 0 BY DEF TypeOK, ReqType, CauseInv, ReqCause, Backed
<1>2. codes[t] # 0 BY <1>1
<1>3. Published(t, "OTP") BY <1>1 DEF CauseInv, CodesFollowDecision
<1>4. ASSUME req[c].pc \notin {"event", "load", "save"} PROVE debits[t] = 0
  <2>1. ~(debits[t] > 0) BY <1>1, <1>4 DEF AloneInv, Spent
  <2>2. debits[t] \in Nat BY <1>1 DEF TypeOK, LedgerType
  <2> QED BY <2>1, <2>2
<1> QED BY <1>1, <1>2, <1>3, <1>4

\* The debit is the last thing to happen to a key: the request that pays has taken it,
\* and with one request at a time no other can bring it back.
LEMMA AloneStep ==
    ASSUME \A c, d \in Clients : c = d,
           TypeOK, TypeOK', CauseInv, CalmInv, AloneInv, CalmNext
    PROVE  AloneInv'
<1>t. /\ row \in [Txns -> RowStatus] /\ debits \in [Txns -> Nat] /\ codes \in [Txns -> 0..MaxCodes]
      /\ challenge \in [Txns -> [live : BOOLEAN, code : 0..MaxCodes, attempts : Nat, ttl : BOOLEAN]]
      /\ MaxCodes \in Nat
  BY SettlementAssumption DEF TypeOK, LedgerType, OtpType
<1>n. \A t \in Txns : codes[t] \in Nat /\ codes'[t] \in Nat /\ debits[t] \in Nat /\ debits'[t] \in Nat
  BY SettlementAssumption DEF TypeOK, LedgerType, OtpType
\* The row and the account of a transfer.
<1>1. ASSUME NEW t \in Txns
      PROVE  \/ debits'[t] = debits[t]
             \/ ProjPass /\ proj.txn = t /\ debits[t] = 0 /\ debits'[t] = 1 /\ codes[t] = 0
             \/ /\ debits[t] = 0 /\ debits'[t] = 1
                /\ \E c \in Clients : req[c].txn = t /\ ReqSettle(c) /\ req[c].op = "verify"
  <2>s. \A u \in Txns : \A s : SetRow(u, s) => debits'[t] = debits[t] BY DEF SetRow
  <2>1. CASE row'[t] = row[t] /\ debits'[t] = debits[t] BY <2>1
  <2>2. CASE SubmitInsert(t) \/ SubmitFail(t)
    BY <2>2 DEF SubmitInsert, SubmitFail, FailTransaction, SetRow
  <2>3. CASE proj.txn = t /\ (ProjErrorRow \/ ProjBlock \/ ProjOtpRow \/ ProjOtpFail)
    BY <2>3, <2>s DEF ProjErrorRow, ProjBlock, ProjOtpRow, ProjOtpFail, FailTransaction
  <2>4. CASE proj.txn = t /\ ProjPass
    <3>1. row[t] = "pending" /\ codes[t] = 0 /\ debits[t] = 0
      BY <2>4 DEF ProjPass, CalmInv, RowOpens
    <3>2. debits'[t] = 1
      BY <1>t, <2>4, <3>1 DEF ProjPass, CompleteTransaction
    <3> QED BY <2>4, <3>1, <3>2
  <2>5. CASE \E c \in Clients : req[c].txn = t /\ ReqSettle(c)
    <3>1. PICK c \in Clients : req[c].txn = t /\ ReqSettle(c) BY <2>5
    <3>2. CASE req[c].op = "lock"
      BY <2>s, <3>1, <3>2 DEF ReqSettle, FailTransaction
    <3>3. CASE req[c].op = "verify"
      <4>1. CompleteTransaction(t) BY <3>1, <3>3 DEF ReqSettle
      <4>2. debits[t] = 0 BY <3>1, <3>3 DEF ReqSettle, AloneInv
      <4>3. debits'[t] = debits[t] \/ debits'[t] = 1
        BY <1>t, <4>1, <4>2 DEF CompleteTransaction, ledger
      <4> QED BY <3>1, <3>3, <4>2, <4>3
    <3> QED BY <3>1, <3>2, <3>3 DEF ReqSettle
  <2> QED BY <2>1, <2>2, <2>3, <2>4, <2>5, RowSteps
\* Before the settlement nothing is paid, and the key of a settling request is gone.
<1>2. ASSUME NEW c \in Clients
      PROVE  /\ req'[c].pc \in {"delete", "settle"} /\ req'[c].op = "verify"
                    => debits'[req'[c].txn] = 0
             /\ req'[c].pc = "settle" => ~challenge'[req'[c].txn].live
  <2> SUFFICES ASSUME req'[c].pc \in {"delete", "settle"}
               PROVE  /\ req'[c].op = "verify" => debits'[req'[c].txn] = 0
                      /\ req'[c].pc = "settle" => ~challenge'[req'[c].txn].live
    OBVIOUS
  <2> DEFINE t == req[c].txn
  <2>0. req[c].pc # "idle" /\ req'[c].txn = t /\ req[c].pc \in {"count", "delete", "settle"}
        /\ ~ReqSettle(c)
    <3>1. ReqSettle(c) => req'[c].pc \in {"event", "load"}
      BY DEF ReqSettle, Goto, TypeOK, ReqType
    <3>2. req[c].pc # "idle" /\ req'[c].txn = t /\ req[c].pc \in {"count", "delete", "settle"}
      BY ReqMoves
    <3> QED BY <3>1, <3>2
  <2>1. t \in Txns /\ codes[t] # 0 BY <2>0, ReqWorksOn
  <2>2. debits[t] = 0 BY <2>0, ReqWorksOn
  <2>3. debits'[t] = 0
    <3>1. ~\E b \in Clients : req[b].txn = t /\ ReqSettle(b) BY <2>0
    <3> QED BY <1>1, <2>1, <2>2, <3>1
  <2>4. ASSUME req'[c].pc = "settle" PROVE ~challenge'[t].live
    <3>1. CASE ReqDelete(c)
      BY <1>t, <2>1, <3>1 DEF ReqDelete, DeleteKey, NoKey
    <3>2. CASE ~ReqDelete(c)
      <4>1. req'[c] = req[c] /\ req[c].pc = "settle" BY <2>4, <3>2, <2>0, ReqMoves
      <4>2. ~challenge[t].live BY <4>1 DEF AloneInv
      <4>3. ~(ProjOtpStore /\ proj.txn = t) BY <2>1 DEF ProjOtpStore, CalmInv, RowOpens
      <4>4. \A b \in Clients : b = c OBVIOUS
      <4>5. ~\E b \in Clients : req[b].txn = t /\ (ResendStore(b) \/ VerifyCount(b))
        BY <4>1, <4>4 DEF ResendStore, VerifyCount
      <4> QED BY <2>1, <4>2, <4>3, <4>5, KeySteps
    <3> QED BY <3>1, <3>2
  <2> QED BY <2>0, <2>3, <2>4
\* A settled request has taken the key, and it is the only one.
<1>3. ASSUME NEW c \in Clients, ReqSettle(c), NEW u, u = req[c].txn, NEW o, o = req[c].op
      PROVE  u \in Txns /\ codes[u] > 0 /\ debits[u] = 0 /\ Spent(u, o)'
  <2> DEFINE t == req[c].txn
             op == req[c].op
  <2>1. req[c].pc = "settle" /\ UNCHANGED <<codes, challenge>> BY <1>3 DEF ReqSettle, otpStore
  <2>2. t \in Txns /\ codes[t] > 0 BY <2>1, ReqWorksOn
  <2>3. ~challenge[t].live BY <2>1 DEF AloneInv
  <2>4. req'[c].pc \in {"event", "load"} /\ req'[c].op = op
    BY <1>3 DEF ReqSettle, Goto, TypeOK, ReqType
  <2>5. \A b \in Clients : b = c OBVIOUS
  <2>6. debits[t] = 0 BY <2>1, ReqWorksOn
  <2>7. Spent(u, o)' BY <1>3, <2>1, <2>2, <2>3, <2>4, <2>5 DEF Spent
  <2> QED BY <1>3, <2>2, <2>6, <2>7
<1>4. ASSUME NEW t \in Txns PROVE debits'[t] <= 1
  BY <1>1, <1>n DEF AloneInv
<1>5. ASSUME NEW t \in Txns, codes'[t] > 0, debits'[t] > 0 PROVE Spent(t, "verify")'
  <2>1. CASE debits[t] > 0
    <3>1. CASE codes[t] > 0
      <4>1. Spent(t, "verify") BY <2>1, <3>1 DEF AloneInv
      <4> QED BY <4>1, SpentStays
    <3>2. CASE ~(codes[t] > 0)
      <4>1. codes[t] # codes'[t] BY <1>5, <3>2
      <4>2. ~\E c \in Clients : req[c].txn = t /\ ResendStore(c)
        BY <3>2, ReqWorksOn DEF ResendStore
      <4>3. ~\E c \in Clients : req[c].txn = t /\ VerifyCount(c)
        BY <3>2, ReqWorksOn DEF VerifyCount
      <4>4. ProjOtpStore /\ proj.txn = t BY <4>1, <4>2, <4>3, KeySteps
      <4>5. debits[t] = 0 BY <4>4 DEF ProjOtpStore, CalmInv, RowOpens
      <4> QED BY <2>1, <4>5
    <3> QED BY <3>1, <3>2
  <2>2. CASE ~(debits[t] > 0)
    <3>1. CASE ProjPass /\ codes[t] = 0
      BY <1>5, <3>1 DEF ProjPass, otpStore
    <3>2. CASE \E c \in Clients : req[c].txn = t /\ ReqSettle(c) /\ req[c].op = "verify"
      BY <1>3, <3>2
    <3> QED BY <1>1, <1>5, <2>2, <3>1, <3>2
  <2> QED BY <2>1, <2>2
<1>6. ASSUME NEW t \in Txns, row'[t] = "failed"
      PROVE  Published(t, "ERROR")' \/ Spent(t, "lock")'
  <2>h. Published(t, "ERROR") => Published(t, "ERROR")'
    <3>1. [Next]_vars BY <1>6 DEF CalmNext, Next
    <3> QED BY <3>1, HistoryGrows DEF Grows, Kinds, Finals
  <2>1. CASE row[t] = "failed"
    BY <2>1, <2>h, SpentStays DEF AloneInv
  <2>2. CASE SubmitInsert(t) \/ SubmitFail(t)
    <3>1. ~SubmitFail(t) BY DEF SubmitFail, CalmInv, Evaluated
    <3>2. ~SubmitInsert(t) BY <1>6, <1>t DEF SubmitInsert, SetRow
    <3> QED BY <2>2, <3>1, <3>2
  <2>3. CASE proj.txn = t /\ (ProjPass \/ ProjBlock \/ ProjOtpRow \/ ProjOtpFail)
    <3>1. ~ProjOtpFail BY DEF ProjOtpFail, CalmInv, RowOpens
    <3>2. (~ProjPass /\ ~ProjBlock /\ ~ProjOtpRow) \/ row'[t] = row[t]
      BY <1>6, <1>t, <2>3 DEF ProjPass, ProjBlock, ProjOtpRow, SetRow, CompleteTransaction, ledger
    <3> QED BY <2>1, <1>6, <2>3, <3>1, <3>2
  <2>4. CASE proj.txn = t /\ ProjErrorRow
    <3>1. Published(t, "ERROR")
      BY <2>4 DEF ProjErrorRow, CauseInv, ProjCause, Fits
    <3> QED BY <2>h, <3>1
  <2>5. CASE \E c \in Clients : req[c].txn = t /\ ReqSettle(c)
    <3>1. PICK c \in Clients : req[c].txn = t /\ ReqSettle(c) BY <2>5
    <3>2. CASE req[c].op = "lock" BY <1>3, <3>1, <3>2
    <3>3. CASE req[c].op = "verify"
      <4>1. CompleteTransaction(t) BY <3>1, <3>3 DEF ReqSettle
      <4>2. row[t] = row'[t] BY <1>6, <1>t, <4>1 DEF CompleteTransaction, ledger
      <4> QED BY <1>6, <2>1, <4>2
    <3> QED BY <3>1, <3>2, <3>3 DEF ReqSettle
  <2> QED BY <1>6, <2>1, <2>2, <2>3, <2>4, <2>5, RowSteps
<1> QED BY <1>2, <1>4, <1>5, <1>6 DEF AloneInv

\* What holds while nothing fails and requests come one at a time.
LEMMA Alone ==
    MaxFaults = 0 /\ (\A c, d \in Clients : c = d) => (Spec => []AloneInv)
<1> SUFFICES ASSUME MaxFaults = 0, \A c, d \in Clients : c = d PROVE Spec => []AloneInv
  OBVIOUS
<1>1. Init => AloneInv
  BY DEF Init, AloneInv, IdleReq
<1>2. TypeOK /\ TypeOK' /\ CauseInv /\ CalmInv /\ AloneInv /\ [Next]_vars => AloneInv'
  BY CalmSteps, AloneStep
<1>3. Spec => []CalmInv BY Calm
<1> QED BY <1>1, <1>2, <1>3, TypeCorrect, Causes, PTL DEF Spec

\* Without failures and with requests one at a time, no transfer is debited twice, over
\* any number of evaluations, resends and late or repeated verdicts.
THEOREM OneDebitAlone ==
    MaxFaults = 0 /\ (\A c, d \in Clients : c = d) => (Spec => []AtMostOneDebit)
<1> SUFFICES ASSUME MaxFaults = 0, \A c, d \in Clients : c = d PROVE Spec => []AtMostOneDebit
  OBVIOUS
<1>1. AloneInv => AtMostOneDebit BY DEF AloneInv, AtMostOneDebit
<1> QED BY <1>1, Alone, PTL

\* A transfer evaluated once that failed has an ERROR verdict, which excludes a
\* challenge, or was locked, which took its key: neither is paid afterwards.
THEOREM FailedNotPaid ==
    MaxFaults = 0 /\ (\A c, d \in Clients : c = d) => (Spec => FailedStaysUnpaid)
<1> SUFFICES ASSUME MaxFaults = 0, \A c, d \in Clients : c = d PROVE Spec => FailedStaysUnpaid
  OBVIOUS
<1> DEFINE Stays == \A t \in Txns : runs[t] <= 1 /\ row[t] = "failed" => row'[t] # "success"
<1>1. TypeOK /\ CauseInv /\ CalmInv /\ AloneInv /\ [Next]_vars => Stays
  <2> SUFFICES ASSUME TypeOK, CauseInv, CalmInv, AloneInv, [Next]_vars, NEW t \in Txns,
                      runs[t] <= 1, row[t] = "failed", row'[t] = "success"
               PROVE  FALSE
    OBVIOUS
  <2>0. CalmNext BY CalmSteps
  <2>t. row \in [Txns -> RowStatus] BY DEF TypeOK, LedgerType
  <2>1. ~SubmitInsert(t) /\ ~SubmitFail(t)
    BY <2>t DEF SubmitInsert, SubmitFail, FailTransaction, SetRow
  <2>2. ~(proj.txn = t /\ (ProjErrorRow \/ ProjBlock \/ ProjOtpRow \/ ProjOtpFail))
    BY <2>t DEF ProjErrorRow, ProjBlock, ProjOtpRow, ProjOtpFail, FailTransaction, SetRow
  <2>3. ~(proj.txn = t /\ ProjPass) BY DEF ProjPass, CalmInv, RowOpens
  <2>4. ASSUME NEW c \in Clients, req[c].txn = t, ReqSettle(c) PROVE FALSE
    <3>1. req[c].pc = "settle" BY <2>4 DEF ReqSettle
    <3>2. Published(t, "OTP") BY <2>4, <3>1, ReqWorksOn
    <3>3. ~Spent(t, "lock") BY <2>4, <3>1 DEF Spent
    <3>4. Published(t, "ERROR") BY <3>3 DEF AloneInv
    <3>5. PICK i \in 1..Len(topic) : topic[i] = [txn |-> t, kind |-> "OTP"]
      BY <3>2, PublishedDone DEF CalmInv
    <3>6. PICK j \in 1..Len(topic) : topic[j] = [txn |-> t, kind |-> "ERROR"]
      BY <3>4, PublishedDone DEF CalmInv
    <3>7. FinalAt(i, t) /\ FinalAt(j, t) BY <3>5, <3>6 DEF FinalAt, Finals, Decisions
    <3>8. i = j BY <3>7 DEF CalmInv, Evaluated
    <3> QED BY <3>5, <3>6, <3>8
  <2> QED BY <2>0, <2>1, <2>2, <2>3, <2>4, RowSteps
<1>2. Spec => []CalmInv /\ []AloneInv BY Calm, Alone, PTL
<1> QED BY <1>1, <1>2, TypeCorrect, Causes, PTL DEF Spec, FailedStaysUnpaid, Stays

-----------------------------------------------------------------------------
(* The refinement of PaymentLedger. *)

\* A transfer is authorised by the PASS verdict's append or by the count that accepts a
\* code, and by nothing else; authorisations are never withdrawn.
LEMMA AuthorizeStep ==
    ASSUME TypeOK, TypeOK', [Next]_vars
    PROVE  LET auth == {t \in Txns : verified[t] \/ Published(t, "PASS")}
           IN  auth' = auth \/ \E t \in Txns : auth' = auth \cup {t}
<1> DEFINE auth == {t \in Txns : verified[t] \/ Published(t, "PASS")}
<1>t. topic \in Seq([txn : Txns, kind : Kinds]) /\ verified \in [Txns -> BOOLEAN]
  BY DEF TypeOK, KafkaType
<1>1. CASE UNCHANGED <<topic, codes, verified>> BY <1>1 DEF Published
<1>2. CASE \E e \in [txn : Txns, kind : Kinds] : topic' = Append(topic, e) /\ verified' = verified
  <2>1. PICK e \in [txn : Txns, kind : Kinds] : topic' = Append(topic, e) /\ verified' = verified
    BY <1>2
  <2>2. \A t \in Txns : Published(t, "PASS")' <=> Published(t, "PASS") \/ e = [txn |-> t, kind |-> "PASS"]
    <3>1. /\ Len(topic') = Len(topic) + 1 /\ Len(topic) \in Nat
          /\ \A i \in 1..(Len(topic) + 1) : topic'[i] = IF i <= Len(topic) THEN topic[i] ELSE e
      BY <1>t, <2>1, AppendAt
    <3>2. DOMAIN topic = 1..Len(topic) /\ DOMAIN topic' = 1..(Len(topic) + 1)
      BY <1>t, <2>1, <3>1
    <3>3. \A x : x \in {topic'[i] : i \in DOMAIN topic'} <=>
                    x \in {topic[i] : i \in DOMAIN topic} \/ x = e
      <4>1. ASSUME NEW i \in DOMAIN topic PROVE i \in DOMAIN topic' /\ topic'[i] = topic[i]
        BY <3>1, <3>2
      <4>2. Len(topic) + 1 \in DOMAIN topic' /\ topic'[Len(topic) + 1] = e
        BY <3>1, <3>2
      <4>3. ASSUME NEW i \in DOMAIN topic' PROVE i \in DOMAIN topic \/ topic'[i] = e
        BY <3>1, <3>2
      <4> QED BY <4>1, <4>2, <4>3
    <3> QED BY <3>3 DEF Published
  <2>3. CASE e.kind = "PASS"
    <3>1. e.txn \in Txns /\ e = [txn |-> e.txn, kind |-> "PASS"] BY <2>3
    <3>2. \A t \in Txns : t \in auth' <=> t \in auth \cup {e.txn} BY <2>1, <2>2, <3>1
    <3>3. auth' = auth \cup {e.txn} BY <3>1, <3>2
    <3> QED BY <3>1, <3>3
  <2>4. CASE e.kind # "PASS"
    <3>1. \A t \in Txns : e # [txn |-> t, kind |-> "PASS"] BY <2>4
    <3>2. auth' = auth BY <2>1, <2>2, <3>1
    <3> QED BY <3>2
  <2> QED BY <2>3, <2>4
<1>3. CASE UNCHANGED <<topic, verified>> BY <1>3 DEF Published
<1>4. CASE (\E t \in Txns : verified' = [verified EXCEPT ![t] = TRUE]) /\ UNCHANGED topic
  <2>1. PICK t \in Txns : verified' = [verified EXCEPT ![t] = TRUE] BY <1>4
  <2>2. \A u \in Txns : Published(u, "PASS")' <=> Published(u, "PASS") BY <1>4 DEF Published
  <2>3. verified'[t] /\ \A u \in Txns \ {t} : verified'[u] = verified[u] BY <1>t, <2>1
  <2>4. \A u \in Txns : u \in auth' <=> u \in auth \cup {t} BY <2>2, <2>3
  <2>5. auth' = auth \cup {t} BY <2>4
  <2> QED BY <2>5
<1> QED BY <1>1, <1>2, <1>3, <1>4, HistorySteps

\* Each step of the settlement is a step of the ledger or none: the debit in
\* complete_transaction is Charge, what justifies it is Authorize, the rest stutters.
LEMMA LedgerStep ==
    ASSUME TypeOK, TypeOK', DebitJustified', AloneInv, AloneInv', CalmNext
    PROVE  [Ledger!LedgerNext]_(Ledger!ledgerVars)
<1> DEFINE auth == {t \in Txns : verified[t] \/ Published(t, "PASS")}
           paid == {t \in Txns : debits[t] > 0}
<1>n. [Next]_vars BY DEF CalmNext, Next
<1>t. row \in [Txns -> RowStatus] /\ debits \in [Txns -> Nat]
      /\ \A t \in Txns : debits[t] \in Nat /\ debits'[t] \in Nat
  BY DEF TypeOK, LedgerType
<1>1. CASE balance' = balance /\ debits' = debits
  <2>1. paid' = paid BY <1>1
  <2>2. auth' = auth \/ \E t \in Txns : auth' = auth \cup {t} BY <1>n, AuthorizeStep
  <2>3. CASE auth' = auth BY <1>1, <2>1, <2>3 DEF Ledger!ledgerVars
  <2>4. CASE \E t \in Txns : auth' = auth \cup {t}
    <3>1. PICK t \in Txns : auth' = auth \cup {t} BY <2>4
    <3>2. Ledger!Authorize(t) BY <1>1, <2>1, <3>1 DEF Ledger!Authorize
    <3> QED BY <3>2 DEF Ledger!LedgerNext
  <2> QED BY <2>2, <2>3, <2>4
<1>2. ASSUME NEW t \in Txns, CompleteTransaction(t), row[t] # "success"
      PROVE  Ledger!Charge(t)
  <2>1. /\ balance' = [balance EXCEPT ![AccountOf[t]] = @ - Amount[t]]
        /\ debits' = [debits EXCEPT ![t] = @ + 1] /\ row'[t] = "success"
    BY <1>t, <1>2 DEF CompleteTransaction
  <2>2. /\ debits'[t] = debits[t] + 1
        /\ \A u \in Txns \ {t} : debits'[u] = debits[u]
    BY <1>t, <2>1
  <2>3. debits[t] = 0 /\ debits'[t] > 0 BY <1>t, <2>2 DEF AloneInv
  <2>4. t \notin paid /\ paid' = paid \cup {t} BY <2>2, <2>3
  <2>5. UNCHANGED <<topic, verified>>
    <3>1. ~(row'[t] = row[t] /\ debits'[t] = debits[t]) BY <2>2, <2>3
    <3>2. ~SubmitInsert(t) /\ ~SubmitFail(t)
      BY <1>t, <2>1 DEF SubmitInsert, SubmitFail, FailTransaction, SetRow
    <3>3. ~(proj.txn = t /\ (ProjErrorRow \/ ProjBlock \/ ProjOtpRow \/ ProjOtpFail))
      BY <1>t, <2>1 DEF ProjErrorRow, ProjBlock, ProjOtpRow, ProjOtpFail, FailTransaction, SetRow
    <3>4. ProjPass \/ \E c \in Clients : ReqSettle(c) BY <3>1, <3>2, <3>3, RowSteps
    <3> QED BY <3>4 DEF ProjPass, ReqSettle, kafka
  <2>6. auth' = auth BY <2>5 DEF Published
  <2>7. t \in auth
    <3>1. verified'[t] \/ Published(t, "PASS")' BY <2>3 DEF DebitJustified
    <3> QED BY <2>6, <3>1
  <2> QED BY <2>1, <2>4, <2>6, <2>7 DEF Ledger!Charge
<1>3. CASE \E t \in Txns : CompleteTransaction(t) /\ row[t] # "success"
  BY <1>2, <1>3 DEF Ledger!LedgerNext
<1>4. UNCHANGED ledger => balance' = balance /\ debits' = debits BY DEF ledger
<1>5. \A t, s : SetRow(t, s) => balance' = balance /\ debits' = debits BY DEF SetRow
<1>6. \/ UNCHANGED ledger
      \/ \E t \in Txns : CompleteTransaction(t)
      \/ \E t \in Txns, s \in RowStatus \ {"success"} : SetRow(t, s)
  BY <1>n, LedgerSteps
<1>7. (\E t \in Txns : CompleteTransaction(t)) =>
          UNCHANGED ledger \/ \E t \in Txns : CompleteTransaction(t) /\ row[t] # "success"
  BY DEF CompleteTransaction
<1> QED BY <1>1, <1>3, <1>4, <1>5, <1>6, <1>7

\* Without failures and with requests one at a time the settlement implements the
\* ledger: a transfer is authorised first and charged once, by its amount.
THEOREM SettlementImplementsLedger ==
    MaxFaults = 0 /\ (\A c, d \in Clients : c = d) => (Spec => ImplementsLedger)
<1> SUFFICES ASSUME MaxFaults = 0, \A c, d \in Clients : c = d PROVE Spec => ImplementsLedger
  OBVIOUS
<1>1. Init => Ledger!LedgerInit
  <2> SUFFICES ASSUME Init PROVE Ledger!LedgerInit OBVIOUS
  <2>1. DOMAIN topic = {} /\ \A t \in Txns : ~verified[t] /\ ~(debits[t] > 0)
    BY DEF Init
  <2>2. \A t \in Txns : ~Published(t, "PASS") BY <2>1 DEF Published
  <2> QED BY <2>1, <2>2 DEF Init, Ledger!LedgerInit
<1>2. /\ TypeOK /\ TypeOK' /\ DebitJustified' /\ AloneInv /\ AloneInv' /\ [Next]_vars
      => [Ledger!LedgerNext]_(Ledger!ledgerVars)
  BY CalmSteps, LedgerStep
<1>3. Spec => []AloneInv BY Alone
<1> QED BY <1>1, <1>2, <1>3, TypeCorrect, DebitsJustified, PTL
        DEF Spec, ImplementsLedger, Ledger!LedgerSpec
=============================================================================
