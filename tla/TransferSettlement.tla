------------------------- MODULE TransferSettlement -------------------------
(***************************************************************************)
(* The life of a mobile-banking transfer inside the API process: the       *)
(* POST /transfer handler, the state projector that consumes fraud-events, *)
(* and the OTP verify / resend handlers, all interleaving at their awaits  *)
(* over Postgres (app_transactions, app_accounts, app_otp_events), Redis   *)
(* (txn:state, otp, otp:resends) and the Kafka topic.                      *)
(*                                                                         *)
(* A process is a record with a program counter; one action is the code    *)
(* between two awaits.  Redis and Postgres statements are atomic.  The     *)
(* orchestrator is reduced to what the topic shows of it: each evaluation  *)
(* of a transfer appends a progress event and then one final decision.     *)
(***************************************************************************)
EXTENDS Integers, Sequences, FiniteSets

CONSTANTS
    Txns,           \* app-submitted transfers
    Accounts,       \* rows of app_accounts
    Clients,        \* HTTP requests to /otp/* that may be in flight at once
    NoTxn,          \* "no transfer", for an idle process
    AccountOf,      \* the account a transfer debits
    Amount,         \* the amount it debits
    OpeningBalance, \* app_accounts.balance at the start
    MaxAttempts,    \* otp_service.MAX_ATTEMPTS
    MaxResends,     \* otp_service.MAX_RESENDS
    MaxCodes,       \* bound: codes generated for one transfer
    MaxRuns,        \* bound: evaluations of one transfer by the orchestrator
    MaxFaults       \* bound: crashes, reconnects and failed store calls

ASSUME SettlementAssumption ==
    /\ NoTxn \notin Txns
    /\ AccountOf \in [Txns -> Accounts]
    /\ Amount \in [Txns -> Nat]
    /\ OpeningBalance \in [Accounts -> Int]
    /\ MaxAttempts \in Nat /\ MaxResends \in Nat
    /\ MaxCodes \in Nat /\ MaxRuns \in Nat /\ MaxFaults \in Nat

VARIABLES
    \* Postgres
    row,        \* app_transactions.status, "none" before the INSERT
    decision,   \* app_transactions.decision
    balance,    \* app_accounts.balance
    otpEvents,  \* app_otp_events.status of the row written for each code
    \* Redis
    state,      \* the "status" of txn:state:{id}, "none" when the key is absent
    challenge,  \* the hash otp:{id}
    resends,    \* the counter otp:resends:{id}
    \* Kafka
    topic,      \* the projected part of fraud-events
    pos,        \* the projector's position in it
    committed,  \* the offset its consumer group committed
    \* processes
    sub,        \* POST /transfer, one per transfer
    orch,       \* what the orchestrator is doing with a transfer
    runs,       \* evaluations it started
    proj,       \* the projector's handler
    req,        \* the /otp/verify and /otp/resend handlers
    \* the outside world and history
    codes,      \* codes generated so far: code n is the n-th
    sent,       \* codes that reached the customer
    verified,   \* some submitted code matched its stored hash
    debits,     \* times the account was debited for the transfer
    reverted,   \* times the row was moved away from 'success'
    faults

ledger   == <<row, balance, debits, reverted>>
otpStore == <<challenge, resends, codes, sent, otpEvents>>
kafka    == <<topic, pos, committed, orch, runs>>
vars == <<ledger, decision, otpStore, state, kafka, sub, proj, req, verified, faults>>

RowStatus   == {"none", "pending", "otp_required", "success", "blocked", "failed"}
StateStatus == {"none", "processing", "otp_pending", "completed", "blocked", "failed"}
Terminal    == {"completed", "blocked", "failed"}
Decisions   == {"PASS", "OTP", "BLOCK"}
Finals      == Decisions \cup {"ERROR"}
Kinds       == Finals \cup {"progress"}

NoKey    == [live |-> FALSE, code |-> 0, attempts |-> 0, ttl |-> FALSE]
IdleProj == [pc |-> "idle", txn |-> NoTxn, kind |-> "progress", st |-> "none", code |-> 0]
IdleReq  == [pc |-> "idle", txn |-> NoTxn, op |-> "none", code |-> 0, st |-> "none"]

Init ==
    /\ row = [t \in Txns |-> "none"] /\ decision = [t \in Txns |-> "none"]
    /\ balance = OpeningBalance
    /\ otpEvents = [t \in Txns |-> [n \in 1..MaxCodes |-> "none"]]
    /\ state = [t \in Txns |-> "none"]
    /\ challenge = [t \in Txns |-> NoKey]
    /\ resends = [t \in Txns |-> [count |-> 0, ttl |-> FALSE]]
    /\ topic = <<>> /\ pos = 0 /\ committed = 0
    /\ sub = [t \in Txns |-> "new"]
    /\ orch = [t \in Txns |-> "none"] /\ runs = [t \in Txns |-> 0]
    /\ proj = IdleProj /\ req = [c \in Clients |-> IdleReq]
    /\ codes = [t \in Txns |-> 0] /\ sent = [t \in Txns |-> {}]
    /\ verified = [t \in Txns |-> FALSE]
    /\ debits = [t \in Txns |-> 0] /\ reverted = [t \in Txns |-> 0]
    /\ faults = 0

Fault == faults < MaxFaults /\ faults' = faults + 1

-----------------------------------------------------------------------------
(* Postgres and Redis operations shared by the handlers. *)

\* UPDATE app_transactions SET status = s: unconditional wherever it is used.
SetRow(t, s) ==
    /\ row' = [row EXCEPT ![t] = s]
    /\ reverted' = [reverted EXCEPT ![t] = @ + (IF row[t] = "success" THEN 1 ELSE 0)]
    /\ UNCHANGED <<balance, debits>>

\* Variants of complete_transaction a slip could have left in the code.
CompleteTwice(t) ==
    /\ balance' = [balance EXCEPT ![AccountOf[t]] = @ - Amount[t]]
    /\ row' = [row EXCEPT ![t] = "success"]
    /\ debits' = [debits EXCEPT ![t] = @ + 1]
    /\ UNCHANGED reverted
CompleteNoStatus(t) ==
    /\ row[t] # "success"
    /\ balance' = [balance EXCEPT ![AccountOf[t]] = @ - Amount[t]]
    /\ debits' = [debits EXCEPT ![t] = @ + 1]
    /\ UNCHANGED <<row, reverted>>

\* complete_transaction: one database transaction under SELECT ... FOR UPDATE.
CompleteTransaction(t) ==
    \/ row[t] = "success" /\ UNCHANGED ledger
    \/ /\ row[t] # "success"
       /\ balance' = [balance EXCEPT ![AccountOf[t]] = @ - Amount[t]]
       /\ row' = [row EXCEPT ![t] = "success"]
       /\ debits' = [debits EXCEPT ![t] = @ + 1]
       /\ UNCHANGED reverted

FailTransaction(t) == SetRow(t, "failed")

\* initiate, first await: HSET of a fresh code; a TTL the key has survives.
StoreCode(t) ==
    /\ codes[t] < MaxCodes
    /\ codes' = [codes EXCEPT ![t] = @ + 1]
    /\ challenge' = [challenge EXCEPT ![t] =
           [live |-> TRUE, code |-> codes[t] + 1, attempts |-> 0, ttl |-> @.ttl]]
    /\ UNCHANGED <<resends, sent, otpEvents>>

\* initiate, EXPIRE (nothing if the key is gone) and the SMS or devCode.
ArmCode(t, n) ==
    /\ challenge' = [challenge EXCEPT ![t].ttl = challenge[t].live]
    /\ sent' = [sent EXCEPT ![t] = @ \cup {n}]
    /\ UNCHANGED <<resends, codes, otpEvents>>

\* initiate, INSERT INTO app_otp_events.
LogCode(t, n) ==
    /\ otpEvents' = [otpEvents EXCEPT ![t][n] = "SENT"]
    /\ UNCHANGED <<challenge, resends, codes, sent>>

\* UPDATE app_otp_events ... WHERE txn_id = t AND status = 'SENT'.
CloseEvents(t, s) ==
    /\ otpEvents' = [otpEvents EXCEPT ![t] =
           [n \in 1..MaxCodes |-> IF @[n] = "SENT" THEN s ELSE @[n]]]
    /\ UNCHANGED <<challenge, resends, codes, sent>>

\* Variant: the key is left for its TTL to remove.
KeepKey(t) == UNCHANGED otpStore

DeleteKey(t) ==
    /\ challenge' = [challenge EXCEPT ![t] = NoKey]
    /\ UNCHANGED <<resends, codes, sent, otpEvents>>

-----------------------------------------------------------------------------
(* POST /transfer. *)

SubmitCheck(t) ==
    /\ sub[t] = "new"
    /\ balance[AccountOf[t]] >= Amount[t]
    /\ sub' = [sub EXCEPT ![t] = "checked"]
    /\ UNCHANGED <<ledger, decision, otpStore, state, kafka, proj, req, verified, faults>>

SubmitInsert(t) ==
    /\ sub[t] = "checked"
    /\ SetRow(t, "pending")
    /\ sub' = [sub EXCEPT ![t] = "inserted"]
    /\ UNCHANGED <<decision, otpStore, state, kafka, proj, req, verified, faults>>

SubmitCache(t) ==
    /\ sub[t] = "inserted"
    /\ state' = [state EXCEPT ![t] = "processing"]
    /\ sub' = [sub EXCEPT ![t] = "cached"]
    /\ UNCHANGED <<ledger, decision, otpStore, kafka, proj, req, verified, faults>>

SubmitPublish(t) ==
    /\ sub[t] = "cached"
    /\ orch' = [orch EXCEPT ![t] = "queued"]
    /\ sub' = [sub EXCEPT ![t] = "done"]
    /\ UNCHANGED <<ledger, decision, otpStore, state, topic, pos, committed, runs,
                   proj, req, verified, faults>>

\* send_and_wait raises; the record may or may not be in the topic.
SubmitPublishError(t) ==
    /\ sub[t] = "cached" /\ Fault
    /\ sub' = [sub EXCEPT ![t] = "failing"]
    /\ \E o \in {"none", "queued"} : orch' = [orch EXCEPT ![t] = o]
    /\ UNCHANGED <<ledger, decision, otpStore, state, topic, pos, committed, runs,
                   proj, req, verified>>

SubmitFail(t) ==
    /\ sub[t] = "failing"
    /\ FailTransaction(t)
    /\ sub' = [sub EXCEPT ![t] = "done"]
    /\ UNCHANGED <<decision, otpStore, state, kafka, proj, req, verified, faults>>

\* A store call raises in the handler: 500, nothing undone.
SubmitError(t) ==
    /\ sub[t] \in {"checked", "inserted", "failing"} /\ Fault
    /\ sub' = [sub EXCEPT ![t] = "done"]
    /\ UNCHANGED <<ledger, decision, otpStore, state, kafka, proj, req, verified>>

SubmitStep(t) ==
    \/ SubmitInsert(t) \/ SubmitCache(t) \/ SubmitPublish(t) \/ SubmitFail(t)

-----------------------------------------------------------------------------
(* The orchestrator, as the topic shows it. *)

OrchStart(t) ==
    /\ orch[t] = "queued" /\ runs[t] < MaxRuns
    /\ orch' = [orch EXCEPT ![t] = "running"]
    /\ runs' = [runs EXCEPT ![t] = @ + 1]
    /\ topic' = Append(topic, [txn |-> t, kind |-> "progress"])
    /\ UNCHANGED <<ledger, decision, otpStore, state, pos, committed, sub, proj, req,
                   verified, faults>>

OrchDecide(t, d) ==
    /\ orch[t] = "running"
    /\ orch' = [orch EXCEPT ![t] = "done"]
    /\ topic' = Append(topic, [txn |-> t, kind |-> d])
    /\ UNCHANGED <<ledger, decision, otpStore, state, pos, committed, runs, sub, proj,
                   req, verified, faults>>

\* The process restarts from an offset before this transfer.
OrchRedeliver(t) ==
    /\ orch[t] \in {"running", "done"} /\ runs[t] < MaxRuns
    /\ orch' = [orch EXCEPT ![t] = "queued"]
    /\ UNCHANGED <<ledger, decision, otpStore, state, topic, pos, committed, runs, sub,
                   proj, req, verified, faults>>

\* The process dies with the transfer's offset already committed.
OrchLose(t) ==
    /\ orch[t] \in {"queued", "running"} /\ Fault
    /\ orch' = [orch EXCEPT ![t] = "done"]
    /\ UNCHANGED <<ledger, decision, otpStore, state, topic, pos, committed, runs, sub,
                   proj, req, verified>>

-----------------------------------------------------------------------------
(* The state projector. *)

ProjGoto(pc, st) == proj' = [proj EXCEPT !.pc = pc, !.st = st]

\* Variant: no check that the stored status is still open.
ProjLoadAnyStatus ==
    /\ proj.pc = "idle" /\ pos < Len(topic)
    /\ pos' = pos + 1
    /\ LET e == topic[pos + 1]
           s == state[e.txn]
           To(pc, st) == [pc |-> pc, txn |-> e.txn, kind |-> e.kind, st |-> st, code |-> 0]
       IN \/ s = "none" /\ UNCHANGED proj
          \/ /\ s # "none"
             /\ \/ e.kind = "progress" /\ proj' = To("save", s)
                \/ e.kind = "ERROR" /\ proj' = To("errSave", "failed")
                \/ e.kind \in Decisions /\ proj' = To("row", s)
    /\ UNCHANGED <<ledger, decision, otpStore, state, topic, committed, orch, runs, sub,
                   req, verified, faults>>

\* Take the next event and load txn:state; absent or terminal: skip the event.
ProjLoad ==
    /\ proj.pc = "idle" /\ pos < Len(topic)
    /\ pos' = pos + 1
    /\ LET e == topic[pos + 1]
           s == state[e.txn]
           To(pc, st) == [pc |-> pc, txn |-> e.txn, kind |-> e.kind, st |-> st, code |-> 0]
       IN \/ s \in Terminal \cup {"none"} /\ UNCHANGED proj
          \/ /\ s \notin Terminal \cup {"none"}
             /\ \/ e.kind = "progress" /\ proj' = To("save", s)
                \/ e.kind = "ERROR" /\ proj' = To("errSave", "failed")
                \/ e.kind \in Decisions /\ proj' = To("row", s)
    /\ UNCHANGED <<ledger, decision, otpStore, state, topic, committed, orch, runs, sub,
                   req, verified, faults>>

\* ERROR: the state is saved first, then the row is failed.
ProjErrorSave ==
    /\ proj.pc = "errSave"
    /\ state' = [state EXCEPT ![proj.txn] = "failed"]
    /\ ProjGoto("errRow", "failed")
    /\ UNCHANGED <<ledger, decision, otpStore, kafka, sub, req, verified, faults>>

ProjErrorRow ==
    /\ proj.pc = "errRow"
    /\ FailTransaction(proj.txn)
    /\ proj' = IdleProj
    /\ UNCHANGED <<decision, otpStore, state, kafka, sub, req, verified, faults>>

\* Variants: the column is not written; side effects for any row; BLOCK falls
\* through to PASS or to OTP; a row that has moved on is reported as blocked.
Branch(kind, st, pass, block) ==
    ProjGoto(CASE kind = "PASS" -> pass [] kind = "OTP" -> "otpStore" [] OTHER -> block, st)
ReadRowNoColumn ==
    /\ proj.pc = "row" /\ UNCHANGED decision
    /\ \/ row[proj.txn] # "pending" /\ ProjGoto("save", "completed")
       \/ row[proj.txn] = "pending" /\ Branch(proj.kind, proj.st, "pass", "block")
    /\ UNCHANGED <<ledger, otpStore, state, kafka, sub, req, verified, faults>>
ReadRowAnyStatus ==
    /\ proj.pc = "row"
    /\ decision' = [decision EXCEPT ![proj.txn] = proj.kind]
    /\ Branch(proj.kind, proj.st, "pass", "block")
    /\ UNCHANGED <<ledger, otpStore, state, kafka, sub, req, verified, faults>>
ReadRowBlockIs(block, moved) ==
    /\ proj.pc = "row"
    /\ decision' = [decision EXCEPT ![proj.txn] = proj.kind]
    /\ \/ row[proj.txn] # "pending" /\ ProjGoto("save", moved)
       \/ row[proj.txn] = "pending" /\ Branch(proj.kind, proj.st, "pass", block)
    /\ UNCHANGED <<ledger, otpStore, state, kafka, sub, req, verified, faults>>
ReadRowBlockPasses == ReadRowBlockIs("pass", "completed")
ReadRowBlockChallenges == ReadRowBlockIs("otpStore", "completed")
ReadRowMovedIsBlocked == ReadRowBlockIs("block", "blocked")

\* SELECT status, UPDATE the analysis columns, branch on status = 'pending'.
\* One step: only the projector touches the columns, so the UPDATE commutes
\* with whatever runs after the SELECT.
ProjReadRow ==
    /\ proj.pc = "row"
    /\ decision' = [decision EXCEPT ![proj.txn] = proj.kind]
    /\ \/ row[proj.txn] # "pending" /\ ProjGoto("save", "completed")
       \/ /\ row[proj.txn] = "pending"
          /\ Branch(proj.kind, proj.st, "pass", "block")
    /\ UNCHANGED <<ledger, otpStore, state, kafka, sub, req, verified, faults>>

ProjPass ==
    /\ proj.pc = "pass"
    /\ CompleteTransaction(proj.txn)
    /\ ProjGoto("save", "completed")
    /\ UNCHANGED <<decision, otpStore, state, kafka, sub, req, verified, faults>>

\* Variant: the branch returns before the save.
BlockNoSave ==
    /\ proj.pc = "block"
    /\ SetRow(proj.txn, "blocked")
    /\ proj' = IdleProj
    /\ UNCHANGED <<decision, otpStore, state, kafka, sub, req, verified, faults>>

ProjBlock ==
    /\ proj.pc = "block"
    /\ SetRow(proj.txn, "blocked")
    /\ ProjGoto("save", "blocked")
    /\ UNCHANGED <<decision, otpStore, state, kafka, sub, req, verified, faults>>

ProjOtpStore ==
    /\ proj.pc = "otpStore"
    /\ StoreCode(proj.txn)
    /\ proj' = [proj EXCEPT !.pc = "otpArm", !.code = codes[proj.txn] + 1]
    /\ UNCHANGED <<ledger, decision, state, kafka, sub, req, verified, faults>>

ProjOtpArm ==
    /\ proj.pc = "otpArm"
    /\ ArmCode(proj.txn, proj.code)
    /\ ProjGoto("otpLog", proj.st)
    /\ UNCHANGED <<ledger, decision, state, kafka, sub, req, verified, faults>>

ProjOtpLog ==
    /\ proj.pc = "otpLog"
    /\ LogCode(proj.txn, proj.code)
    /\ ProjGoto("otpRow", proj.st)
    /\ UNCHANGED <<ledger, decision, state, kafka, sub, req, verified, faults>>

ProjOtpRow ==
    /\ proj.pc = "otpRow"
    /\ SetRow(proj.txn, "otp_required")
    /\ ProjGoto("save", "otp_pending")
    /\ UNCHANGED <<decision, otpStore, state, kafka, sub, req, verified, faults>>

\* The except branch around the OTP steps.
ProjOtpError ==
    /\ proj.pc \in {"otpStore", "otpArm", "otpLog", "otpRow"} /\ Fault
    /\ ProjGoto("otpFail", "failed")
    /\ UNCHANGED <<ledger, decision, otpStore, state, kafka, sub, req, verified>>

ProjOtpFail ==
    /\ proj.pc = "otpFail"
    /\ FailTransaction(proj.txn)
    /\ ProjGoto("save", "failed")
    /\ UNCHANGED <<decision, otpStore, state, kafka, sub, req, verified, faults>>

ProjSave ==
    /\ proj.pc = "save"
    /\ state' = [state EXCEPT ![proj.txn] = proj.st]
    /\ proj' = IdleProj
    /\ UNCHANGED <<ledger, decision, otpStore, kafka, sub, req, verified, faults>>

\* Any other exception is logged by the loop and the event is done with.
ProjError ==
    /\ proj.pc \in {"errSave", "errRow", "row", "pass", "block", "otpFail", "save"}
    /\ Fault
    /\ proj' = IdleProj
    /\ UNCHANGED <<ledger, decision, otpStore, state, kafka, sub, req, verified>>

\* enable_auto_commit: a background task commits the position, which has
\* already moved past the event being handled.
AutoCommit ==
    /\ committed < pos
    /\ committed' = pos
    /\ UNCHANGED <<ledger, decision, otpStore, state, topic, pos, orch, runs, sub, proj,
                   req, verified, faults>>

\* The consumer is rebuilt and resumes from the committed offset.
ConsumerRestart ==
    /\ proj.pc = "idle" /\ committed < pos /\ Fault
    /\ pos' = committed
    /\ UNCHANGED <<ledger, decision, otpStore, state, topic, committed, orch, runs, sub,
                   proj, req, verified>>

ProjStep ==
    \/ ProjLoad \/ ProjErrorSave \/ ProjErrorRow \/ ProjReadRow \/ ProjPass \/ ProjBlock
    \/ ProjOtpStore \/ ProjOtpArm \/ ProjOtpLog \/ ProjOtpRow \/ ProjOtpFail \/ ProjSave

-----------------------------------------------------------------------------
(* POST /otp/verify and /otp/resend. *)

Goto(c, pc) == req' = [req EXCEPT ![c].pc = pc]

\* HGETALL; an absent key answers 410 and changes nothing.
VerifyLoad(c, t) ==
    /\ req[c].pc = "idle" /\ challenge[t].live
    /\ req' = [req EXCEPT ![c] =
           [pc |-> "count", txn |-> t, op |-> "verify", code |-> challenge[t].code, st |-> "none"]]
    /\ UNCHANGED <<ledger, decision, otpStore, state, kafka, sub, proj, verified, faults>>

\* Variant: one attempt too many.
VerifyCountOffByOne(c) ==
    /\ req[c].pc = "count"
    /\ LET t == req[c].txn
           n == challenge[t].attempts + 1
       IN /\ challenge' = [challenge EXCEPT ![t].live = TRUE, ![t].attempts = n]
          /\ \/ /\ n > MaxAttempts + 1
                /\ req' = [req EXCEPT ![c].pc = "delete", ![c].op = "lock"]
                /\ UNCHANGED verified
             \/ /\ n <= MaxAttempts + 1
                /\ req' = [req EXCEPT ![c] = IdleReq]
                /\ UNCHANGED verified
    /\ UNCHANGED <<ledger, decision, resends, codes, sent, otpEvents, state, kafka, sub,
                   proj, faults>>

\* HINCRBY, which creates the key when it has gone, then the three outcomes:
\* locked, refused (a wrong code, or no hash in the key that was loaded), right.
VerifyCount(c) ==
    /\ req[c].pc = "count"
    /\ LET t == req[c].txn
           n == challenge[t].attempts + 1
       IN /\ challenge' = [challenge EXCEPT ![t].live = TRUE, ![t].attempts = n]
          /\ \/ /\ n > MaxAttempts
                /\ req' = [req EXCEPT ![c].pc = "delete", ![c].op = "lock"]
                /\ UNCHANGED verified
             \/ /\ n <= MaxAttempts
                /\ req' = [req EXCEPT ![c] = IdleReq]
                /\ UNCHANGED verified
             \/ /\ n <= MaxAttempts /\ req[c].code \in sent[t]
                /\ Goto(c, "delete")
                /\ verified' = [verified EXCEPT ![t] = TRUE]
    /\ UNCHANGED <<ledger, decision, resends, codes, sent, otpEvents, state, kafka, sub,
                   proj, faults>>

ReqDelete(c) ==
    /\ req[c].pc = "delete"
    /\ DeleteKey(req[c].txn)
    /\ Goto(c, "settle")
    /\ UNCHANGED <<ledger, decision, state, kafka, sub, proj, verified, faults>>

\* Variants: the audit row is closed without completing; only a row already
\* marked otp_required is completed.
SettleAuditOnly(c) ==
    /\ req[c].pc = "settle"
    /\ \/ req[c].op = "verify" /\ UNCHANGED ledger /\ Goto(c, "event")
       \/ req[c].op = "lock" /\ FailTransaction(req[c].txn) /\ Goto(c, "load")
    /\ UNCHANGED <<decision, otpStore, state, kafka, sub, proj, verified, faults>>
SettleChallengedRow(c) ==
    /\ req[c].pc = "settle"
    /\ \/ /\ req[c].op = "verify" /\ Goto(c, "event")
          /\ IF row[req[c].txn] = "otp_required"
             THEN CompleteTransaction(req[c].txn) ELSE UNCHANGED ledger
       \/ req[c].op = "lock" /\ FailTransaction(req[c].txn) /\ Goto(c, "load")
    /\ UNCHANGED <<decision, otpStore, state, kafka, sub, proj, verified, faults>>

\* A right code completes the transfer, a lock fails it.
ReqSettle(c) ==
    /\ req[c].pc = "settle"
    /\ \/ req[c].op = "verify" /\ CompleteTransaction(req[c].txn) /\ Goto(c, "event")
       \/ req[c].op = "lock" /\ FailTransaction(req[c].txn) /\ Goto(c, "load")
    /\ UNCHANGED <<decision, otpStore, state, kafka, sub, proj, verified, faults>>

\* HGETALL of a resend; an absent key answers 410.
ResendLoad(c, t) ==
    /\ req[c].pc = "idle" /\ challenge[t].live
    /\ req' = [req EXCEPT ![c] =
           [pc |-> "incr", txn |-> t, op |-> "resend", code |-> challenge[t].code, st |-> "none"]]
    /\ UNCHANGED <<ledger, decision, otpStore, state, kafka, sub, proj, verified, faults>>

\* INCR, then: first resend, limit reached, no account in the key, go on.
ResendCount(c) ==
    /\ req[c].pc = "incr"
    /\ LET t == req[c].txn
           n == resends[t].count + 1
       IN /\ n <= MaxResends + 1
          /\ resends' = [resends EXCEPT ![t].count = n]
          /\ \/ n = 1 /\ Goto(c, "window")
             \/ /\ n # 1 /\ (n > MaxResends \/ req[c].code = 0)
                /\ req' = [req EXCEPT ![c] = IdleReq]
             \/ n # 1 /\ n <= MaxResends /\ req[c].code # 0 /\ Goto(c, "store")
    /\ UNCHANGED <<ledger, decision, challenge, codes, sent, otpEvents, state, kafka, sub,
                   proj, verified, faults>>

\* EXPIRE of the counter, after the first increment only.
ResendWindow(c) ==
    /\ req[c].pc = "window"
    /\ resends' = [resends EXCEPT ![req[c].txn].ttl = TRUE]
    /\ \/ MaxResends >= 1 /\ req[c].code # 0 /\ Goto(c, "store")
       \/ (MaxResends < 1 \/ req[c].code = 0) /\ req' = [req EXCEPT ![c] = IdleReq]
    /\ UNCHANGED <<ledger, decision, challenge, codes, sent, otpEvents, state, kafka, sub,
                   proj, verified, faults>>

ResendStore(c) ==
    /\ req[c].pc = "store"
    /\ StoreCode(req[c].txn)
    /\ req' = [req EXCEPT ![c].pc = "arm", ![c].code = codes[req[c].txn] + 1]
    /\ UNCHANGED <<ledger, decision, state, kafka, sub, proj, verified, faults>>

ResendArm(c) ==
    /\ req[c].pc = "arm"
    /\ ArmCode(req[c].txn, req[c].code)
    /\ Goto(c, "event")
    /\ UNCHANGED <<ledger, decision, state, kafka, sub, proj, verified, faults>>

\* The audit row: inserted by a resend, closed by a right code or a lock.
ReqEvent(c) ==
    /\ req[c].pc = "event"
    /\ \/ req[c].op = "resend" /\ LogCode(req[c].txn, req[c].code) /\ Goto(c, "load")
       \/ req[c].op = "verify" /\ CloseEvents(req[c].txn, "VERIFIED") /\ Goto(c, "load")
       \/ /\ req[c].op = "lock" /\ CloseEvents(req[c].txn, "LOCKED")
          /\ req' = [req EXCEPT ![c] = IdleReq]
    /\ UNCHANGED <<ledger, decision, state, kafka, sub, proj, verified, faults>>

\* Variants: the row's word for paid; the two outcomes swapped.
NewStatusOfRow(op, s) ==
    CASE op = "verify" -> "success" [] op = "lock" -> "failed" [] OTHER -> s
NewStatusSwapped(op, s) ==
    CASE op = "verify" -> "failed" [] op = "lock" -> "completed" [] OTHER -> s

\* What each handler writes into the state it loaded.
NewStatus(op, s) ==
    CASE op = "verify" -> "completed" [] op = "lock" -> "failed" [] OTHER -> s

AfterSave(c) ==
    req' = [req EXCEPT ![c] = IF req[c].op = "lock" THEN [@ EXCEPT !.pc = "event"] ELSE IdleReq]

ReqLoad(c) ==
    /\ req[c].pc = "load"
    /\ LET s == state[req[c].txn]
       IN \/ s = "none" /\ AfterSave(c)
          \/ /\ s # "none"
             /\ req' = [req EXCEPT ![c].pc = "save", ![c].st = NewStatus(req[c].op, s)]
    /\ UNCHANGED <<ledger, decision, otpStore, state, kafka, sub, proj, verified, faults>>

ReqSave(c) ==
    /\ req[c].pc = "save"
    /\ state' = [state EXCEPT ![req[c].txn] = req[c].st]
    /\ AfterSave(c)
    /\ UNCHANGED <<ledger, decision, otpStore, kafka, sub, proj, verified, faults>>

\* A store call raises: 500, the steps already taken stay.
ReqError(c) ==
    /\ req[c].pc # "idle" /\ Fault
    /\ req' = [req EXCEPT ![c] = IdleReq]
    /\ UNCHANGED <<ledger, decision, otpStore, state, kafka, sub, proj, verified>>

ReqStep(c) ==
    \/ VerifyCount(c) \/ ReqDelete(c) \/ ReqSettle(c) \/ ResendCount(c) \/ ResendWindow(c)
    \/ ResendStore(c) \/ ResendArm(c) \/ ReqEvent(c) \/ ReqLoad(c) \/ ReqSave(c)

-----------------------------------------------------------------------------
(* Time and failure. *)

\* Redis expires otp:{id} once it has a TTL, the resend counter likewise, and
\* txn:state after an hour without a write (spent from the fault budget).
ChallengeExpires(t) ==
    /\ challenge[t].live /\ challenge[t].ttl
    /\ DeleteKey(t)
    /\ UNCHANGED <<ledger, decision, state, kafka, sub, proj, req, verified, faults>>

ResendWindowEnds(t) ==
    /\ resends[t].ttl
    /\ resends' = [resends EXCEPT ![t] = [count |-> 0, ttl |-> FALSE]]
    /\ UNCHANGED <<ledger, decision, challenge, codes, sent, otpEvents, state, kafka, sub,
                   proj, req, verified, faults>>

StateExpires(t) ==
    /\ state[t] # "none" /\ Fault
    /\ state' = [state EXCEPT ![t] = "none"]
    /\ UNCHANGED <<ledger, decision, otpStore, kafka, sub, proj, req, verified>>

\* The API process dies: handler-local state is gone, the stores stay, and
\* the projector resumes from the committed offset.
Crash ==
    /\ Fault
    /\ proj' = IdleProj
    /\ req' = [c \in Clients |-> IdleReq]
    /\ sub' = [t \in Txns |-> IF sub[t] = "new" THEN "new" ELSE "done"]
    /\ pos' = committed
    /\ UNCHANGED <<ledger, decision, otpStore, state, topic, committed, orch, runs, verified>>

-----------------------------------------------------------------------------
Next ==
    \/ \E t \in Txns :
          \/ SubmitCheck(t) \/ SubmitStep(t) \/ SubmitPublishError(t) \/ SubmitError(t)
          \/ OrchStart(t) \/ OrchRedeliver(t) \/ OrchLose(t)
          \/ \E d \in Finals : OrchDecide(t, d)
          \/ ChallengeExpires(t) \/ ResendWindowEnds(t) \/ StateExpires(t)
          \/ \E c \in Clients : VerifyLoad(c, t) \/ ResendLoad(c, t)
    \/ \E c \in Clients : ReqStep(c) \/ ReqError(c)
    \/ ProjStep \/ ProjOtpError \/ ProjError
    \/ AutoCommit \/ ConsumerRestart \/ Crash

Spec == Init /\ [][Next]_vars

\* A handler that started and the projector's loop keep running, the broker
\* delivers what was published, and the orchestrator works through its queue.
\* The customer, and every failure, owe nothing.
Fairness ==
    /\ \A t \in Txns : WF_vars(SubmitStep(t)) /\ WF_vars(OrchStart(t))
                       /\ WF_vars(\E d \in Finals : OrchDecide(t, d))
    /\ \A c \in Clients : WF_vars(ReqStep(c))
    /\ WF_vars(ProjStep)

FairSpec == Spec /\ Fairness

-----------------------------------------------------------------------------
(* Properties. *)

ProjPc == {"idle", "errSave", "errRow", "row", "pass", "block", "otpStore", "otpArm",
           "otpLog", "otpRow", "otpFail", "save"}
ReqPc  == {"idle", "count", "delete", "settle", "incr", "window", "store", "arm",
           "event", "load", "save"}

LedgerType ==
    /\ row \in [Txns -> RowStatus]
    /\ balance \in [Accounts -> Int]
    /\ debits \in [Txns -> Nat] /\ reverted \in [Txns -> Nat]

OtpType ==
    /\ challenge \in [Txns -> [live : BOOLEAN, code : 0..MaxCodes, attempts : Nat,
                               ttl : BOOLEAN]]
    /\ resends \in [Txns -> [count : 0..(MaxResends + 1), ttl : BOOLEAN]]
    /\ codes \in [Txns -> 0..MaxCodes]
    /\ sent \in [Txns -> SUBSET (1..MaxCodes)]
    /\ otpEvents \in [Txns -> [1..MaxCodes -> {"none", "SENT", "VERIFIED", "LOCKED"}]]

KafkaType ==
    /\ topic \in Seq([txn : Txns, kind : Kinds])
    /\ pos \in 0..Len(topic) /\ committed \in 0..pos
    /\ orch \in [Txns -> {"none", "queued", "running", "done"}]
    /\ runs \in [Txns -> Nat]

SubType == sub \in [Txns -> {"new", "checked", "inserted", "cached", "failing", "done"}]

ProjType ==
    /\ proj \in [pc : ProjPc, txn : Txns \cup {NoTxn}, kind : Kinds, st : StateStatus,
                 code : 0..MaxCodes]
    /\ proj.pc # "idle" => proj.txn \in Txns
    /\ proj.pc = "row" => proj.kind \in Decisions
    /\ proj.pc \in {"otpArm", "otpLog"} => proj.code # 0

ReqType ==
    \A c \in Clients :
        /\ req[c] \in [pc : ReqPc, txn : Txns \cup {NoTxn},
                       op : {"none", "verify", "lock", "resend"},
                       code : 0..MaxCodes, st : StateStatus]
        /\ req[c].pc # "idle" => req[c].txn \in Txns
        /\ req[c].pc = "arm" \/ (req[c].pc = "event" /\ req[c].op = "resend")
              => req[c].code # 0

\* Every variable has its type, a busy process works on a transfer, and one
\* that is issuing a code holds it.
TypeOK ==
    /\ LedgerType /\ OtpType /\ KafkaType /\ SubType /\ ProjType
    /\ ReqType /\ req = [c \in Clients |-> req[c]]
    /\ state \in [Txns -> StateStatus]
    /\ decision \in [Txns -> Decisions \cup {"none"}]
    /\ verified \in [Txns -> BOOLEAN]
    /\ faults \in 0..MaxFaults

Published(t, k) == [txn |-> t, kind |-> k] \in {topic[i] : i \in DOMAIN topic}

\* Exact account of the debits of a transfer, whatever interleaves with
\* complete_transaction: the row is 'success' once for every debit that no
\* later UPDATE overwrote, so the account is charged twice only if some
\* handler took the row away from 'success' in between.
DebitAccounting ==
    \A t \in Txns : debits[t] = reverted[t] + (IF row[t] = "success" THEN 1 ELSE 0)

\* Money leaves an account only for a transfer that a PASS decision or an
\* accepted one-time code authorised; a code is accepted only for a transfer
\* with an OTP decision.  So BLOCK and ERROR alone never debit, over every
\* redelivery, crash and race of the projector with the OTP handlers.
DebitJustified ==
    \A t \in Txns :
        /\ debits[t] > 0 => verified[t] \/ Published(t, "PASS")
        /\ verified[t] => Published(t, "OTP")

\* "Triggered ONLY by the state projector after synthesis returns an OTP
\* decision": no code exists for a transfer before its OTP decision, and one
\* that reached the customer was generated.
CodesFollowDecision ==
    \A t \in Txns :
        /\ codes[t] > 0 => Published(t, "OTP")
        /\ sent[t] \subseteq 1..codes[t]
        /\ challenge[t].code <= codes[t]

\* An audit row says VERIFIED only after the debit it stands for happened,
\* and LOCKED only for a transfer that was challenged.
AuditFollowsDebit ==
    \A t \in Txns : \A n \in 1..MaxCodes :
        /\ otpEvents[t][n] = "VERIFIED" => debits[t] > 0
        /\ otpEvents[t][n] # "none" => n <= codes[t]

\* What must have happened before status s may be written for transfer t.
Cause(t, s) ==
    /\ s = "otp_pending" => codes[t] > 0
    /\ s = "blocked" => Published(t, "BLOCK")
    /\ s = "completed" => \E d \in Decisions : Published(t, d)
    /\ s = "failed" => Published(t, "ERROR") \/ Published(t, "OTP")

\* What the status endpoint reports has a cause in the topic or in the OTP
\* handlers, although each writer saves a copy it loaded earlier.
StateJustified == \A t \in Txns : Cause(t, state[t])

\* GET /transfers/{id}/status: the cached state, or the row when Redis lost it.
OfRow(s) ==
    CASE s = "pending" -> "processing" [] s = "otp_required" -> "otp_pending"
      [] s = "success" -> "completed" [] OTHER -> s
Status(t) == IF state[t] = "none" THEN OfRow(row[t]) ELSE state[t]

\* When every decision is handled once, the customer is told "completed" only
\* for a transfer that was paid.
CompletedMeansPaid == \A t \in Txns : Status(t) = "completed" => debits[t] > 0

\* When every decision is handled once, the row's lifecycle stage and its
\* decision column agree, whoever moved the row last.
RowMatchesDecision ==
    \A t \in Txns :
        /\ row[t] = "blocked" => decision[t] = "BLOCK"
        /\ row[t] = "success" => decision[t] \in {"PASS", "OTP"}
        /\ row[t] = "otp_required" => decision[t] = "OTP"

\* An exhausted attempt counter is always on its way out: for every attempt
\* past MAX_ATTEMPTS some request has yet to delete the key.
LockerPending ==
    \A t \in Txns :
        challenge[t].attempts <= MaxAttempts + Cardinality(
            {c \in Clients : req[c].txn = t /\ req[c].op = "lock" /\ req[c].pc = "delete"})

\* A transfer is debited at most once.
AtMostOneDebit == \A t \in Txns : debits[t] <= 1

\* An account's balance only moves by one transfer's amount at a time, in the
\* step that makes that transfer's row 'success'.
DebitIsAtomic ==
    [][\A a \in Accounts : balance'[a] # balance[a] =>
          \E t \in Txns :
              /\ AccountOf[t] = a /\ balance'[a] = balance[a] - Amount[t]
              /\ row[t] # "success" /\ row'[t] = "success"
              /\ debits' = [debits EXCEPT ![t] = @ + 1]]_vars

\* The projected status is "forward-only": a terminal status is final (until
\* its key expires), for a transfer the projector never opened a challenge for.
ForwardOnly ==
    [][\A t \in Txns : state[t] \in Terminal /\ codes[t] = 0
                          => state'[t] \in {state[t], "none"}]_vars

\* "Too many incorrect attempts. Transaction cancelled.": a transfer evaluated
\* once that was cancelled or failed is not paid afterwards.
FailedStaysUnpaid ==
    [][\A t \in Txns : runs[t] <= 1 /\ row[t] = "failed" => row'[t] # "success"]_vars

\* An account that can afford each transfer it is asked for stays solvent.
NoOverdraft == \A a \in Accounts : balance[a] >= 0

\* Every submitted transfer gets its verdict and the poller stops seeing
\* "processing" for good, unless a code was sent again: a resend that read the
\* state before the projector saved it writes "processing" back.
VerdictShown ==
    \A t \in Txns : row[t] = "pending" ~> [](Status(t) # "processing" \/ codes[t] > 1)

\* A code the service accepted pays the transfer.
AcceptedCodePays == \A t \in Txns : verified[t] ~> debits[t] > 0

\* A transfer is authorised by a PASS decision or by an accepted code.
Ledger == INSTANCE PaymentLedger WITH
    funds      <- balance,
    authorized <- {t \in Txns : verified[t] \/ Published(t, "PASS")},
    charged    <- {t \in Txns : debits[t] > 0}

\* The settlement implements the ledger: authorised first, charged once.
ImplementsLedger == Ledger!LedgerSpec
=============================================================================
