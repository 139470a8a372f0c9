-------------------------------- MODULE Console --------------------------------
(***************************************************************************)
(* What is told about one decided transaction, in four places: the         *)
(* analysis on its row, which the projector puts together from the events  *)
(* it accumulated; the entry of the transaction log and the reason of the  *)
(* challenge, made of the same events; and the audit row of the            *)
(* orchestrator behind GET /verdicts.  The orchestrator may be stopped and *)
(* evaluate again, the projector may be sent back to its committed offset. *)
(* A handler is one step here, and the requests of the customer do not     *)
(* write the state back: both are TransferSettlement's.                    *)
(***************************************************************************)
EXTENDS Synthesis, Sequences

CONSTANTS
    Panel,        \* the agents that are up, a subset of FUSION_AGENTS
    PanelScores,  \* risks they may report, in percent
    Silent,       \* an outcome without a score
    Requested,    \* transactions: [amount, minute of the Kathmandu day, type]
    MaxRuns       \* bound: evaluations of the transaction

ASSUME ConsoleAssumption ==
    /\ Panel \subseteq Agents /\ PanelScores \subseteq 0..100 /\ Silent \notin PanelScores
    /\ \A t \in Requested : t.amount \in Nat /\ t.minute \in 0..1439
    /\ MaxRuns \in Nat

VARIABLES
    about,     \* the transaction
    ran,       \* the evaluations: agent -> its risk or Silent
    phase,     \* where the newest evaluation stands
    stream,    \* the topic: [kind, run]
    auditRows, \* evaluations with a synthesis_audit row, oldest first
    reading,   \* the projector's position
    rewound,   \* it was sent back to a committed offset (bound: once, and not
               \* when the evaluation is repeated; both together mix evaluations)
    held,      \* txn:state: whose payload it holds of each agent and of synthesis
    appRow,    \* app_transactions and the challenge
    logEntries     \* transactions_logs.json

consoleVars == <<about, ran, phase, stream, auditRows, reading, rewound, held, appRow,
                 logEntries>>
orchestrating == <<about, ran, phase, stream, auditRows>>
projecting    == <<about, reading, rewound, held, appRow, logEntries>>

-----------------------------------------------------------------------------
(* What an evaluation concludes, and how it is worded. *)

Told(n) == {a \in DOMAIN ran[n] : ran[n][a] # Silent}
Reports(n) == [a \in Told(n) |-> [risk |-> ran[n][a], conf |-> 100]]
Concludes(n) == Synthesise(Reports(n), MapTxnType(about.type), DefaultConfig)
PatternOf(n) == Pattern(Reports(n))

\* otp_forced_by_disagreement.
Forced(n) ==
    LET w == Blend(MapTxnType(about.type), PatternOf(n))
    IN ScoreBelow(Reports(n), w, DefaultConfig.low)
       /\ Disagree(Reports(n), DefaultConfig.disagreement)

\* An absent agent is reported with weight 0.
WeightsApplied(n) ==
    LET w == Blend(MapTxnType(about.type), PatternOf(n))
    IN [a \in Agents |-> IF a \in Told(n) THEN w[a] ELSE 0]
NoWeights == [a \in Agents |-> 0]

FlagFromScore(score) ==
    CASE score >= 85               -> "CRITICAL"
      [] score \in 60..84          -> "HIGH"
      [] score \in 30..59          -> "MEDIUM"
      [] OTHER                     -> "LOW"

PatternToFraudType ==
    [fraud_ring |-> "FRAUD_RING", money_laundering |-> "MONEY_MULE",
     rapid_transfers |-> "SMURFING", novel_pattern |-> "none"]

DecisionToTrackB == [PASS |-> "ALLOW", OTP |-> "OTP_ONLY", BLOCK |-> "BLOCK"]

BaselineRuleDecision(amount, hour) ==
    CASE amount >= 500000 -> "BLOCK"
      [] amount < 500000 /\ (amount >= 100000 \/ hour < 6 \/ hour >= 22) -> "OTP"
      [] OTHER -> "PASS"

\* The local hour of the state; the row's timestamp is UTC, 5 h 45 min behind.
LocalHour == about.minute \div 60
RowHour   == ((about.minute + 1440 - 345) % 1440) \div 60

-----------------------------------------------------------------------------
(* The views. *)

\* The flag of every agent whose payload in the state has a score.
HeldFlags(h) ==
    [a \in {b \in DOMAIN h.agents : b \in Told(h.agents[b])} |->
        FlagFromScore(ran[h.agents[a]][a])]
HeldWeights(h) == IF h.synthesis = 0 THEN NoWeights ELSE WeightsApplied(h.synthesis)

\* build_fraud_analysis, for the final_decision of evaluation n.
BuildFraudAnalysis(h, n) ==
    LET decision == Concludes(n)
        type     == PatternToFraudType[PatternOf(n)]
        baseline == BaselineRuleDecision(about.amount, LocalHour)
    IN [agents    |-> HeldFlags(h),
        weights   |-> HeldWeights(h),
        decision  |-> decision,
        pattern   |-> IF decision = "PASS" THEN "none" ELSE PatternOf(n),
        fraudType |-> CASE decision = "PASS"                     -> "none"
                        [] decision = "BLOCK" /\ type = "none"   -> "ACCOUNT_TAKEOVER"
                        [] OTHER                                 -> type,
        baseline  |-> baseline,
        correct   |-> baseline = decision]

\* build_txn_log_entry: every agent has a block, "N/A" without a score.
BuildTxnLogEntry(h, n) ==
    LET flags == HeldFlags(h)
        baseline == BaselineRuleDecision(about.amount, LocalHour)
    IN [run      |-> n,
        agents   |-> [a \in Agents |-> IF a \in DOMAIN flags THEN flags[a] ELSE "N/A"],
        weights  |-> HeldWeights(h),
        decision |-> DecisionToTrackB[Concludes(n)],
        baseline |-> DecisionToTrackB[baseline],
        correct  |-> baseline = Concludes(n)]

\* audit_row_to_model_verdict, of the audit row of evaluation n.
ModelVerdict(n) ==
    LET baseline == BaselineRuleDecision(about.amount, RowHour)
    IN [agents    |-> [a \in Told(n) |-> FlagFromScore(ran[n][a])],
        weights   |-> WeightsApplied(n),
        decision  |-> IF Concludes(n) = "BLOCK" /\ Forced(n)
                      THEN "BLOCK_AND_OTP" ELSE DecisionToTrackB[Concludes(n)],
        fraudType |-> IF Concludes(n) = "PASS"
                      THEN "none" ELSE PatternToFraudType[PatternOf(n)],
        baseline  |-> DecisionToTrackB[baseline],
        correct   |-> baseline = Concludes(n)]

\* _otp_trigger_reason: the loudest agent in the state.
TriggerReasons(h, n) ==
    LET scored == {a \in DOMAIN h.agents : a \in Told(h.agents[a])}
        risk(a) == ran[h.agents[a]][a]
    IN CASE Forced(n)                   -> {"AGENT_DISAGREEMENT"}
         [] ~Forced(n) /\ scored = {}   -> {"ELEVATED_RISK"}
         [] OTHER -> {a \in scored : \A b \in scored : risk(b) <= risk(a)}

-----------------------------------------------------------------------------
(* The orchestrator. *)

NoAnalysis == [decision |-> "none"]

ConsoleInit ==
    /\ about \in Requested
    /\ ran = <<>> /\ phase = "idle" /\ stream = <<>> /\ auditRows = <<>>
    /\ reading = 0 /\ rewound = FALSE
    /\ held = [agents |-> <<>>, synthesis |-> 0, status |-> "processing"]
    /\ appRow = [status |-> "pending", shown |-> NoAnalysis, run |-> 0,
                 reason |-> "none", challenged |-> 0]
    /\ logEntries = <<>>

Published(kind) == stream' = Append(stream, [kind |-> kind, run |-> Len(ran)])

\* transaction_received, for the first time or again.
RunBegins ==
    /\ phase = "idle" /\ Len(ran) < MaxRuns /\ (Len(ran) = 0 \/ ~rewound)
    /\ ran' = Append(ran, <<>>) /\ phase' = "gather"
    /\ UNCHANGED <<projecting, stream, auditRows>>

\* An agent comes back and its completion is published, with or without a score.
AgentDone(a) ==
    /\ phase = "gather" /\ a \notin DOMAIN ran[Len(ran)]
    /\ \E s \in PanelScores \cup {Silent} :
           ran' = [ran EXCEPT ![Len(ran)] =
                      [b \in DOMAIN @ \cup {a} |-> IF b = a THEN s ELSE @[b]]]
    /\ Published(a)
    /\ UNCHANGED <<projecting, phase, auditRows>>

Fuses ==
    /\ phase = "gather" /\ DOMAIN ran[Len(ran)] = Panel
    /\ \/ Told(Len(ran)) = {} /\ Published("ERROR") /\ phase' = "idle"
       \/ Told(Len(ran)) # {} /\ Published("synthesis") /\ phase' = "final"
    /\ UNCHANGED <<projecting, ran, auditRows>>

Decides ==
    /\ phase = "final" /\ phase' = "audit" /\ Published("final")
    /\ UNCHANGED <<projecting, ran, auditRows>>

\* write_pipeline_audit, best-effort.
Audits ==
    /\ phase = "audit" /\ phase' = "idle"
    /\ auditRows' \in {auditRows, Append(auditRows, Len(ran))}
    /\ UNCHANGED <<projecting, ran, stream>>

RunStops ==
    /\ phase # "idle" /\ phase' = "idle"
    /\ UNCHANGED <<projecting, ran, stream, auditRows>>

-----------------------------------------------------------------------------
(* The projector. *)

Over == held.status \in {"completed", "blocked", "failed"}

Advances == reading < Len(stream) /\ reading' = reading + 1
Event == stream[reading + 1]

SkipsEvent ==
    /\ Advances /\ Over
    /\ UNCHANGED <<orchestrating, rewound, held, appRow, logEntries>>

\* Variant: a payload without a score is not kept.
TakesScore ==
    /\ Advances /\ ~Over /\ Event.kind \in Agents
    /\ held' = IF Event.kind \in Told(Event.run)
               THEN [held EXCEPT !.agents = [a \in DOMAIN @ \cup {Event.kind} |->
                                      IF a = Event.kind THEN Event.run ELSE @[a]]]
               ELSE held
    /\ UNCHANGED <<orchestrating, rewound, appRow, logEntries>>

\* A completion replaces what the state held of that agent, whatever its status.
TakesAgent ==
    /\ Advances /\ ~Over /\ Event.kind \in Agents
    /\ held' = [held EXCEPT !.agents = [a \in DOMAIN @ \cup {Event.kind} |->
                                           IF a = Event.kind THEN Event.run ELSE @[a]]]
    /\ UNCHANGED <<orchestrating, rewound, appRow, logEntries>>

TakesSynthesis ==
    /\ Advances /\ ~Over /\ Event.kind = "synthesis"
    /\ held' = [held EXCEPT !.synthesis = Event.run]
    /\ UNCHANGED <<orchestrating, rewound, appRow, logEntries>>

TakesError ==
    /\ Advances /\ ~Over /\ Event.kind = "ERROR"
    /\ held' = [held EXCEPT !.status = "failed"]
    /\ appRow' = [appRow EXCEPT !.status = IF @ = "success" THEN @ ELSE "failed"]
    /\ UNCHANGED <<orchestrating, rewound, logEntries>>

After == [PASS |-> "success", OTP |-> "otp_required", BLOCK |-> "blocked"]
Reported == [PASS |-> "completed", OTP |-> "otp_pending", BLOCK |-> "blocked"]

\* Log entry, analysis on the row and, while the row is pending, what follows from
\* the decision.
TakesFinal ==
    /\ Advances /\ ~Over /\ Event.kind = "final"
    /\ LET n == Event.run
           decision == Concludes(n)
           analysed == [appRow EXCEPT !.shown = BuildFraudAnalysis(held, n), !.run = n]
       IN /\ logEntries' = Append(logEntries, BuildTxnLogEntry(held, n))
          /\ \/ /\ appRow.status # "pending" /\ appRow' = analysed
                /\ held' = [held EXCEPT !.status = "completed"]
             \/ /\ appRow.status = "pending"
                /\ held' = [held EXCEPT !.status = Reported[decision]]
                /\ \/ /\ decision # "OTP"
                      /\ appRow' = [analysed EXCEPT !.status = After[decision]]
                   \/ /\ decision = "OTP"
                      /\ \E why \in TriggerReasons(held, n) :
                             appRow' = [analysed EXCEPT !.status = After[decision],
                                                        !.reason = why, !.challenged = n]
    /\ UNCHANGED <<orchestrating, rewound>>

\* Postgres fails the handler: the loop logs it and goes on.
FinalFails ==
    /\ Advances /\ ~Over /\ Event.kind = "final"
    /\ logEntries' \in {logEntries, Append(logEntries, BuildTxnLogEntry(held, Event.run))}
    /\ UNCHANGED <<orchestrating, rewound, held, appRow>>

\* The challenge is answered, or given up.
Resolves ==
    /\ held.status = "otp_pending" /\ appRow.status = "otp_required"
    /\ \/ appRow' = [appRow EXCEPT !.status = "success"]
          /\ held' = [held EXCEPT !.status = "completed"]
       \/ appRow' = [appRow EXCEPT !.status = "failed"]
          /\ held' = [held EXCEPT !.status = "failed"]
    /\ UNCHANGED <<orchestrating, reading, rewound, logEntries>>

\* The consumer rejoins at the offset it committed, at whatever record that was.
Rewinds ==
    /\ ~rewound /\ Len(ran) <= 1
    /\ rewound' = TRUE /\ reading' \in 0..(reading - 1)
    /\ UNCHANGED <<orchestrating, held, appRow, logEntries>>

ConsoleNext ==
    \/ RunBegins \/ Fuses \/ Decides \/ Audits \/ RunStops
    \/ \E a \in Panel : AgentDone(a)
    \/ SkipsEvent \/ TakesAgent \/ TakesSynthesis \/ TakesError \/ TakesFinal
    \/ FinalFails \/ Resolves \/ Rewinds

-----------------------------------------------------------------------------
(* Properties. *)

\* The analysis and the verdict of the audit row: the audit knows no account takeover.
SameVerdict(shown, v) ==
    /\ v.agents = shown.agents /\ v.weights = shown.weights
    /\ v.decision = DecisionToTrackB[shown.decision]
    /\ \/ v.fraudType = shown.fraudType
       \/ shown.fraudType = "ACCOUNT_TAKEOVER" /\ v.fraudType = "none"

SameEntry(shown, e) ==
    /\ DOMAIN shown.agents = {a \in Agents : e.agents[a] # "N/A"}
    /\ \A a \in DOMAIN shown.agents : e.agents[a] = shown.agents[a]
    /\ e.weights = shown.weights /\ e.decision = DecisionToTrackB[shown.decision]
    /\ e.baseline = DecisionToTrackB[shown.baseline] /\ e.correct = shown.correct

\* However many evaluations were begun, stopped or repeated, a decision is told as
\* one story: the analysis on the row, the log entry and the audit row of the
\* evaluation that decided name the same agents with the same flags, the same weights
\* and the same decision, and the challenge names one of its loudest agents.
OneStory ==
    /\ appRow.run # 0 =>
        /\ \A i \in DOMAIN auditRows : auditRows[i] = appRow.run
               => SameVerdict(appRow.shown, ModelVerdict(appRow.run))
        /\ \A i \in DOMAIN logEntries : logEntries[i].run = appRow.run
               => SameEntry(appRow.shown, logEntries[i])
    /\ appRow.challenged # 0 =>
        \/ appRow.reason \in Loudest(Reports(appRow.challenged))
        \/ appRow.reason = "AGENT_DISAGREEMENT" /\ Forced(appRow.challenged)
=============================================================================
