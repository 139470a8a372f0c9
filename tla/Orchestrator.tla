------------------------------ MODULE Orchestrator ------------------------------
(***************************************************************************)
(* The pipeline orchestrator: the process that consumes fraud-events, fans *)
(* each transaction_received out to the fusion agents, publishes what they *)
(* and the synthesis conclude back to the topic and writes the audit row,  *)
(* with the consumer-group offsets that decide what a restart handles      *)
(* again.  One action is the code between two awaits; the agents of a      *)
(* transaction interleave (asyncio.gather), the transactions do not.       *)
(***************************************************************************)
EXTENDS Integers, Sequences, FiniteSets

CONSTANTS
    Txns,        \* transactions submitted to the pipeline
    Agents,      \* FUSION_AGENTS
    NoTxn,
    Decisions,   \* PASS, OTP, BLOCK: the orchestrator never tells them apart
    KnownGroup,  \* the consumer group has a committed offset from an earlier life
    MaxFaults    \* bound: failed calls and kills

ASSUME OrchestratorAssumption ==
    /\ NoTxn \notin Txns /\ IsFiniteSet(Txns)
    /\ IsFiniteSet(Agents)
    /\ Decisions \cap (Agents \cup {"ERROR", "received", "synthesis", "none"}) = {}
    /\ Agents \cap {"ERROR", "received", "synthesis"} = {}
    /\ KnownGroup \in BOOLEAN /\ MaxFaults \in Nat

VARIABLES
    log,       \* the topic: records [txn, kind, ok]
    pos,       \* the consumer's position
    committed, \* the group's committed offset, -1 when there is none
    pc,        \* the process: down, or where its loop is
    txn,       \* the transaction in hand
    outcome,   \* what each agent came back with
    announced, \* agents whose completion event is published
    verdict,   \* what fuse returned
    audited,   \* transactions with a synthesis_audit row
    faults

vars == <<log, pos, committed, pc, txn, outcome, announced, verdict, audited, faults>>
run  == <<txn, outcome, announced, verdict>>

Finals    == Decisions \cup {"ERROR"}
Kinds     == Finals \cup Agents \cup {"received", "synthesis"}

Record(t, k, ok) == [txn |-> t, kind |-> k, ok |-> ok]
Fresh == [a \in Agents |-> "running"]

Init ==
    /\ log = <<>> /\ pos = 0
    /\ committed = IF KnownGroup THEN 0 ELSE -1
    /\ pc = "down" /\ txn = NoTxn /\ outcome = Fresh /\ announced = {}
    /\ verdict = "none" /\ audited = {} /\ faults = 0

\* What handle_transaction held is gone when it returns or the process dies.
Forget == txn' = NoTxn /\ outcome' = Fresh /\ announced' = {} /\ verdict' = "none"

Fault == faults < MaxFaults /\ faults' = faults + 1

\* POST /transfer or /pipeline/submit publishes a transaction.
Submit(t) ==
    /\ \A i \in DOMAIN log : log[i].txn # t
    /\ log' = Append(log, Record(t, "received", TRUE))
    /\ UNCHANGED <<pos, committed, pc, run, audited, faults>>

\* Variant: always from the end of the log.
StartAtEnd ==
    /\ pc = "down" /\ pc' = "poll" /\ pos' = Len(log)
    /\ UNCHANGED <<log, committed, run, audited, faults>>

\* The process comes up; without a committed offset it starts at the end.
Start ==
    /\ pc = "down"
    /\ pos' = IF committed = -1 THEN Len(log) ELSE committed
    /\ pc' = "poll"
    /\ UNCHANGED <<log, committed, run, audited, faults>>

\* Take the next record; only a transaction_received is acted on.
Poll ==
    /\ pc = "poll" /\ pos < Len(log)
    /\ pos' = pos + 1
    /\ LET e == log[pos + 1]
       IN \/ e.kind # "received" /\ UNCHANGED <<pc, run>>
          \/ /\ e.kind = "received"
             /\ pc' = "gather" /\ txn' = e.txn /\ outcome' = Fresh /\ announced' = {}
             /\ verdict' = "none"
    /\ UNCHANGED <<log, committed, audited, faults>>

\* run_*: the agent scores, or abstains (unavailable, skipped, not found, error).
AgentReturns(a, o) ==
    /\ pc \in {"gather", "stopping"} /\ outcome[a] = "running"
    /\ outcome' = [outcome EXCEPT ![a] = o]
    /\ UNCHANGED <<log, pos, committed, pc, txn, announced, verdict, audited, faults>>

\* Variant: an agent that abstains publishes nothing.
AgentAnnouncesScore(a) ==
    /\ pc \in {"gather", "stopping"} /\ outcome[a] = "scored" /\ a \notin announced
    /\ log' = Append(log, Record(txn, a, TRUE))
    /\ announced' = announced \cup {a}
    /\ UNCHANGED <<pos, committed, pc, txn, outcome, verdict, audited, faults>>

\* Its *_completed event; a failed gather leaves the other agents running.
AgentAnnounces(a) ==
    /\ pc \in {"gather", "stopping"} /\ outcome[a] \in {"scored", "abstained"}
    /\ a \notin announced
    /\ log' = Append(log, Record(txn, a, outcome[a] = "scored"))
    /\ announced' = announced \cup {a}
    /\ UNCHANGED <<pos, committed, pc, txn, outcome, verdict, audited, faults>>

\* Variant: the first completion ends the wait.
FuseEarly ==
    /\ pc = "gather" /\ announced # {}
    /\ \/ /\ \E a \in Agents : outcome[a] = "scored"
          /\ \E d \in Decisions : verdict' = d
          /\ pc' = "synthesis"
       \/ /\ \A a \in Agents : outcome[a] # "scored"
          /\ verdict' = "ERROR" /\ pc' = "final"
    /\ UNCHANGED <<log, pos, committed, txn, outcome, announced, audited, faults>>

\* gather is complete: fuse what scored, or report that nothing did.
Fuse ==
    /\ pc = "gather" /\ announced = Agents
    /\ \/ /\ \E a \in Agents : outcome[a] = "scored"
          /\ \E d \in Decisions : verdict' = d
          /\ pc' = "synthesis"
       \/ /\ \A a \in Agents : outcome[a] # "scored"
          /\ verdict' = "ERROR" /\ pc' = "final"
    /\ UNCHANGED <<log, pos, committed, txn, outcome, announced, audited, faults>>

PublishSynthesis ==
    /\ pc = "synthesis"
    /\ log' = Append(log, Record(txn, "synthesis", TRUE))
    /\ pc' = "final"
    /\ UNCHANGED <<pos, committed, run, audited, faults>>

\* Variant: the publish is retried after it succeeded.
PublishFinalAgain ==
    /\ pc = "final" /\ Len(log) < 8
    /\ log' = Append(log, Record(txn, verdict, TRUE))
    /\ \/ UNCHANGED <<pc, run>>
       \/ verdict = "ERROR" /\ pc' = "poll" /\ Forget
       \/ verdict # "ERROR" /\ pc' = "audit" /\ UNCHANGED run
    /\ UNCHANGED <<pos, committed, audited, faults>>

\* final_decision; an ERROR has nothing to audit.
PublishFinal ==
    /\ pc = "final"
    /\ log' = Append(log, Record(txn, verdict, TRUE))
    /\ \/ verdict = "ERROR" /\ pc' = "poll" /\ Forget
       \/ verdict # "ERROR" /\ pc' = "audit" /\ UNCHANGED run
    /\ UNCHANGED <<pos, committed, audited, faults>>

\* write_pipeline_audit swallows its failure.
Audit ==
    /\ pc = "audit" /\ pc' = "poll"
    /\ \/ audited' = audited \cup {txn} /\ UNCHANGED faults
       \/ UNCHANGED audited /\ Fault
    /\ Forget
    /\ UNCHANGED <<log, pos, committed>>

\* An agent raises what run_* does not catch, or its publish fails, with or
\* without the record reaching the topic.
AgentRaises(a) ==
    /\ pc = "gather" /\ a \notin announced /\ Fault
    /\ pc' = "stopping"
    /\ \/ UNCHANGED <<log, announced>>
       \/ /\ outcome[a] # "running" /\ announced' = announced \cup {a}
          /\ log' = Append(log, Record(txn, a, outcome[a] = "scored"))
    /\ outcome' = [outcome EXCEPT ![a] = "raised"]
    /\ UNCHANGED <<pos, committed, txn, verdict, audited>>

PublishRaises ==
    /\ pc \in {"synthesis", "final"} /\ Fault
    /\ pc' = "stopping"
    /\ \/ UNCHANGED log
       \/ log' = Append(log, Record(txn, IF pc = "synthesis" THEN "synthesis" ELSE verdict, TRUE))
    /\ UNCHANGED <<pos, committed, run, audited>>

\* The exception leaves run(): consumer.stop() may commit the position, which
\* is already past the transaction in hand, and the process exits.
Stop ==
    /\ pc = "stopping"
    /\ pc' = "down" /\ committed' \in {committed, pos} /\ Forget
    /\ UNCHANGED <<log, pos, audited, faults>>

\* The process is killed where it stands.
Kill ==
    /\ pc # "down" /\ Fault
    /\ pc' = "down" /\ Forget
    /\ UNCHANGED <<log, pos, committed, audited>>

\* enable_auto_commit: the position, whether or not its record is dealt with.
AutoCommit ==
    /\ pc # "down" /\ committed # pos
    /\ committed' = pos
    /\ UNCHANGED <<log, pos, pc, run, audited, faults>>

Agent(a) == (\E o \in {"scored", "abstained"} : AgentReturns(a, o)) \/ AgentAnnounces(a)

Loop == Start \/ Poll \/ Fuse \/ PublishSynthesis \/ PublishFinal \/ Audit \/ Stop

Next ==
    \/ \E t \in Txns : Submit(t)
    \/ Loop
    \/ \E a \in Agents : Agent(a) \/ AgentRaises(a)
    \/ PublishRaises \/ Kill \/ AutoCommit

Spec == Init /\ [][Next]_vars

\* The process is restarted whenever it is down, its loop and each agent of the
\* transaction in hand keep running; nothing else is owed.
Fairness == WF_vars(Loop) /\ \A a \in Agents : WF_vars(Agent(a))

FairSpec == Spec /\ Fairness

-----------------------------------------------------------------------------
(* Properties. *)

Entry == [txn : Txns, kind : Kinds, ok : BOOLEAN]

\* Every variable has its type, and a transaction is in hand exactly while the
\* process is neither down nor polling.
TypeOK ==
    /\ log \in Seq(Entry)
    /\ pos \in 0..Len(log) /\ committed \in -1..Len(log)
    /\ pc \in {"down", "poll", "gather", "synthesis", "final", "audit", "stopping"}
    /\ txn \in Txns \cup {NoTxn}
    /\ outcome \in [Agents -> {"running", "scored", "abstained", "raised"}]
    /\ announced \subseteq Agents
    /\ verdict \in Finals \cup {"none"}
    /\ audited \subseteq Txns
    /\ faults \in 0..MaxFaults
    /\ pc \in {"down", "poll"} <=> txn = NoTxn
    /\ pc \in {"synthesis", "final", "audit"} => verdict # "none"

\* What the pipeline published about t from position b up to, not including, p.
Published(t, b, p) == {i \in b..(p - 1) : log[i].txn = t /\ log[i].kind # "received"}

\* Each decision closes a whole run of its own, also after aborted runs left
\* their events behind: going back from it there is exactly one completion of
\* every agent and then, unless none of them scored, the synthesis; ERROR is
\* published exactly when none scored.
ClosesRun(b, p) ==
    LET own == Published(log[p].txn, b, p)
        fan == {i \in own : log[i].kind \in Agents}
    IN /\ \A a \in Agents : \E i \in fan : \A j \in fan : log[j].kind = a <=> j = i
       /\ \A i \in own \ fan : log[i].kind = "synthesis" /\ \A j \in own : j <= i
       /\ log[p].kind = "ERROR" <=> own = fan
       /\ log[p].kind = "ERROR" <=> \A i \in fan : ~log[i].ok
DecisionClosesRun ==
    \A p \in DOMAIN log : log[p].kind \in Finals => \E b \in 1..p : ClosesRun(b, p)

FinalsOf(t) == {i \in DOMAIN log : log[i].txn = t /\ log[i].kind \in Finals}
Received(t, i) == log[i].txn = t /\ log[i].kind = "received"

\* A transaction is decided once, and once more at most for every failure.
FewDecisions == \A t \in Txns : Cardinality(FinalsOf(t)) <= 1 + faults

\* Received, behind the point the consumer reads or will resume from, without a
\* decision and not being worked on: nobody will decide it any more.
Lost ==
    {t \in Txns :
        /\ \E i \in 1..(IF pc = "down" THEN committed ELSE pos) : Received(t, i)
        /\ FinalsOf(t) = {} /\ txn # t}

\* Each failure costs at most the transaction in hand, however far commits lag
\* behind or run ahead (for a group that already has an offset).
OneLossPerFailure == KnownGroup => Cardinality(Lost) <= faults

\* Whoever was received is decided in the end, also by agents that all abstain and
\* over every restart and redelivery, or is one of the few a failure cost.
DecidedOrLost ==
    \A t \in Txns : (\E i \in DOMAIN log : Received(t, i)) ~> (FinalsOf(t) # {} \/ t \in Lost)

\* "For every transaction, produce a PASS / OTP / BLOCK verdict": whoever was
\* received is decided in the end, however many agents abstain.
EveryTransactionDecided ==
    \A t \in Txns : (\E i \in DOMAIN log : Received(t, i)) ~> FinalsOf(t) # {}
=============================================================================
