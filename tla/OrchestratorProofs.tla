--------------------------- MODULE OrchestratorProofs ---------------------------
(***************************************************************************)
(* Type correctness of the orchestrator, what its failures cost (each      *)
(* repeats at most one decision of a transaction, and loses at most one),  *)
(* and that every decision closes a whole run of its transaction.          *)
(***************************************************************************)
EXTENDS Orchestrator, FiniteSetTheorems, TLAPS

\* The publishable records, and what an append does to the log's bounds.
LEMMA Appended ==
    ASSUME NEW l \in Seq(Entry), NEW t \in Txns, NEW k \in Kinds, NEW b \in BOOLEAN
    PROVE  /\ Append(l, Record(t, k, b)) \in Seq(Entry)
           /\ Len(Append(l, Record(t, k, b))) = Len(l) + 1
           /\ Len(l) \in Nat
  <1>1. Record(t, k, b) \in Entry
    BY DEF Record, Entry
  <1> QED
    BY <1>1

\* A record of the log has the fields of an entry.
LEMMA EntryAt ==
    ASSUME NEW l \in Seq(Entry), NEW i \in 1..Len(l)
    PROVE  l[i].txn \in Txns
  <1>1. l[i] \in Entry
    OBVIOUS
  <1> QED
    BY <1>1 DEF Entry

\* Whatever the process forgets on returning leaves its variables typed.
LEMMA Forgotten == Forget => /\ txn' = NoTxn
                             /\ outcome' \in [Agents -> {"running", "scored", "abstained", "raised"}]
                             /\ announced' \subseteq Agents
                             /\ verdict' = "none"
  BY DEF Forget, Fresh

\* Every reachable state of the orchestrator is typed, and it has a transaction
\* in hand exactly while it is neither down nor polling.
THEOREM TypeCorrect == Spec => []TypeOK
  <1> USE DEF TypeOK
  <1>1. Init => TypeOK
    <2>1. 0 \in 0..MaxFaults
      BY OrchestratorAssumption
    <2>2. <<>> \in Seq(Entry) /\ Len(<<>>) = 0
      OBVIOUS
    <2> QED
      BY <2>1, <2>2 DEF Init, Fresh
  <1>2. TypeOK /\ [Next]_vars => TypeOK'
    <2> SUFFICES ASSUME TypeOK, [Next]_vars PROVE TypeOK'
      OBVIOUS
    <2> USE DEF vars, run
    <2>1. log \in Seq(Entry) /\ Len(log) \in Nat
      OBVIOUS
    <2>18. ASSUME pos' = pos, committed' = committed,
                  Len(log') \in {Len(log), Len(log) + 1}
           PROVE  pos' \in 0..Len(log') /\ committed' \in -1..Len(log')
      BY <2>1, <2>18
    <2>2. Fault => faults' \in 0..MaxFaults
      BY OrchestratorAssumption DEF Fault
    <2>3. NoTxn \notin Txns
      BY OrchestratorAssumption
    <2>4. ASSUME NEW t \in Txns, Submit(t) PROVE TypeOK'
      <3>1. "received" \in Kinds
        BY DEF Kinds
      <3>2. log' \in Seq(Entry) /\ Len(log') = Len(log) + 1
        BY <2>1, <2>4, <3>1, Appended DEF Submit
      <3>3. pos' \in 0..Len(log') /\ committed' \in -1..Len(log')
        BY <2>4, <2>18, <3>2 DEF Submit
      <3> QED
        BY <2>4, <3>2, <3>3 DEF Submit
    <2>5. ASSUME Start PROVE TypeOK'
      BY <2>1, <2>5 DEF Start
    <2>6. ASSUME Poll PROVE TypeOK'
      <3>1. log[pos + 1].txn \in Txns
        BY <2>1, <2>6, EntryAt DEF Poll
      <3>2. Fresh \in [Agents -> {"running", "scored", "abstained", "raised"}]
        BY DEF Fresh
      <3>3. pos' \in 0..Len(log') /\ log' = log /\ committed' = committed
        BY <2>1, <2>6 DEF Poll
      <3>4. pc = "poll" /\ txn = NoTxn
        BY <2>6 DEF Poll
      <3>5. CASE UNCHANGED <<pc, run>>
        BY <2>6, <3>3, <3>5 DEF Poll
      <3>6. CASE pc' = "gather" /\ txn' = log[pos + 1].txn /\ outcome' = Fresh
                 /\ announced' = {} /\ verdict' = "none"
        BY <2>3, <2>6, <3>1, <3>2, <3>3, <3>6 DEF Poll
      <3> QED
        BY <2>6, <3>5, <3>6 DEF Poll
    <2>7. ASSUME Fuse PROVE TypeOK'
      <3>1. "none" \notin Finals
        BY OrchestratorAssumption DEF Finals
      <3>2. verdict' \in Finals /\ pc' \in {"synthesis", "final"}
        BY <2>7 DEF Fuse, Finals
      <3>3. pc = "gather" /\ UNCHANGED <<log, pos, committed, txn, outcome, announced, audited, faults>>
        BY <2>7 DEF Fuse
      <3>4. txn' \in Txns /\ txn' # NoTxn
        BY <3>3
      <3> QED
        BY <3>1, <3>2, <3>3, <3>4
    <2>8. ASSUME PublishSynthesis PROVE TypeOK'
      <3>1. txn \in Txns /\ "synthesis" \in Kinds
        BY <2>8 DEF PublishSynthesis, Kinds
      <3>2. log' \in Seq(Entry) /\ Len(log') = Len(log) + 1
        BY <2>1, <2>8, <3>1, Appended DEF PublishSynthesis
      <3>3. pos' \in 0..Len(log') /\ committed' \in -1..Len(log')
        BY <2>8, <2>18, <3>2 DEF PublishSynthesis
      <3>4. pc' = "final" /\ txn' = txn /\ txn # NoTxn /\ verdict' = verdict /\ verdict # "none"
        BY <2>8 DEF PublishSynthesis
      <3> QED
        BY <2>8, <3>1, <3>2, <3>3, <3>4 DEF PublishSynthesis
    <2>9. ASSUME PublishFinal PROVE TypeOK'
      <3>1. txn \in Txns /\ verdict \in Kinds
        BY <2>9 DEF PublishFinal, Kinds
      <3>2. log' \in Seq(Entry) /\ Len(log') = Len(log) + 1
        BY <2>1, <2>9, <3>1, Appended DEF PublishFinal
      <3>5. pos' \in 0..Len(log') /\ committed' \in -1..Len(log')
        BY <2>9, <2>18, <3>2 DEF PublishFinal
      <3>3. CASE Forget /\ pc' = "poll"
        BY <2>9, <3>2, <3>3, <3>5, Forgotten DEF PublishFinal
      <3>4. CASE pc' = "audit" /\ UNCHANGED run
        BY <2>9, <3>1, <3>2, <3>4, <3>5 DEF PublishFinal
      <3> QED
        BY <2>9, <3>3, <3>4 DEF PublishFinal
    <2>10. ASSUME Audit PROVE TypeOK'
      <3>1. txn \in Txns
        BY <2>10 DEF Audit
      <3> QED
        BY <2>2, <2>10, <3>1, Forgotten DEF Audit
    <2>11. ASSUME Stop PROVE TypeOK'
      BY <2>1, <2>11, Forgotten DEF Stop
    <2>12. ASSUME NEW a \in Agents, Agent(a) PROVE TypeOK'
      <3>1. CASE \E o \in {"scored", "abstained"} : AgentReturns(a, o)
        BY <3>1 DEF AgentReturns
      <3>2. CASE AgentAnnounces(a)
        <4>1. txn \in Txns /\ a \in Kinds
          BY <3>2 DEF AgentAnnounces, Kinds
        <4>2. log' \in Seq(Entry) /\ Len(log') = Len(log) + 1
          BY <2>1, <3>2, <4>1, Appended DEF AgentAnnounces
        <4>3. pos' \in 0..Len(log') /\ committed' \in -1..Len(log')
          BY <3>2, <2>18, <4>2 DEF AgentAnnounces
        <4> QED
          BY <3>2, <4>1, <4>2, <4>3 DEF AgentAnnounces
      <3> QED
        BY <2>12, <3>1, <3>2 DEF Agent
    <2>13. ASSUME NEW a \in Agents, AgentRaises(a) PROVE TypeOK'
      <3>1. txn \in Txns /\ a \in Kinds
        BY <2>13 DEF AgentRaises, Kinds
      <3>2. log' \in Seq(Entry) /\ Len(log') \in {Len(log), Len(log) + 1}
        <4>1. CASE log' = log
          BY <2>1, <4>1
        <4>2. CASE log' = Append(log, Record(txn, a, outcome[a] = "scored"))
          BY <2>1, <3>1, <4>2, Appended
        <4> QED
          BY <2>13, <4>1, <4>2 DEF AgentRaises
      <3>4. pos' \in 0..Len(log') /\ committed' \in -1..Len(log')
        BY <2>13, <2>18, <3>2 DEF AgentRaises
      <3>3. announced' \subseteq Agents
        BY <2>13 DEF AgentRaises
      <3> QED
        BY <2>2, <2>13, <3>1, <3>2, <3>3, <3>4 DEF AgentRaises
    <2>14. ASSUME PublishRaises PROVE TypeOK'
      <3>1. txn \in Txns /\ "synthesis" \in Kinds /\ (pc = "final" => verdict \in Kinds)
        BY <2>14 DEF PublishRaises, Kinds
      <3>2. log' \in Seq(Entry) /\ Len(log') \in {Len(log), Len(log) + 1}
        BY <2>1, <2>14, <3>1, Appended, ZenonT(40) DEF PublishRaises
      <3>3. pos' \in 0..Len(log') /\ committed' \in -1..Len(log')
        BY <2>14, <2>18, <3>2 DEF PublishRaises
      <3> QED
        BY <2>2, <2>14, <3>1, <3>2, <3>3 DEF PublishRaises
    <2>15. ASSUME Kill PROVE TypeOK'
      BY <2>2, <2>15, Forgotten DEF Kill
    <2>16. ASSUME AutoCommit PROVE TypeOK'
      BY <2>1, <2>16 DEF AutoCommit
    <2>17. CASE UNCHANGED vars
      BY <2>17
    <2> QED
      BY <2>4, <2>5, <2>6, <2>7, <2>8, <2>9, <2>10, <2>11, <2>12, <2>13, <2>14, <2>15,
         <2>16, <2>17 DEF Next, Loop
  <1> QED
    BY <1>1, <1>2, PTL DEF Spec

-----------------------------------------------------------------------------
(* How the log grows. *)

\* Appending an entry keeps the old ones and adds one position.
LEMMA LogGrows ==
    ASSUME NEW l \in Seq(Entry), NEW e \in Entry
    PROVE  /\ DOMAIN l = 1..Len(l) /\ Len(l) \in Nat
           /\ DOMAIN Append(l, e) = (1..Len(l)) \cup {Len(l) + 1}
           /\ \A i \in 1..Len(l) : Append(l, e)[i] = l[i]
           /\ Append(l, e)[Len(l) + 1] = e
  OBVIOUS

\* A set of positions up to n is finite and does not hold n + 1.
LEMMA UpToFinite ==
    ASSUME NEW n \in Nat, NEW S \in SUBSET (1..n)
    PROVE  IsFiniteSet(S) /\ n + 1 \notin S
  <1>1. IsFiniteSet(1..n)
    BY FS_Interval
  <1>2. IsFiniteSet(S)
    BY <1>1, FS_Subset
  <1> QED
    BY <1>2

\* The final decisions of a transaction grow by the appended entry if it is one.
LEMMA FinalsGrow ==
    ASSUME TypeOK, NEW e \in Entry, log' = Append(log, e), NEW t
    PROVE  /\ IsFiniteSet(FinalsOf(t)) /\ Len(log) + 1 \notin FinalsOf(t)
           /\ FinalsOf(t)' = IF e.txn = t /\ e.kind \in Finals
                             THEN FinalsOf(t) \cup {Len(log) + 1} ELSE FinalsOf(t)
  <1>1. log \in Seq(Entry)
    BY DEF TypeOK
  <1>2. FinalsOf(t) \subseteq 1..Len(log) /\ Len(log) \in Nat
    BY <1>1, LogGrows DEF FinalsOf
  <1>3. IsFiniteSet(FinalsOf(t)) /\ Len(log) + 1 \notin FinalsOf(t)
    BY <1>2, UpToFinite
  <1>4. FinalsOf(t)' = {i \in (1..Len(log)) \cup {Len(log) + 1} :
                            log'[i].txn = t /\ log'[i].kind \in Finals}
    BY <1>1, LogGrows DEF FinalsOf
  <1>5. FinalsOf(t) = {i \in 1..Len(log) : log[i].txn = t /\ log[i].kind \in Finals}
    BY <1>1, LogGrows DEF FinalsOf
  <1>6. /\ \A i \in 1..Len(log) : log'[i] = log[i]
        /\ log'[Len(log) + 1] = e
    BY <1>1, LogGrows
  <1> QED
    BY <1>2, <1>3, <1>4, <1>5, <1>6

\* Nothing but a submission is a transaction_received, and the kinds of the
\* pipeline's own events are told apart.
LEMMA KindsDiffer ==
    /\ "received" \notin Finals /\ "synthesis" \notin Finals
    /\ \A a \in Agents : a \notin Finals /\ a # "received"
  BY OrchestratorAssumption DEF Finals

Once == \A i, j \in DOMAIN log :
            log[i].kind = "received" /\ log[j].kind = "received" /\ log[i].txn = log[j].txn
                => i = j

Read(t) == \E i \in 1..pos : Received(t, i)

HandRead == pc \notin {"down", "poll"} => Read(txn)

\* One appended entry keeps what was read read, and Once unless it repeats a
\* transaction_received.
LEMMA AppendOne ==
    ASSUME TypeOK, Once, NEW e \in Entry, log' = Append(log, e), pos' = pos,
           e.kind = "received" => \A i \in DOMAIN log : log[i].txn # e.txn
    PROVE  /\ Once'
           /\ \A t : Read(t)' = Read(t)
  <1>1. log \in Seq(Entry) /\ pos \in 0..Len(log)
    BY DEF TypeOK
  <1>2. /\ DOMAIN log = 1..Len(log) /\ Len(log) \in Nat
        /\ DOMAIN log' = (1..Len(log)) \cup {Len(log) + 1}
        /\ \A i \in 1..Len(log) : log'[i] = log[i]
        /\ log'[Len(log) + 1] = e
    BY <1>1, LogGrows
  <1>3. Once'
    BY <1>2 DEF Once
  <1>4. 1..pos \subseteq 1..Len(log)
    BY <1>1, <1>2
  <1>5. \A t : Read(t)' = Read(t)
    BY <1>2, <1>4 DEF Read, Received
  <1> QED
    BY <1>3, <1>5

-----------------------------------------------------------------------------
(* Decisions per failure. *)

\* The current life of the process, or the next one, may still decide t.
Open(t) == \/ pc \in {"down", "stopping"}
           \/ pc \in {"gather", "synthesis", "final"} /\ txn = t
           \/ ~Read(t)

FewInv ==
    /\ TypeOK /\ Once /\ HandRead
    /\ \A t \in Txns : Cardinality(FinalsOf(t)) + (IF Open(t) THEN 1 ELSE 0) <= 1 + faults

\* The ways a step may treat one transaction: it decides nothing and opens
\* nothing, or fails, or spends the one decision that was open.
Quiet(t)  == FinalsOf(t)' = FinalsOf(t) /\ faults' \in {faults, faults + 1}
             /\ (Open(t)' => Open(t))
Fails(t)  == FinalsOf(t)' = FinalsOf(t) /\ faults' = faults + 1
Spends(t) == Open(t) /\ ~Open(t)' /\ faults' = faults
             /\ FinalsOf(t)' = FinalsOf(t) \cup {Len(log) + 1}
Slips(t)  == Open(t) /\ faults' = faults + 1
             /\ FinalsOf(t)' \in {FinalsOf(t), FinalsOf(t) \cup {Len(log) + 1}}

\* Each of them keeps the count of the transaction.
LEMMA CountKept ==
    ASSUME FewInv, NEW t \in Txns, Quiet(t) \/ Fails(t) \/ Spends(t) \/ Slips(t)
    PROVE  Cardinality(FinalsOf(t)') + (IF Open(t)' THEN 1 ELSE 0) <= 1 + faults'
  <1>1. log \in Seq(Entry) /\ faults \in Nat
    BY OrchestratorAssumption DEF FewInv, TypeOK
  <1>2. FinalsOf(t) \subseteq 1..Len(log) /\ Len(log) \in Nat
    BY <1>1, LogGrows DEF FinalsOf
  <1>3. IsFiniteSet(FinalsOf(t)) /\ Len(log) + 1 \notin FinalsOf(t)
    BY <1>2, UpToFinite
  <1>4. /\ Cardinality(FinalsOf(t)) \in Nat
        /\ Cardinality(FinalsOf(t) \cup {Len(log) + 1}) = Cardinality(FinalsOf(t)) + 1
    BY <1>3, FS_CardinalityType, FS_AddElement
  <1>5. Cardinality(FinalsOf(t)) + (IF Open(t) THEN 1 ELSE 0) <= 1 + faults
    BY DEF FewInv
  <1>6. CASE Quiet(t)
    BY <1>1, <1>4, <1>5, <1>6 DEF Quiet
  <1>7. CASE Fails(t)
    BY <1>1, <1>4, <1>5, <1>7 DEF Fails
  <1>8. CASE Spends(t)
    BY <1>1, <1>4, <1>5, <1>8 DEF Spends
  <1>9. CASE Slips(t)
    <2>1. CASE FinalsOf(t)' = FinalsOf(t)
      BY <1>1, <1>4, <1>5, <1>9, <2>1 DEF Slips
    <2>2. CASE FinalsOf(t)' = FinalsOf(t) \cup {Len(log) + 1}
      BY <1>1, <1>4, <1>5, <1>9, <2>2 DEF Slips
    <2> QED
      BY <1>9, <2>1, <2>2 DEF Slips
  <1> QED
    BY <1>6, <1>7, <1>8, <1>9

\* A step that leaves the log alone keeps the decisions, and what was read.
LEMMA SameLog ==
    ASSUME log' = log
    PROVE  /\ Once => Once'
           /\ \A t : FinalsOf(t)' = FinalsOf(t)
           /\ pos' = pos => \A t : Read(t)' = Read(t)
  BY DEF Once, FinalsOf, Read, Received

\* Steps of the process that publish nothing.
LEMMA FewSilent ==
    ASSUME FewInv,
           Start \/ Poll \/ Fuse \/ Audit \/ Stop \/ Kill \/ AutoCommit
           \/ (\E a \in Agents, o \in {"scored", "abstained"} : AgentReturns(a, o))
    PROVE  /\ Once' /\ HandRead'
           /\ \A t \in Txns : Quiet(t) \/ Fails(t)
  <1> USE DEF run
  <1>1. log' = log
    BY DEF Start, Poll, Fuse, Audit, Stop, Kill, AutoCommit, AgentReturns
  <1>2. Once' /\ \A t : FinalsOf(t)' = FinalsOf(t)
    BY <1>1, SameLog DEF FewInv
  <1>3. faults \in Int
    BY DEF FewInv, TypeOK
  <1>4. CASE Start
    <2>1. pc = "down" /\ pc' = "poll" /\ faults' = faults
      BY <1>4 DEF Start
    <2> QED
      BY <1>2, <1>3, <2>1 DEF HandRead, Quiet, Open
  <1>5. CASE Poll
    <2>1. pc = "poll" /\ faults' = faults /\ pos' = pos + 1 /\ pos \in Nat
          /\ pos + 1 \in DOMAIN log
      <3>1. log \in Seq(Entry) /\ pos \in 0..Len(log)
        BY DEF FewInv, TypeOK
      <3> QED
        BY <1>5, <3>1, LogGrows DEF Poll
    <2>2. \A t : Read(t) => Read(t)'
      <3>1. 1..pos \subseteq 1..(pos + 1)
        BY <2>1
      <3> QED
        BY <1>1, <2>1, <3>1 DEF Read, Received
    <2>3. CASE UNCHANGED <<pc, run>>
      BY <1>2, <1>3, <2>1, <2>2, <2>3 DEF HandRead, Quiet, Open
    <2>4. CASE log[pos + 1].kind = "received" /\ pc' = "gather" /\ txn' = log[pos + 1].txn
      <3>1. pos + 1 \in 1..(pos + 1)
        BY <2>1
      <3>2. \A u : u = txn' => Read(u)'
        BY <1>1, <2>1, <2>4, <3>1 DEF Read, Received
      <3>3. \A i \in 1..pos : i \in DOMAIN log /\ i # pos + 1
        <4>1. log \in Seq(Entry) /\ pos \in 0..Len(log)
          BY DEF FewInv, TypeOK
        <4> QED
          BY <4>1, LogGrows
      <3>4. \A u : u = txn' => ~Read(u)
        BY <2>1, <2>4, <3>3 DEF FewInv, Once, Read, Received
      <3>5. HandRead'
        BY <3>2 DEF HandRead
      <3> QED
        BY <1>2, <1>3, <2>1, <2>2, <2>4, <3>4, <3>5 DEF Quiet, Open
    <2> QED
      BY <1>5, <2>3, <2>4 DEF Poll
  <1>6. ASSUME pos' = pos PROVE \A t : Read(t)' = Read(t)
    BY <1>1, <1>6, SameLog
  <1>7. CASE Fuse
    <2>1. /\ pc = "gather" /\ pc' \in {"synthesis", "final"}
          /\ faults' = faults /\ txn' = txn /\ pos' = pos
      BY <1>7 DEF Fuse
    <2> QED
      BY <1>2, <1>3, <1>6, <2>1 DEF FewInv, HandRead, Quiet, Open
  <1>8. CASE Audit
    <2>1. /\ pc = "audit" /\ pc' = "poll"
          /\ faults' \in {faults, faults + 1} /\ pos' = pos
      BY <1>8 DEF Audit, Fault
    <2> QED
      BY <1>2, <1>3, <1>6, <2>1 DEF HandRead, Quiet, Open
  <1>9. CASE Stop
    <2>1. pc = "stopping" /\ pc' = "down" /\ faults' = faults
      BY <1>9 DEF Stop
    <2> QED
      BY <1>2, <1>3, <2>1 DEF HandRead, Quiet, Open
  <1>10. CASE Kill
    <2>1. pc' = "down" /\ faults' = faults + 1
      BY <1>10 DEF Kill, Fault
    <2> QED
      BY <1>2, <2>1 DEF HandRead, Fails
  <1>11. CASE AutoCommit
    <2>1. pc' = pc /\ txn' = txn /\ pos' = pos /\ faults' = faults
      BY <1>11 DEF AutoCommit
    <2> QED
      BY <1>2, <1>3, <1>6, <2>1 DEF FewInv, HandRead, Quiet, Open
  <1>12. CASE \E a \in Agents, o \in {"scored", "abstained"} : AgentReturns(a, o)
    <2>1. pc' = pc /\ txn' = txn /\ pos' = pos /\ faults' = faults
      BY <1>12 DEF AgentReturns
    <2> QED
      BY <1>2, <1>3, <1>6, <2>1 DEF FewInv, HandRead, Quiet, Open
  <1> QED
    BY <1>4, <1>5, <1>7, <1>8, <1>9, <1>10, <1>11, <1>12

\* Steps that may publish.
LEMMA FewPublishing ==
    ASSUME FewInv,
           (\E t \in Txns : Submit(t)) \/ PublishSynthesis \/ PublishFinal \/ PublishRaises
           \/ \E a \in Agents : AgentAnnounces(a) \/ AgentRaises(a)
    PROVE  /\ Once' /\ HandRead'
           /\ \A t \in Txns : Quiet(t) \/ Fails(t) \/ Spends(t) \/ Slips(t)
  <1> USE DEF run
  <1>1. TypeOK /\ Once /\ HandRead
    BY DEF FewInv
  <1>2. faults \in Int
    BY DEF FewInv, TypeOK
  <1>3. ASSUME NEW t \in Txns, NEW k \in Kinds, NEW b \in BOOLEAN,
               log' = Append(log, Record(t, k, b)), pos' = pos, k # "received"
        PROVE  /\ Once' /\ \A u : Read(u)' = Read(u)
               /\ \A u : FinalsOf(u)' = IF t = u /\ k \in Finals
                                        THEN FinalsOf(u) \cup {Len(log) + 1} ELSE FinalsOf(u)
    <2>1. Record(t, k, b) \in Entry /\ Record(t, k, b).kind = k /\ Record(t, k, b).txn = t
      BY DEF Record, Entry
    <2>2. Once' /\ \A u : Read(u)' = Read(u)
      BY <1>1, <1>3, <2>1, AppendOne
    <2>3. \A u : FinalsOf(u)' = IF t = u /\ k \in Finals
                                THEN FinalsOf(u) \cup {Len(log) + 1} ELSE FinalsOf(u)
      BY <1>1, <1>3, <2>1, FinalsGrow
    <2> QED
      BY <2>2, <2>3
  <1>4. ASSUME NEW t \in Txns, Submit(t)
        PROVE  Once' /\ HandRead' /\ \A u \in Txns : Quiet(u)
    <2> DEFINE e == Record(t, "received", TRUE)
    <2>1. e \in Entry /\ e.kind = "received" /\ e.txn = t
      BY DEF Record, Entry, Kinds
    <2>2. /\ log' = Append(log, e) /\ pos' = pos /\ pc' = pc /\ txn' = txn /\ faults' = faults
          /\ \A i \in DOMAIN log : log[i].txn # e.txn
      BY <1>4, <2>1 DEF Submit
    <2> HIDE DEF e
    <2>3. Once' /\ \A u : Read(u)' = Read(u)
      BY <1>1, <2>1, <2>2, AppendOne
    <2>4. \A u : FinalsOf(u)' = FinalsOf(u)
      BY <1>1, <2>1, <2>2, FinalsGrow, KindsDiffer
    <2> QED
      BY <1>1, <1>2, <2>2, <2>3, <2>4 DEF HandRead, Quiet, Open
  <1>5. CASE PublishSynthesis
    <2>1. /\ pc = "synthesis" /\ pc' = "final" /\ txn' = txn /\ pos' = pos /\ faults' = faults
          /\ log' = Append(log, Record(txn, "synthesis", TRUE)) /\ txn \in Txns
          /\ "synthesis" \in Kinds
      BY <1>1, <1>5 DEF PublishSynthesis, TypeOK, Kinds
    <2>2. /\ Once' /\ \A u : Read(u)' = Read(u)
          /\ \A u : FinalsOf(u)' = FinalsOf(u)
      BY <1>3, <2>1, KindsDiffer
    <2> QED
      BY <1>1, <1>2, <2>1, <2>2 DEF HandRead, Quiet, Open
  <1>6. CASE PublishFinal
    <2>1. /\ pc = "final" /\ pc' \in {"poll", "audit"} /\ (pc' = "audit" => txn' = txn)
          /\ pos' = pos /\ faults' = faults
          /\ log' = Append(log, Record(txn, verdict, TRUE)) /\ txn \in Txns
          /\ verdict \in Finals /\ verdict \in Kinds
      BY <1>1, <1>6 DEF PublishFinal, TypeOK, Kinds
    <2>2. /\ Once' /\ \A u : Read(u)' = Read(u)
          /\ \A u : FinalsOf(u)' = IF txn = u THEN FinalsOf(u) \cup {Len(log) + 1}
                                   ELSE FinalsOf(u)
      BY <1>3, <2>1, KindsDiffer
    <2>3. Read(txn)
      BY <1>1, <2>1 DEF HandRead
    <2>5. HandRead'
      BY <2>1, <2>2, <2>3 DEF HandRead
    <2>6. \A u \in Txns : u = txn => Spends(u)
      BY <2>1, <2>2, <2>3 DEF Spends, Open
    <2>7. \A u \in Txns : u # txn => Quiet(u)
      BY <1>2, <2>1, <2>2 DEF Quiet, Open
    <2> QED
      BY <2>2, <2>5, <2>6, <2>7
  <1>7. CASE PublishRaises
    <2> DEFINE k == IF pc = "synthesis" THEN "synthesis" ELSE verdict
    <2>1. /\ pc \in {"synthesis", "final"} /\ pc' = "stopping" /\ txn' = txn
          /\ pos' = pos /\ faults' = faults + 1
          /\ log' = log \/ log' = Append(log, Record(txn, k, TRUE))
          /\ txn \in Txns /\ k \in Kinds /\ k # "received"
      BY <1>1, <1>7, KindsDiffer DEF PublishRaises, Fault, TypeOK, Kinds
    <2> HIDE DEF k
    <2>2. /\ Once' /\ \A u : Read(u)' = Read(u)
          /\ \A u : /\ FinalsOf(u)' \in {FinalsOf(u), FinalsOf(u) \cup {Len(log) + 1}}
                    /\ u # txn => FinalsOf(u)' = FinalsOf(u)
      <3>1. CASE log' = log
        BY <1>1, <2>1, <3>1, SameLog
      <3>2. CASE log' = Append(log, Record(txn, k, TRUE))
        BY <1>3, <2>1, <3>2
      <3> QED
        BY <2>1, <3>1, <3>2
    <2>3. HandRead'
      BY <1>1, <2>1, <2>2 DEF HandRead
    <2>4. Open(txn)
      BY <2>1 DEF Open
    <2> QED
      BY <2>1, <2>2, <2>3, <2>4 DEF Fails, Slips
  <1>8. ASSUME NEW a \in Agents, AgentAnnounces(a)
        PROVE  Once' /\ HandRead' /\ \A u \in Txns : Quiet(u)
    <2>1. /\ txn \in Txns /\ a \in Kinds /\ pc' = pc /\ txn' = txn /\ pos' = pos
          /\ faults' = faults
          /\ log' = Append(log, Record(txn, a, outcome[a] = "scored"))
      BY <1>1, <1>8 DEF AgentAnnounces, TypeOK, Kinds
    <2>2. /\ Once' /\ \A u : Read(u)' = Read(u)
          /\ \A u : FinalsOf(u)' = FinalsOf(u)
      BY <1>3, <2>1, KindsDiffer
    <2> QED
      BY <1>1, <1>2, <2>1, <2>2 DEF HandRead, Quiet, Open
  <1>9. ASSUME NEW a \in Agents, AgentRaises(a)
        PROVE  Once' /\ HandRead' /\ \A u \in Txns : Fails(u)
    <2>1. /\ pc = "gather" /\ pc' = "stopping" /\ txn \in Txns /\ a \in Kinds
          /\ txn' = txn /\ pos' = pos /\ faults' = faults + 1
          /\ log' = log \/ log' = Append(log, Record(txn, a, outcome[a] = "scored"))
      BY <1>1, <1>9 DEF AgentRaises, Fault, TypeOK, Kinds
    <2>2. /\ Once' /\ \A u : Read(u)' = Read(u)
          /\ \A u : FinalsOf(u)' = FinalsOf(u)
      <3>1. CASE log' = log
        BY <1>1, <2>1, <3>1, SameLog
      <3>2. CASE log' = Append(log, Record(txn, a, outcome[a] = "scored"))
        BY <1>3, <2>1, <3>2, KindsDiffer
      <3> QED
        BY <2>1, <3>1, <3>2
    <2> QED
      BY <1>1, <2>1, <2>2 DEF HandRead, Fails
  <1> QED
    BY <1>4, <1>5, <1>6, <1>7, <1>8, <1>9

\* A transaction is decided once, and once more at most for every failure, for
\* any number of transactions, agents and failures.
THEOREM DecisionsPerFailure == Spec => []FewDecisions
  <1>1. Init /\ TypeOK => FewInv
    <2> SUFFICES ASSUME Init, TypeOK PROVE FewInv
      OBVIOUS
    <2>1. \A t : FinalsOf(t) = {}
      BY DEF Init, FinalsOf
    <2>2. faults = 0 /\ Once /\ HandRead
      BY DEF Init, Once, HandRead
    <2> QED
      BY <2>1, <2>2, FS_EmptySet DEF FewInv
  <1>2. FewInv /\ TypeOK' /\ [Next]_vars => FewInv'
    <2> SUFFICES ASSUME FewInv, TypeOK', [Next]_vars PROVE FewInv'
      OBVIOUS
    <2>1. CASE UNCHANGED vars
      <3>1. Once' /\ HandRead' /\ \A t \in Txns : Quiet(t)
        <4>1. /\ log' = log /\ pos' = pos /\ pc' = pc /\ txn' = txn /\ faults' = faults
              /\ faults \in Int
          BY <2>1 DEF vars, FewInv, TypeOK
        <4>2. Once' /\ \A t : FinalsOf(t)' = FinalsOf(t) /\ Read(t)' = Read(t)
          BY <4>1, SameLog DEF FewInv
        <4> QED
          BY <4>1, <4>2 DEF FewInv, HandRead, Quiet, Open
      <3> QED
        BY <3>1, CountKept DEF FewInv
    <2>2. CASE Next
      <3>1. /\ Once' /\ HandRead'
            /\ \A t \in Txns : Quiet(t) \/ Fails(t) \/ Spends(t) \/ Slips(t)
        BY <2>2, FewSilent, FewPublishing DEF Next, Loop, Agent
      <3> QED
        BY <3>1, CountKept DEF FewInv
    <2> QED
      BY <2>1, <2>2
  <1>3. FewInv => FewDecisions
    <2> SUFFICES ASSUME FewInv, NEW t \in Txns
                 PROVE  Cardinality(FinalsOf(t)) <= 1 + faults
      BY DEF FewDecisions
    <2>1. FinalsOf(t) \subseteq 1..Len(log) /\ Len(log) \in Nat /\ faults \in Int
      BY LogGrows DEF FewInv, TypeOK, FinalsOf
    <2>2. Cardinality(FinalsOf(t)) \in Nat
      BY <2>1, UpToFinite, FS_CardinalityType
    <2>3. Cardinality(FinalsOf(t)) + (IF Open(t) THEN 1 ELSE 0) <= 1 + faults
      BY DEF FewInv
    <2> QED
      BY <2>1, <2>2, <2>3
  <1> QED
    BY <1>1, <1>2, <1>3, TypeCorrect, PTL DEF Spec

-----------------------------------------------------------------------------
(* Losses per failure. *)

\* Read without a decision, and not in hand of a process that will go on with it.
\* More than Lost: the transaction in hand when something raised is already
\* counted, and so is one that a restart may read again.
Missed == {t \in Txns : Read(t) /\ FinalsOf(t) = {} /\ ~(txn = t /\ pc # "stopping")}

LossInv ==
    /\ TypeOK /\ committed \in 0..pos
    /\ pc = "audit" => FinalsOf(txn) # {}
    /\ Cardinality(Missed) <= faults

\* A step that misses nothing new keeps the count, and so does a failure that
\* misses the transaction in hand.
LEMMA MissedKept ==
    ASSUME LossInv, TypeOK',
           \/ Missed' \subseteq Missed /\ faults' \in {faults, faults + 1}
           \/ Missed' \subseteq Missed \cup {txn} /\ faults' = faults + 1
    PROVE  Cardinality(Missed') <= faults'
  <1>1. IsFiniteSet(Missed)
    BY OrchestratorAssumption, FS_Subset DEF Missed
  <1>2. Cardinality(Missed) \in Nat /\ faults \in Nat /\ Cardinality(Missed) <= faults
    BY <1>1, FS_CardinalityType, OrchestratorAssumption DEF LossInv, TypeOK
  <1>3. CASE Missed' \subseteq Missed /\ faults' \in {faults, faults + 1}
    <2>1. IsFiniteSet(Missed') /\ Cardinality(Missed') <= Cardinality(Missed)
      BY <1>1, <1>3, FS_Subset
    <2>2. Cardinality(Missed') \in Nat
      BY <2>1, FS_CardinalityType
    <2> QED
      BY <1>2, <1>3, <2>1, <2>2
  <1>4. CASE Missed' \subseteq Missed \cup {txn} /\ faults' = faults + 1
    <2>1. /\ IsFiniteSet(Missed \cup {txn})
          /\ Cardinality(Missed \cup {txn}) \in {Cardinality(Missed), Cardinality(Missed) + 1}
      BY <1>1, FS_AddElement
    <2>2. IsFiniteSet(Missed') /\ Cardinality(Missed') <= Cardinality(Missed \cup {txn})
      BY <1>4, <2>1, FS_Subset
    <2>3. Cardinality(Missed') \in Nat
      BY <2>2, FS_CardinalityType
    <2> QED
      BY <1>2, <1>4, <2>1, <2>2, <2>3
  <1> QED
    BY <1>3, <1>4

\* An appended entry leaves what was read alone, and only adds decisions.
LEMMA AppendMisses ==
    ASSUME TypeOK, NEW e \in Entry, log' = Append(log, e), pos' = pos
    PROVE  /\ \A t : Read(t)' = Read(t)
           /\ \A t : FinalsOf(t)' = {} => FinalsOf(t) = {}
           /\ e.kind \in Finals => \A t : t = e.txn => FinalsOf(t)' # {}
  <1>1. log \in Seq(Entry) /\ pos \in 0..Len(log)
    BY DEF TypeOK
  <1>2. /\ Len(log) \in Nat /\ \A i \in 1..Len(log) : log'[i] = log[i]
    BY <1>1, LogGrows
  <1>3. 1..pos \subseteq 1..Len(log)
    BY <1>1, <1>2
  <1>4. \A t : Read(t)' = Read(t)
    BY <1>2, <1>3 DEF Read, Received
  <1>5. \A t : FinalsOf(t)' = IF e.txn = t /\ e.kind \in Finals
                              THEN FinalsOf(t) \cup {Len(log) + 1} ELSE FinalsOf(t)
    BY FinalsGrow
  <1> QED
    BY <1>4, <1>5

\* The same for what the process publishes about the transaction in hand.
LEMMA PublishMisses ==
    ASSUME TypeOK, NEW k \in Kinds, NEW b \in BOOLEAN, txn \in Txns,
           log' = log \/ log' = Append(log, Record(txn, k, b)), pos' = pos
    PROVE  /\ \A t : Read(t)' = Read(t)
           /\ \A t : FinalsOf(t)' = {} => FinalsOf(t) = {}
           /\ log' = Append(log, Record(txn, k, b)) /\ k \in Finals
                 => \A t : t = txn => FinalsOf(t)' # {}
  <1>1. CASE log' = Append(log, Record(txn, k, b))
    <2>1. PICK e \in Entry : e = Record(txn, k, b) /\ e.kind = k /\ e.txn = txn
      BY DEF Record, Entry
    <2> QED
      BY <1>1, <2>1, AppendMisses
  <1>2. CASE log' # Append(log, Record(txn, k, b))
    BY <1>2, SameLog
  <1> QED
    BY <1>1, <1>2

\* A restart reads again from the committed offset, which never passes the position;
\* what was in hand is missed only in a step that fails.
LEMMA LossStep ==
    ASSUME KnownGroup, LossInv, TypeOK', [Next]_vars
    PROVE  LossInv'
  <1> USE DEF run
  <1>t. /\ TypeOK /\ log \in Seq(Entry) /\ pos \in 0..Len(log) /\ committed \in 0..pos
        /\ Len(log) \in Nat /\ faults \in Int
        /\ pc = "audit" => FinalsOf(txn) # {}
    <2>1. TypeOK /\ committed \in 0..pos /\ (pc = "audit" => FinalsOf(txn) # {})
      BY DEF LossInv
    <2> QED
      BY <2>1, LogGrows DEF TypeOK
  <1>h. /\ pc \in {"down", "poll"} <=> txn = NoTxn
        /\ txn # NoTxn => txn \in Txns
        /\ NoTxn \notin Txns
    BY <1>t, OrchestratorAssumption DEF TypeOK
  <1>s. log' = log => /\ \A t : FinalsOf(t)' = FinalsOf(t)
                      /\ pos' = pos => \A t : Read(t)' = Read(t)
    BY SameLog
  <1> DEFINE Calm == /\ pos' = pos /\ committed' = committed /\ faults' = faults
             Kept == /\ committed' \in 0..pos'
                     /\ pc' = "audit" => \A t : t = txn' => FinalsOf(t)' # {}
                     /\ \/ Missed' \subseteq Missed /\ faults' \in {faults, faults + 1}
                        \/ Missed' \subseteq Missed \cup {txn} /\ faults' = faults + 1
  <1>1. ASSUME NEW t \in Txns, Submit(t) PROVE Kept
    <2>1. PICK e \in Entry : e = Record(t, "received", TRUE)
      BY DEF Record, Entry, Kinds
    <2>2. log' = Append(log, e) /\ Calm /\ pc' = pc /\ txn' = txn
      BY <1>1, <2>1 DEF Submit
    <2>3. /\ \A u : Read(u)' = Read(u)
          /\ \A u : FinalsOf(u)' = {} => FinalsOf(u) = {}
      BY <1>t, <2>2, AppendMisses
    <2>4. Missed' \subseteq Missed
      BY <2>2, <2>3 DEF Missed
    <2> QED
      BY <1>t, <2>2, <2>3, <2>4
  <1>2. ASSUME Start PROVE Kept
    <2>1. pc = "down" /\ pc' = "poll" /\ pos' = committed /\ UNCHANGED <<log, committed, txn, faults>>
      BY <1>2, <1>t DEF Start
    <2>2. 1..pos' \subseteq 1..pos
      BY <1>t, <2>1
    <2>3. \A t : Read(t)' => Read(t)
      BY <2>1, <2>2 DEF Read, Received
    <2>4. Missed' \subseteq Missed
      BY <1>s, <2>1, <2>3 DEF Missed
    <2> QED
      BY <1>t, <2>1, <2>4
  <1>3. ASSUME Poll PROVE Kept
    <2>1. /\ pc = "poll" /\ pos' = pos + 1 /\ UNCHANGED <<log, committed, faults>>
          /\ \/ log[pos + 1].kind # "received" /\ pc' = pc /\ txn' = txn
             \/ pc' = "gather" /\ txn' = log[pos + 1].txn
      BY <1>3 DEF Poll
    <2>2. txn = NoTxn
      BY <1>h, <2>1
    <2>3. \A i \in 1..pos' : i \in 1..pos \/ i = pos + 1
      BY <1>t, <2>1
    <2>4. Missed' \subseteq Missed
      <3> SUFFICES ASSUME NEW t \in Txns, Read(t)', FinalsOf(t)' = {},
                          ~(txn' = t /\ pc' # "stopping")
                   PROVE  Read(t) /\ FinalsOf(t) = {} /\ ~(txn = t /\ pc # "stopping")
        BY DEF Missed
      <3>1. PICK i \in 1..pos' : log[i].txn = t /\ log[i].kind = "received"
        BY <2>1 DEF Read, Received
      <3>2. i # pos + 1
        BY <2>1, <3>1
      <3>3. Read(t)
        BY <2>3, <3>1, <3>2 DEF Read, Received
      <3>4. txn # t
        BY <1>h, <2>2
      <3> QED
        BY <1>s, <2>1, <3>3, <3>4
    <2> QED
      BY <1>t, <2>1, <2>4
  <1>4. ASSUME Fuse \/ \E a \in Agents, o \in {"scored", "abstained"} : AgentReturns(a, o) PROVE Kept
    <2>1. /\ Calm /\ txn' = txn /\ log' = log
          /\ \/ pc \notin {"stopping", "audit"} /\ pc' \notin {"stopping", "audit"}
             \/ pc' = pc
      BY <1>4 DEF Fuse, AgentReturns
    <2>2. Missed' \subseteq Missed
      BY <1>s, <2>1 DEF Missed
    <2> QED
      BY <1>s, <1>t, <2>1, <2>2
  <1>5. ASSUME PublishSynthesis \/ \E a \in Agents : AgentAnnounces(a) PROVE Kept
    <2>1. /\ Calm /\ txn' = txn /\ pc' # "audit" /\ (pc' = "stopping" => pc = "stopping")
          /\ \E k \in Kinds, b \in BOOLEAN : log' = Append(log, Record(txn, k, b))
      <3>1. CASE PublishSynthesis
        BY <3>1 DEF PublishSynthesis, Kinds
      <3>2. CASE \E a \in Agents : AgentAnnounces(a)
        <4>1. PICK a \in Agents : AgentAnnounces(a)
          BY <3>2
        <4>2. a \in Kinds /\ (outcome[a] = "scored") \in BOOLEAN
          BY DEF Kinds
        <4> QED
          BY <4>1, <4>2 DEF AgentAnnounces
      <3> QED
        BY <1>5, <3>1, <3>2
    <2>2. txn \in Txns
      BY <1>5, <1>h DEF PublishSynthesis, AgentAnnounces
    <2>3. /\ \A t : Read(t)' = Read(t)
          /\ \A t : FinalsOf(t)' = {} => FinalsOf(t) = {}
      BY <1>t, <2>1, <2>2, PublishMisses
    <2>4. Missed' \subseteq Missed
      BY <2>1, <2>3 DEF Missed
    <2> QED
      BY <1>t, <2>1, <2>4
  <1>6. ASSUME PublishFinal PROVE Kept
    <2>1. /\ pc = "final" /\ pc' \in {"poll", "audit"} /\ Calm /\ (pc' = "audit" => txn' = txn)
          /\ log' = Append(log, Record(txn, verdict, TRUE))
      BY <1>6 DEF PublishFinal
    <2>2. txn \in Txns /\ verdict \in Finals /\ verdict \in Kinds
      BY <1>h, <1>t, <2>1 DEF TypeOK, Kinds
    <2>3. /\ \A t : Read(t)' = Read(t)
          /\ \A t : FinalsOf(t)' = {} => FinalsOf(t) = {}
          /\ \A t : t = txn => FinalsOf(t)' # {}
      BY <1>t, <2>1, <2>2, PublishMisses
    <2>4. Missed' \subseteq Missed
      BY <2>1, <2>3 DEF Missed
    <2> QED
      BY <1>t, <2>1, <2>3, <2>4
  <1>7. ASSUME Audit PROVE Kept
    <2>1. /\ pc = "audit" /\ pc' = "poll" /\ UNCHANGED <<log, pos, committed>>
          /\ faults' \in {faults, faults + 1}
      BY <1>7 DEF Audit, Fault
    <2>2. FinalsOf(txn) # {}
      BY <1>t, <2>1
    <2>3. Missed' \subseteq Missed
      BY <1>s, <2>1, <2>2 DEF Missed
    <2> QED
      BY <1>t, <2>1, <2>3
  <1>8. ASSUME PublishRaises \/ \E a \in Agents : AgentRaises(a) PROVE Kept
    <2>1. /\ pos' = pos /\ committed' = committed /\ faults' = faults + 1 /\ txn' = txn
          /\ pc' = "stopping"
          /\ \E k \in Kinds, b \in BOOLEAN : log' = log \/ log' = Append(log, Record(txn, k, b))
      <3>1. CASE PublishRaises
        <4>1. "synthesis" \in Kinds /\ (pc = "final" => verdict \in Kinds)
          BY <1>t DEF TypeOK, Kinds
        <4> QED
          BY <3>1, <4>1 DEF PublishRaises, Fault
      <3>2. CASE \E a \in Agents : AgentRaises(a)
        <4>1. PICK a \in Agents : AgentRaises(a)
          BY <3>2
        <4>2. a \in Kinds /\ (outcome[a] = "scored") \in BOOLEAN
          BY DEF Kinds
        <4> QED
          BY <4>1, <4>2 DEF AgentRaises, Fault
      <3> QED
        BY <1>8, <3>1, <3>2
    <2>2. txn \in Txns
      BY <1>8, <1>h DEF PublishRaises, AgentRaises
    <2>3. /\ \A t : Read(t)' = Read(t)
          /\ \A t : FinalsOf(t)' = {} => FinalsOf(t) = {}
      BY <1>t, <2>1, <2>2, PublishMisses
    <2>4. Missed' \subseteq Missed \cup {txn}
      BY <2>3 DEF Missed
    <2> QED
      BY <1>t, <2>1, <2>4
  <1>9. ASSUME Stop PROVE Kept
    <2>1. /\ pc = "stopping" /\ pc' = "down" /\ UNCHANGED <<log, pos, faults>>
          /\ committed' \in {committed, pos}
      BY <1>9 DEF Stop
    <2>2. Missed' \subseteq Missed
      BY <1>s, <2>1 DEF Missed
    <2> QED
      BY <1>t, <2>1, <2>2
  <1>10. ASSUME Kill PROVE Kept
    <2>1. pc' = "down" /\ UNCHANGED <<log, pos, committed>> /\ faults' = faults + 1
      BY <1>10 DEF Kill, Fault
    <2>2. Missed' \subseteq Missed \cup {txn}
      BY <1>s, <2>1 DEF Missed
    <2> QED
      BY <1>t, <2>1, <2>2
  <1>11. ASSUME AutoCommit \/ UNCHANGED vars PROVE Kept
    <2>1. UNCHANGED <<log, pos, pc, txn, faults>> /\ committed' \in {committed, pos}
      BY <1>11 DEF AutoCommit, vars
    <2>2. Missed' \subseteq Missed
      BY <1>s, <2>1 DEF Missed
    <2> QED
      BY <1>s, <1>t, <2>1, <2>2
  <1>12. Kept
    <2> HIDE DEF Kept
    <2> QED
      BY <1>1, <1>2, <1>3, <1>4, <1>5, <1>6, <1>7, <1>8, <1>9, <1>10, <1>11 DEF Next, Loop, Agent
  <1>13. Cardinality(Missed') <= faults'
    BY <1>12, MissedKept
  <1> QED
    BY <1>12, <1>13 DEF LossInv

\* For a group that has an offset, each failure costs at most the transaction that
\* was in hand, however far the commits lag behind or run ahead, for any number of
\* transactions, agents and failures.
THEOREM LossesPerFailure == Spec => []OneLossPerFailure
  <1>1. CASE KnownGroup
    <2>1. Init /\ TypeOK => LossInv
      <3> SUFFICES ASSUME Init, TypeOK PROVE LossInv
        OBVIOUS
      <3>1. pos = 0 /\ committed = 0 /\ faults = 0 /\ pc = "down"
        BY <1>1 DEF Init
      <3>2. Missed = {}
        BY <3>1 DEF Missed, Read
      <3> QED
        BY <3>1, <3>2, FS_EmptySet DEF LossInv
    <2>2. LossInv /\ TypeOK' /\ [Next]_vars => LossInv'
      BY <1>1, LossStep
    <2>3. LossInv => OneLossPerFailure
      <3> SUFFICES ASSUME LossInv PROVE Cardinality(Lost) <= faults
        BY DEF OneLossPerFailure
      <3>1. committed \in 0..pos /\ pos \in Nat /\ faults \in Int
        BY DEF LossInv, TypeOK
      <3>2. 1..(IF pc = "down" THEN committed ELSE pos) \subseteq 1..pos
        BY <3>1
      <3>3. Lost \subseteq Missed
        BY <3>2 DEF Lost, Missed, Read
      <3>4. IsFiniteSet(Missed)
        BY OrchestratorAssumption, FS_Subset DEF Missed
      <3>5. /\ Cardinality(Missed) \in Nat /\ Cardinality(Lost) \in Nat
            /\ Cardinality(Lost) <= Cardinality(Missed)
        BY <3>3, <3>4, FS_Subset, FS_CardinalityType
      <3> QED
        BY <3>1, <3>5 DEF LossInv
    <2> QED
      BY <2>1, <2>2, <2>3, TypeCorrect, PTL DEF Spec
  <1>2. CASE ~KnownGroup
    <2>1. OneLossPerFailure
      BY <1>2 DEF OneLossPerFailure
    <2> QED
      BY <2>1, PTL
  <1> QED
    BY <1>1, <1>2
-----------------------------------------------------------------------------
(* Whole runs. *)

Stretch(l, t, b, p) == {i \in b..(p - 1) : l[i].txn = t /\ l[i].kind # "received"}
Fan(l, t, b, p)     == {i \in Stretch(l, t, b, p) : l[i].kind \in Agents}

\* What the process published about the transaction in hand from position b on is
\* its run so far: one completion for every agent that announced itself, and the
\* synthesis once it is out.
HandRun(b, p) ==
    /\ \A a \in announced :
          \E i \in Fan(log, txn, b, p) :
              \A j \in Fan(log, txn, b, p) : log[j].kind = a <=> j = i
    /\ \A i \in Fan(log, txn, b, p) :
          log[i].kind \in announced /\ (log[i].ok <=> outcome[log[i].kind] = "scored")
    /\ \A i \in Stretch(log, txn, b, p) \ Fan(log, txn, b, p) :
          log[i].kind = "synthesis" /\ \A j \in Stretch(log, txn, b, p) : j <= i
    /\ Stretch(log, txn, b, p) = Fan(log, txn, b, p) <=> pc # "final" \/ verdict = "ERROR"

InHand ==
    /\ pc \in {"gather", "synthesis", "final"} =>
          /\ \A a \in announced : outcome[a] # "running"
          /\ \E b \in 1..(Len(log) + 1) : HandRun(b, Len(log) + 1)
    /\ pc \in {"synthesis", "final"} =>
          announced = Agents /\ (verdict = "ERROR" <=> \A a \in Agents : outcome[a] # "scored")
    /\ pc = "synthesis" => verdict # "ERROR"

RunInv == TypeOK /\ DecisionClosesRun /\ InHand


\* Appending leaves a stretch of the log alone, and adds to one that reaches the
\* new end what it says about that transaction.
LEMMA StretchGrows ==
    ASSUME log \in Seq(Entry), NEW e \in Entry, log' = Append(log, e), NEW t,
           NEW q, q = Len(log) + 1, NEW b \in 1..q
    PROVE  /\ q \in Nat /\ Len(log') = q /\ log'[q] = e
           /\ Stretch(log', t, b, q) = Stretch(log, t, b, q)
           /\ Fan(log', t, b, q) = Fan(log, t, b, q)
           /\ e.txn = t /\ e.kind # "received"
                 => Stretch(log', t, b, q + 1) = Stretch(log, t, b, q) \cup {q}
           /\ e.kind = "received" => Stretch(log', t, b, q + 1) = Stretch(log, t, b, q)
           /\ e.txn = t /\ e.kind \in Agents
                 => Fan(log', t, b, q + 1) = Fan(log, t, b, q) \cup {q}
           /\ e.kind \notin Agents => Fan(log', t, b, q + 1) = Fan(log, t, b, q)
  <1>1. /\ q \in Nat /\ Len(log') = q /\ log'[q] = e
        /\ \A i \in b..(q - 1) : i \in 1..Len(log) /\ i <= q /\ i # q
        /\ b..((q + 1) - 1) = (b..(q - 1)) \cup {q}
    BY LogGrows
  <1>2. \A i \in b..(q - 1) : log'[i] = log[i]
    BY <1>1, LogGrows
  <1>3. /\ \A i \in Stretch(log, t, b, q) : i <= q /\ i # q /\ log'[i] = log[i]
        /\ Stretch(log', t, b, q) = Stretch(log, t, b, q)
    BY <1>1, <1>2 DEF Stretch
  <1>4. Fan(log', t, b, q) = Fan(log, t, b, q)
    BY <1>3 DEF Fan
  <1>5. e.txn = t /\ e.kind # "received"
           => Stretch(log', t, b, q + 1) = Stretch(log, t, b, q) \cup {q}
    BY <1>1, <1>2 DEF Stretch
  <1>6. e.kind = "received" \/ e.txn # t => Stretch(log', t, b, q + 1) = Stretch(log, t, b, q)
    BY <1>1, <1>2 DEF Stretch
  <1>7. e.txn = t /\ e.kind \in Agents
           => Fan(log', t, b, q + 1) = Fan(log, t, b, q) \cup {q}
    BY <1>1, <1>3, <1>5, KindsDiffer DEF Fan
  <1>8. e.kind \notin Agents => Fan(log', t, b, q + 1) = Fan(log, t, b, q)
    <2>1. CASE e.txn = t /\ e.kind # "received"
      BY <1>1, <1>3, <1>5, <2>1 DEF Fan
    <2>2. CASE ~(e.txn = t /\ e.kind # "received")
      BY <1>3, <1>6, <2>2 DEF Fan
    <2> QED
      BY <2>1, <2>2
  <1> QED
    BY <1>1, <1>3, <1>4, <1>5, <1>6, <1>7, <1>8

\* The records of such a stretch are not the appended one, and stay what they are.
LEMMA StretchStays ==
    ASSUME log \in Seq(Entry), NEW e \in Entry, log' = Append(log, e), NEW t,
           NEW q, q = Len(log) + 1, NEW b \in 1..q, NEW i \in Stretch(log, t, b, q)
    PROVE  i <= q /\ i # q /\ log'[i] = log[i]
  <1>1. i \in 1..Len(log)
    BY LogGrows DEF Stretch
  <1> QED
    BY <1>1, LogGrows

\* Earlier decisions stay closed; only an appended one is to be looked at.
LEMMA ClosedStay ==
    ASSUME log \in Seq(Entry), DecisionClosesRun, NEW e \in Entry, log' = Append(log, e),
           NEW n, n = Len(log),
           e.kind \in Finals => \E b \in 1..(n + 1) : ClosesRun(b, n + 1)'
    PROVE  DecisionClosesRun'
  <1>1. /\ n \in Nat /\ Len(log') = n + 1
        /\ DOMAIN log = 1..n /\ DOMAIN log' = (1..n) \cup {n + 1}
        /\ \A i \in 1..n : log'[i] = log[i]
        /\ log'[n + 1] = e
    BY LogGrows
  <1>2. ASSUME NEW p \in 1..n, log[p].kind \in Finals
        PROVE  \E b \in 1..p : ClosesRun(b, p)'
    <2>1. PICK b \in 1..p : ClosesRun(b, p)
      BY <1>1, <1>2 DEF DecisionClosesRun
    <2> DEFINE own == {i \in b..(p - 1) : log[i].txn = log[p].txn /\ log[i].kind # "received"}
               fan == {i \in own : log[i].kind \in Agents}
    <2>2. b..(p - 1) \subseteq 1..n /\ log'[p] = log[p]
      BY <1>1
    <2>3. own' = own /\ own \subseteq 1..n
      BY <1>1, <2>2
    <2>4. fan' = fan /\ fan \subseteq own
      BY <1>1, <2>3
    <2>5. /\ \A a \in Agents : \E i \in fan : \A j \in fan : log[j].kind = a <=> j = i
          /\ \A i \in own \ fan : log[i].kind = "synthesis" /\ \A j \in own : j <= i
          /\ log[p].kind = "ERROR" <=> own = fan
          /\ log[p].kind = "ERROR" <=> \A i \in fan : ~log[i].ok
      BY <2>1 DEF ClosesRun, Published
    <2>6. (/\ \A a \in Agents : \E i \in fan : \A j \in fan : log[j].kind = a <=> j = i
           /\ \A i \in own \ fan : log[i].kind = "synthesis" /\ \A j \in own : j <= i
           /\ log[p].kind = "ERROR" <=> own = fan
           /\ log[p].kind = "ERROR" <=> \A i \in fan : ~log[i].ok)'
             => ClosesRun(b, p)'
      BY DEF ClosesRun, Published
    <2> HIDE DEF own, fan
    <2>7. \A i \in own : log'[i] = log[i]
      BY <1>1, <2>3
    <2>8. (\A a \in Agents : \E i \in fan : \A j \in fan : log[j].kind = a <=> j = i)'
      <3> SUFFICES ASSUME NEW a \in Agents
                   PROVE  \E i \in fan' : \A j \in fan' : log'[j].kind = a <=> j = i
        OBVIOUS
      <3>1. PICK i \in fan : \A j \in fan : log[j].kind = a <=> j = i
        BY <2>5
      <3>2. \A j \in fan : log'[j] = log[j]
        BY <2>4, <2>7
      <3> QED
        BY <2>4, <3>1, <3>2
    <2>9. (\A i \in own \ fan : log[i].kind = "synthesis" /\ \A j \in own : j <= i)'
      BY <2>3, <2>4, <2>5, <2>7
    <2>10. (/\ log[p].kind = "ERROR" <=> own = fan
            /\ log[p].kind = "ERROR" <=> \A i \in fan : ~log[i].ok)'
      BY <2>2, <2>3, <2>4, <2>5, <2>7
    <2>11. ClosesRun(b, p)'
      BY <2>6, <2>8, <2>9, <2>10
    <2> QED
      BY <2>11
  <1> QED
    BY <1>1, <1>2 DEF DecisionClosesRun

\* With the log, they all stay.
LEMMA ClosedSame ==
    ASSUME DecisionClosesRun, log' = log
    PROVE  DecisionClosesRun'
  <1>1. ASSUME NEW p, NEW b, ClosesRun(b, p) PROVE ClosesRun(b, p)'
    <2> DEFINE own == {i \in b..(p - 1) : log[i].txn = log[p].txn /\ log[i].kind # "received"}
               fan == {i \in own : log[i].kind \in Agents}
               whole == /\ \A a \in Agents : \E i \in fan : \A j \in fan : log[j].kind = a <=> j = i
                        /\ \A i \in own \ fan : log[i].kind = "synthesis" /\ \A j \in own : j <= i
                        /\ log[p].kind = "ERROR" <=> own = fan
                        /\ log[p].kind = "ERROR" <=> \A i \in fan : ~log[i].ok
    <2>1. whole
      BY <1>1 DEF ClosesRun, Published
    <2>2. whole' => ClosesRun(b, p)'
      BY DEF ClosesRun, Published
    <2>3. own' = own
      OBVIOUS
    <2>4. fan' = fan
      BY <2>3
    <2> HIDE DEF own, fan
    <2>5. whole' <=> whole
      BY <2>3, <2>4
    <2> QED
      BY <2>1, <2>2, <2>5
  <1> QED
    BY <1>1 DEF DecisionClosesRun

\* What the process may publish of the transaction in hand.
LEMMA EntryOf ==
    ASSUME TypeOK, txn # NoTxn, NEW k \in Kinds, NEW b \in BOOLEAN
    PROVE  \E e \in Entry : e = Record(txn, k, b) /\ e.txn = txn /\ e.kind = k /\ (e.ok <=> b)
  <1>1. PICK e : e = Record(txn, k, b)
    OBVIOUS
  <1>2. txn \in Txns
    BY DEF TypeOK
  <1>3. e \in Entry /\ e.txn = txn /\ e.kind = k /\ e.ok = b
    BY <1>1, <1>2 DEF Record, Entry
  <1>4. e.ok <=> b
    BY <1>3
  <1> QED
    BY <1>1, <1>3, <1>4

\* The run in hand stays as it is while nothing of it is published.
LEMMA HandKept ==
    ASSUME NEW b, NEW p, NEW q, HandRun(b, p), NEW t, t = txn, txn' = txn,
           Stretch(log', t, b, q) = Stretch(log, t, b, p),
           Fan(log', t, b, q) = Fan(log, t, b, p),
           \A i \in Stretch(log, t, b, p) : log'[i] = log[i],
           announced' = announced,
           \A a \in announced : outcome'[a] = "scored" <=> outcome[a] = "scored",
           pc' # "final" \/ verdict' = "ERROR" <=> pc # "final" \/ verdict = "ERROR"
    PROVE  HandRun(b, q)'
  <1> DEFINE P == Stretch(log, t, b, p)
             C == Fan(log, t, b, p)
  <1>1. Stretch(log, txn, b, p) = P /\ Fan(log, txn, b, p) = C
    OBVIOUS
  <1>2. Stretch(log', txn', b, q) = P /\ Fan(log', txn', b, q) = C
    <2>1. Stretch(log', txn', b, q) = Stretch(log', t, b, q)
      BY DEF Stretch
    <2>2. Fan(log', txn', b, q) = Fan(log', t, b, q)
      BY <2>1 DEF Fan
    <2> QED
      BY <2>1, <2>2
  <1>3. C \subseteq P
    BY DEF Fan
  <1> HIDE DEF P, C
  <1>4. \A i \in P : log'[i] = log[i]
    BY DEF P
  <1>5. /\ \A a \in announced : \E i \in C : \A j \in C : log[j].kind = a <=> j = i
        /\ \A i \in C : log[i].kind \in announced /\ (log[i].ok <=> outcome[log[i].kind] = "scored")
        /\ \A i \in P \ C : log[i].kind = "synthesis" /\ \A j \in P : j <= i
        /\ P = C <=> pc # "final" \/ verdict = "ERROR"
    BY <1>1 DEF HandRun
  <1>6. \A a \in announced' : \E i \in C : \A j \in C : log'[j].kind = a <=> j = i
    <2> SUFFICES ASSUME NEW a \in announced
                 PROVE  \E i \in C : \A j \in C : log'[j].kind = a <=> j = i
      OBVIOUS
    <2>1. PICK i \in C : \A j \in C : log[j].kind = a <=> j = i
      BY <1>5
    <2> QED
      BY <1>3, <1>4, <2>1
  <1>7. \A i \in C : log'[i].kind \in announced' /\ (log'[i].ok <=> outcome'[log'[i].kind] = "scored")
    BY <1>3, <1>4, <1>5
  <1>8. \A i \in P \ C : log'[i].kind = "synthesis" /\ \A j \in P : j <= i
    BY <1>4, <1>5
  <1> QED
    BY <1>2, <1>5, <1>6, <1>7, <1>8 DEF HandRun

\* A completion adds itself, once.
LEMMA HandCompletes ==
    ASSUME RunInv, NEW q, q = Len(log) + 1, NEW b \in 1..q, HandRun(b, q),
           pc = "gather", NEW a \in Agents, AgentAnnounces(a)
    PROVE  HandRun(b, q + 1)'
  <1>t. log \in Seq(Entry) /\ TypeOK /\ txn # NoTxn
    BY DEF RunInv, TypeOK
  <1>0. /\ pc' = pc /\ txn' = txn /\ outcome' = outcome /\ verdict' = verdict
        /\ a \notin announced /\ announced' = announced \cup {a}
        /\ log' = Append(log, Record(txn, a, outcome[a] = "scored"))
    BY DEF AgentAnnounces
  <1>1. PICK e \in Entry : /\ log' = Append(log, e) /\ e.txn = txn /\ e.kind = a
                           /\ e.ok <=> outcome[a] = "scored"
    <2>1. a \in Kinds /\ (outcome[a] = "scored") \in BOOLEAN
      BY DEF Kinds
    <2> QED
      BY <1>t, <1>0, <2>1, EntryOf
  <1>2. PICK t : t = txn
    OBVIOUS
  <1> DEFINE P == Stretch(log, t, b, q)
             C == Fan(log, t, b, q)
  <1>s. C \subseteq P
    BY DEF Fan
  <1>3. /\ log'[q] = e /\ C \subseteq P
        /\ \A i \in P : i # q /\ log'[i] = log[i]
    <2>1. log'[q] = e /\ q \in Nat
      BY <1>t, <1>1, StretchGrows
    <2>2. ASSUME NEW i \in P PROVE i # q /\ i <= q /\ log'[i] = log[i]
      BY <1>t, <1>1, StretchStays
    <2> QED
      BY <1>s, <2>1, <2>2
  <1>4. /\ Stretch(log', txn', b, q + 1) = P \cup {q}
        /\ Fan(log', txn', b, q + 1) = C \cup {q}
    <2>1. a # "received"
      BY KindsDiffer
    <2> QED
      BY <1>t, <1>0, <1>1, <1>2, <2>1, StretchGrows
  <1>5. Stretch(log, txn, b, q) = P /\ Fan(log, txn, b, q) = C
    BY <1>2
  <1> DEFINE P1 == Stretch(log', txn', b, q + 1)
             C1 == Fan(log', txn', b, q + 1)
  <1> HIDE DEF P, C, P1, C1
  <1>6. /\ \A x \in announced : \E i \in C : \A j \in C : log[j].kind = x <=> j = i
        /\ \A i \in C : log[i].kind \in announced /\ (log[i].ok <=> outcome[log[i].kind] = "scored")
        /\ P = C
    BY <1>5 DEF HandRun
  <1>e. P1 = P \cup {q} /\ C1 = C \cup {q}
    BY <1>4 DEF P1, C1
  <1>7. \A x \in announced' : \E i \in C1 : \A j \in C1 : log'[j].kind = x <=> j = i
    <2> SUFFICES ASSUME NEW x \in announced \cup {a}
                 PROVE  \E i \in C1 : \A j \in C1 : log'[j].kind = x <=> j = i
      BY <1>0
    <2>c. \A j \in C : log'[j] = log[j] /\ j # q
      BY <1>3
    <2>1. CASE x = a
      <3>1. ASSUME NEW j \in C PROVE log'[j].kind # x /\ j # q
        <4>1. log[j].kind \in announced
          BY <1>6
        <4> QED
          BY <1>0, <2>c, <2>1, <4>1
      <3>2. log'[q].kind = x
        BY <1>1, <1>3, <2>1
      <3>3. q \in C1 /\ \A j \in C1 : log'[j].kind = x <=> j = q
        BY <1>e, <3>1, <3>2
      <3> QED
        BY <3>3
    <2>2. CASE x \in announced
      <3>1. PICK i \in C : \A j \in C : log[j].kind = x <=> j = i
        BY <1>6, <2>2
      <3>2. log'[q].kind # x
        BY <1>0, <1>1, <1>3, <2>2
      <3>3. i \in C1 /\ \A j \in C1 : log'[j].kind = x <=> j = i
        BY <1>e, <2>c, <3>1, <3>2
      <3> QED
        BY <3>3
    <2> QED
      BY <2>1, <2>2
  <1>8. \A i \in C1 : log'[i].kind \in announced' /\ (log'[i].ok <=> outcome'[log'[i].kind] = "scored")
    BY <1>0, <1>1, <1>3, <1>6, <1>e, ZenonT(40)
  <1>9. \A i \in P1 \ C1 : log'[i].kind = "synthesis" /\ \A j \in P1 : j <= i
    BY <1>6, <1>e
  <1>10. P1 = C1 <=> pc' # "final" \/ verdict' = "ERROR"
    BY <1>0, <1>6, <1>e
  <1> QED
    BY <1>7, <1>8, <1>9, <1>10 DEF HandRun, P1, C1

\* The synthesis follows all of them.
LEMMA HandSynthesised ==
    ASSUME RunInv, NEW q, q = Len(log) + 1, NEW b \in 1..q, HandRun(b, q), PublishSynthesis
    PROVE  HandRun(b, q + 1)'
  <1>t. log \in Seq(Entry) /\ TypeOK /\ txn # NoTxn /\ verdict # "ERROR"
    BY DEF RunInv, InHand, TypeOK, PublishSynthesis
  <1>0. /\ pc = "synthesis" /\ pc' = "final" /\ txn' = txn /\ outcome' = outcome
        /\ verdict' = verdict /\ announced' = announced
        /\ log' = Append(log, Record(txn, "synthesis", TRUE))
    BY DEF PublishSynthesis, run
  <1>1. PICK e \in Entry : log' = Append(log, e) /\ e.txn = txn /\ e.kind = "synthesis"
    <2>1. "synthesis" \in Kinds
      BY DEF Kinds
    <2> QED
      BY <1>t, <1>0, <2>1, EntryOf
  <1>2. PICK t : t = txn
    OBVIOUS
  <1> DEFINE P == Stretch(log, t, b, q)
             C == Fan(log, t, b, q)
  <1>s. C \subseteq P
    BY DEF Fan
  <1>3. /\ log'[q] = e /\ C \subseteq P /\ q \in Nat
        /\ \A i \in P : i # q /\ i <= q /\ log'[i] = log[i]
    <2>1. log'[q] = e /\ q \in Nat
      BY <1>t, <1>1, StretchGrows
    <2>2. ASSUME NEW i \in P PROVE i # q /\ i <= q /\ log'[i] = log[i]
      BY <1>t, <1>1, StretchStays
    <2> QED
      BY <1>s, <2>1, <2>2
  <1>4. Stretch(log', txn', b, q + 1) = P \cup {q} /\ Fan(log', txn', b, q + 1) = C
    <2>1. "synthesis" \notin Agents
      BY OrchestratorAssumption
    <2>2. e.kind # "received" /\ e.kind \notin Agents /\ e.txn = t /\ txn' = t
      BY <1>0, <1>1, <1>2, <2>1
    <2>3. Stretch(log', t, b, q + 1) = P \cup {q}
      BY <1>t, <1>1, <2>2, StretchGrows
    <2>4. Fan(log', t, b, q + 1) = C
      BY <1>t, <1>1, <2>2, StretchGrows
    <2> QED
      BY <2>2, <2>3, <2>4
  <1>5. Stretch(log, txn, b, q) = P /\ Fan(log, txn, b, q) = C
    BY <1>2
  <1> DEFINE P1 == Stretch(log', txn', b, q + 1)
             C1 == Fan(log', txn', b, q + 1)
  <1> HIDE DEF P, C, P1, C1
  <1>6. /\ \A x \in announced : \E i \in C : \A j \in C : log[j].kind = x <=> j = i
        /\ \A i \in C : log[i].kind \in announced /\ (log[i].ok <=> outcome[log[i].kind] = "scored")
        /\ P = C
    BY <1>0, <1>5 DEF HandRun
  <1>e. P1 = P \cup {q} /\ C1 = C
    BY <1>4 DEF P1, C1
  <1>7. \A x \in announced' : \E i \in C1 : \A j \in C1 : log'[j].kind = x <=> j = i
    <2> SUFFICES ASSUME NEW x \in announced
                 PROVE  \E i \in C : \A j \in C : log'[j].kind = x <=> j = i
      BY <1>0, <1>e
    <2>1. PICK i \in C : \A j \in C : log[j].kind = x <=> j = i
      BY <1>6
    <2> QED
      BY <1>3, <2>1
  <1>8. \A i \in C1 : log'[i].kind \in announced' /\ (log'[i].ok <=> outcome'[log'[i].kind] = "scored")
    BY <1>0, <1>3, <1>6, <1>e
  <1>9. \A i \in P1 \ C1 : log'[i].kind = "synthesis" /\ \A j \in P1 : j <= i
    BY <1>1, <1>3, <1>6, <1>e
  <1>10. P1 = C1 <=> pc' # "final" \/ verdict' = "ERROR"
    <2>1. q \in P1 /\ q \notin C1
      BY <1>3, <1>e
    <2> QED
      BY <1>t, <1>0, <2>1
  <1> QED
    BY <1>7, <1>8, <1>9, <1>10 DEF HandRun, P1, C1

\* The decision closes the run in hand.
LEMMA HandClosed ==
    ASSUME RunInv, pc = "final", NEW q, q = Len(log) + 1, NEW b \in 1..q, HandRun(b, q),
           NEW e \in Entry, log' = Append(log, e), e.txn = txn, e.kind = verdict
    PROVE  ClosesRun(b, q)'
  <1>t. /\ log \in Seq(Entry) /\ announced = Agents
        /\ verdict = "ERROR" <=> \A a \in Agents : outcome[a] # "scored"
    BY DEF RunInv, InHand, TypeOK
  <1>1. PICK t : t = txn
    OBVIOUS
  <1> DEFINE P == Stretch(log, t, b, q)
             C == Fan(log, t, b, q)
  <1>2. /\ log'[q] = e /\ C \subseteq P
        /\ Stretch(log', t, b, q) = P /\ Fan(log', t, b, q) = C
        /\ \A i \in P : log'[i] = log[i]
    <2>1. C \subseteq P
      BY DEF Fan
    <2>2. log'[q] = e /\ Stretch(log', t, b, q) = P /\ Fan(log', t, b, q) = C
      BY <1>t, StretchGrows
    <2>3. ASSUME NEW i \in P PROVE log'[i] = log[i]
      BY <1>t, StretchStays
    <2> QED
      BY <2>1, <2>2, <2>3
  <1>3. /\ \A a \in Agents : \E i \in C : \A j \in C : log[j].kind = a <=> j = i
        /\ \A i \in C : log[i].kind \in Agents /\ (log[i].ok <=> outcome[log[i].kind] = "scored")
        /\ \A i \in P \ C : log[i].kind = "synthesis" /\ \A j \in P : j <= i
        /\ P = C <=> verdict = "ERROR"
    BY <1>t, <1>1 DEF HandRun
  <1> DEFINE P1 == Stretch(log', t, b, q)
             C1 == Fan(log', t, b, q)
  <1>4. /\ \A a \in Agents : \E i \in C1 : \A j \in C1 : log'[j].kind = a <=> j = i
        /\ \A i \in P1 \ C1 : log'[i].kind = "synthesis" /\ \A j \in P1 : j <= i
        /\ log'[q].kind = "ERROR" <=> P1 = C1
        /\ log'[q].kind = "ERROR" <=> \A i \in C1 : ~log'[i].ok
        => ClosesRun(b, q)'
    <2>1. log'[q].txn = t
      BY <1>1, <1>2
    <2> QED
      BY <2>1 DEF ClosesRun, Published, Stretch, Fan
  <1>5. P1 = P /\ C1 = C
    BY <1>2
  <1> HIDE DEF P, C, P1, C1
  <1>6. \A a \in Agents : \E i \in C1 : \A j \in C1 : log'[j].kind = a <=> j = i
    <2> SUFFICES ASSUME NEW a \in Agents
                 PROVE  \E i \in C : \A j \in C : log'[j].kind = a <=> j = i
      BY <1>5
    <2>1. PICK i \in C : \A j \in C : log[j].kind = a <=> j = i
      BY <1>3
    <2>2. \A j \in C : log'[j] = log[j]
      BY <1>2
    <2> QED
      BY <2>1, <2>2
  <1>7. \A i \in P1 \ C1 : log'[i].kind = "synthesis" /\ \A j \in P1 : j <= i
    <2> SUFFICES ASSUME NEW i \in P \ C
                 PROVE  log'[i].kind = "synthesis" /\ \A j \in P : j <= i
      BY <1>5
    <2>1. log'[i] = log[i]
      BY <1>2
    <2> QED
      BY <1>3, <2>1
  <1>8. log'[q].kind = "ERROR" <=> P1 = C1
    BY <1>2, <1>3, <1>5
  <1>9. log'[q].kind = "ERROR" <=> \A i \in C1 : ~log'[i].ok
    <2>1. \A i \in C : log'[i] = log[i]
      BY <1>2
    <2>2. (\A a \in Agents : outcome[a] # "scored") <=> \A i \in C : ~log[i].ok
      BY <1>3
    <2> QED
      BY <1>t, <1>2, <1>5, <2>1, <2>2
  <1> QED
    BY <1>4, <1>6, <1>7, <1>8, <1>9

\* The runs while nothing of the one in hand is published, or it is left.
LEMMA RunQuiet ==
    ASSUME RunInv,
           \/ \E t \in Txns : Submit(t)
           \/ Start \/ Poll \/ Fuse \/ Audit \/ Stop \/ Kill \/ AutoCommit \/ UNCHANGED vars
           \/ \E a \in Agents, o \in {"scored", "abstained"} : AgentReturns(a, o)
    PROVE  DecisionClosesRun' /\ InHand'
  <1> USE DEF run, vars
  <1>t. log \in Seq(Entry) /\ Len(log) \in Nat /\ TypeOK /\ DecisionClosesRun /\ InHand
    <2>1. log \in Seq(Entry) /\ TypeOK /\ DecisionClosesRun /\ InHand
      BY DEF RunInv, TypeOK
    <2> QED
      BY <2>1, LogGrows
  <1>l. log' = log => DecisionClosesRun'
    BY <1>t, ClosedSame
  <1>p. PICK q : q = Len(log) + 1
    OBVIOUS
  <1>u. PICK u : u = txn
    OBVIOUS
  <1>k. ASSUME log' = log, txn' = txn, announced' = announced,
               \A a \in announced : outcome'[a] = "scored" <=> outcome[a] = "scored",
               pc' # "final" \/ verdict' = "ERROR" <=> pc # "final" \/ verdict = "ERROR",
               NEW b \in 1..q, HandRun(b, q)
        PROVE  HandRun(b, q)'
    BY <1>k, <1>u, HandKept
  <1>1. ASSUME NEW t \in Txns, Submit(t) PROVE DecisionClosesRun' /\ InHand'
    <2>0. UNCHANGED <<pc, txn, outcome, announced, verdict>>
      BY <1>1 DEF Submit
    <2>1. PICK e \in Entry : log' = Append(log, e) /\ e.kind = "received"
      <3>1. PICK e : e = Record(t, "received", TRUE)
        OBVIOUS
      <3>2. e \in Entry /\ e.kind = "received"
        BY <3>1 DEF Record, Entry, Kinds
      <3> QED
        BY <1>1, <3>1, <3>2 DEF Submit
    <2>2. PICK n : n = Len(log)
      OBVIOUS
    <2>3. DecisionClosesRun'
      BY <1>t, <2>1, <2>2, KindsDiffer, ClosedStay
    <2>4. ASSUME NEW b \in 1..q, HandRun(b, q) PROVE HandRun(b, q + 1)'
      <3>1. /\ Stretch(log', u, b, q + 1) = Stretch(log, u, b, q)
            /\ Fan(log', u, b, q + 1) = Fan(log, u, b, q)
        BY <1>t, <1>p, <2>1, StretchGrows, KindsDiffer
      <3>2. \A i \in Stretch(log, u, b, q) : log'[i] = log[i]
        BY <1>t, <1>p, <2>1, StretchStays
      <3> QED
        BY <1>u, <2>0, <2>4, <3>1, <3>2, HandKept
    <2>5. Len(log') = q /\ q \in Nat
      BY <1>t, <1>p, <2>1, LogGrows
    <2>6. (\E b \in 1..q : HandRun(b, q)) => \E b \in 1..(q + 1) : HandRun(b, q + 1)'
      BY <2>4, <2>5
    <2>7. InHand'
      BY <1>t, <1>p, <2>0, <2>5, <2>6 DEF InHand
    <2> QED
      BY <2>3, <2>7
  <1>2. ASSUME Start \/ Audit \/ Stop \/ Kill PROVE DecisionClosesRun' /\ InHand'
    <2>1. log' = log /\ pc' \in {"poll", "down"}
      BY <1>2 DEF Start, Audit, Stop, Kill
    <2> QED
      BY <1>l, <2>1 DEF InHand
  <1>3. ASSUME Poll PROVE DecisionClosesRun' /\ InHand'
    <2>1. log' = log /\ pc = "poll"
      BY <1>3 DEF Poll
    <2>2. CASE pc' = "poll"
      BY <1>l, <2>1, <2>2 DEF InHand
    <2>3. CASE pc' # "poll"
      <3>1. pc' = "gather" /\ announced' = {} /\ verdict' = "none"
        BY <1>3, <2>1, <2>3 DEF Poll
      <3>2. q..(q - 1) = {} /\ q \in 1..q /\ q \in Nat
        BY <1>t, <1>p
      <3>3. PICK v : v = txn'
        OBVIOUS
      <3>4. Stretch(log', v, q, q) = {} /\ Fan(log', v, q, q) = {}
        BY <3>2 DEF Stretch, Fan
      <3>5. HandRun(q, q)'
        BY <3>1, <3>3, <3>4 DEF HandRun
      <3> QED
        BY <1>l, <1>p, <2>1, <3>1, <3>2, <3>5 DEF InHand
    <2> QED
      BY <2>2, <2>3
  <1>4. ASSUME Fuse PROVE DecisionClosesRun' /\ InHand'
    <2>1. /\ log' = log /\ txn' = txn /\ announced' = announced /\ outcome' = outcome
          /\ pc = "gather" /\ pc' \in {"synthesis", "final"} /\ announced = Agents
          /\ verdict' = "ERROR" <=> \A a \in Agents : outcome[a] # "scored"
          /\ pc' = "final" <=> verdict' = "ERROR"
      <3>1. \A d \in Decisions : d # "ERROR"
        BY OrchestratorAssumption
      <3> QED
        BY <1>4, <3>1 DEF Fuse
    <2>2. ASSUME NEW b \in 1..q, HandRun(b, q) PROVE HandRun(b, q)'
      BY <1>k, <2>1, <2>2
    <2>3. InHand'
      BY <1>t, <1>p, <2>1, <2>2 DEF InHand
    <2> QED
      BY <1>l, <2>1, <2>3
  <1>5. ASSUME NEW a \in Agents, NEW o \in {"scored", "abstained"}, AgentReturns(a, o)
        PROVE  DecisionClosesRun' /\ InHand'
    <2>1. /\ log' = log /\ txn' = txn /\ announced' = announced /\ pc' = pc /\ verdict' = verdict
          /\ pc \in {"gather", "stopping"} /\ outcome[a] = "running"
          /\ outcome' = [outcome EXCEPT ![a] = o]
      BY <1>5 DEF AgentReturns
    <2>2. CASE pc = "stopping"
      BY <1>l, <2>1, <2>2 DEF InHand
    <2>3. CASE pc = "gather"
      <3>1. a \notin announced /\ \A x \in announced : outcome[x] # "running"
        BY <1>t, <2>1, <2>3 DEF InHand
      <3>2. \A x \in announced : outcome'[x] = outcome[x]
        BY <1>t, <2>1, <3>1 DEF TypeOK
      <3>3. ASSUME NEW b \in 1..q, HandRun(b, q) PROVE HandRun(b, q)'
        BY <1>k, <2>1, <3>2, <3>3
      <3>4. InHand'
        BY <1>t, <1>p, <2>1, <2>3, <3>1, <3>2, <3>3 DEF InHand
      <3> QED
        BY <1>l, <2>1, <3>4
    <2> QED
      BY <2>1, <2>2, <2>3
  <1>6. ASSUME AutoCommit \/ UNCHANGED vars PROVE DecisionClosesRun' /\ InHand'
    <2>1. UNCHANGED <<log, pc, txn, outcome, announced, verdict>>
      BY <1>6 DEF AutoCommit
    <2>2. ASSUME NEW b \in 1..q, HandRun(b, q) PROVE HandRun(b, q)'
      BY <1>k, <2>1, <2>2
    <2>3. InHand'
      BY <1>t, <1>p, <2>1, <2>2 DEF InHand
    <2> QED
      BY <1>l, <2>1, <2>3
  <1> QED
    BY <1>1, <1>2, <1>3, <1>4, <1>5, <1>6

\* The runs when something is published, or fails to be.
LEMMA RunPublishing ==
    ASSUME RunInv,
           \/ PublishSynthesis \/ PublishFinal \/ PublishRaises
           \/ \E a \in Agents : AgentAnnounces(a) \/ AgentRaises(a)
    PROVE  DecisionClosesRun' /\ InHand'
  <1> USE DEF run
  <1>t. /\ log \in Seq(Entry) /\ Len(log) \in Nat /\ TypeOK /\ DecisionClosesRun /\ InHand
        /\ txn # NoTxn
    <2>1. log \in Seq(Entry) /\ TypeOK /\ DecisionClosesRun /\ InHand
      BY DEF RunInv, TypeOK
    <2>2. txn # NoTxn
      BY <2>1 DEF TypeOK, PublishSynthesis, PublishFinal, PublishRaises, AgentAnnounces, AgentRaises
    <2> QED
      BY <2>1, <2>2, LogGrows
  <1>l. log' = log => DecisionClosesRun'
    BY <1>t, ClosedSame
  <1>p. PICK q : q = Len(log) + 1
    OBVIOUS
  <1>n. q \in Nat /\ 1..q \subseteq 1..(q + 1) /\ \A e : Len(Append(log, e)) = q
    BY <1>t, <1>p
  <1>k. \A k \in Agents \cup {"synthesis"} : k \in Kinds /\ k \notin Finals
    BY KindsDiffer DEF Kinds
  <1>c. ASSUME NEW k \in Kinds, NEW b \in BOOLEAN, k \notin Finals,
               log' = Append(log, Record(txn, k, b))
        PROVE  DecisionClosesRun'
    <2>1. PICK e \in Entry : log' = Append(log, e) /\ e.kind = k
      BY <1>t, <1>c, EntryOf
    <2>2. PICK n : n = Len(log)
      OBVIOUS
    <2> QED
      BY <1>t, <1>c, <2>1, <2>2, ClosedStay
  <1>f. ASSUME pc = "final", log' = Append(log, Record(txn, verdict, TRUE))
        PROVE  DecisionClosesRun'
    <2>1. verdict \in Kinds
      BY <1>t, <1>f DEF TypeOK, Kinds
    <2>2. PICK e \in Entry : log' = Append(log, e) /\ e.txn = txn /\ e.kind = verdict
      BY <1>t, <1>f, <2>1, EntryOf
    <2>3. PICK b \in 1..q : HandRun(b, q)
      BY <1>t, <1>f, <1>p DEF InHand
    <2>4. ClosesRun(b, q)'
      BY <1>p, <1>f, <2>2, <2>3, HandClosed
    <2>5. PICK n : n = Len(log)
      OBVIOUS
    <2>6. q = n + 1
      BY <1>p, <2>5
    <2> QED
      BY <1>t, <2>2, <2>3, <2>4, <2>5, <2>6, ClosedStay
  <1>1. ASSUME PublishSynthesis PROVE DecisionClosesRun' /\ InHand'
    <2>1. /\ pc = "synthesis" /\ pc' = "final" /\ UNCHANGED <<txn, outcome, announced, verdict>>
          /\ log' = Append(log, Record(txn, "synthesis", TRUE))
      BY <1>1 DEF PublishSynthesis
    <2>2. DecisionClosesRun'
      BY <1>c, <1>k, <2>1
    <2>3. PICK b \in 1..q : HandRun(b, q)
      BY <1>t, <1>p, <2>1 DEF InHand
    <2>4. HandRun(b, q + 1)'
      BY <1>1, <1>p, <2>3, HandSynthesised
    <2>5. InHand'
      BY <1>t, <1>p, <1>n, <2>1, <2>3, <2>4 DEF InHand
    <2> QED
      BY <2>2, <2>5
  <1>2. ASSUME PublishFinal PROVE DecisionClosesRun' /\ InHand'
    <2>1. pc' \in {"poll", "audit"} /\ pc = "final" /\ log' = Append(log, Record(txn, verdict, TRUE))
      BY <1>2 DEF PublishFinal
    <2> QED
      BY <1>f, <2>1 DEF InHand
  <1>3. ASSUME PublishRaises PROVE DecisionClosesRun' /\ InHand'
    <2>1. pc' = "stopping" /\ pc \in {"synthesis", "final"}
      BY <1>3 DEF PublishRaises
    <2>2. CASE log' = log
      BY <1>l, <2>1, <2>2 DEF InHand
    <2>3. CASE pc = "synthesis" /\ log' = Append(log, Record(txn, "synthesis", TRUE))
      BY <1>c, <1>k, <2>1, <2>3 DEF InHand
    <2>4. CASE pc = "final" /\ log' = Append(log, Record(txn, verdict, TRUE))
      BY <1>f, <2>1, <2>4 DEF InHand
    <2> QED
      BY <1>3, <2>1, <2>2, <2>3, <2>4 DEF PublishRaises
  <1>4. ASSUME NEW a \in Agents, AgentAnnounces(a) PROVE DecisionClosesRun' /\ InHand'
    <2>1. /\ pc \in {"gather", "stopping"} /\ pc' = pc /\ UNCHANGED <<txn, outcome, verdict>>
          /\ outcome[a] # "running" /\ announced' = announced \cup {a}
          /\ log' = Append(log, Record(txn, a, outcome[a] = "scored"))
      BY <1>4 DEF AgentAnnounces
    <2>2. DecisionClosesRun'
      BY <1>c, <1>k, <2>1
    <2>3. CASE pc = "stopping"
      BY <2>1, <2>2, <2>3 DEF InHand
    <2>4. CASE pc = "gather"
      <3>1. PICK b \in 1..q : HandRun(b, q)
        BY <1>t, <1>p, <2>4 DEF InHand
      <3>2. HandRun(b, q + 1)'
        BY <1>4, <1>p, <2>4, <3>1, HandCompletes
      <3>3. InHand'
        BY <1>t, <1>p, <1>n, <2>1, <2>4, <3>1, <3>2 DEF InHand
      <3> QED
        BY <2>2, <3>3
    <2> QED
      BY <2>1, <2>3, <2>4
  <1>5. ASSUME NEW a \in Agents, AgentRaises(a) PROVE DecisionClosesRun' /\ InHand'
    <2>1. /\ pc' = "stopping"
          /\ log' = log \/ log' = Append(log, Record(txn, a, outcome[a] = "scored"))
      BY <1>5 DEF AgentRaises
    <2>2. DecisionClosesRun'
      BY <1>c, <1>k, <1>l, <2>1
    <2> QED
      BY <2>1, <2>2 DEF InHand
  <1> QED
    BY <1>1, <1>2, <1>3, <1>4, <1>5

\* A decision is only ever published at the end of a whole run of its own
\* transaction, whatever aborted runs left behind, for any number of transactions,
\* agents and failures.
THEOREM DecisionsCloseRuns == Spec => []DecisionClosesRun
  <1>1. Init /\ TypeOK => RunInv
    <2> SUFFICES ASSUME Init, TypeOK PROVE RunInv
      OBVIOUS
    <2>1. DecisionClosesRun
      BY DEF Init, DecisionClosesRun
    <2>2. InHand
      BY DEF Init, InHand
    <2> QED
      BY <2>1, <2>2 DEF RunInv
  <1>2. RunInv /\ TypeOK' /\ [Next]_vars => RunInv'
    <2> SUFFICES ASSUME RunInv, TypeOK', [Next]_vars PROVE RunInv'
      OBVIOUS
    <2>1. DecisionClosesRun' /\ InHand'
      BY RunQuiet, RunPublishing DEF Next, Loop, Agent
    <2> QED
      BY <2>1 DEF RunInv
  <1>3. RunInv => DecisionClosesRun
    BY DEF RunInv
  <1> QED
    BY <1>1, <1>2, <1>3, TypeCorrect, PTL DEF Spec
=============================================================================
