--------------------------- MODULE ComponentProofs ---------------------------
(***************************************************************************)
(* The components around the pipeline that keep no copy of a fact but race *)
(* with something else: the endpoints and health reports with the stores   *)
(* that come and go (Serving), the seed scripts with each other and with   *)
(* live transfers (Seeding), a transfer's evaluation with the transfers    *)
(* next to it (BehaviorInputs).  Each has its type invariant and what its  *)
(* run checks, for any bounds and sets.                                    *)
(***************************************************************************)
EXTENDS Serving, Seeding, BehaviorInputs, FiniteSetTheorems, WellFoundedInduction, TLAPS

-----------------------------------------------------------------------------
(* Serving. *)

\* A process that hosts agents, on its own.
ServingSpec == ServingInit /\ [][ServingNext]_servingVars

Served == FusionAgents \cup {"synthesis", "app"}
ServingTypeOK ==
    /\ host \in {"api", "orchestrator", "behavior"} /\ up \subseteq Stores
    /\ task \in [kind : {"none", "evaluate", "answered", "health", "reported"},
                 pending : SUBSET Served, scored : SUBSET Served,
                 held : SUBSET Stores, still : BOOLEAN]
    /\ task.kind # "none" => Booted

\* A fan-out during which Redis stays up has velocity's score or will have it.
VelocityHeard ==
    task.kind \in {"evaluate", "answered"} /\ "redis" \in task.held =>
        /\ "redis" \in up
        /\ "velocity" \in task.scored \/ ("velocity" \in task.pending /\ task.kind = "evaluate")

\* A report nothing flipped during says of each part it has probed what is so.
ProbesAgree ==
    task.kind \in {"health", "reported"} /\ task.still =>
        /\ \A a \in Probed[host] \ task.pending : a \in task.scored <=> Healthy(a)
        /\ task.pending \cap task.scored = {}
        /\ task.kind = "reported" => task.pending = {}

ServingInv == ServingTypeOK /\ VelocityHeard /\ ProbesAgree

LEMMA HostProbes ==
    ASSUME host \in {"api", "orchestrator", "behavior"}
    PROVE  /\ Probed[host] \subseteq Served
           /\ DOMAIN StartupOrder = {"api", "orchestrator", "behavior"}
  BY DEF Probed, Served, FusionAgents, StartupOrder

LEMMA ServingStart == ServingInit => ServingInv
  <1> SUFFICES ASSUME ServingInit PROVE ServingInv
    OBVIOUS
  <1>1. /\ host \in {"api", "orchestrator", "behavior"} /\ up \subseteq Stores
        /\ task = NoTask
    BY DEF ServingInit, StartupOrder
  <1> QED
    BY <1>1 DEF ServingInv, ServingTypeOK, VelocityHeard, ProbesAgree, NoTask

LEMMA ServingStep == ServingInv /\ [ServingNext]_servingVars => ServingInv'
  <1> SUFFICES ASSUME ServingInv, [ServingNext]_servingVars PROVE ServingInv'
    OBVIOUS
  <1>1. CASE UNCHANGED servingVars
    BY <1>1 DEF servingVars, ServingInv, ServingTypeOK, VelocityHeard, ProbesAgree, Booted, Healthy
  <1>2. CASE Boot
    <2>1. task.kind = "none" /\ task' = task /\ host' = host /\ up' = up
      BY <1>2 DEF Boot, ServingInv, ServingTypeOK
    <2> QED
      BY <2>1 DEF ServingInv, ServingTypeOK, VelocityHeard, ProbesAgree
  <1>3. CASE Reboot
    <2>1. task' = NoTask /\ host' = host /\ up' = up
      BY <1>3 DEF Reboot
    <2> QED
      BY <2>1 DEF ServingInv, ServingTypeOK, VelocityHeard, ProbesAgree, NoTask
  <1>4. ASSUME NEW s \in Stores, Flip(s) PROVE ServingInv'
    <2>1. /\ host' = host /\ booted' = booted /\ up' \subseteq Stores
          /\ \A r \in Stores : r # s => (r \in up' <=> r \in up)
      BY <1>4 DEF Flip, ServingInv, ServingTypeOK
    <2>2. /\ task'.kind = task.kind /\ task'.pending = task.pending /\ task'.scored = task.scored
          /\ task'.held = task.held \ {s} /\ ~task'.still
      BY <1>4 DEF Flip, ServingInv, ServingTypeOK
    <2>3. ServingTypeOK'
      <3>1. task' \in [kind : {"none", "evaluate", "answered", "health", "reported"},
                       pending : SUBSET Served, scored : SUBSET Served,
                       held : SUBSET Stores, still : BOOLEAN]
        BY <1>4 DEF Flip, ServingInv, ServingTypeOK
      <3> QED
        BY <2>1, <2>2, <3>1 DEF ServingInv, ServingTypeOK, Booted
    <2>4. VelocityHeard'
      BY <2>1, <2>2 DEF ServingInv, VelocityHeard, Stores
    <2>5. ProbesAgree'
      BY <2>2 DEF ProbesAgree
    <2> QED
      BY <2>3, <2>4, <2>5 DEF ServingInv
  <1>5. ASSUME NEW kind \in {"evaluate", "health"}, NEW pending \in SUBSET Served,
               Begins(kind, pending), kind = "evaluate" => pending = FusionAgents,
               kind = "health" => pending = Probed[host]
        PROVE  ServingInv'
    <2>1. /\ Booted /\ host' = host /\ booted' = booted /\ up' = up
          /\ task' = [kind |-> kind, pending |-> pending, scored |-> {}, held |-> up,
                      still |-> TRUE]
      BY <1>5 DEF Begins
    <2>2. ServingTypeOK'
      BY <2>1 DEF ServingInv, ServingTypeOK, Booted
    <2>3. VelocityHeard'
      BY <1>5, <2>1 DEF VelocityHeard, FusionAgents
    <2>4. ProbesAgree'
      BY <1>5, <2>1 DEF ProbesAgree
    <2> QED
      BY <2>2, <2>3, <2>4 DEF ServingInv
  <1>6. ASSUME NEW a \in FusionAgents, AgentRuns(a) PROVE ServingInv'
    <2>1. PICK says \in Answers(a) \cup (IF a = "geo" THEN {"skipped"} ELSE {}) :
              task' = [task EXCEPT !.pending = @ \ {a},
                                   !.scored = IF says = "ok" THEN @ \cup {a} ELSE @]
      BY <1>6 DEF AgentRuns
    <2>2. /\ task.kind = "evaluate" /\ host' = host /\ booted' = booted /\ up' = up
      BY <1>6 DEF AgentRuns
    <2>3. /\ task'.kind = "evaluate" /\ task'.held = task.held
          /\ task'.pending = task.pending \ {a}
          /\ task'.scored = IF says = "ok" THEN task.scored \cup {a} ELSE task.scored
      BY <2>1, <2>2 DEF ServingInv, ServingTypeOK
    <2>4. ServingTypeOK'
      <3>1. a \in Served
        BY DEF Served
      <3>2. task' \in [kind : {"none", "evaluate", "answered", "health", "reported"},
                       pending : SUBSET Served, scored : SUBSET Served,
                       held : SUBSET Stores, still : BOOLEAN]
        BY <2>1, <3>1 DEF ServingInv, ServingTypeOK
      <3> QED
        BY <2>2, <2>3, <3>2 DEF ServingInv, ServingTypeOK, Booted
    <2>5. VelocityHeard'
      <3>1. ASSUME a = "velocity", "redis" \in up PROVE says = "ok"
        BY <3>1 DEF Answers, VelocityAnswers
      <3> QED
        BY <2>2, <2>3, <3>1 DEF ServingInv, VelocityHeard
    <2>6. ProbesAgree'
      BY <2>3 DEF ProbesAgree
    <2> QED
      BY <2>4, <2>5, <2>6 DEF ServingInv
  <1>7. CASE AnswerEvaluate
    <2>1. /\ task' = [task EXCEPT !.kind = "answered"] /\ task.pending = {}
          /\ task.kind = "evaluate" /\ host' = host /\ booted' = booted /\ up' = up
      BY <1>7 DEF AnswerEvaluate
    <2>2. ServingTypeOK'
      BY <2>1 DEF ServingInv, ServingTypeOK, Booted
    <2>3. VelocityHeard'
      BY <2>1 DEF ServingInv, ServingTypeOK, VelocityHeard
    <2>4. ProbesAgree'
      BY <2>1 DEF ServingInv, ServingTypeOK, ProbesAgree
    <2> QED
      BY <2>2, <2>3, <2>4 DEF ServingInv
  <1>8. ASSUME NEW a \in Probed[host], Probe(a) PROVE ServingInv'
    <2>1. /\ task.kind = "health" /\ a \in task.pending
          /\ task' = [task EXCEPT !.pending = @ \ {a},
                                  !.scored = IF Healthy(a) THEN @ \cup {a} ELSE @]
          /\ UNCHANGED <<host, up, booted, opened, modelError>>
      BY <1>8 DEF Probe
    <2>2. /\ task'.kind = "health" /\ task'.still = task.still
          /\ task'.pending = task.pending \ {a}
          /\ task'.scored = IF Healthy(a) THEN task.scored \cup {a} ELSE task.scored
      BY <2>1 DEF ServingInv, ServingTypeOK
    <2>3. a \in Served
      BY HostProbes DEF ServingInv, ServingTypeOK
    <2>4. ServingTypeOK'
      <3>1. task' \in [kind : {"none", "evaluate", "answered", "health", "reported"},
                       pending : SUBSET Served, scored : SUBSET Served,
                       held : SUBSET Stores, still : BOOLEAN]
        BY <2>1, <2>3 DEF ServingInv, ServingTypeOK
      <3> QED
        BY <2>1, <2>2, <3>1 DEF ServingInv, ServingTypeOK, Booted
    <2>5. VelocityHeard'
      BY <2>2 DEF VelocityHeard
    <2>6. ProbesAgree'
      <3>1. \A b : Healthy(b)' <=> Healthy(b)
        BY <2>1 DEF Healthy
      <3>2. ASSUME task.still, NEW b \in Probed[host] \ task'.pending
            PROVE  b \in task'.scored <=> Healthy(b)
        <4>1. CASE b = a
          <5>1. a \notin task.scored
            BY <2>1, <3>2 DEF ServingInv, ProbesAgree
          <5> QED
            BY <2>2, <4>1, <5>1
        <4>2. CASE b # a
          BY <2>1, <2>2, <3>2, <4>2 DEF ServingInv, ProbesAgree
        <4> QED
          BY <4>1, <4>2
      <3>3. task.still => task'.pending \cap task'.scored = {}
        <4>1. task.still => task.pending \cap task.scored = {}
          BY <2>1 DEF ServingInv, ProbesAgree
        <4> QED
          BY <2>2, <4>1
      <3>4. Probed[host]' = Probed[host]
        BY <2>1
      <3> QED
        BY <2>2, <3>1, <3>2, <3>3, <3>4 DEF ProbesAgree
    <2> QED
      BY <2>4, <2>5, <2>6 DEF ServingInv
  <1>9. CASE Report
    <2>1. /\ task' = [task EXCEPT !.kind = "reported"] /\ task.pending = {}
          /\ task.kind = "health" /\ UNCHANGED <<host, up, booted, opened, modelError>>
      BY <1>9 DEF Report
    <2>2. /\ task'.kind = "reported" /\ task'.pending = {} /\ task'.scored = task.scored
          /\ task'.still = task.still
      BY <2>1 DEF ServingInv, ServingTypeOK
    <2>3. ServingTypeOK'
      BY <2>1 DEF ServingInv, ServingTypeOK, Booted
    <2>4. VelocityHeard'
      BY <2>2 DEF VelocityHeard
    <2>5. ProbesAgree'
      <3>1. \A b : Healthy(b)' <=> Healthy(b)
        BY <2>1 DEF Healthy
      <3> QED
        BY <2>1, <2>2, <3>1 DEF ServingInv, ProbesAgree
    <2> QED
      BY <2>3, <2>4, <2>5 DEF ServingInv
  <1>10. FusionAgents \subseteq Served /\ Probed[host] \subseteq Served
    BY HostProbes DEF ServingInv, ServingTypeOK, Served
  <1> QED
    BY <1>1, <1>2, <1>3, <1>4, <1>5, <1>6, <1>7, <1>8, <1>9, <1>10 DEF ServingNext

\* "A store being down degrades one agent": as long as Redis is up during a request,
\* whatever else flips, was down at startup or is missing on disk, the fan-out ends
\* with velocity's score to decide by.
THEOREM OneStoreIsEnough == ServingSpec => []OneStoreDecides
  <1>1. ServingInv => OneStoreDecides
    BY DEF ServingInv, VelocityHeard, OneStoreDecides
  <1> QED
    BY <1>1, ServingStart, ServingStep, PTL DEF ServingSpec

\* A health report during which no store flipped agrees with the endpoints, on each
\* host, whatever startup could open.
THEOREM HealthIsTruth == ServingSpec => []HealthTellsTruth
  <1>1. ServingInv => HealthTellsTruth
    <2> SUFFICES ASSUME ServingInv, task.kind = "reported", task.still,
                        NEW a \in Probed[host] \ ({"app"} \cup ({"geo"} \ opened))
                 PROVE  /\ a \in task.scored => "ok" \in Answers(a)
                        /\ a \notin task.scored => Answers(a) = {"unavailable"}
      BY DEF HealthTellsTruth
    <2>1. a \in {"velocity", "geo", "graph", "behavior", "synthesis"}
      BY HostProbes DEF ServingInv, ServingTypeOK, Served, FusionAgents
    <2>2. a \in task.scored <=> Healthy(a)
      BY DEF ServingInv, ProbesAgree
    <2>3. CASE a = "velocity"
      BY <2>2, <2>3 DEF Healthy, Answers, VelocityAnswers
    <2>4. CASE a = "geo"
      BY <2>2, <2>4 DEF Healthy, Answers, GeoAnswers
    <2>5. CASE a = "graph"
      BY <2>2, <2>5 DEF Healthy, Answers, GraphAnswers
    <2>6. CASE a = "behavior"
      BY <2>2, <2>6 DEF Healthy, Answers, BehaviorAnswers
    <2>7. CASE a = "synthesis"
      BY <2>2, <2>7 DEF Healthy, Answers, SynthesisAnswers
    <2> QED
      BY <2>1, <2>3, <2>4, <2>5, <2>6, <2>7
  <1> QED
    BY <1>1, ServingStart, ServingStep, PTL DEF ServingSpec

-----------------------------------------------------------------------------
(* Seeding. *)

\* The seed scripts and the live system around them, on their own.
SeedingSpec == SeedingInit /\ [][SeedingNext]_seedVars

Below == {pair \in Nat \X Nat : pair[1] < pair[2]}

LEMMA BelowIsWellFounded == IsWellFoundedOn(Below, Nat)
  BY NatLessThanWellFounded DEF OpToRel, Below

\* The account the script goes on with is the least one left.
LEMMA LeastIsLeast ==
    ASSUME NEW S \in SUBSET Nat, S # {}
    PROVE  Least(S) \in S /\ \A b \in S : Least(S) <= b
<1>1. PICK a \in S : \A b \in S : ~(<<b, a>> \in Below)
  BY BelowIsWellFounded, WFMin
<1>2. ASSUME NEW b \in S PROVE a <= b
  <2>1. ~(<<b, a>> \in Below) /\ a \in Nat /\ b \in Nat
    BY <1>1
  <2>2. ~(b < a)
    BY <2>1 DEF Below
  <2> QED
    BY <2>1, <2>2
<1> QED
  BY <1>2 DEF Least

LEMMA LeastOfOne == ASSUME NEW a \in Nat PROVE Least({a}) = a
  BY LeastIsLeast

\* What is chosen, and that its numbers tell its accounts apart.
IsChoice(C) == C \subseteq Accts /\ {DemoAccount, DemoAccount2, RingCollector} \subseteq C
Numbers == 1..Cardinality(Accts)
Named(a) == IF a = DemoAccount2 THEN DemoAccount ELSE a

LEMMA AccountFacts ==
    /\ Accts \subseteq Nat /\ 0 \notin Accts /\ IsFiniteSet(Accts)
    /\ {DemoAccount, DemoAccount2, RingCollector} \subseteq Accts
    /\ DemoAccount < DemoAccount2 /\ \A a \in Accts \ {DemoAccount} : DemoAccount < a
    /\ Profiles \subseteq Accts /\ DemoAccount \notin Profiles /\ DemoAccount2 \notin Profiles
  BY SeedingAssumption DEF Accts

LEMMA NumberType ==
    ASSUME NEW C, IsChoice(C), NEW a \in C
    PROVE  CustomerId(a, C) \in Numbers
<1>1. /\ IsFiniteSet(Accts) /\ C \subseteq Accts /\ a \in Accts /\ DemoAccount \in Accts
      /\ Accts \subseteq Nat
  BY AccountFacts DEF IsChoice
<1>2. ASSUME NEW S \in SUBSET Accts, NEW b \in S PROVE Cardinality(S) \in Numbers
  <2>1. IsFiniteSet(S) /\ Cardinality(S) <= Cardinality(Accts) /\ Cardinality(Accts) \in Nat
    BY <1>1, FS_Subset, FS_CardinalityType
  <2>2. Cardinality(S) \in Nat /\ Cardinality(S) # 0
    BY <1>2, <2>1, FS_CardinalityType, FS_EmptySet
  <2> QED
    BY <2>1, <2>2 DEF Numbers
<1>3. Cardinality({b \in C : b <= a}) \in Numbers
  <2> DEFINE S == {b \in C : b <= a}
  <2>1. S \in SUBSET Accts
    BY <1>1
  <2>3. a <= a
    BY <1>1
  <2>4. a \in S
    BY <2>3
  <2> HIDE DEF S
  <2>2. Cardinality(S) \in Numbers
    BY <1>2, <2>1, <2>4
  <2> QED
    BY <2>2 DEF S
<1>4. 1 \in Numbers
  <2>1. Cardinality({DemoAccount}) = 1
    BY FS_Singleton
  <2> QED
    BY <1>1, <1>2, <2>1
<1> QED
  BY <1>3, <1>4 DEF CustomerId

LEMMA NumberedApart ==
    ASSUME NEW C, IsChoice(C), NEW a \in C \ {DemoAccount2}, NEW b \in C \ {DemoAccount2},
           CustomerId(a, C) = CustomerId(b, C)
    PROVE  a = b
<1> DEFINE To(x) == {y \in C : y <= x}
<1>1. /\ C \subseteq Accts /\ IsFiniteSet(C) /\ C \subseteq Nat
      /\ DemoAccount \in C /\ \A x \in C \ {DemoAccount} : DemoAccount < x
  BY AccountFacts, FS_Subset DEF IsChoice
<1>2. \A x \in C : To(x) \in SUBSET C
  OBVIOUS
<1>3. ASSUME NEW x \in C 
      PROVE  x \notin {DemoAccount, DemoAccount2} => CustomerId(x, C) = Cardinality(To(x))
  BY DEF CustomerId
<1>4. To(DemoAccount) = {DemoAccount} /\ CustomerId(DemoAccount, C) = 1
  <2>1. ASSUME NEW z \in C, z <= DemoAccount PROVE z = DemoAccount
    BY <1>1, <2>1
  <2>2. DemoAccount <= DemoAccount
    BY <1>1
  <2> QED
    BY <1>1, <2>1, <2>2 DEF CustomerId
<1>5. ASSUME NEW x \in C, NEW y \in C, x < y PROVE To(x) \in SUBSET To(y) /\ To(x) # To(y)
  <2>1. x \in Nat /\ y \in Nat
    BY <1>1
  <2>2. y \in To(y) /\ y \notin To(x)
    BY <1>5, <2>1
  <2>3. ASSUME NEW z \in C, z <= x PROVE z <= y
    BY <1>1, <1>5, <2>1, <2>3
  <2> QED
    BY <2>2, <2>3
<1> HIDE DEF To
<1>6. ASSUME NEW x \in C \ {DemoAccount2} PROVE CustomerId(x, C) = Cardinality(To(x))
  <2>1. Cardinality({DemoAccount}) = 1
    BY FS_Singleton
  <2> QED
    BY <1>3, <1>4, <2>1
<1>7. ASSUME NEW x \in C, NEW y \in C, x < y PROVE Cardinality(To(x)) # Cardinality(To(y))
  <2>1. IsFiniteSet(To(y))
    BY <1>1, <1>2, FS_Subset
  <2> QED
    BY <1>5, <1>7, <2>1, FS_Subset
<1>8. Cardinality(To(a)) = Cardinality(To(b))
  BY <1>6
<1> QED
  BY <1>1, <1>7, <1>8

\* What the scripts have in hand at each step.
Statuses == {"absent", "pending", "success", "failed", "blocked"}
Seeds == {"customer", "account"}
ScriptOK ==
    /\ script \in [pc : {"done", "customer", "account", "history", "backfill", "update",
                         "profile", "profile_history"},
                   chosen : SUBSET Accts, todo : SUBSET (Accts \cup Rows), rows : SUBSET Rows,
                   verdict : {"none", "PASS", "BLOCK"}]
    /\ script.pc \in Seeds => script.chosen \in seeds /\ script.todo \subseteq script.chosen
    /\ script.pc = "account" => script.todo # {}
    /\ script.pc = "update" => \E t \in script.rows : script.todo = {t}
    /\ script.pc = "profile" => \E a \in Profiles : script.todo = {a}

SeedingTypeOK ==
    /\ people \in [CustomerIds -> {0} \cup Accts] /\ owner \in [Accts -> {0} \cup CustomerIds]
    /\ ledger \in [Rows -> [status : Statuses, analyses : Nat]]
    /\ ScriptOK
    /\ IsFiniteSet(seeds) /\ \A C \in seeds : IsChoice(C)
    /\ runs \in Nat

\* A backfill has selected rows without an analysis, and nobody but it and the live
\* system analyses rows.
NotYetAnalysed ==
    script.pc \in {"backfill", "update"} =>
        \A t \in script.rows \cap History : ledger[t].analyses = 0
BackfillInv == SeedingTypeOK /\ AnalysedOnce /\ NotYetAnalysed

\* A customer was created with the account whose number he has; the demo account
\* comes before the second one; the customer of the account in hand is his.
Numbered ==
    \A c \in Numbers : people[c] # 0 =>
        \E C \in seeds : people[c] \in C \ {DemoAccount2} /\ c = CustomerId(people[c], C)
OwnProfile == \A a \in Profiles : people[-a] \in {0, a}
DemoFirst ==
    script.pc \in Seeds /\ DemoAccount \notin script.todo => people[1] = DemoAccount
InStep ==
    /\ script.pc = "account" =>
           LET a == Least(script.todo)
           IN people[CustomerId(a, script.chosen)] = Named(a)
    /\ script.pc = "profile" => \A a \in script.todo : people[-a] = a
Kept == Numbered /\ OwnProfile /\ DemoFirst /\ InStep /\ AccountsKeepOwner
OwnerInv == SeedingTypeOK /\ (Cardinality(seeds) <= 1 => Kept)

ScriptType ==
    [pc : {"done", "customer", "account", "history", "backfill", "update",
           "profile", "profile_history"},
     chosen : SUBSET Accts, todo : SUBSET (Accts \cup Rows), rows : SUBSET Rows,
     verdict : {"none", "PASS", "BLOCK"}]

LEMMA DoneType == Done \in ScriptType /\ Done.pc = "done"
  BY DEF Done, ScriptType

LEMMA AccountInHand ==
    ASSUME SeedingTypeOK, script.pc \in Seeds, script.todo # {}
    PROVE  /\ Least(script.todo) \in script.todo
           /\ \A b \in script.todo : Least(script.todo) <= b
           /\ Least(script.todo) \in script.chosen /\ Least(script.todo) \in Accts
           /\ script.todo \subseteq Nat /\ script.chosen \in seeds /\ IsChoice(script.chosen)
           /\ CustomerId(Least(script.todo), script.chosen) \in Numbers
           /\ Numbers \subseteq CustomerIds /\ 1 \in Numbers
<1>1. /\ script.todo \subseteq script.chosen /\ script.chosen \in seeds
      /\ IsChoice(script.chosen)
  BY DEF SeedingTypeOK, ScriptOK
<1>2. script.chosen \subseteq Accts /\ script.chosen \subseteq Nat
  BY <1>1, AccountFacts DEF IsChoice
<1>3. /\ Least(script.todo) \in script.todo
      /\ \A b \in script.todo : Least(script.todo) <= b
  BY <1>1, <1>2, LeastIsLeast
<1>4. CustomerId(Least(script.todo), script.chosen) \in Numbers
  BY <1>1, <1>3, NumberType
<1>5. 1 \in Numbers
  <2>1. DemoAccount \in script.chosen /\ CustomerId(DemoAccount, script.chosen) = 1
    BY <1>1 DEF IsChoice, CustomerId
  <2> QED
    BY <1>1, <2>1, NumberType
<1>6. Numbers \subseteq CustomerIds
  BY DEF Numbers, CustomerIds
<1> QED
  BY <1>1, <1>2, <1>3, <1>4, <1>5, <1>6

LEMMA RowFacts ==
    /\ \A a \in Accts : HistoryOf[a] \subseteq Rows
    /\ LiveTxns \subseteq Rows /\ History \subseteq Rows /\ LiveTxns \cap History = {}
  BY SeedingAssumption DEF Rows, History

LEMMA SeedingTypeInit == SeedingInit => SeedingTypeOK
  <1> SUFFICES ASSUME SeedingInit PROVE SeedingTypeOK
    OBVIOUS
  <1>1. IsFiniteSet(seeds) /\ \A C \in seeds : IsChoice(C)
    BY FS_EmptySet DEF SeedingInit
  <1>2. ledger \in [Rows -> [status : Statuses, analyses : Nat]]
    BY DEF SeedingInit, Statuses
  <1>3. ScriptOK
    BY DoneType DEF SeedingInit, ScriptOK, ScriptType, Seeds
  <1> QED
    BY <1>1, <1>2, <1>3 DEF SeedingInit, SeedingTypeOK

\* A script that stops, or goes on to a step that needs nothing in particular.
LEMMA ScriptGoesOn ==
    ASSUME ScriptOK, NEW s \in ScriptType, s.pc \notin {"customer", "account", "update", "profile"},
           script' = s
    PROVE  ScriptOK'
  BY DEF ScriptOK, ScriptType, Seeds

LEMMA ScriptStep ==
    ASSUME SeedingTypeOK, [SeedingNext]_seedVars
    PROVE  ScriptOK'
  <1>1. ScriptOK /\ script \in ScriptType
    BY DEF SeedingTypeOK, ScriptOK, ScriptType
  <1>2. CASE UNCHANGED <<script, seeds>>
    BY <1>1, <1>2 DEF ScriptOK
  <1>3. CASE SeedBegins
    <2>1. PICK S \in SUBSET OtherAccounts :
              LET chosen == S \cup {DemoAccount, DemoAccount2, RingCollector}
              IN /\ script' = [Done EXCEPT !.pc = "customer", !.chosen = chosen, !.todo = chosen]
                 /\ seeds' = seeds \cup {chosen}
      BY <1>3 DEF SeedBegins
    <2> DEFINE chosen == S \cup {DemoAccount, DemoAccount2, RingCollector}
    <2>2. chosen \subseteq Accts
      BY DEF Accts
    <2> HIDE DEF chosen
    <2>3. script' = [Done EXCEPT !.pc = "customer", !.chosen = chosen, !.todo = chosen]
          /\ seeds' = seeds \cup {chosen}
      BY <2>1 DEF chosen
    <2> QED
      BY <2>2, <2>3 DEF Done, ScriptOK, Seeds
  <1>4. CASE SeedCustomer
    <2>1. /\ script' = [script EXCEPT !.pc = "account"] /\ seeds' = seeds
          /\ script.pc = "customer" /\ script.todo # {}
      BY <1>4 DEF SeedCustomer
    <2> QED
      BY <1>1, <2>1 DEF ScriptOK, Seeds, ScriptType
  <1>5. CASE SeedAccount
    <2>1. /\ script' = [script EXCEPT !.pc = "customer", !.todo = @ \ {Least(script.todo)}]
          /\ seeds' = seeds /\ script.pc = "account"
      BY <1>5 DEF SeedAccount
    <2> QED
      BY <1>1, <2>1 DEF ScriptOK, Seeds, ScriptType
  <1>6. CASE HistoryBegins
    <2>1. UNION {HistoryOf[a] : a \in {b \in Accts : owner[b] # 0}} \subseteq Rows
      BY RowFacts
    <2>2. script' = [script EXCEPT !.pc = "history",
                         !.rows = UNION {HistoryOf[a] : a \in {b \in Accts : owner[b] # 0}}]
      BY <1>6 DEF HistoryBegins
    <2>3. script' \in ScriptType /\ script'.pc = "history"
      BY <1>1, <2>1, <2>2 DEF ScriptType
    <2> QED
      BY <1>1, <2>3, ScriptGoesOn
  <1>7. ASSUME NEW t \in Rows, SeedTransaction(t) PROVE ScriptOK'
    <2>1. script' = [script EXCEPT !.rows = @ \ {t}] /\ script.pc = "history"
      BY <1>7 DEF SeedTransaction
    <2>2. script' \in ScriptType /\ script'.pc = "history"
      BY <1>1, <2>1 DEF ScriptType
    <2> QED
      BY <1>1, <2>2, ScriptGoesOn
  <1>8. CASE SelectUnscored
    <2> DEFINE unscored == {t \in Rows : ledger[t].status # "absent" /\ ledger[t].analyses = 0}
    <2>1. unscored \subseteq Rows
      OBVIOUS
    <2>2. script' = [script EXCEPT !.pc = "backfill", !.rows = unscored] \/ script' = Done
      BY <1>8 DEF SelectUnscored
    <2> HIDE DEF unscored
    <2>3. script' \in ScriptType /\ script'.pc \in {"backfill", "done"}
      BY <1>1, <2>1, <2>2, DoneType DEF ScriptType
    <2> QED
      BY <1>1, <2>3, ScriptGoesOn
  <1>9. ASSUME NEW t \in Rows, Evaluate(t) PROVE ScriptOK'
    <2>1. CASE script' = [script EXCEPT !.rows = @ \ {t}]
      <3>1. script' \in ScriptType /\ script'.pc = "backfill"
        BY <1>1, <1>9, <2>1 DEF ScriptType, Evaluate
      <3> QED
        BY <1>1, <3>1, ScriptGoesOn
    <2>2. ASSUME NEW d \in {"PASS", "BLOCK"},
                 script' = [script EXCEPT !.pc = "update", !.rows = {t} \cup @, !.todo = {t},
                                          !.verdict = d]
          PROVE  ScriptOK'
      BY <1>1, <2>2 DEF ScriptOK, Seeds, ScriptType
    <2> QED
      BY <1>9, <2>1, <2>2 DEF Evaluate
  <1>10. CASE UpdateRow
    <2>1. PICK t \in script.todo :
              script' = [script EXCEPT !.pc = "backfill", !.rows = @ \ {t}, !.todo = {},
                                       !.verdict = "none"]
      BY <1>10 DEF UpdateRow
    <2>2. script' \in ScriptType /\ script'.pc = "backfill"
      BY <1>1, <2>1 DEF ScriptType
    <2> QED
      BY <1>1, <2>2, ScriptGoesOn
  <1>11. CASE SeedEnds \/ SeedAborts
    <2>1. script' = Done
      BY <1>11 DEF SeedEnds, SeedAborts
    <2> QED
      BY <1>1, <2>1, DoneType, ScriptGoesOn
  <1>12. ASSUME NEW a \in Profiles, UpsertCustomer(a) PROVE ScriptOK'
    <2>1. script' = [Done EXCEPT !.pc = "profile", !.todo = {a}] /\ a \in Accts
      BY <1>12, AccountFacts DEF UpsertCustomer
    <2> QED
      BY <2>1 DEF Done, ScriptOK, Seeds
  <1>13. CASE UpsertAccount
    <2>1. /\ script.pc = "profile"
          /\ script' = [script EXCEPT !.pc = "profile_history",
                                      !.rows = HistoryOf[Least(script.todo)]]
      BY <1>13 DEF UpsertAccount
    <2>2. Least(script.todo) \in Accts
      <3>1. PICK a \in Profiles : script.todo = {a}
        BY <1>1, <2>1 DEF ScriptOK
      <3> QED
        BY <3>1, LeastOfOne, AccountFacts
    <2>3. script' \in ScriptType /\ script'.pc = "profile_history"
      BY <1>1, <2>1, <2>2, RowFacts DEF ScriptType
    <2> QED
      BY <1>1, <2>3, ScriptGoesOn
  <1>14. CASE ProfileTransaction
    <2>1. \/ script' = [script EXCEPT !.rows = @ \ {Least(script.rows)}]
          \/ script' = Done
      BY <1>14 DEF ProfileTransaction
    <2>2. script.pc = "profile_history"
      BY <1>14 DEF ProfileTransaction
    <2>3. script' \in ScriptType /\ script'.pc \in {"profile_history", "done"}
      BY <1>1, <2>1, <2>2, DoneType DEF ScriptType
    <2> QED
      BY <1>1, <2>3, ScriptGoesOn
  <1>15. ASSUME NEW t \in LiveTxns, LiveSubmit(t) \/ LiveSettle(t) PROVE ScriptOK'
    <2>1. UNCHANGED <<script, seeds>>
      BY <1>15 DEF LiveSubmit, LiveSettle
    <2> QED
      BY <1>2, <2>1
  <1>16. UNCHANGED seedVars => UNCHANGED <<script, seeds>>
    BY DEF seedVars
  <1> QED
    BY <1>2, <1>3, <1>4, <1>5, <1>6, <1>7, <1>8, <1>9, <1>10, <1>11, <1>12, <1>13, <1>14,
       <1>15, <1>16 DEF SeedingNext

\* Who writes what.
LEMMA WhoWrites ==
    ASSUME [SeedingNext]_seedVars
    PROVE  /\ people' = people \/ SeedCustomer \/ \E a \in Profiles : UpsertCustomer(a)
           /\ owner' = owner \/ SeedAccount \/ UpsertAccount
           /\ \/ ledger' = ledger \/ UpdateRow \/ ProfileTransaction
              \/ \E t \in Rows : SeedTransaction(t)
              \/ \E t \in LiveTxns : LiveSubmit(t) \/ LiveSettle(t)
           /\ seeds' = seeds \/ SeedBegins
           /\ runs' = runs \/ SeedBegins \/ \E a \in Profiles : UpsertCustomer(a)
  BY DEF SeedingNext, seedVars, SeedBegins, SeedCustomer, SeedAccount, HistoryBegins,
         SeedTransaction, SelectUnscored, Evaluate, UpdateRow, SeedEnds, SeedAborts,
         UpsertCustomer, UpsertAccount, ProfileTransaction, LiveSubmit, LiveSettle

\* A row of the history is analysed by the backfill alone, and then once.
LEMMA LedgerStep ==
    ASSUME SeedingTypeOK, [SeedingNext]_seedVars
    PROVE  /\ ledger' \in [Rows -> [status : Statuses, analyses : Nat]]
           /\ \A t \in History :
                \/ ledger'[t].analyses = ledger[t].analyses
                \/ UpdateRow /\ script.todo = {t} /\ ledger'[t].analyses = ledger[t].analyses + 1
  <1>1. ledger \in [Rows -> [status : Statuses, analyses : Nat]] /\ History \subseteq Rows
    BY RowFacts DEF SeedingTypeOK
  <1>2. CASE ledger' = ledger
    BY <1>1, <1>2
  <1>3. CASE UpdateRow
    <2>1. PICK t \in script.todo :
              ledger' = [ledger EXCEPT ![t].analyses = @ + 1,
                            ![t].status = IF script.verdict = "BLOCK" THEN "blocked" ELSE @]
      BY <1>3 DEF UpdateRow
    <2>2. script.todo = {t} /\ t \in Rows
      <3>1. PICK u \in script.rows : script.todo = {u}
        BY <1>3 DEF UpdateRow, SeedingTypeOK, ScriptOK
      <3>2. script.rows \subseteq Rows
        BY DEF SeedingTypeOK, ScriptOK
      <3> QED
        BY <2>1, <3>1, <3>2
    <2>3. \A u \in Rows : u # t => ledger'[u] = ledger[u]
      BY <1>1, <2>1
    <2> DEFINE row == [ledger[t] EXCEPT !.analyses = @ + 1,
                            !.status = IF script.verdict = "BLOCK" THEN "blocked" ELSE @]
    <2>4. ledger[t] \in [status : Statuses, analyses : Nat]
      BY <1>1, <2>2
    <2>7. ledger' = [ledger EXCEPT ![t] = row]
      BY <1>1, <2>1, <2>2, Zenon
    <2>5. row \in [status : Statuses, analyses : Nat] /\ row.analyses = ledger[t].analyses + 1
      <3>1. "blocked" \in Statuses /\ ledger[t].status \in Statuses /\ ledger[t].analyses + 1 \in Nat
        BY <2>4 DEF Statuses
      <3>2. (IF script.verdict = "BLOCK" THEN "blocked" ELSE ledger[t].status) \in Statuses
        BY <3>1
      <3> QED
        BY <2>4, <3>1, <3>2
    <2> HIDE DEF row
    <2>6. /\ ledger'[t].analyses = ledger[t].analyses + 1
          /\ ledger' \in [Rows -> [status : Statuses, analyses : Nat]]
      BY <1>1, <2>2, <2>5, <2>7
    <2> QED
      BY <1>1, <1>3, <2>2, <2>3, <2>6
  <1>4. ASSUME NEW t \in Rows, SeedTransaction(t)
        PROVE  /\ ledger' \in [Rows -> [status : Statuses, analyses : Nat]]
               /\ \A u \in Rows : ledger'[u].analyses = ledger[u].analyses
    <2>1. PICK status \in {"success", "failed"} :
              ledger' = IF ledger[t].status # "absent" THEN ledger
                        ELSE [ledger EXCEPT ![t].status = status]
      BY <1>4 DEF SeedTransaction
    <2> QED
      BY <1>1, <2>1 DEF Statuses
  <1>5. CASE ProfileTransaction
    <2>1. \/ ledger' = ledger
          \/ ledger' = [ledger EXCEPT ![Least(script.rows)].status = "success"]
      BY <1>5 DEF ProfileTransaction
    <2> QED
      BY <1>1, <2>1 DEF Statuses
  <1>6. ASSUME NEW t \in LiveTxns, LiveSubmit(t) \/ LiveSettle(t)
        PROVE  /\ ledger' \in [Rows -> [status : Statuses, analyses : Nat]]
               /\ \A u \in History : ledger'[u].analyses = ledger[u].analyses
    <2>1. t \in Rows /\ t \notin History
      BY RowFacts
    <2>2. CASE LiveSubmit(t)
      BY <1>1, <2>1, <2>2 DEF LiveSubmit, Statuses
    <2>3. CASE LiveSettle(t)
      <3>1. PICK status \in {"success", "blocked"} :
                ledger' = [ledger EXCEPT ![t].status = status, ![t].analyses = @ + 1]
        BY <2>3 DEF LiveSettle
      <3>2. \A u \in Rows : u # t => ledger'[u] = ledger[u]
        BY <1>1, <3>1
      <3>3. ledger' \in [Rows -> [status : Statuses, analyses : Nat]]
        BY <1>1, <2>1, <3>1 DEF Statuses
      <3> QED
        BY <1>1, <2>1, <3>2, <3>3
    <2> QED
      BY <1>6, <2>2, <2>3
  <1> QED
    BY <1>1, <1>2, <1>3, <1>4, <1>5, <1>6, WhoWrites

LEMMA SeedingTypeStep == SeedingTypeOK /\ [SeedingNext]_seedVars => SeedingTypeOK'
  <1> SUFFICES ASSUME SeedingTypeOK, [SeedingNext]_seedVars PROVE SeedingTypeOK'
    OBVIOUS
  <1>1. people' \in [CustomerIds -> {0} \cup Accts]
    <2>1. CASE SeedCustomer
      <3>1. Least(script.todo) \in Accts
        BY <2>1, AccountInHand DEF SeedCustomer, Seeds
      <3> QED
        BY <2>1, <3>1 DEF SeedCustomer, SeedingTypeOK
    <2>2. ASSUME NEW a \in Profiles, UpsertCustomer(a)
          PROVE  people' \in [CustomerIds -> {0} \cup Accts]
      BY <2>2, AccountFacts DEF UpsertCustomer, SeedingTypeOK
    <2> QED
      BY <2>1, <2>2, WhoWrites DEF SeedingTypeOK
  <1>2. owner' \in [Accts -> {0} \cup CustomerIds]
    <2>1. CASE SeedAccount
      <3>1. CustomerId(Least(script.todo), script.chosen) \in CustomerIds
        BY <2>1, AccountInHand DEF SeedAccount, Seeds, SeedingTypeOK, ScriptOK
      <3> QED
        BY <2>1, <3>1 DEF SeedAccount, SeedingTypeOK
    <2>2. CASE UpsertAccount
      <3>1. PICK a \in Profiles : script.todo = {a}
        BY <2>2 DEF UpsertAccount, SeedingTypeOK, ScriptOK
      <3>2. Least(script.todo) = a /\ -a \in CustomerIds
        BY <3>1, LeastOfOne, AccountFacts DEF CustomerIds
      <3> QED
        BY <2>2, <3>2 DEF UpsertAccount, SeedingTypeOK
    <2> QED
      BY <2>1, <2>2, WhoWrites DEF SeedingTypeOK
  <1>3. IsFiniteSet(seeds') /\ \A C \in seeds' : IsChoice(C)
    <2>1. CASE SeedBegins
      <3>1. PICK S \in SUBSET OtherAccounts :
                seeds' = seeds \cup {S \cup {DemoAccount, DemoAccount2, RingCollector}}
        BY <2>1 DEF SeedBegins
      <3>2. IsChoice(S \cup {DemoAccount, DemoAccount2, RingCollector})
        BY DEF IsChoice, Accts
      <3> QED
        BY <3>1, <3>2, FS_AddElement DEF SeedingTypeOK
    <2> QED
      BY <2>1, WhoWrites DEF SeedingTypeOK
  <1>4. runs' \in Nat
    <2>1. SeedBegins \/ (\E a \in Profiles : UpsertCustomer(a)) => runs' = runs + 1
      BY DEF SeedBegins, UpsertCustomer
    <2> QED
      BY <2>1, WhoWrites DEF SeedingTypeOK
  <1> QED
    BY <1>1, <1>2, <1>3, <1>4, LedgerStep, ScriptStep DEF SeedingTypeOK

LEMMA BackfillStep == BackfillInv /\ [SeedingNext]_seedVars => BackfillInv'
  <1> SUFFICES ASSUME BackfillInv, [SeedingNext]_seedVars PROVE BackfillInv'
    OBVIOUS
  <1>1. SeedingTypeOK /\ SeedingTypeOK' /\ History \subseteq Rows
    BY SeedingTypeStep, RowFacts DEF BackfillInv
  <1>2. ASSUME NEW t \in History
        PROVE  /\ ledger[t].analyses \in Nat
               /\ \/ ledger'[t].analyses = ledger[t].analyses
                  \/ UpdateRow /\ script.todo = {t} /\ ledger'[t].analyses = ledger[t].analyses + 1
    BY <1>1, LedgerStep DEF SeedingTypeOK
  <1>3. ASSUME UpdateRow
        PROVE  \E t \in script.rows : /\ script.todo = {t} /\ script'.rows = script.rows \ {t}
                                      /\ t \in History => ledger[t].analyses = 0
    <2>1. PICK t \in script.rows : script.todo = {t}
      BY <1>1, <1>3 DEF UpdateRow, SeedingTypeOK, ScriptOK
    <2>2. script'.rows = script.rows \ {t}
      BY <1>1, <1>3, <2>1 DEF UpdateRow, SeedingTypeOK, ScriptOK
    <2>3. t \in History => ledger[t].analyses = 0
      BY <1>3, <2>1 DEF UpdateRow, BackfillInv, NotYetAnalysed
    <2> QED
      BY <2>1, <2>2, <2>3
  <1>4. AnalysedOnce'
    <2> SUFFICES ASSUME NEW t \in History PROVE ledger'[t].analyses <= 1
      BY DEF AnalysedOnce
    <2>1. ledger[t].analyses <= 1
      BY DEF BackfillInv, AnalysedOnce
    <2>2. CASE UpdateRow /\ script.todo = {t} /\ ledger'[t].analyses = ledger[t].analyses + 1
      BY <1>3, <2>2
    <2> QED
      BY <1>2, <2>1, <2>2
  <1>5. NotYetAnalysed'
    <2> SUFFICES ASSUME script'.pc \in {"backfill", "update"}, NEW t \in script'.rows, t \in History
                 PROVE  ledger'[t].analyses = 0
      BY DEF NotYetAnalysed
    <2>1. script \in ScriptType
      BY <1>1 DEF SeedingTypeOK, ScriptOK, ScriptType
    <2>2. CASE UpdateRow
      <3>1. t \in script.rows /\ script.todo # {t}
        BY <1>3, <2>2
      <3>2. ledger[t].analyses = 0
        BY <2>2, <3>1 DEF BackfillInv, NotYetAnalysed, UpdateRow
      <3> QED
        BY <1>2, <3>1, <3>2
    <2>3. CASE SelectUnscored
      <3>1. ledger' = ledger
        BY <2>3 DEF SelectUnscored
      <3>2. script' = Done => FALSE
        BY DEF Done
      <3>3. script'.rows = {u \in Rows : ledger[u].status # "absent" /\ ledger[u].analyses = 0}
        BY <2>1, <2>3, <3>2 DEF SelectUnscored, ScriptType
      <3> QED
        BY <3>1, <3>3
    <2>4. CASE ~UpdateRow /\ ~SelectUnscored
      <3>1. script.pc \in {"backfill", "update"} /\ t \in script.rows
        <4>1. ASSUME NEW u \in Rows, Evaluate(u)
              PROVE  script.pc = "backfill" /\ t \in script.rows
          BY <2>1, <4>1 DEF Evaluate, ScriptType
        <4>2. ~SeedBegins
          BY DEF SeedBegins, Done
        <4>3. ~SeedCustomer /\ ~SeedAccount /\ ~HistoryBegins
          BY <2>1 DEF SeedCustomer, SeedAccount, HistoryBegins, ScriptType
        <4>7. ~SeedEnds /\ ~SeedAborts
          BY DEF SeedEnds, SeedAborts, Done
        <4>8. ~UpsertAccount
          BY <2>1 DEF UpsertAccount, ScriptType
        <4>9. ~ProfileTransaction
          <5>1. ProfileTransaction =>
                   \/ script' = [script EXCEPT !.rows = @ \ {Least(script.rows)}]
                   \/ script' = Done
            BY DEF ProfileTransaction
          <5>2. ProfileTransaction => script.pc = "profile_history"
            BY DEF ProfileTransaction
          <5>3. ProfileTransaction => script'.pc \in {"profile_history", "done"}
            BY <2>1, <5>1, <5>2 DEF Done, ScriptType
          <5> QED
            BY <5>3
        <4>4. ASSUME NEW a \in Profiles PROVE ~UpsertCustomer(a)
          BY DEF UpsertCustomer, Done
        <4>5. ASSUME NEW u \in Rows PROVE ~SeedTransaction(u)
          BY <2>1 DEF SeedTransaction, ScriptType
        <4>6. ASSUME NEW u \in LiveTxns, LiveSubmit(u) \/ LiveSettle(u)
              PROVE  script' = script
          BY <4>6 DEF LiveSubmit, LiveSettle
        <4> QED
          BY <2>4, <4>1, <4>2, <4>3, <4>4, <4>5, <4>6, <4>7, <4>8, <4>9 DEF SeedingNext, seedVars
      <3>2. ledger[t].analyses = 0
        BY <3>1 DEF BackfillInv, NotYetAnalysed
      <3> QED
        BY <1>2, <2>4, <3>2
    <2> QED
      BY <2>2, <2>3, <2>4
  <1> QED
    BY <1>1, <1>4, <1>5 DEF BackfillInv

\* The backfill gives a row of the history its analysis at most once, over any number
\* of runs of both scripts, aborted or not, and any live traffic.
THEOREM BackfilledOnce == SeedingSpec => []AnalysedOnce
  <1>1. SeedingInit => BackfillInv
    <2>1. SeedingInit => SeedingTypeOK
      BY SeedingTypeInit
    <2>2. SeedingInit => AnalysedOnce /\ NotYetAnalysed
      BY RowFacts DEF SeedingInit, AnalysedOnce, NotYetAnalysed, Done
    <2> QED
      BY <2>1, <2>2 DEF BackfillInv
  <1> QED
    BY <1>1, BackfillStep, PTL DEF SeedingSpec, BackfillInv

LEMMA OneChoice ==
    ASSUME IsFiniteSet(seeds), Cardinality(seeds) <= 1, NEW C \in seeds, NEW D \in seeds
    PROVE  C = D
<1> SUFFICES ASSUME C # D PROVE FALSE
  OBVIOUS
<1>1. IsFiniteSet({C}) /\ Cardinality({C}) = 1
  BY FS_Singleton
<1>2. Cardinality({C} \cup {D}) = 2
  <2>1. D \notin {C}
    OBVIOUS
  <2>2. Cardinality({C} \cup {D}) = Cardinality({C}) + 1
    BY <1>1, <2>1, FS_AddElement, Zenon
  <2> QED
    BY <1>1, <2>2
<1>3. Cardinality({C} \cup {D}) <= Cardinality(seeds) /\ Cardinality(seeds) \in Nat
  BY FS_Subset, FS_CardinalityType
<1> QED
  BY <1>2, <1>3

LEMMA ChoicesGrow ==
    ASSUME SeedingTypeOK, [SeedingNext]_seedVars, Cardinality(seeds') <= 1
    PROVE  seeds \subseteq seeds' /\ Cardinality(seeds) <= 1
<1>1. seeds \subseteq seeds'
  BY WhoWrites DEF SeedBegins
<1>2. IsFiniteSet(seeds')
  BY SeedingTypeStep DEF SeedingTypeOK
<1>3. /\ Cardinality(seeds) <= Cardinality(seeds')
      /\ Cardinality(seeds) \in Nat /\ Cardinality(seeds') \in Nat
  BY <1>1, <1>2, FS_Subset, FS_CardinalityType
<1> QED
  BY <1>1, <1>3

\* The statements that touch neither table, and begin no account.
LEMMA KeptAside ==
    ASSUME Kept, people' = people, owner' = owner, seeds \subseteq seeds',
           \/ script' = script
           \/ script'.pc \notin {"customer", "account", "profile"}
    PROVE  Kept'
<1>1. Numbered' /\ OwnProfile' /\ AccountsKeepOwner'
  BY DEF Kept, Numbered, OwnProfile, AccountsKeepOwner, Belongs
<1>2. DemoFirst'
  BY DEF Kept, DemoFirst, Seeds
<1>3. InStep'
  BY DEF Kept, InStep
<1> QED
  BY <1>1, <1>2, <1>3 DEF Kept

\* INSERT ... ON CONFLICT DO NOTHING of the customer.
LEMMA CustomerKept ==
    ASSUME SeedingTypeOK, Cardinality(seeds) <= 1, Kept, SeedCustomer
    PROVE  Kept'
<1> DEFINE a == Least(script.todo)
           C == script.chosen
           c == CustomerId(a, C)
<1>1. /\ a \in script.todo /\ \A b \in script.todo : a <= b
      /\ a \in C /\ a \in Accts /\ C \in seeds /\ IsChoice(C) /\ c \in Numbers
      /\ Numbers \subseteq CustomerIds /\ 1 \in Numbers /\ script.pc = "customer"
  BY AccountInHand DEF SeedCustomer, Seeds
<1>2. people' = IF a = DemoAccount2 \/ people[c] # 0 THEN people ELSE [people EXCEPT ![c] = a]
  BY DEF SeedCustomer
<1>3. /\ owner' = owner /\ seeds' = seeds
      /\ script' = [script EXCEPT !.pc = "account"]
  BY DEF SeedCustomer
<1>4. script'.todo = script.todo /\ script'.chosen = C /\ script'.pc = "account"
  BY <1>3 DEF SeedingTypeOK, ScriptOK
<1>5. a \in Nat /\ a # 0 /\ DemoAccount \in Nat /\ DemoAccount # 0
      /\ (a = DemoAccount2 => c = 1 /\ DemoAccount \notin script.todo)
  <2>1. a = DemoAccount2 => c = 1
    BY DEF CustomerId
  <2>2. /\ DemoAccount < DemoAccount2 /\ DemoAccount \in Nat /\ DemoAccount2 \in Nat
        /\ DemoAccount # 0 /\ a \in Nat /\ a # 0
    BY <1>1, AccountFacts
  <2>3. a = DemoAccount2 => DemoAccount \notin script.todo
    BY <1>1, <2>2
  <2> QED
    BY <2>1, <2>2, <2>3
<1>6. ASSUME NEW d \in Numbers, people[d] # 0
      PROVE  people[d] \in C \ {DemoAccount2} /\ d = CustomerId(people[d], C)
  BY <1>1, <1>6, OneChoice DEF Kept, Numbered, SeedingTypeOK
<1> HIDE DEF a, C, c
<1>7. people'[c] = Named(a)
  <2>1. CASE a = DemoAccount2
    <3>1. people[1] = DemoAccount
      BY <1>1, <1>5, <2>1 DEF Kept, DemoFirst, Seeds
    <3> QED
      BY <1>2, <1>5, <2>1, <3>1 DEF Named
  <2>2. CASE a # DemoAccount2 /\ people[c] # 0
    <3>2. c = CustomerId(a, C)
      BY DEF c
    <3>1. people[c] = a
      BY <1>1, <1>6, <2>2, <3>2, NumberedApart
    <3> QED
      BY <1>2, <2>2, <3>1 DEF Named
  <2>3. CASE a # DemoAccount2 /\ people[c] = 0
    BY <1>1, <1>2, <2>3 DEF Named, SeedingTypeOK
  <2> QED
    BY <2>1, <2>2, <2>3
<1>8. \A d \in CustomerIds : people[d] # 0 => people'[d] = people[d]
  BY <1>2 DEF SeedingTypeOK
<1>9. \A d \in CustomerIds : d # c => people'[d] = people[d]
  BY <1>2 DEF SeedingTypeOK
<1>10. Numbered'
  <2> SUFFICES ASSUME NEW d \in Numbers, people'[d] # 0
               PROVE  people'[d] \in C \ {DemoAccount2} /\ d = CustomerId(people'[d], C)
    BY <1>1, <1>3 DEF Numbered
  <2>1. CASE people[d] # 0
    BY <1>1, <1>6, <1>8, <2>1
  <2>2. CASE people[d] = 0
    <3>1. d = c /\ a # DemoAccount2 /\ people'[c] = a
      BY <1>1, <1>2, <1>9, <2>2 DEF SeedingTypeOK
    <3> QED
      BY <1>1, <3>1 DEF c
  <2> QED
    BY <2>1, <2>2
<1>11. OwnProfile'
  <2> SUFFICES ASSUME NEW b \in Profiles PROVE people'[-b] \in {0, b}
    BY DEF OwnProfile
  <2>1. -b \in CustomerIds /\ -b # c
    BY <1>1, AccountFacts DEF CustomerIds, Numbers
  <2> QED
    BY <1>9, <2>1 DEF Kept, OwnProfile
<1>12. DemoFirst'
  <2> SUFFICES ASSUME DemoAccount \notin script.todo PROVE people'[1] = DemoAccount
    BY <1>4 DEF DemoFirst
  <2>3. DemoFirst
    BY DEF Kept
  <2>1. people[1] = DemoAccount
    BY <1>1, <2>3 DEF DemoFirst, Seeds
  <2>2. 1 \in CustomerIds
    BY <1>1
  <2> QED
    BY <1>5, <1>8, <2>1, <2>2
<1>13. InStep'
  BY <1>4, <1>7 DEF InStep, a, c
<1>14. AccountsKeepOwner'
  <2> SUFFICES ASSUME NEW b \in Accts, owner[b] # 0
               PROVE  people'[owner[b]] = Named(b)
    BY <1>3 DEF AccountsKeepOwner, Belongs, Named
  <2>1. people[owner[b]] = Named(b)
    BY DEF Kept, AccountsKeepOwner, Belongs, Named
  <2>2. Named(b) # 0 /\ owner[b] \in CustomerIds
    BY <1>5, AccountFacts DEF Named, SeedingTypeOK
  <2> QED
    BY <1>8, <2>1, <2>2
<1> QED
  BY <1>10, <1>11, <1>12, <1>13, <1>14 DEF Kept

\* INSERT ... ON CONFLICT DO NOTHING of the account, with the customer just looked up.
LEMMA AccountKept ==
    ASSUME SeedingTypeOK, Kept, SeedAccount
    PROVE  Kept'
<1> DEFINE a == Least(script.todo)
           c == CustomerId(a, script.chosen)
<1>1. /\ script.pc = "account" /\ script.todo # {} /\ a \in script.todo /\ a \in Accts
      /\ c \in CustomerIds
  <2>1. script.pc = "account" /\ script.pc \in Seeds /\ script.todo # {}
    BY DEF SeedAccount, SeedingTypeOK, ScriptOK, Seeds
  <2> QED
    BY <2>1, AccountInHand
<1>2. /\ people' = people /\ seeds' = seeds
      /\ owner' = IF owner[a] # 0 THEN owner ELSE [owner EXCEPT ![a] = c]
      /\ script' = [script EXCEPT !.pc = "customer", !.todo = @ \ {a}]
  BY DEF SeedAccount
<1>3. people[c] = Named(a)
  BY <1>1 DEF Kept, InStep
<1>4. script'.pc = "customer" /\ script'.todo = script.todo \ {a}
  BY <1>2 DEF SeedingTypeOK, ScriptOK
<1>5. a = DemoAccount => c = 1 /\ Named(a) = DemoAccount
  BY DEF CustomerId, Named
<1> HIDE DEF a, c
<1>6. Numbered' /\ OwnProfile'
  BY <1>2 DEF Kept, Numbered, OwnProfile
<1>7. DemoFirst'
  <2> SUFFICES ASSUME DemoAccount \notin script.todo \ {a} PROVE people[1] = DemoAccount
    BY <1>2, <1>4 DEF DemoFirst
  <2>1. CASE a = DemoAccount
    BY <1>3, <1>5, <2>1
  <2>2. CASE DemoAccount \notin script.todo
    BY <1>1, <2>2 DEF Kept, DemoFirst, Seeds
  <2> QED
    BY <2>1, <2>2
<1>8. InStep'
  BY <1>4 DEF InStep
<1>9. AccountsKeepOwner'
  <2> SUFFICES ASSUME NEW b \in Accts, owner'[b] # 0
               PROVE  people[owner'[b]] = Named(b)
    BY <1>2 DEF AccountsKeepOwner, Belongs, Named
  <2>1. CASE owner'[b] = owner[b]
    BY <2>1 DEF Kept, AccountsKeepOwner, Belongs, Named
  <2>2. CASE owner'[b] # owner[b]
    <3>1. b = a /\ owner'[b] = c
      BY <1>1, <1>2, <2>2 DEF SeedingTypeOK
    <3> QED
      BY <1>3, <3>1
  <2> QED
    BY <2>1, <2>2
<1> QED
  BY <1>6, <1>7, <1>8, <1>9 DEF Kept

\* The customer of a profile: nobody else's accounts were his.
LEMMA ProfileCustomerKept ==
    ASSUME SeedingTypeOK, Kept, NEW a \in Profiles, UpsertCustomer(a)
    PROVE  Kept'
<1>1. /\ people' = [people EXCEPT ![-a] = a] /\ owner' = owner /\ seeds' = seeds
      /\ script' = [Done EXCEPT !.pc = "profile", !.todo = {a}]
  BY DEF UpsertCustomer
<1>2. script'.pc = "profile" /\ script'.todo = {a}
  BY <1>1 DEF Done
<1>3. a \in Accts /\ a \in Nat /\ a # 0 /\ -a \in CustomerIds
  BY AccountFacts DEF CustomerIds
<1>4. \A d \in CustomerIds : people'[d] = IF d = -a THEN a ELSE people[d]
  BY <1>1 DEF SeedingTypeOK
<1>5. people[-a] \in {0, a}
  BY DEF Kept, OwnProfile
<1>6. Numbered'
  <2>1. \A d \in Numbers : d # -a /\ d \in CustomerIds
    BY <1>3 DEF Numbers, CustomerIds
  <2>2. \A d \in Numbers : people'[d] = people[d]
    BY <1>4, <2>1
  <2> QED
    BY <1>1, <2>2 DEF Kept, Numbered
<1>7. OwnProfile'
  <2> SUFFICES ASSUME NEW b \in Profiles PROVE people'[-b] \in {0, b}
    BY DEF OwnProfile
  <2>1. b \in Nat /\ -b \in CustomerIds /\ (-b = -a => b = a)
    BY <1>3, AccountFacts DEF CustomerIds
  <2> QED
    BY <1>4, <2>1 DEF Kept, OwnProfile
<1>8. DemoFirst' /\ InStep'
  BY <1>2, <1>3, <1>4 DEF DemoFirst, InStep, Seeds
<1>9. AccountsKeepOwner'
  <2> SUFFICES ASSUME NEW b \in Accts, owner[b] # 0
               PROVE  people'[owner[b]] = Named(b)
    BY <1>1 DEF AccountsKeepOwner, Belongs, Named
  <2>1. people[owner[b]] = Named(b) /\ owner[b] \in CustomerIds
    BY DEF Kept, AccountsKeepOwner, Belongs, Named, SeedingTypeOK
  <2>2. Named(b) # 0
    BY AccountFacts DEF Named
  <2> QED
    BY <1>4, <1>5, <2>1, <2>2
<1> QED
  BY <1>6, <1>7, <1>8, <1>9 DEF Kept

\* ... and his account moves to him.
LEMMA ProfileAccountKept ==
    ASSUME SeedingTypeOK, Kept, UpsertAccount
    PROVE  Kept'
<1>1. PICK a \in Profiles : script.todo = {a}
  BY DEF UpsertAccount, SeedingTypeOK, ScriptOK
<1>2. a \in Accts /\ a \in Nat /\ Least(script.todo) = a /\ Named(a) = a
  BY <1>1, LeastOfOne, AccountFacts DEF Named
<1>3. /\ people' = people /\ seeds' = seeds /\ owner' = [owner EXCEPT ![a] = -a]
      /\ script' = [script EXCEPT !.pc = "profile_history", !.rows = HistoryOf[a]]
  BY <1>2 DEF UpsertAccount
<1>4. script'.pc = "profile_history"
  BY <1>3 DEF SeedingTypeOK, ScriptOK
<1>5. people[-a] = a
  BY <1>1 DEF Kept, InStep, UpsertAccount
<1>6. Numbered' /\ OwnProfile'
  BY <1>3 DEF Kept, Numbered, OwnProfile
<1>7. DemoFirst' /\ InStep'
  BY <1>4 DEF DemoFirst, InStep, Seeds
<1>8. AccountsKeepOwner'
  <2> SUFFICES ASSUME NEW b \in Accts, owner'[b] # 0
               PROVE  people[owner'[b]] = Named(b)
    BY <1>3 DEF AccountsKeepOwner, Belongs, Named
  <2>1. CASE b = a
    BY <1>2, <1>3, <1>5, <2>1 DEF SeedingTypeOK
  <2>2. CASE b # a
    <3>1. owner'[b] = owner[b]
      BY <1>3, <2>2 DEF SeedingTypeOK
    <3> QED
      BY <3>1 DEF Kept, AccountsKeepOwner, Belongs, Named
  <2> QED
    BY <2>1, <2>2
<1> QED
  BY <1>6, <1>7, <1>8 DEF Kept

\* A run of seed_app_data begins, with a choice of its own.
LEMMA BeginningKept ==
    ASSUME SeedingTypeOK, Kept, SeedBegins
    PROVE  Kept'
<1>1. PICK S \in SUBSET OtherAccounts :
          LET chosen == S \cup {DemoAccount, DemoAccount2, RingCollector}
          IN /\ script' = [Done EXCEPT !.pc = "customer", !.chosen = chosen, !.todo = chosen]
             /\ seeds' = seeds \cup {chosen}
  BY DEF SeedBegins
<1>2. script'.pc = "customer" /\ DemoAccount \in script'.todo /\ seeds \subseteq seeds'
  BY <1>1 DEF Done
<1>3. people' = people /\ owner' = owner
  BY DEF SeedBegins
<1>4. Numbered' /\ OwnProfile' /\ AccountsKeepOwner'
  BY <1>2, <1>3 DEF Kept, Numbered, OwnProfile, AccountsKeepOwner, Belongs
<1>5. DemoFirst' /\ InStep'
  BY <1>2 DEF DemoFirst, InStep
<1> QED
  BY <1>4, <1>5 DEF Kept

LEMMA OwnerStep == OwnerInv /\ [SeedingNext]_seedVars => OwnerInv'
<1> SUFFICES ASSUME OwnerInv, [SeedingNext]_seedVars PROVE OwnerInv'
  OBVIOUS
<1>1. SeedingTypeOK /\ SeedingTypeOK'
  BY SeedingTypeStep DEF OwnerInv
<1> SUFFICES ASSUME Cardinality(seeds') <= 1 PROVE Kept'
  BY <1>1 DEF OwnerInv
<1>2. Kept /\ Cardinality(seeds) <= 1 /\ seeds \subseteq seeds'
  BY <1>1, ChoicesGrow DEF OwnerInv
<1>3. script \in ScriptType
  BY <1>1 DEF SeedingTypeOK, ScriptOK, ScriptType
<1>4. CASE SeedBegins
  BY <1>1, <1>2, <1>4, BeginningKept
<1>5. CASE SeedCustomer
  BY <1>1, <1>2, <1>5, CustomerKept
<1>6. CASE SeedAccount
  BY <1>1, <1>2, <1>6, AccountKept
<1>7. ASSUME NEW a \in Profiles, UpsertCustomer(a) PROVE Kept'
  BY <1>1, <1>2, <1>7, ProfileCustomerKept
<1>8. CASE UpsertAccount
  BY <1>1, <1>2, <1>8, ProfileAccountKept
<1>9. ASSUME ~SeedCustomer, ~SeedAccount, ~UpsertAccount, \A a \in Profiles : ~UpsertCustomer(a)
      PROVE  people' = people /\ owner' = owner
  BY <1>9, WhoWrites
<1>10. CASE HistoryBegins \/ SelectUnscored \/ SeedEnds \/ SeedAborts
  <2>1. script'.pc \in {"history", "backfill", "done"} /\ people' = people /\ owner' = owner
    <3>1. HistoryBegins => script'.pc = "history" /\ people' = people /\ owner' = owner
      BY <1>3 DEF HistoryBegins, ScriptType
    <3>2. SelectUnscored => /\ script'.pc \in {"backfill", "done"} /\ people' = people
                            /\ owner' = owner
      BY <1>3, DoneType DEF SelectUnscored, ScriptType
    <3>3. SeedEnds \/ SeedAborts => script'.pc = "done" /\ people' = people /\ owner' = owner
      BY DoneType DEF SeedEnds, SeedAborts
    <3> QED
      BY <1>10, <3>1, <3>2, <3>3
  <2> QED
    BY <1>2, <2>1, KeptAside
<1>11. CASE UpdateRow
  <2>1. script'.pc = "backfill" /\ people' = people /\ owner' = owner
    BY <1>3, <1>11 DEF UpdateRow, ScriptType
  <2> QED
    BY <1>2, <2>1, KeptAside
<1>12. CASE ProfileTransaction
  <2>1. \/ script' = [script EXCEPT !.rows = @ \ {Least(script.rows)}]
        \/ script' = Done
    BY <1>12 DEF ProfileTransaction
  <2>2. script.pc = "profile_history" /\ people' = people /\ owner' = owner
    BY <1>12 DEF ProfileTransaction
  <2>3. script'.pc \in {"profile_history", "done"}
    BY <1>3, <2>1, <2>2, DoneType DEF ScriptType
  <2> QED
    BY <1>2, <2>2, <2>3, KeptAside
<1>13. ASSUME NEW t \in Rows, SeedTransaction(t) PROVE Kept'
  <2>1. script'.pc = "history" /\ people' = people /\ owner' = owner
    BY <1>3, <1>13 DEF SeedTransaction, ScriptType
  <2> QED
    BY <1>2, <2>1, KeptAside
<1>14. ASSUME NEW t \in Rows, Evaluate(t) PROVE Kept'
  <2>1. script'.pc \in {"backfill", "update"} /\ people' = people /\ owner' = owner
    BY <1>3, <1>14 DEF Evaluate, ScriptType
  <2> QED
    BY <1>2, <2>1, KeptAside
<1>15. ASSUME NEW t \in LiveTxns, LiveSubmit(t) \/ LiveSettle(t) PROVE Kept'
  <2>1. script' = script /\ people' = people /\ owner' = owner
    BY <1>15 DEF LiveSubmit, LiveSettle
  <2> QED
    BY <1>2, <2>1, KeptAside
<1>16. CASE UNCHANGED seedVars
  <2>1. script' = script /\ people' = people /\ owner' = owner
    BY <1>16 DEF seedVars
  <2> QED
    BY <1>2, <2>1, KeptAside
<1> QED
  BY <1>4, <1>5, <1>6, <1>7, <1>8, <1>10, <1>11, <1>12, <1>13, <1>14, <1>15, <1>16
     DEF SeedingNext

\* As long as every run of seed_app_data chooses the same accounts, an account belongs
\* to the customer made for it, over any number of runs of both scripts, aborted
\* anywhere: the customer's number leads back to the account, a profile's id to its own.
THEOREM OwnersKept == SeedingSpec => []SameChoiceKeepsOwner
<1>1. SeedingInit => OwnerInv
  <2> SUFFICES ASSUME SeedingInit PROVE OwnerInv
    OBVIOUS
  <2>1. SeedingTypeOK
    BY SeedingTypeInit
  <2>2. /\ people = [c \in CustomerIds |-> 0] /\ owner = [a \in Accts |-> 0]
        /\ script.pc = "done"
    BY DoneType DEF SeedingInit
  <2>3. DemoFirst /\ InStep /\ AccountsKeepOwner
    BY <2>2 DEF DemoFirst, InStep, AccountsKeepOwner, Seeds
  <2>4. Numbered /\ OwnProfile
    BY <2>2 DEF Numbered, OwnProfile, Numbers, CustomerIds
  <2> QED
    BY <2>1, <2>3, <2>4 DEF OwnerInv, Kept
<1>2. OwnerInv => SameChoiceKeepsOwner
  BY DEF OwnerInv, Kept, SameChoiceKeepsOwner
<1> QED
  BY <1>1, <1>2, OwnerStep, PTL DEF SeedingSpec

-----------------------------------------------------------------------------
(* BehaviorInputs. *)

\* The transfers and evaluations of one account, on their own.
BehaviorSpec == BehaviorInit /\ [][BehaviorNext]_behaviorVars

Progress == Ended \cup {"idle", "reading", "anchoring", "windowing", "statics"}
BehaviorTypeOK ==
    /\ rows \in [Tables -> SUBSET Known] /\ stamp \in [Known -> Nat] /\ clock \in Nat
    /\ stage \in [Transfers -> {"new", "inserting", "committed", "published", "failed"}]
    /\ counted \in [Transfers -> Nat]
    /\ model \in [Transfers -> [ModelNames -> Progress]]
    /\ outcome \in [Transfers -> {"none", "not_found", "unavailable", "error", "ok"}]

\* The three tables hold the same transactions, those of the dataset among them, and
\* a transfer exactly from its commit.
WholeTransfers ==
    /\ \A table \in Tables : rows[table] = rows["raw"]
    /\ Past \subseteq rows["raw"]
    /\ \A t \in Transfers :
          /\ t \in rows["raw"] => stage[t] \in {"committed", "published", "failed"}
          /\ stage[t] \in {"committed", "published"} => t \in rows["raw"]

\* What is counted is what can be relied on: no less than the dataset's part of the
\* history, no more than what every later statement sees.
Within(t) == {h \in Past \cup {t} : UpTo(h, t)}
CountedRight(t) ==
    model[t]["lstm"] # "idle" =>
        /\ stage[t] = "published"
        /\ Cardinality(Within(t)) <= counted[t] /\ counted[t] <= Cardinality(Preceding(t))

\* How far a model is says what it has seen.
SeenRight(t) ==
    /\ model[t]["isolation_forest"] \notin {"abstained", "anchoring", "windowing", "statics"}
    /\ model[t]["isolation_forest"] = "scored" => t \notin odd["tabular"]
    /\ model[t]["isolation_forest"] = "missing" => t \in odd["tabular"]
    /\ model[t]["xgboost"] \notin {"abstained", "anchoring", "windowing", "statics"}
    /\ model[t]["xgboost"] = "scored" =>
           t \notin odd["tabular"] /\ {"profile", "levels"} \subseteq joined
    /\ model[t]["xgboost"] = "missing" =>
           ~(t \notin odd["tabular"] /\ {"profile", "levels"} \subseteq joined)
    /\ model[t]["lstm"] \in {"anchoring", "windowing", "statics", "scored", "missing"} =>
           counted[t] >= LstmMinHistory
    /\ model[t]["lstm"] \in {"statics", "scored"} => t \notin odd["sequence"]
    /\ model[t]["lstm"] = "missing" =>
           ~({"profile", "node"} \subseteq joined /\ odd["sequence"] = {})
    /\ model[t]["lstm"] = "abstained" => counted[t] < LstmMinHistory
    /\ (\E name \in ModelNames : model[t][name] # "idle") => model[t]["lstm"] # "idle"

\* An outcome is made of models that have all ended, and none of them down.
BlendedRight(t) ==
    /\ outcome[t] # "not_found"
    /\ outcome[t] \in {"error", "ok"} =>
           /\ \A name \in ModelNames : model[t][name] \in {"scored", "missing", "abstained"}
           /\ outcome[t] = "ok" <=> Contributed(t) # {}

BehaviorInv ==
    /\ BehaviorTypeOK /\ WholeTransfers
    /\ \A t \in Transfers : CountedRight(t) /\ SeenRight(t) /\ BlendedRight(t)

\* What a request does: the models are not touched, rows are added, stamped before.
Requesting(t) ==
    StampTransfer(t) \/ InsertRow(t) \/ CommitRows(t) \/ PublishTransfer(t) \/ RequestFails(t)

LEMMA RequestStep ==
    ASSUME BehaviorTypeOK, WholeTransfers, NEW t \in Transfers, Requesting(t)
    PROVE  /\ BehaviorTypeOK' /\ WholeTransfers' /\ odd' = odd /\ joined' = joined
           /\ counted' = counted /\ model' = model /\ outcome' = outcome
           /\ \A table \in Tables : rows[table] \subseteq rows'[table]
           /\ \A h \in rows["raw"] : stamp'[h] = stamp[h]
           /\ \A u \in Transfers : stage[u] = "published" => stage'[u] = "published"
<1>1. t \in Known /\ "raw" \in Tables /\ t \notin Past
  BY BehaviorInputsAssumption DEF Known, Tables
<1>2. CASE StampTransfer(t)
  <2>1. PICK now \in {clock, clock + 1} : clock' = now /\ stamp' = [stamp EXCEPT ![t] = now]
    BY <1>2 DEF StampTransfer
  <2>2. /\ stage[t] = "new" /\ stage' = [stage EXCEPT ![t] = "inserting"]
        /\ UNCHANGED <<rows, counted, model, outcome, odd, joined>>
    BY <1>2 DEF StampTransfer, evaluationVars
  <2>3. t \notin rows["raw"]
    BY <2>2 DEF WholeTransfers
  <2>4. now \in Nat
    BY <2>1 DEF BehaviorTypeOK
  <2>5. BehaviorTypeOK'
    BY <1>1, <2>1, <2>2, <2>4 DEF BehaviorTypeOK
  <2>6. WholeTransfers'
    BY <2>2, <2>3 DEF WholeTransfers, BehaviorTypeOK
  <2>7. \A h \in rows["raw"] : stamp'[h] = stamp[h]
    BY <1>1, <2>1, <2>3 DEF BehaviorTypeOK
  <2> QED
    BY <2>2, <2>5, <2>6, <2>7 DEF BehaviorTypeOK
<1>3. CASE InsertRow(t)
  <2>1. UNCHANGED <<rows, stamp, clock, stage, counted, model, outcome, odd, joined>>
    BY <1>3 DEF InsertRow, evaluationVars
  <2> QED
    BY <2>1 DEF BehaviorTypeOK, WholeTransfers
<1>4. CASE CommitRows(t)
  <2>1. /\ rows' = [table \in Tables |-> rows[table] \cup {t}] /\ stage[t] = "inserting"
        /\ stage' = [stage EXCEPT ![t] = "committed"]
        /\ UNCHANGED <<stamp, clock, counted, model, outcome, odd, joined>>
    BY <1>4 DEF CommitRows, evaluationVars
  <2>2. BehaviorTypeOK'
    BY <1>1, <2>1 DEF BehaviorTypeOK
  <2>3. WholeTransfers'
    BY <1>1, <2>1 DEF BehaviorTypeOK, WholeTransfers
  <2> QED
    BY <2>1, <2>2, <2>3 DEF BehaviorTypeOK
<1>5. CASE PublishTransfer(t) \/ RequestFails(t)
  <2>1. /\ UNCHANGED <<rows, stamp, clock, counted, model, outcome, odd, joined>>
        /\ \/ stage[t] = "committed" /\ stage' = [stage EXCEPT ![t] = "published"]
           \/ /\ stage[t] \in {"inserting", "committed"}
              /\ stage' = [stage EXCEPT ![t] = "failed"]
    BY <1>5 DEF PublishTransfer, RequestFails, evaluationVars
  <2>2. BehaviorTypeOK'
    BY <2>1 DEF BehaviorTypeOK
  <2>3. WholeTransfers'
    BY <2>1 DEF BehaviorTypeOK, WholeTransfers
  <2> QED
    BY <2>1, <2>2, <2>3 DEF BehaviorTypeOK
<1> QED
  BY <1>2, <1>3, <1>4, <1>5 DEF Requesting

LEMMA HistoryFinite ==
    ASSUME BehaviorTypeOK, NEW t \in Transfers
    PROVE  /\ IsFiniteSet(Preceding(t)) /\ IsFiniteSet(Within(t))
           /\ Cardinality(Preceding(t)) \in Nat /\ Cardinality(Within(t)) \in Nat
<1>1. IsFiniteSet(Known)
  BY BehaviorInputsAssumption, FS_Union DEF Known
<1>2. Within(t) \subseteq Known
  BY DEF Within, Known
<1>3. IsFiniteSet(rows["raw"])
  BY <1>1, FS_Subset DEF BehaviorTypeOK, Tables
<1>4. Preceding(t) \subseteq rows["raw"]
  BY DEF Preceding
<1> QED
  BY <1>1, <1>2, <1>3, <1>4, FS_Subset, FS_CardinalityType

\* The history a transfer has does not shrink, and its place in it is fixed.
LEMMA HistoryGrows ==
    ASSUME BehaviorTypeOK, BehaviorTypeOK', WholeTransfers, NEW t \in Transfers, t \in rows["raw"],
           rows["raw"] \subseteq rows'["raw"], \A h \in rows["raw"] : stamp'[h] = stamp[h]
    PROVE  /\ Preceding(t) \subseteq Preceding(t)'
           /\ Within(t)' = Within(t) /\ Within(t) \subseteq Preceding(t)
<1>1. \A h \in rows["raw"] : UpTo(h, t)' <=> UpTo(h, t)
  BY DEF UpTo
<1>2. Past \subseteq rows["raw"]
  BY DEF WholeTransfers
<1> QED
  BY <1>1, <1>2 DEF Preceding, Within

\* An evaluation that does not move stays right.
LEMMA StaysRight ==
    ASSUME BehaviorInv, BehaviorTypeOK', NEW t \in Transfers,
           rows["raw"] \subseteq rows'["raw"], \A h \in rows["raw"] : stamp'[h] = stamp[h],
           stage[t] = "published" => stage'[t] = "published", odd' = odd, joined' = joined,
           model'[t] = model[t], counted'[t] = counted[t], outcome'[t] = outcome[t]
    PROVE  CountedRight(t)' /\ SeenRight(t)' /\ BlendedRight(t)'
<1>1. BehaviorTypeOK /\ WholeTransfers /\ CountedRight(t) /\ SeenRight(t) /\ BlendedRight(t)
  BY DEF BehaviorInv
<1>2. SeenRight(t)' /\ BlendedRight(t)'
  BY <1>1 DEF SeenRight, BlendedRight, Contributed
<1>3. CountedRight(t)'
  <2> SUFFICES ASSUME model[t]["lstm"] # "idle"
               PROVE  /\ stage'[t] = "published"
                      /\ Cardinality(Within(t)') <= counted[t]
                      /\ counted[t] <= Cardinality(Preceding(t)')
    BY DEF CountedRight
  <2>1. /\ stage[t] = "published"
        /\ Cardinality(Within(t)) <= counted[t] /\ counted[t] <= Cardinality(Preceding(t))
    BY <1>1 DEF CountedRight
  <2>2. t \in rows["raw"]
    BY <1>1, <2>1 DEF WholeTransfers
  <2>3. Preceding(t) \subseteq Preceding(t)' /\ Within(t)' = Within(t)
    BY <1>1, <2>2, HistoryGrows
  <2>4. /\ Cardinality(Preceding(t)) <= Cardinality(Preceding(t)')
        /\ Cardinality(Preceding(t)') \in Nat
        /\ Cardinality(Preceding(t)) \in Nat /\ counted[t] \in Nat
    <3>1. Cardinality(Preceding(t)) \in Nat
      BY <1>1, HistoryFinite
    <3>2. rows'["raw"] \subseteq Known /\ IsFiniteSet(Known)
      BY BehaviorInputsAssumption, FS_Union DEF Known, BehaviorTypeOK, Tables
    <3>3. Preceding(t)' \subseteq Known
      BY <3>2 DEF Preceding
    <3>4. IsFiniteSet(Preceding(t)')
      BY <3>2, <3>3, FS_Subset
    <3> QED
      BY <1>1, <2>3, <3>1, <3>4, FS_Subset, FS_CardinalityType DEF BehaviorTypeOK
  <2> QED
    BY <2>1, <2>3, <2>4
<1> QED
  BY <1>2, <1>3

\* A model moves, and nothing else the invariant reads.
Moved(t, name, to) ==
    /\ model' = [model EXCEPT ![t][name] = to]
    /\ UNCHANGED <<rows, stamp, clock, stage, counted, outcome, odd, joined>>

LEMMA ModelMoves ==
    ASSUME BehaviorTypeOK, NEW t \in Transfers, NEW name \in ModelNames, NEW to \in Progress,
           Moved(t, name, to)
    PROVE  /\ BehaviorTypeOK' /\ model'[t][name] = to
           /\ \A other \in ModelNames \ {name} : model'[t][other] = model[t][other]
           /\ \A u \in Transfers \ {t} : model'[u] = model[u]
<1>1. /\ model' = [model EXCEPT ![t][name] = to]
      /\ UNCHANGED <<rows, stamp, clock, stage, counted, outcome, odd, joined>>
  BY DEF Moved
<1>2. model \in [Transfers -> [ModelNames -> Progress]] /\ model[t] \in [ModelNames -> Progress]
  BY DEF BehaviorTypeOK
<1>3. model'[t] = [model[t] EXCEPT ![name] = to]
  BY <1>1, <1>2
<1>4. \A u \in Transfers \ {t} : model'[u] = model[u]
  BY <1>1, <1>2
<1>5. model' \in [Transfers -> [ModelNames -> Progress]]
  <2>1. [model[t] EXCEPT ![name] = to] \in [ModelNames -> Progress]
    BY <1>2
  <2> QED
    BY <1>1, <1>2, <2>1
<1>6. BehaviorTypeOK'
  BY <1>1, <1>5 DEF BehaviorTypeOK
<1>7. model'[t][name] = to
  BY <1>2, <1>3
<1>8. \A other \in ModelNames \ {name} : model'[t][other] = model[t][other]
  BY <1>2, <1>3
<1> QED
  BY <1>4, <1>6, <1>7, <1>8

\* A step of one evaluation leaves the tables, and the other evaluations, right.
LEMMA OthersStayRight ==
    ASSUME BehaviorInv, BehaviorTypeOK', NEW t \in Transfers,
           UNCHANGED <<rows, stamp, stage, odd, joined>>,
           \A u \in Transfers \ {t} :
               model'[u] = model[u] /\ counted'[u] = counted[u] /\ outcome'[u] = outcome[u],
           CountedRight(t)', SeenRight(t)', BlendedRight(t)'
    PROVE  BehaviorInv'
<1>1. WholeTransfers'
  BY DEF BehaviorInv, WholeTransfers
<1>2. ASSUME NEW u \in Transfers \ {t}
      PROVE  CountedRight(u)' /\ SeenRight(u)' /\ BlendedRight(u)'
  BY <1>2, StaysRight
<1> QED
  BY <1>1, <1>2 DEF BehaviorInv

\* A model that has not ended may move wherever what it has seen is right.
LEMMA MoveIsRight ==
    ASSUME BehaviorInv, NEW t \in Transfers, NEW name \in ModelNames,
           NEW to \in Progress \ {"idle"}, Moved(t, name, to),
           model[t][name] \notin Ended \cup {"idle"}, SeenRight(t)'
    PROVE  BehaviorInv'
<1>1. BehaviorTypeOK /\ CountedRight(t) /\ SeenRight(t) /\ BlendedRight(t)
  BY DEF BehaviorInv
<1>2. UNCHANGED <<rows, stamp, clock, stage, counted, outcome, odd, joined>>
  BY DEF Moved
<1>3. BehaviorTypeOK' /\ \A u \in Transfers \ {t} : model'[u] = model[u]
  BY <1>1, ModelMoves
<1>4. CountedRight(t)'
  <2>1. model[t]["lstm"] # "idle"
    BY <1>1 DEF SeenRight
  <2>2. Preceding(t)' = Preceding(t) /\ Within(t)' = Within(t)
    BY <1>2 DEF Preceding, Within, UpTo
  <2> QED
    BY <1>1, <1>2, <2>1, <2>2 DEF CountedRight
<1>5. BlendedRight(t)'
  <2>1. outcome[t] \notin {"error", "ok"}
    BY <1>1 DEF BlendedRight, Ended
  <2> QED
    BY <1>1, <1>2, <2>1 DEF BlendedRight
<1> QED
  BY <1>2, <1>3, <1>4, <1>5, OthersStayRight

LEMMA MovesIsMoved ==
    ASSUME NEW t \in Transfers, NEW name, NEW to, Moves(t, name, to)
    PROVE  Moved(t, name, to)
BY DEF Moves, Moved, requestVars

\* The two tabular models.
LEMMA TabularRight ==
    ASSUME BehaviorInv, NEW t \in Transfers, ReadIsolationForest(t) \/ ReadXgboost(t)
    PROVE  BehaviorInv'
<1>1. BehaviorTypeOK /\ CountedRight(t) /\ SeenRight(t) /\ WholeTransfers
  BY DEF BehaviorInv
<1>2. {"xgboost", "isolation_forest", "lstm"} = ModelNames
  BY DEF ModelNames
<1>3. ASSUME NEW name \in ModelNames, model[t][name] = "reading"
      PROVE  t \in rows["raw"]
  <2>1. model[t]["lstm"] # "idle"
    BY <1>1, <1>3 DEF SeenRight
  <2> QED
    BY <1>1, <2>1 DEF CountedRight, WholeTransfers
<1>4. CASE ReadIsolationForest(t)
  <2> DEFINE end == IF t \in rows["raw"] \ odd["tabular"] THEN "scored" ELSE "missing"
  <2>1. model[t]["isolation_forest"] = "reading" /\ Moved(t, "isolation_forest", end)
    BY <1>4, MovesIsMoved DEF ReadIsolationForest
  <2>2. end \in Progress \ {"idle"} /\ (end = "scored" <=> t \notin odd["tabular"])
        /\ end \in {"scored", "missing"}
    BY <1>2, <1>3, <2>1 DEF Progress, Ended
  <2> HIDE DEF end
  <2>3. /\ model'[t]["isolation_forest"] = end
        /\ model'[t]["xgboost"] = model[t]["xgboost"] /\ model'[t]["lstm"] = model[t]["lstm"]
    BY <1>1, <1>2, <2>1, <2>2, ModelMoves
  <2>4. odd' = odd /\ joined' = joined /\ counted' = counted
    BY <2>1 DEF Moved
  <2>5. model[t]["lstm"] # "idle"
    BY <1>1, <1>2, <2>1 DEF SeenRight
  <2>6. SeenRight(t)'
    BY <1>1, <2>2, <2>3, <2>4, <2>5 DEF SeenRight
  <2> QED
    BY <1>2, <2>1, <2>2, <2>6, MoveIsRight DEF Ended
<1>5. CASE ReadXgboost(t)
  <2> DEFINE end == IF t \in rows["raw"] \ odd["tabular"] /\ {"profile", "levels"} \subseteq joined
                    THEN "scored" ELSE "missing"
  <2>1. model[t]["xgboost"] = "reading" /\ Moved(t, "xgboost", end)
    BY <1>5, MovesIsMoved DEF ReadXgboost
  <2>2. /\ end \in Progress \ {"idle"} /\ end \in {"scored", "missing"}
        /\ end = "scored" <=> t \notin odd["tabular"] /\ {"profile", "levels"} \subseteq joined
    BY <1>2, <1>3, <2>1 DEF Progress, Ended
  <2> HIDE DEF end
  <2>3. /\ model'[t]["xgboost"] = end /\ model'[t]["lstm"] = model[t]["lstm"]
        /\ model'[t]["isolation_forest"] = model[t]["isolation_forest"]
    BY <1>1, <1>2, <2>1, <2>2, ModelMoves
  <2>4. odd' = odd /\ joined' = joined /\ counted' = counted
    BY <2>1 DEF Moved
  <2>5. model[t]["lstm"] # "idle"
    BY <1>1, <1>2, <2>1 DEF SeenRight
  <2>6. SeenRight(t)'
    BY <1>1, <2>2, <2>3, <2>4, <2>5 DEF SeenRight
  <2> QED
    BY <1>2, <2>1, <2>2, <2>6, MoveIsRight DEF Ended
<1> QED
  BY <1>4, <1>5

\* The window ends at the transfer itself.
LEMMA WindowEndsHere ==
    ASSUME BehaviorTypeOK, NEW t \in Transfers, t \in rows["raw"]
    PROVE  t \in Window(t) /\ Anchored(t, Window(t)) /\ Window(t) \subseteq rows["raw"]
<1>1. rows["raw"] \subseteq Known /\ Known \subseteq Int /\ t \in Known
  BY BehaviorInputsAssumption DEF BehaviorTypeOK, Tables, Known
<1>2. \A h \in rows["raw"] : stamp[h] \in Int /\ stamp[t] \in Int
  BY <1>1 DEF BehaviorTypeOK
<1>3. ASSUME NEW h \in Preceding(t)
      PROVE  ~(UpTo(t, h) /\ t # h)
  <2>1. h \in rows["raw"] /\ UpTo(h, t)
    BY DEF Preceding
  <2>2. h \in Int /\ t \in Int /\ stamp[h] \in Int /\ stamp[t] \in Int
    BY <1>1, <1>2, <2>1
  <2> QED
    BY <2>1, <2>2 DEF UpTo
<1>4. {b \in Preceding(t) : UpTo(t, b) /\ t # b} = {}
  BY <1>3
<1>5. Later(Preceding(t), t) = 0 /\ 0 < SeqLen
  <2>1. SeqLen \in Nat \ {0}
    BY BehaviorInputsAssumption
  <2>2. Later(Preceding(t), t) = 0
    BY <1>4, FS_EmptySet DEF Later
  <2> QED
    BY <2>1, <2>2
<1>6. t \in Preceding(t)
  <2>1. t \in Int /\ stamp[t] \in Int
    BY <1>1, <1>2
  <2> QED
    BY <2>1 DEF Preceding, UpTo
<1>7. t \in Window(t) /\ Window(t) \subseteq Preceding(t)
  BY <1>5, <1>6 DEF Window
<1>8. {b \in Window(t) : UpTo(t, b) /\ t # b} = {}
  BY <1>3, <1>7
<1>9. Later(Window(t), t) = 0
  BY <1>8, FS_EmptySet DEF Later
<1> QED
  BY <1>7, <1>9 DEF Anchored, Preceding

\* The LSTM's three statements, and the failure of a model's statement.
LEMMA SequenceRight ==
    ASSUME BehaviorInv, NEW t \in Transfers, ReadAnchor(t) \/ ReadWindow(t) \/ ReadStatics(t)
    PROVE  BehaviorInv'
<1>1. BehaviorTypeOK /\ CountedRight(t) /\ SeenRight(t) /\ WholeTransfers
  BY DEF BehaviorInv
<1>2. {"xgboost", "isolation_forest", "lstm"} = ModelNames
  BY DEF ModelNames
<1>3. model[t]["lstm"] # "idle" => t \in rows["raw"]
  BY <1>1 DEF CountedRight, WholeTransfers
<1>4. ASSUME NEW end \in Progress \ {"idle", "abstained"}, Moved(t, "lstm", end),
             model[t]["lstm"] \in {"anchoring", "windowing", "statics"},
             end \in {"statics", "scored"} => t \notin odd["sequence"],
             end = "missing" => ~({"profile", "node"} \subseteq joined /\ odd["sequence"] = {})
      PROVE  BehaviorInv'
  <2>1. /\ model'[t]["lstm"] = end /\ model'[t]["xgboost"] = model[t]["xgboost"]
        /\ model'[t]["isolation_forest"] = model[t]["isolation_forest"]
    BY <1>1, <1>2, <1>4, ModelMoves
  <2>2. odd' = odd /\ joined' = joined /\ counted' = counted
    BY <1>4 DEF Moved
  <2>3. SeenRight(t)'
    BY <1>1, <1>4, <2>1, <2>2 DEF SeenRight
  <2> QED
    BY <1>2, <1>4, <2>3, MoveIsRight DEF Ended
<1>5. CASE ReadAnchor(t)
  <2>1. model[t]["lstm"] = "anchoring" /\ t \in rows["raw"]
    BY <1>3, <1>5 DEF ReadAnchor
  <2>2. Moved(t, "lstm", "windowing")
    BY <1>5, <2>1, MovesIsMoved DEF ReadAnchor
  <2> QED
    BY <1>4, <2>1, <2>2 DEF Progress
<1>6. CASE ReadWindow(t)
  <2> DEFINE end == IF Anchored(t, Window(t)) /\ Buildable(Window(t)) THEN "statics" ELSE "missing"
  <2>1. model[t]["lstm"] = "windowing" /\ Moved(t, "lstm", end) /\ t \in rows["raw"]
    BY <1>3, <1>6, MovesIsMoved DEF ReadWindow
  <2>2. t \in Window(t) /\ Anchored(t, Window(t)) /\ Window(t) \subseteq rows["raw"]
    BY <1>1, <2>1, WindowEndsHere
  <2>3. end = "statics" => t \notin odd["sequence"]
    BY <2>2 DEF Buildable
  <2>4. odd["sequence"] = {} => end = "statics"
    BY <1>1, <2>2 DEF Buildable, WholeTransfers, Tables
  <2>5. end \in {"statics", "missing"}
    OBVIOUS
  <2> HIDE DEF end
  <2> QED
    BY <1>4, <2>1, <2>3, <2>4, <2>5 DEF Progress, Ended
<1>7. CASE ReadStatics(t)
  <2> DEFINE end == IF {"profile", "node"} \subseteq joined THEN "scored" ELSE "missing"
  <2>1. model[t]["lstm"] = "statics" /\ Moved(t, "lstm", end)
    BY <1>7, MovesIsMoved DEF ReadStatics
  <2>2. t \notin odd["sequence"]
    BY <1>1, <2>1 DEF SeenRight
  <2>3. end \in {"scored", "missing"} /\ (end = "missing" => ~({"profile", "node"} \subseteq joined))
    OBVIOUS
  <2> HIDE DEF end
  <2> QED
    BY <1>4, <2>1, <2>2, <2>3 DEF Progress, Ended
<1> QED
  BY <1>5, <1>6, <1>7

LEMMA FailureRight ==
    ASSUME BehaviorInv, NEW t \in Transfers, StatementFails(t)
    PROVE  BehaviorInv'
<1>1. BehaviorTypeOK /\ CountedRight(t) /\ SeenRight(t) /\ BlendedRight(t)
  BY DEF BehaviorInv
<1>2. UNCHANGED <<rows, stamp, clock, stage, counted, odd, joined>>
  BY DEF StatementFails, requestVars
<1>3. ASSUME outcome[t] = "none", outcome' = [outcome EXCEPT ![t] = "unavailable"],
             UNCHANGED model
      PROVE  BehaviorInv'
  <2>1. BehaviorTypeOK' /\ outcome'[t] = "unavailable"
        /\ \A u \in Transfers \ {t} : outcome'[u] = outcome[u]
    BY <1>1, <1>2, <1>3 DEF BehaviorTypeOK
  <2>2. CountedRight(t)' /\ SeenRight(t)'
    BY <1>1, <1>2, <1>3 DEF CountedRight, SeenRight, Within, Preceding, UpTo
  <2>3. BlendedRight(t)'
    BY <2>1 DEF BlendedRight
  <2> QED
    BY <1>2, <1>3, <2>1, <2>2, <2>3, OthersStayRight
<1>4. ASSUME NEW name \in ModelNames, model[t][name] \notin Ended \cup {"idle"},
             model' = [model EXCEPT ![t][name] = "down"], UNCHANGED outcome
      PROVE  BehaviorInv'
  <2>1. Moved(t, name, "down") /\ "down" \in Progress \ {"idle"}
    BY <1>2, <1>4 DEF Moved, Progress, Ended
  <2>2. /\ model'[t][name] = "down"
        /\ \A other \in ModelNames \ {name} : model'[t][other] = model[t][other]
    BY <1>1, <2>1, ModelMoves
  <2>3. {"xgboost", "isolation_forest", "lstm"} = ModelNames
    BY DEF ModelNames
  <2>4. model[t]["lstm"] # "idle" /\ model'[t]["lstm"] # "idle"
    BY <1>1, <1>4, <2>2, <2>3 DEF SeenRight
  <2>5. SeenRight(t)'
    BY <1>1, <1>2, <2>2, <2>3, <2>4 DEF SeenRight
  <2> QED
    BY <1>4, <2>1, <2>5, MoveIsRight
<1> QED
  BY <1>3, <1>4 DEF StatementFails

LEMMA CountRight ==
    ASSUME BehaviorInv, NEW t \in Transfers, CountHistory(t)
    PROVE  BehaviorInv'
<1>1. BehaviorTypeOK /\ CountedRight(t) /\ SeenRight(t) /\ BlendedRight(t) /\ WholeTransfers
  BY DEF BehaviorInv
<1> DEFINE n == Cardinality(Preceding(t))
<1>2. /\ stage[t] = "published" /\ outcome[t] = "none" /\ model[t]["lstm"] = "idle"
      /\ counted' = [counted EXCEPT ![t] = n]
      /\ UNCHANGED <<rows, stamp, clock, stage, odd, joined>>
  BY DEF CountHistory, requestVars
<1>3. t \in rows["raw"]
  BY <1>1, <1>2 DEF WholeTransfers
<1>4. /\ t \in Known /\ Known \subseteq Int /\ stamp[t] \in Int
      /\ IsFiniteSet(Preceding(t)) /\ IsFiniteSet(Within(t))
      /\ n \in Nat /\ Cardinality(Within(t)) \in Nat
  BY <1>1, HistoryFinite, BehaviorInputsAssumption DEF BehaviorTypeOK, Known
<1>5. t \in Preceding(t) /\ Within(t) \subseteq Preceding(t)
  BY <1>1, <1>3, <1>4 DEF Preceding, Within, UpTo, WholeTransfers
<1>6. n # 0 /\ Cardinality(Within(t)) <= n
  BY <1>4, <1>5, FS_EmptySet, FS_Subset
<1>7. model' = [model EXCEPT ![t] = Counts(n)] /\ UNCHANGED outcome
  BY <1>6 DEF CountHistory
<1>8. /\ Preceding(t)' = Preceding(t) /\ Within(t)' = Within(t)
  BY <1>2 DEF Preceding, Within, UpTo
<1>9. /\ Counts(n) \in [ModelNames -> Progress]
      /\ Counts(n)["xgboost"] = "reading" /\ Counts(n)["isolation_forest"] = "reading"
      /\ Counts(n)["lstm"] = IF n < LstmMinHistory THEN "abstained" ELSE "anchoring"
  BY DEF Counts, ModelNames, Progress, Ended
<1> HIDE DEF n
<1>10. /\ BehaviorTypeOK' /\ model'[t] = Counts(n) /\ counted'[t] = n
       /\ \A u \in Transfers \ {t} : model'[u] = model[u] /\ counted'[u] = counted[u]
  BY <1>1, <1>2, <1>4, <1>7, <1>9 DEF BehaviorTypeOK
<1>11. CountedRight(t)'
  BY <1>2, <1>4, <1>6, <1>8, <1>10 DEF CountedRight, n
<1>12. SeenRight(t)'
  <2>1. n >= LstmMinHistory <=> ~(n < LstmMinHistory)
    BY <1>4, BehaviorInputsAssumption
  <2> QED
    BY <1>9, <1>10, <2>1 DEF SeenRight
<1>13. BlendedRight(t)'
  BY <1>2, <1>7 DEF BlendedRight
<1> QED
  BY <1>2, <1>7, <1>10, <1>11, <1>12, <1>13, OthersStayRight

LEMMA BlendRight ==
    ASSUME BehaviorInv, NEW t \in Transfers, BlendScores(t)
    PROVE  BehaviorInv'
<1>1. BehaviorTypeOK /\ CountedRight(t) /\ SeenRight(t) /\ BlendedRight(t)
  BY DEF BehaviorInv
<1> DEFINE end == IF \E name \in ModelNames : model[t][name] = "down" THEN "unavailable"
                  ELSE IF Contributed(t) = {} THEN "error" ELSE "ok"
<1>2. /\ \A name \in ModelNames : model[t][name] \in Ended
      /\ outcome' = [outcome EXCEPT ![t] = end]
      /\ UNCHANGED <<rows, stamp, clock, stage, counted, model, odd, joined>>
  BY DEF BlendScores, requestVars
<1>3. /\ end \in {"unavailable", "error", "ok"}
      /\ end # "unavailable" =>
             /\ \A name \in ModelNames : model[t][name] # "down"
             /\ end = "ok" <=> Contributed(t) # {}
  OBVIOUS
<1> HIDE DEF end
<1>4. /\ BehaviorTypeOK' /\ outcome'[t] = end
      /\ \A u \in Transfers \ {t} : outcome'[u] = outcome[u]
  BY <1>1, <1>2, <1>3 DEF BehaviorTypeOK
<1>5. CountedRight(t)' /\ SeenRight(t)'
  BY <1>1, <1>2 DEF CountedRight, SeenRight, Within, Preceding, UpTo
<1>6. BlendedRight(t)'
  <2>1. Contributed(t)' = Contributed(t)
    BY <1>2 DEF Contributed
  <2> QED
    BY <1>2, <1>3, <1>4, <2>1 DEF BlendedRight, Ended
<1> QED
  BY <1>2, <1>4, <1>5, <1>6, OthersStayRight

\* Every step of the account's transfers and evaluations.
LEMMA BehaviorStep == BehaviorInv /\ [BehaviorNext]_behaviorVars => BehaviorInv'
<1> SUFFICES ASSUME BehaviorInv, [BehaviorNext]_behaviorVars
             PROVE  BehaviorInv'
  OBVIOUS
<1>1. CASE UNCHANGED behaviorVars
  <2>1. UNCHANGED <<rows, stamp, clock, stage, counted, model, outcome, odd, joined>>
    BY <1>1 DEF behaviorVars
  <2>2. BehaviorTypeOK' /\ WholeTransfers'
    BY <2>1 DEF BehaviorInv, BehaviorTypeOK, WholeTransfers
  <2>3. ASSUME NEW t \in Transfers
        PROVE  CountedRight(t)' /\ SeenRight(t)' /\ BlendedRight(t)'
    BY <2>1, <2>2, StaysRight
  <2> QED
    BY <2>2, <2>3 DEF BehaviorInv
<1>2. ASSUME NEW t \in Transfers, Requesting(t)
      PROVE  BehaviorInv'
  <2>1. BehaviorTypeOK /\ WholeTransfers
    BY DEF BehaviorInv
  <2>2. /\ BehaviorTypeOK' /\ WholeTransfers' /\ odd' = odd /\ joined' = joined
        /\ counted' = counted /\ model' = model /\ outcome' = outcome
        /\ \A table \in Tables : rows[table] \subseteq rows'[table]
        /\ \A h \in rows["raw"] : stamp'[h] = stamp[h]
        /\ \A u \in Transfers : stage[u] = "published" => stage'[u] = "published"
    BY <1>2, <2>1, RequestStep
  <2>3. rows["raw"] \subseteq rows'["raw"]
    BY <2>2 DEF Tables
  <2>4. ASSUME NEW u \in Transfers
        PROVE  CountedRight(u)' /\ SeenRight(u)' /\ BlendedRight(u)'
    BY <2>2, <2>3, StaysRight
  <2> QED
    BY <2>2, <2>4 DEF BehaviorInv
<1> QED
  BY <1>1, <1>2, CountRight, TabularRight, SequenceRight, FailureRight, BlendRight
     DEF BehaviorNext, Requesting

LEMMA BehaviorStart == BehaviorInit => BehaviorInv
<1> SUFFICES ASSUME BehaviorInit
             PROVE  BehaviorInv
  OBVIOUS
<1>1. BehaviorTypeOK
  <2>1. Past \subseteq Known /\ 0 \in Nat
    BY DEF Known
  <2>2. [name \in ModelNames |-> "idle"] \in [ModelNames -> Progress]
    BY DEF Progress
  <2>3. /\ rows = [table \in Tables |-> Past] /\ stamp = [txn \in Known |-> 0] /\ clock = 0
        /\ stage = [t \in Transfers |-> "new"] /\ counted = [t \in Transfers |-> 0]
        /\ model = [t \in Transfers |-> [name \in ModelNames |-> "idle"]]
        /\ outcome = [t \in Transfers |-> "none"]
    BY DEF BehaviorInit
  <2>4. rows \in [Tables -> SUBSET Known] /\ stamp \in [Known -> Nat] /\ clock \in Nat
    BY <2>1, <2>3
  <2>5. model \in [Transfers -> [ModelNames -> Progress]] /\ counted \in [Transfers -> Nat]
    BY <2>1, <2>2, <2>3
  <2> QED
    BY <2>3, <2>4, <2>5 DEF BehaviorTypeOK
<1>2. WholeTransfers
  BY BehaviorInputsAssumption DEF BehaviorInit, WholeTransfers, Tables
<1>3. ASSUME NEW t \in Transfers
      PROVE  CountedRight(t) /\ SeenRight(t) /\ BlendedRight(t)
  BY DEF BehaviorInit, CountedRight, SeenRight, BlendedRight, ModelNames
<1> QED
  BY <1>1, <1>2, <1>3 DEF BehaviorInv

\* An evaluation that has ended, and that no failed statement ended, has heard every
\* model its inputs allow, and no other.
LEMMA EndedIsScored == BehaviorInv => LiveIsFullyScored
<1> SUFFICES ASSUME BehaviorInv, NEW t \in Transfers, outcome[t] \notin {"none", "unavailable"}
             PROVE  /\ t \in rows["raw"]
                    /\ Cardinality(Within(t)) <= counted[t]
                    /\ counted[t] <= Cardinality(Preceding(t))
                    /\ "isolation_forest" \in Contributed(t) <=> t \notin odd["tabular"]
                    /\ "xgboost" \in Contributed(t) <=>
                           t \notin odd["tabular"] /\ {"profile", "levels"} \subseteq joined
                    /\ "lstm" \in Contributed(t) =>
                           counted[t] >= LstmMinHistory /\ t \notin odd["sequence"]
                    /\ counted[t] >= LstmMinHistory /\ {"profile", "node"} \subseteq joined
                           /\ odd["sequence"] = {} => "lstm" \in Contributed(t)
                    /\ outcome[t] = "ok" <=> Contributed(t) # {}
  BY DEF LiveIsFullyScored, Within
<1>1. BehaviorTypeOK /\ WholeTransfers /\ CountedRight(t) /\ SeenRight(t) /\ BlendedRight(t)
  BY DEF BehaviorInv
<1>2. outcome[t] \in {"error", "ok"}
  BY <1>1 DEF BehaviorTypeOK, BlendedRight
<1>3. /\ \A name \in ModelNames : model[t][name] \in {"scored", "missing", "abstained"}
      /\ outcome[t] = "ok" <=> Contributed(t) # {}
  BY <1>1, <1>2 DEF BlendedRight
<1>4. {"xgboost", "isolation_forest", "lstm"} = ModelNames
  BY DEF ModelNames
<1>5. \A name \in ModelNames : name \in Contributed(t) <=> model[t][name] = "scored"
  BY DEF Contributed
<1>6. /\ t \in rows["raw"]
      /\ Cardinality(Within(t)) <= counted[t] /\ counted[t] <= Cardinality(Preceding(t))
  BY <1>1, <1>3, <1>4 DEF CountedRight, WholeTransfers
<1>7. /\ model[t]["isolation_forest"] \in {"scored", "missing"}
      /\ model[t]["xgboost"] \in {"scored", "missing"}
  BY <1>1, <1>3, <1>4 DEF SeenRight
<1>8. /\ "isolation_forest" \in Contributed(t) <=> t \notin odd["tabular"]
      /\ "xgboost" \in Contributed(t) <=>
             t \notin odd["tabular"] /\ {"profile", "levels"} \subseteq joined
  BY <1>1, <1>4, <1>5, <1>7 DEF SeenRight
<1>9. "lstm" \in Contributed(t) => counted[t] >= LstmMinHistory /\ t \notin odd["sequence"]
  BY <1>1, <1>4, <1>5 DEF SeenRight
<1>10. counted[t] >= LstmMinHistory /\ {"profile", "node"} \subseteq joined
           /\ odd["sequence"] = {} => "lstm" \in Contributed(t)
  <2>1. counted[t] \in Nat /\ LstmMinHistory \in Nat
    BY <1>1, BehaviorInputsAssumption DEF BehaviorTypeOK
  <2>2. counted[t] >= LstmMinHistory => model[t]["lstm"] # "abstained"
    BY <1>1, <2>1 DEF SeenRight
  <2> QED
    BY <1>1, <1>3, <1>4, <1>5, <2>2 DEF SeenRight
<1> QED
  BY <1>3, <1>6, <1>8, <1>9, <1>10

\* However the transfers of an account commit and are evaluated around each other, an
\* evaluation no statement failed is answered, and hears each model exactly if its
\* inputs exist (submit_transfer's one database transaction, BehaviorAgent.evaluate).
THEOREM FullyScored == BehaviorSpec => []LiveIsFullyScored
<1>1. BehaviorInit => BehaviorInv
  BY BehaviorStart
<1>2. BehaviorInv /\ [BehaviorNext]_behaviorVars => BehaviorInv'
  BY BehaviorStep
<1>3. BehaviorInv => LiveIsFullyScored
  BY EndedIsScored
<1> QED
  BY <1>1, <1>2, <1>3, PTL DEF BehaviorSpec
=============================================================================
