-------------------------------- MODULE Scoring --------------------------------
(***************************************************************************)
(* One transaction from what the agents read to the decision: each agent   *)
(* that finds what it needs scores its facts, in any order, the others     *)
(* abstain (a store is down, the device or the position is missing, the    *)
(* graph does not know the account, no model could score), and whatever    *)
(* has been scored can be fused.                                           *)
(***************************************************************************)
EXTENDS Synthesis, AgentScores

CONSTANTS
    VelocityFacts, GeoFacts,
    Networks,        \* what the graph may hold: [edges, node] of the account
    BehaviorFacts,   \* [raw : contributing models -> score, history]
    Grids,           \* model -> the quantiles of its scores in training, sorted
    ScoredAccount,   \* the account of the transaction
    ScoredTypes      \* its raw type

ASSUME ScoringAssumption ==
    /\ \A f \in VelocityFacts :
           /\ f.amount \in Nat /\ f.avg \in Nat /\ f.observations \in Nat /\ f.share \in Int
           /\ \A w \in Windows : f.live[w] \in Nat /\ f.mean[w] \in Nat
    /\ \A f \in GeoFacts :
           /\ f.km \in Nat /\ f.dt \in Int /\ f.observations \in Nat
           /\ f.first \in BOOLEAN /\ f.device \in {"known", "first", "unknown"}
    /\ \A f \in Networks : IsFiniteSet(f.edges)
    /\ \A f \in BehaviorFacts :
           DOMAIN f.raw \subseteq Models /\ DOMAIN f.raw # {} /\ f.history \in Nat
    /\ DOMAIN Grids = Models
    /\ \A m \in Models : Grids[m] \in Seq(Int) /\ Grids[m] # <<>>

VARIABLES
    facts, \* the agents that have scored -> what they read
    kind   \* the transaction's raw type, "none" before there is one

scoringVars == <<facts, kind>>

FactsOf == [velocity |-> VelocityFacts, geo |-> GeoFacts, graph |-> Networks,
            behavior |-> BehaviorFacts]

\* What each model made of its raw score.
Calibrated(f) == [m \in DOMAIN f.raw |-> Percentile(f.raw[m], Grids[m])]

VerdictOf(a, f) ==
    CASE a = "velocity" -> VelocityVerdict(f)
      [] a = "geo"      -> GeoVerdict(f)
      [] a = "graph"    -> GraphVerdict(f.edges, f.node, ScoredAccount)
      [] a = "behavior" -> Ensemble(Calibrated(f), f.history)

Verdicts(fs) == [a \in DOMAIN fs |-> VerdictOf(a, fs[a])]

ScoringInit == facts = <<>> /\ kind = "none"

Arrives == kind = "none" /\ kind' \in ScoredTypes /\ UNCHANGED facts

\* run_*: the agent comes back with status "ok".
Scores(a) ==
    /\ kind # "none" /\ a \notin DOMAIN facts
    /\ \E f \in FactsOf[a] :
           facts' = [b \in DOMAIN facts \cup {a} |-> IF b = a THEN f ELSE facts[b]]
    /\ UNCHANGED kind

ScoringNext == Arrives \/ \E a \in Agents : Scores(a)

Decision(fs) == Synthesise(Verdicts(fs), MapTxnType(kind), DefaultConfig)

-----------------------------------------------------------------------------
(* Properties. *)

\* The account is known and jumps on a device it never used.
Teleports ==
    /\ "geo" \in DOMAIN facts /\ facts["geo"].observations >= 20
    /\ ~facts["geo"].first /\ facts["geo"].km >= 50 /\ facts["geo"].dt <= 30
    /\ facts["geo"].device = "unknown"

\* The account is known, and a burst of its transactions comes with fifteen times
\* the usual amount.
Bursts ==
    /\ "velocity" \in DOMAIN facts /\ facts["velocity"].observations >= 50
    /\ facts["velocity"].avg > 0 /\ facts["velocity"].amount >= 15 * facts["velocity"].avg
    /\ \E w \in Windows : facts["velocity"].live[w] >= 10 + 11 * facts["velocity"].mean[w]

\* The account is a fraud seed and has paid the ring's collector.
PaysRing ==
    /\ "graph" \in DOMAIN facts /\ facts["graph"].node.seed
    /\ Direct(facts["graph"].edges, ScoredAccount)

\* Every model that could score puts the transaction in its worst tenth.
ModelsAgree ==
    /\ "behavior" \in DOMAIN facts
    /\ \A m \in DOMAIN facts["behavior"].raw : Calibrated(facts["behavior"])[m] >= 90

\* The weights of the signals, of the agents and of the tables, the confidences and
\* the disagreement override fit together: hard evidence found by one agent is never
\* outvoted into a PASS, whatever the other agents read and whoever abstains.
HardEvidenceHeard ==
    kind # "none" /\ (Teleports \/ Bursts \/ PaysRing \/ ModelsAgree)
        => Decision(facts) # "PASS"
=============================================================================
