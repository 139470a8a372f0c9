----------------------------- MODULE FusionProofs -----------------------------
(***************************************************************************)
(* The weighted mean behind fuse() and what it guarantees of a decision,   *)
(* for every set of verdicts, every category and all thresholds; and from  *)
(* what an agent reads, through its score and confidence, to the decision. *)
(***************************************************************************)
EXTENDS Fusion, Scoring, FiniteSetTheorems, WellFoundedInduction, TLAPS

-----------------------------------------------------------------------------
(* Arithmetic of the fused score. *)

\* Every blended weight is a natural number, whatever the category and pattern.
LEMMA BlendNat ==
    ASSUME NEW v, NEW t
    PROVE  Blend(MapTxnType(t), Pattern(v)) \in [Agents -> Nat]
  <1>1. \A q \in {"p2p_transfer", "merchant_payment", "atm_withdrawal", "bill_payment"} :
            \A a \in Agents : Layer1[q][a] \in Nat
    BY DEF Layer1, Quad, Agents
  <1>2. \A q \in {"rapid_transfers", "fraud_ring", "money_laundering", "novel_pattern"} :
            \A a \in Agents : Layer2[q][a] \in Nat
    BY DEF Layer2, Quad, Agents
  <1>3. MapTxnType(t) \in {"p2p_transfer", "merchant_payment", "atm_withdrawal",
                           "bill_payment"}
    BY DEF MapTxnType
  <1>4. Pattern(v) \in {"rapid_transfers", "fraud_ring", "money_laundering",
                        "novel_pattern"}
    BY DEF Pattern
  <1> HIDE DEF Layer1, Layer2
  <1>5. \A a \in Agents : Layer1[MapTxnType(t)][a] \in Nat /\ Layer2[Pattern(v)][a] \in Nat
    BY <1>1, <1>2, <1>3, <1>4
  <1>6. \A x, y \in Nat : x + y \in Nat
    OBVIOUS
  <1> QED
    BY <1>5, <1>6 DEF Blend

\* Total is monotone, additive over a scaled copy, and natural on naturals.
LEMMA TotalMonotone ==
    ASSUME NEW f \in [Agents -> Int], NEW g \in [Agents -> Int],
           \A a \in Agents : f[a] <= g[a]
    PROVE  Total(f) <= Total(g) /\ Total(f) \in Int
  BY DEF Total, Agents

\* The effective weights and risks of typed verdicts are natural numbers.
LEMMA EffectiveNat ==
    ASSUME NEW v, DOMAIN v \subseteq Agents, v \in [DOMAIN v -> Verdict],
           NEW w \in [Agents -> Nat]
    PROVE  /\ Effective(v, w) \in [Agents -> Nat]
           /\ Risk(v) \in [Agents -> 0..100]
  <1>1. \A a \in DOMAIN v : v[a].conf \in Nat /\ v[a].risk \in 0..100
    BY DEF Verdict
  <1>2. \A x, y \in Nat : x * y \in Nat
    OBVIOUS
  <1>3. \A a \in DOMAIN v : w[a] * v[a].conf \in Nat
    BY <1>1, <1>2
  <1> QED
    BY <1>1, <1>3 DEF Effective, Risk

\* Over total functions: the weighted sum of numbers up to m is at most m
\* times the sum of the weights, and dually from below.
LEMMA WeightedSum ==
    ASSUME NEW e \in [Agents -> Nat], NEW r \in [Agents -> 0..100], NEW m \in Int
    PROVE  /\ (\A a \in Agents : e[a] > 0 => r[a] <= m) =>
                  Total([a \in Agents |-> e[a] * r[a]]) <= m * Total(e)
           /\ (\A a \in Agents : e[a] > 0 => r[a] >= m) =>
                  Total([a \in Agents |-> e[a] * r[a]]) >= m * Total(e)
  <1>1. \A x \in Nat, y \in 0..100 : (x > 0 => y <= m) => x * y <= m * x
    OBVIOUS
  <1>2. \A x \in Nat, y \in 0..100 : (x > 0 => y >= m) => x * y >= m * x
    OBVIOUS
  <1>3. \A x, y, z, u \in Nat : m * (x + y + z + u) = m * x + m * y + m * z + m * u
    OBVIOUS
  <1>4. m * Total(e) = m * e["velocity"] + m * e["geo"] + m * e["graph"] + m * e["behavior"]
    BY <1>3 DEF Total, Agents
  <1>5. \A a \in Agents : e[a] * r[a] \in Int /\ m * e[a] \in Int
    OBVIOUS
  <1>6. ASSUME \A a \in Agents : e[a] > 0 => r[a] <= m
        PROVE  \A a \in Agents : e[a] * r[a] <= m * e[a]
    BY <1>1, <1>6
  <1>7. ASSUME \A a \in Agents : e[a] > 0 => r[a] >= m
        PROVE  \A a \in Agents : e[a] * r[a] >= m * e[a]
    BY <1>2, <1>7
  <1>8. \A p, q \in [Agents -> Int] :
            /\ (\A a \in Agents : p[a] <= q[a]) => Total(p) <= Total(q)
            /\ Total(q) = q["velocity"] + q["geo"] + q["graph"] + q["behavior"]
    BY TotalMonotone DEF Total
  <1> DEFINE P == [a \in Agents |-> e[a] * r[a]]
             Q == [a \in Agents |-> m * e[a]]
  <1>9. P \in [Agents -> Int] /\ Q \in [Agents -> Int]
    BY <1>5
  <1>10. Total(Q) = m * Total(e)
    BY <1>4 DEF Total, Agents
  <1> QED
    BY <1>6, <1>7, <1>8, <1>9, <1>10

\* The fused score lies within the risks of the agents with some confidence:
\* no bound above all of them is exceeded, none below all of them undercut.
LEMMA Mean ==
    ASSUME NEW v, DOMAIN v \subseteq Agents, v \in [DOMAIN v -> Verdict],
           NEW w \in [Agents -> Nat], NEW m \in Int
    PROVE  /\ (\A a \in Speaking(v) : v[a].risk <= m) =>
                  Numerator(v, w) <= m * Denominator(v, w)
           /\ (\A a \in Speaking(v) : v[a].risk >= m) =>
                  Numerator(v, w) >= m * Denominator(v, w)
  <1> DEFINE e == Effective(v, w)
             r == Risk(v)
  <1>1. e \in [Agents -> Nat] /\ r \in [Agents -> 0..100]
    BY EffectiveNat
  <1>2. \A a \in DOMAIN v : v[a].conf \in Nat
    BY DEF Verdict
  <1>3. \A x \in Nat : x * 0 = 0
    OBVIOUS
  <1>4. \A a \in Agents : e[a] > 0 => a \in Speaking(v) /\ r[a] = v[a].risk
    BY <1>2, <1>3 DEF Effective, Risk, Speaking
  <1>5. Numerator(v, w) = Total([a \in Agents |-> e[a] * r[a]]) /\ Denominator(v, w) = Total(e)
    BY DEF Numerator, Denominator
  <1> HIDE DEF e, r
  <1>6. /\ (\A a \in Agents : e[a] > 0 => r[a] <= m) =>
               Total([a \in Agents |-> e[a] * r[a]]) <= m * Total(e)
        /\ (\A a \in Agents : e[a] > 0 => r[a] >= m) =>
               Total([a \in Agents |-> e[a] * r[a]]) >= m * Total(e)
    BY <1>1, WeightedSum
  <1> QED
    BY <1>4, <1>5, <1>6

\* The two sums are natural, and the denominator vanishes only if no weighted
\* agent has any confidence.
LEMMA SumsNat ==
    ASSUME NEW v, DOMAIN v \subseteq Agents, v \in [DOMAIN v -> Verdict],
           NEW w \in [Agents -> Nat]
    PROVE  /\ Numerator(v, w) \in Nat /\ Denominator(v, w) \in Nat
           /\ Denominator(v, w) = 0 /\ (\A a \in DOMAIN v : w[a] # 0) => Speaking(v) = {}
  <1> DEFINE e == Effective(v, w)
             r == Risk(v)
  <1>1. e \in [Agents -> Nat] /\ r \in [Agents -> 0..100]
    BY EffectiveNat
  <1>2. \A f \in [Agents -> Nat] : Total(f) \in Nat
    BY DEF Total, Agents
  <1>3. \A f \in [Agents -> Nat] : Total(f) = 0 => \A a \in Agents : f[a] = 0
    BY DEF Total, Agents
  <1>4. \A x, y \in Nat : x * y \in Nat
    OBVIOUS
  <1>5. [a \in Agents |-> e[a] * r[a]] \in [Agents -> Nat]
    <2> HIDE DEF e, r
    <2>1. \A a \in Agents : e[a] \in Nat /\ r[a] \in Nat
      BY <1>1
    <2> QED
      BY <2>1, <1>4
  <1>6. ASSUME Denominator(v, w) = 0, \A a \in DOMAIN v : w[a] # 0
        PROVE  Speaking(v) = {}
    <2>1. \A a \in DOMAIN v : w[a] * v[a].conf = 0
      BY <1>1, <1>3, <1>6 DEF Denominator, Effective
    <2>2. \A x, y \in Nat : x * y = 0 /\ x # 0 => y = 0
      OBVIOUS
    <2>3. \A a \in DOMAIN v : v[a].conf \in Nat /\ w[a] \in Nat
      BY DEF Verdict
    <2>4. \A a \in DOMAIN v : v[a].conf = 0
      BY <1>6, <2>1, <2>2, <2>3
    <2> QED
      BY <2>4 DEF Speaking
  <1> QED
    BY <1>1, <1>2, <1>5, <1>6 DEF Numerator, Denominator

-----------------------------------------------------------------------------
(* The decision. *)

\* A typed set of verdicts never blocks without an agent above the block
\* threshold, nor passes without one below the challenge threshold.
LEMMA SynthesiseBacked ==
    ASSUME NEW v, DOMAIN v \subseteq Agents, v \in [DOMAIN v -> Verdict],
           NEW t, NEW cfg \in Thresholds
    PROVE  LET d == Synthesise(v, MapTxnType(t), cfg)
           IN /\ d = "BLOCK" => \E a \in Speaking(v) : v[a].risk > cfg.high
              /\ d = "PASS" => \/ Speaking(v) = {}
                               \/ \E a \in Speaking(v) : v[a].risk < cfg.low
  <1> DEFINE w == Blend(MapTxnType(t), Pattern(v))
             N == Numerator(v, w)
             D == Denominator(v, w)
  <1>1. w \in [Agents -> Nat]
    BY BlendNat
  <1>2. cfg.low \in Int /\ cfg.high \in Int
    BY DEF Thresholds
  <1>3. \A a \in DOMAIN v : v[a].risk \in Int
    BY DEF Verdict
  <1> HIDE DEF w
  <1>4. N \in Nat /\ D \in Nat
    BY <1>1, SumsNat
  <1>5. ASSUME Synthesise(v, MapTxnType(t), cfg) = "BLOCK"
        PROVE  \E a \in Speaking(v) : v[a].risk > cfg.high
    <2>1. N > cfg.high * D
      BY <1>5 DEF Synthesise, Decide, ScoreAbove, w
    <2>2. ~(N <= cfg.high * D)
      BY <1>2, <1>4, <2>1
    <2>3. \E a \in Speaking(v) : ~(v[a].risk <= cfg.high)
      BY <1>1, <1>2, <2>2, Mean
    <2> QED
      BY <1>2, <1>3, <2>3 DEF Speaking
  <1>6. ASSUME Synthesise(v, MapTxnType(t), cfg) = "PASS", Speaking(v) # {}
        PROVE  \E a \in Speaking(v) : v[a].risk < cfg.low
    <2>1. \A a \in DOMAIN v : w[a] # 0
      BY <1>6 DEF Synthesise, w
    <2>2. D # 0
      BY <1>1, <1>6, <2>1, SumsNat
    <2>3. N < cfg.low * D
      BY <1>6, <2>2 DEF Synthesise, Decide, ScoreBelow, w
    <2>4. ~(N >= cfg.low * D)
      BY <1>2, <1>4, <2>3
    <2>5. \E a \in Speaking(v) : ~(v[a].risk >= cfg.low)
      BY <1>1, <1>2, <2>4, Mean
    <2> QED
      BY <1>2, <1>3, <2>5 DEF Speaking
  <1> QED
    BY <1>5, <1>6

\* Every reachable set of verdicts is typed.
THEOREM VerdictsTyped == Spec => []VerdictsOK
  <1>1. Init => VerdictsOK
    BY DEF Init, VerdictsOK
  <1>2. VerdictsOK /\ [Next]_<<verdicts, raw>> => VerdictsOK'
    <2> SUFFICES ASSUME VerdictsOK, [Next]_<<verdicts, raw>> PROVE VerdictsOK'
      OBVIOUS
    <2>1. CASE Next
      <3> PICK a \in Agents, r \in Risks, c \in Confidences : Report(a, r, c)
        BY <2>1 DEF Next
      <3>1. [risk |-> r, conf |-> c] \in Verdict
        BY FusionAssumption DEF Verdict
      <3> QED
        BY <3>1 DEF Report, VerdictsOK
    <2>2. CASE UNCHANGED <<verdicts, raw>>
      BY <2>2 DEF VerdictsOK
    <2> QED
      BY <2>1, <2>2
  <1> QED
    BY <1>1, <1>2, PTL DEF Spec

\* Every decision fuse() can reach is backed by an agent that is sure of it to
\* some degree, for all scores and thresholds.
THEOREM DecisionsBacked == Spec => []DecisionBacked
  <1>1. VerdictsOK => DecisionBacked
    <2> SUFFICES ASSUME VerdictsOK, NEW cfg \in Settings
                 PROVE  /\ Fuse(verdicts, cfg) = "BLOCK" =>
                               \E a \in Speaking(verdicts) : verdicts[a].risk > cfg.high
                        /\ Fuse(verdicts, cfg) = "PASS" =>
                               \/ Speaking(verdicts) = {}
                               \/ \E a \in Speaking(verdicts) : verdicts[a].risk < cfg.low
      BY DEF DecisionBacked
    <2> QED
      BY SynthesiseBacked, FusionAssumption DEF VerdictsOK, Fuse
  <1> QED
    BY <1>1, VerdictsTyped, PTL

-----------------------------------------------------------------------------
(* A loudest agent that becomes surer. *)

\* Adding weight k at a risk r no smaller than the mean N / D does not lower the
\* mean: no threshold it had reached is lost, none it exceeded is regained.
LEMMA PullUp ==
    ASSUME NEW N \in Nat, NEW D \in Nat, NEW k \in Nat, NEW r \in Nat, NEW tau \in Nat,
           N <= r * D
    PROVE  /\ D # 0 /\ N > tau * D => D + k # 0 /\ N + k * r > tau * (D + k)
           /\ D # 0 /\ N >= tau * D => D + k # 0 /\ N + k * r >= tau * (D + k)
           /\ D = 0 /\ k # 0 /\ N + k * r < tau * (D + k) => 0 < tau
  <1>1. \A x \in Nat : tau * (D + x) = tau * D + tau * x
    OBVIOUS
  <1>2. \A x, y \in Nat : D # 0 /\ x * D >= y * D => x >= y
    OBVIOUS
  <1>3. r >= tau => k * r >= tau * k
    OBVIOUS
  <1>4. D # 0 /\ N >= tau * D => r >= tau
    <2>1. r * D \in Nat /\ tau * D \in Nat
      OBVIOUS
    <2> QED
      BY <1>2, <2>1
  <1>5. k * r \in Nat /\ tau * k \in Nat /\ tau * D \in Nat
    OBVIOUS
  <1>6. ASSUME D = 0, k # 0, N + k * r < tau * (D + k) PROVE 0 < tau
    <2>1. CASE tau = 0
      <3>1. tau * (D + k) = 0
        BY <2>1
      <3> QED
        BY <1>5, <1>6, <3>1
    <2> QED
      BY <2>1
  <1> QED
    BY <1>1, <1>3, <1>4, <1>5, <1>6

\* What raising one agent's confidence does to the two sums.
LEMMA SurerSums ==
    ASSUME NEW v, DOMAIN v \subseteq Agents, v \in [DOMAIN v -> Verdict],
           NEW w \in [Agents -> Nat], NEW a \in DOMAIN v, NEW c \in 0..100,
           c > v[a].conf
    PROVE  \E k \in Nat :
               /\ Numerator([v EXCEPT ![a].conf = c], w) = Numerator(v, w) + k * v[a].risk
               /\ Denominator([v EXCEPT ![a].conf = c], w) = Denominator(v, w) + k
  <1> DEFINE u == [v EXCEPT ![a].conf = c]
             k == w[a] * (c - v[a].conf)
             e == Effective(v, w)
             e2 == Effective(u, w)
             r == Risk(v)
  <1>1. DOMAIN u = DOMAIN v /\ u \in [DOMAIN u -> Verdict]
    BY DEF Verdict
  <1>2. /\ \A b \in DOMAIN v : u[b].risk = v[b].risk
        /\ \A b \in DOMAIN v \ {a} : u[b] = v[b]
        /\ u[a].conf = c
    BY DEF Verdict
  <1>3. w[a] \in Nat /\ v[a].conf \in Nat /\ v[a].risk \in Nat /\ c \in Nat
    BY DEF Verdict
  <1>4. k \in Nat /\ w[a] * c = w[a] * v[a].conf + k
    <2>1. \A x, y, z \in Nat : z > y => x * (z - y) \in Nat /\ x * z = x * y + x * (z - y)
      OBVIOUS
    <2> QED
      BY <1>3, <2>1
  <1>5. Risk(u) = r
    BY <1>1, <1>2 DEF Risk
  <1>6. e \in [Agents -> Nat] /\ e2 \in [Agents -> Nat] /\ r \in [Agents -> 0..100]
    BY <1>1, EffectiveNat
  <1>7. /\ \A b \in Agents \ {a} : e2[b] = e[b]
        /\ e2[a] = e[a] + k
        /\ r[a] = v[a].risk
    BY <1>1, <1>2, <1>4 DEF Effective, Risk
  <1> HIDE DEF u, k, e, e2, r
  <1> DEFINE n == [b \in Agents |-> e[b] * r[b]]
             n2 == [b \in Agents |-> e2[b] * r[b]]
  <1>8. \A f, g \in [Agents -> Int], i \in Int :
            (\A b \in Agents \ {a} : g[b] = f[b]) /\ g[a] = f[a] + i
                => Total(g) = Total(f) + i
    BY DEF Total, Agents
  <1>9. \A x, y, z \in Nat : (x + y) * z = x * z + y * z /\ x * z \in Int
    OBVIOUS
  <1>10. /\ n \in [Agents -> Int] /\ n2 \in [Agents -> Int]
         /\ \A b \in Agents \ {a} : n2[b] = n[b]
         /\ n2[a] = n[a] + k * r[a]
         /\ k * r[a] \in Int
    <2>1. \A b \in Agents : e[b] \in Nat /\ e2[b] \in Nat /\ r[b] \in Nat
      BY <1>6
    <2> QED
      BY <1>4, <1>7, <1>9, <2>1
  <1>11. Total(n2) = Total(n) + k * v[a].risk /\ Total(e2) = Total(e) + k
    <2> HIDE DEF n, n2
    <2>1. Total(n2) = Total(n) + k * r[a]
      BY <1>8, <1>10
    <2>2. Total(e2) = Total(e) + k
      BY <1>4, <1>6, <1>7, <1>8
    <2> QED
      BY <1>7, <2>1, <2>2
  <1>12. /\ Numerator(v, w) = Total(n) /\ Denominator(v, w) = Total(e)
         /\ Numerator(u, w) = Total(n2) /\ Denominator(u, w) = Total(e2)
    BY <1>5 DEF Numerator, Denominator, e, e2, r
  <1> QED
    BY <1>4, <1>11, <1>12 DEF u

\* Pattern and disagreement look at the risks only, so they ignore confidence.
LEMMA ConfidenceIgnored ==
    ASSUME NEW v, v \in [DOMAIN v -> Verdict], NEW a \in DOMAIN v, NEW c, NEW tau
    PROVE  LET u == [v EXCEPT ![a].conf = c]
           IN /\ DOMAIN u = DOMAIN v
              /\ Pattern(u) = Pattern(v)
              /\ Disagree(u, tau) = Disagree(v, tau)
  <1> DEFINE u == [v EXCEPT ![a].conf = c]
  <1>1. DOMAIN u = DOMAIN v
    OBVIOUS
  <1>2. \A b \in DOMAIN v : u[b].risk = v[b].risk
    BY DEF Verdict
  <1> HIDE DEF u
  <1>3. Loudest(u) = Loudest(v)
    BY <1>1, <1>2 DEF Loudest
  <1>4. {b \in DOMAIN u : u[b].risk >= Elevated} = {b \in DOMAIN v : v[b].risk >= Elevated}
    BY <1>1, <1>2
  <1>5. Clustered(u) = Clustered(v)
    <2>1. (\A b, d \in DOMAIN u : u[b].risk - u[d].risk <= MaxSpread)
             <=> \A b, d \in DOMAIN v : v[b].risk - v[d].risk <= MaxSpread
      BY <1>1, <1>2
    <2>2. Cardinality({b \in DOMAIN u : u[b].risk >= Elevated})
             = Cardinality({b \in DOMAIN v : v[b].risk >= Elevated})
      BY <1>4
    <2> QED
      BY <2>1, <2>2 DEF Clustered
  <1>6. Risk(u) = Risk(v)
    BY <1>1, <1>2 DEF Risk
  <1>7. Disagree(u, tau) = Disagree(v, tau)
    BY <1>1, <1>6 DEF Disagree
  <1>8. Pattern(u) = Pattern(v)
    BY <1>3, <1>5 DEF Pattern
  <1> QED
    BY <1>1, <1>7, <1>8 DEF u

\* A loudest agent that becomes surer never relaxes the decision.
LEMMA SurerNeverRelaxes ==
    ASSUME NEW v, DOMAIN v \subseteq Agents, v \in [DOMAIN v -> Verdict],
           NEW t, NEW cfg \in Thresholds, NEW a \in Loudest(v), NEW c \in 0..100,
           c > v[a].conf
    PROVE  Severity[Synthesise(v, MapTxnType(t), cfg)]
             <= Severity[Synthesise([v EXCEPT ![a].conf = c], MapTxnType(t), cfg)]
  <1> DEFINE u == [v EXCEPT ![a].conf = c]
             w == Blend(MapTxnType(t), Pattern(v))
  <1>1. a \in DOMAIN v /\ \A b \in DOMAIN v : v[b].risk <= v[a].risk
    BY DEF Loudest
  <1>2. /\ DOMAIN u = DOMAIN v /\ Pattern(u) = Pattern(v)
        /\ Disagree(u, cfg.disagreement) = Disagree(v, cfg.disagreement)
    BY <1>1, ConfidenceIgnored
  <1>3. w \in [Agents -> Nat]
    BY BlendNat
  <1>4. v[a].risk \in Nat /\ cfg.low \in Nat /\ cfg.high \in Nat
    <2>1. v[a] \in Verdict
      BY <1>1
    <2>2. v[a].risk \in Nat
      BY <2>1 DEF Verdict
    <2>3. cfg.low \in Nat /\ cfg.high \in Nat
      BY DEF Thresholds
    <2> QED
      BY <2>2, <2>3
  <1>5. /\ Synthesise(v, MapTxnType(t), cfg) =
              IF DOMAIN v = {} \/ \E b \in DOMAIN v : w[b] = 0 THEN "ERROR" ELSE Decide(v, w, cfg)
        /\ Synthesise(u, MapTxnType(t), cfg) =
              IF DOMAIN v = {} \/ \E b \in DOMAIN v : w[b] = 0 THEN "ERROR" ELSE Decide(u, w, cfg)
    BY <1>2 DEF Synthesise
  <1> HIDE DEF w
  <1>6. PICK k \in Nat : /\ Numerator(u, w) = Numerator(v, w) + k * v[a].risk
                         /\ Denominator(u, w) = Denominator(v, w) + k
    BY <1>1, <1>3, SurerSums
  <1> HIDE DEF u
  <1>7. Numerator(v, w) \in Nat /\ Denominator(v, w) \in Nat
    BY <1>3, SumsNat
  <1>8. Numerator(v, w) <= v[a].risk * Denominator(v, w)
    BY <1>1, <1>3, <1>4, Mean DEF Speaking
  <1>9. ScoreBelow(u, w, cfg.low) => ScoreBelow(v, w, cfg.low)
    <2> DEFINE N == Numerator(v, w)
               D == Denominator(v, w)
    <2>1. /\ D # 0 /\ N >= cfg.low * D =>
                 D + k # 0 /\ N + k * v[a].risk >= cfg.low * (D + k)
          /\ D = 0 /\ k # 0 /\ N + k * v[a].risk < cfg.low * (D + k) => 0 < cfg.low
      BY <1>4, <1>7, <1>8, PullUp
    <2>2. D + k = 0 <=> D = 0 /\ k = 0
      BY <1>7
    <2>3. cfg.low * D \in Nat /\ cfg.low * (D + k) \in Nat /\ N + k * v[a].risk \in Nat
      <3>1. \A x, y, z \in Nat : x * y \in Nat /\ x + y \in Nat
        OBVIOUS
      <3> QED
        BY <1>4, <1>7, <3>1
    <2> QED
      BY <1>6, <1>7, <2>1, <2>2, <2>3 DEF ScoreBelow
  <1>10. ScoreAbove(v, w, cfg.high) => ScoreAbove(u, w, cfg.high)
    BY <1>4, <1>6, <1>7, <1>8, PullUp DEF ScoreAbove
  <1>11. /\ Decide(v, w, cfg) \in {"PASS", "OTP", "BLOCK"}
         /\ Decide(u, w, cfg) \in {"PASS", "OTP", "BLOCK"}
         /\ Decide(u, w, cfg) = "PASS" => Decide(v, w, cfg) = "PASS"
         /\ Decide(v, w, cfg) = "BLOCK" => Decide(u, w, cfg) = "BLOCK"
    BY <1>2, <1>9, <1>10 DEF Decide
  <1> QED
    BY <1>5, <1>11 DEF Severity, u

\* A surer alarm never relaxes a decision fuse() can reach.
THEOREM SurerAlarms == Spec => []SurerAlarm
  <1>1. VerdictsOK => SurerAlarm
    <2> SUFFICES ASSUME VerdictsOK, NEW a \in Loudest(verdicts), NEW c \in Confidences,
                        NEW cfg \in Settings, c > verdicts[a].conf
                 PROVE  Severity[Fuse(verdicts, cfg)]
                          <= Severity[Fuse([verdicts EXCEPT ![a].conf = c], cfg)]
      BY DEF SurerAlarm
    <2> QED
      BY SurerNeverRelaxes, FusionAssumption DEF VerdictsOK, Fuse
  <1> QED
    BY <1>1, VerdictsTyped, PTL

-----------------------------------------------------------------------------
(* What the tables and the disagreement override make of an alarm, and of  *)
(* a set of agents that are all quiet.                                     *)

\* The agents that reported, counted one by one.
Present(D) == [a \in Agents |-> IF a \in D THEN 1 ELSE 0]

LEMMA OneMore ==
    ASSUME NEW S, IsFiniteSet(S), NEW D, NEW x, x \notin S
    PROVE  /\ IsFiniteSet(S \cup (D \cap {x}))
           /\ Cardinality(S \cup (D \cap {x})) = Cardinality(S) + IF x \in D THEN 1 ELSE 0
  <1>1. Cardinality(S) \in Nat
    BY FS_CardinalityType
  <1>2. CASE x \in D
    <2>1. S \cup (D \cap {x}) = S \cup {x}
      BY <1>2
    <2>2. IsFiniteSet(S \cup {x}) /\ Cardinality(S \cup {x}) = Cardinality(S) + 1
      BY FS_AddElement
    <2> QED
      BY <1>2, <2>1, <2>2
  <1>3. CASE x \notin D
    <2>1. S \cup (D \cap {x}) = S
      BY <1>3
    <2>2. Cardinality(S) = Cardinality(S) + 0
      BY <1>1
    <2> QED
      BY <1>3, <2>1, <2>2, Zenon
  <1> QED
    BY <1>2, <1>3

LEMMA Headcount ==
    ASSUME NEW D, D \subseteq Agents
    PROVE  Cardinality(D) = Total(Present(D)) /\ Present(D) \in [Agents -> 0..1]
  <1> DEFINE One == {} \cup (D \cap {"velocity"})
             Two == One \cup (D \cap {"geo"})
             Three == Two \cup (D \cap {"graph"})
  <1>1. IsFiniteSet({}) /\ Cardinality({}) = 0
    BY FS_EmptySet
  <1>2. IsFiniteSet(One) /\ Cardinality(One) = IF "velocity" \in D THEN 1 ELSE 0
    BY <1>1, OneMore
  <1>3. IsFiniteSet(Two) /\ Cardinality(Two) = Cardinality(One) + IF "geo" \in D THEN 1 ELSE 0
    <2>1. "geo" \notin One
      OBVIOUS
    <2> HIDE DEF One
    <2> QED
      BY <1>2, <2>1, OneMore
  <1>4. /\ IsFiniteSet(Three)
        /\ Cardinality(Three) = Cardinality(Two) + IF "graph" \in D THEN 1 ELSE 0
    <2>1. "graph" \notin Two
      OBVIOUS
    <2> HIDE DEF Two
    <2> QED
      BY <1>3, <2>1, OneMore
  <1>5. D = Three \cup (D \cap {"behavior"}) /\ "behavior" \notin Three
    BY DEF Agents
  <1> HIDE DEF Three
  <1>6. Cardinality(D) = Cardinality(Three) + IF "behavior" \in D THEN 1 ELSE 0
    BY <1>4, <1>5, OneMore
  <1> QED
    BY <1>2, <1>3, <1>4, <1>6 DEF Total, Present, Agents

\* The blended weights: none under 30, and none over 65 but velocity's in a burst.
LEMMA BlendBounds ==
    ASSUME NEW v, NEW t, NEW a \in Agents
    PROVE  LET w == Blend(MapTxnType(t), Pattern(v))
           IN /\ w[a] \in Nat /\ w[a] >= 30
              /\ a # "velocity" \/ "velocity" \notin Loudest(v) => w[a] <= 65
  <1>1. \A q \in {"p2p_transfer", "merchant_payment", "atm_withdrawal", "bill_payment"} :
            /\ Layer1[q]["velocity"] \in 20..35 /\ Layer1[q]["geo"] \in 20..30
            /\ Layer1[q]["graph"] \in 20..25 /\ Layer1[q]["behavior"] \in 15..35
    BY DEF Layer1, Quad
  <1>2. \A p \in {"rapid_transfers", "fraud_ring", "money_laundering", "novel_pattern"} :
            /\ Layer2[p]["velocity"] \in 15..50 /\ Layer2[p]["geo"] \in 10..30
            /\ p # "rapid_transfers" => Layer2[p]["velocity"] <= 25
            /\ Layer2[p]["graph"] \in 15..40 /\ Layer2[p]["behavior"] \in 15..30
    BY DEF Layer2, Quad
  <1>3. MapTxnType(t) \in {"p2p_transfer", "merchant_payment", "atm_withdrawal",
                           "bill_payment"}
    BY DEF MapTxnType
  <1>4. /\ Pattern(v) \in {"rapid_transfers", "fraud_ring", "money_laundering",
                           "novel_pattern"}
        /\ "velocity" \notin Loudest(v) => Pattern(v) # "rapid_transfers"
    BY DEF Pattern
  <1> DEFINE one == Layer1[MapTxnType(t)]
             two == Layer2[Pattern(v)]
  <1>5. /\ one["velocity"] \in 20..35 /\ one["geo"] \in 20..30
        /\ one["graph"] \in 20..25 /\ one["behavior"] \in 15..35
    BY <1>1, <1>3
  <1>6. /\ two["velocity"] \in 15..50 /\ two["geo"] \in 10..30
        /\ "velocity" \notin Loudest(v) => two["velocity"] <= 25
        /\ two["graph"] \in 15..40 /\ two["behavior"] \in 15..30
    BY <1>2, <1>4
  <1>7. Blend(MapTxnType(t), Pattern(v))[a] = one[a] + two[a]
    BY DEF Blend
  <1> HIDE DEF one, two
  <1>8. /\ one[a] + two[a] \in Nat /\ one[a] + two[a] >= 30
        /\ a # "velocity" \/ "velocity" \notin Loudest(v) => one[a] + two[a] <= 65
    BY <1>5, <1>6 DEF Agents
  <1> QED
    BY <1>7, <1>8

\* n * n times the variance of n risks, and bounds of it from below.
Deviation2(a, b) == 2 * (a * a + b * b) - (a + b) * (a + b)
Deviation3(a, b, c) == 3 * (a * a + b * b + c * c) - (a + b + c) * (a + b + c)
Deviation4(a, b, c, d) ==
    4 * (a * a + b * b + c * c + d * d) - (a + b + c + d) * (a + b + c + d)

LEMMA Squared ==
    ASSUME NEW a \in Int, NEW b \in Int, NEW c \in Int, NEW d \in Int
    PROVE  /\ Deviation2(a, b) = (a - b) * (a - b)
           /\ 2 * Deviation3(a, b, c)
                = 3 * ((a - b) * (a - b)) + (2 * c - a - b) * (2 * c - a - b)
           /\ Deviation4(a, b, c, d)
                = 2 * ((a - b) * (a - b))
                    + (b + a - c - d) * (b + a - c - d) + 2 * ((c - d) * (c - d))
           /\ 3 * Deviation4(a, b, c, d)
                = 2 * ((2 * a - b - c) * (2 * a - b - c)) + 6 * ((b - c) * (b - c))
                    + (3 * d - a - b - c) * (3 * d - a - b - c)
           /\ 3 * Deviation4(a, b, c, d)
                = (3 * a - b - c - d) * (3 * a - b - c - d)
                    + 4 * ((b - c) * (b - c) + (b - d) * (b - d) + (c - d) * (c - d))
           /\ Deviation3(a, b, c) \in Int /\ Deviation4(a, b, c, d) \in Int
  BY DEF Deviation2, Deviation3, Deviation4

LEMMA Squares ==
    ASSUME NEW x \in Int
    PROVE  /\ x * x \in Nat
           /\ \A k \in Nat : x * x < (k + 1) * (k + 1) => x <= k
  <1>1. x * x \in Nat
    OBVIOUS
  <1>2. ASSUME NEW k \in Nat, x * x < (k + 1) * (k + 1), x > k PROVE FALSE
    <2>1. x * x >= x * (k + 1)
      BY <1>2
    <2>2. x * (k + 1) >= (k + 1) * (k + 1)
      BY <1>2
    <2> QED
      BY <1>2, <2>1, <2>2
  <1> QED
    BY <1>1, <1>2

\* For the numbers it is needed at.
LEMMA Roots ==
    ASSUME NEW x \in Int
    PROVE  /\ x * x \in Nat
           /\ x * x < 1600 => x <= 39
           /\ x * x < 2401 => x <= 48
           /\ x * x < 3249 => x <= 56
           /\ x * x < 9604 => x <= 97
           /\ x * x < 19321 => x <= 138
  <1>1. x * x \in Nat /\ \A k \in Nat : x * x < (k + 1) * (k + 1) => x <= k
    BY Squares
  <1>2. /\ x * x < (39 + 1) * (39 + 1) => x <= 39
        /\ x * x < (48 + 1) * (48 + 1) => x <= 48
        /\ x * x < (56 + 1) * (56 + 1) => x <= 56
        /\ x * x < (97 + 1) * (97 + 1) => x <= 97
        /\ x * x < (138 + 1) * (138 + 1) => x <= 138
    BY <1>1
  <1> QED
    BY <1>1, <1>2

\* How far the reported risks can lie below the challenge threshold, in total, when
\* one is at the block threshold (none of them, when it is at 90) and they do not
\* disagree.
Under(x) == IF x < 30 THEN 30 - x ELSE 0

LEMMA UnderTwo ==
    \A a, b \in Int : a >= 70 /\ Deviation2(a, b) < 1600 => Under(b) = 0
  <1> SUFFICES ASSUME NEW a \in Int, NEW b \in Int, a >= 70, Deviation2(a, b) < 1600
               PROVE  Under(b) = 0
    OBVIOUS
  <1> DEFINE x == a - b
  <1>1. x \in Int /\ Deviation2(a, b) = x * x
    BY Squared
  <1> HIDE DEF x
  <1>2. x <= 39
    BY <1>1, Roots
  <1> QED
    BY <1>2 DEF Under, x

LEMMA NearThree ==
    \A a, x, y \in Int : a >= 70 /\ Deviation3(a, x, y) < 3600 =>
        Under(x) <= 8 /\ (a >= 90 => Under(x) = 0)
  <1> SUFFICES ASSUME NEW a \in Int, NEW x \in Int, NEW y \in Int,
                      a >= 70, Deviation3(a, x, y) < 3600
               PROVE  Under(x) <= 8 /\ (a >= 90 => Under(x) = 0)
    OBVIOUS
  <1> DEFINE p == a - x
             q == 2 * y - a - x
  <1>1. /\ 2 * Deviation3(a, x, y) = 3 * (p * p) + q * q
        /\ p \in Int /\ q \in Int /\ Deviation3(a, x, y) \in Int
    BY Squared
  <1> HIDE DEF p, q
  <1>2. q * q \in Nat /\ p * p \in Nat
    BY <1>1, Roots
  <1>3. p * p < 2401
    BY <1>1, <1>2
  <1>4. p <= 48
    BY <1>1, <1>3, Roots
  <1> QED
    BY <1>4 DEF Under, p

LEMMA UnderThree ==
    \A a, b, c \in Int : a >= 70 /\ Deviation3(a, b, c) < 3600 =>
        Under(b) + Under(c) <= 16 /\ (a >= 90 => Under(b) + Under(c) = 0)
  <1> SUFFICES ASSUME NEW a \in Int, NEW b \in Int, NEW c \in Int,
                      a >= 70, Deviation3(a, b, c) < 3600
               PROVE  Under(b) + Under(c) <= 16 /\ (a >= 90 => Under(b) + Under(c) = 0)
    OBVIOUS
  <1>1. Deviation3(a, c, b) < 3600
    BY DEF Deviation3
  <1>2. /\ Under(b) <= 8 /\ Under(c) <= 8
        /\ a >= 90 => Under(b) = 0 /\ Under(c) = 0
    BY <1>1, NearThree
  <1> QED
    BY <1>2 DEF Under

LEMMA NearFour ==
    \A a, x, y, z \in Int :
        a >= 70 /\ Deviation4(a, x, y, z) < 6400 =>
            /\ Under(x) <= 16 /\ 2 * a - x - y <= 97 /\ 3 * a - x - y - z <= 138
            /\ a >= 90 => Under(x) = 0
  <1> SUFFICES ASSUME NEW a \in Int, NEW x \in Int, NEW y \in Int, NEW z \in Int,
                      a >= 70, Deviation4(a, x, y, z) < 6400
               PROVE  /\ Under(x) <= 16 /\ 2 * a - x - y <= 97 /\ 3 * a - x - y - z <= 138
                      /\ a >= 90 => Under(x) = 0
    OBVIOUS
  <1> DEFINE one == a - x
             two == 2 * a - x - y
             three == 3 * a - x - y - z
             o == x + a - y - z
             p == y - z
             q == x - y
             r == x - z
             s == 3 * z - a - x - y
  <1>1. /\ Deviation4(a, x, y, z) = 2 * (one * one) + o * o + 2 * (p * p)
        /\ 3 * Deviation4(a, x, y, z) = 2 * (two * two) + 6 * (q * q) + s * s
        /\ 3 * Deviation4(a, x, y, z) = three * three + 4 * (q * q + r * r + p * p)
        /\ Deviation4(a, x, y, z) \in Int
    BY Squared
  <1>2. /\ one \in Int /\ two \in Int /\ three \in Int
        /\ o \in Int /\ p \in Int /\ q \in Int /\ r \in Int /\ s \in Int
    OBVIOUS
  <1> HIDE DEF one, two, three, o, p, q, r, s
  <1>3. /\ one * one \in Nat /\ two * two \in Nat /\ three * three \in Nat
        /\ o * o \in Nat /\ p * p \in Nat /\ q * q \in Nat /\ r * r \in Nat /\ s * s \in Nat
    BY <1>2, Roots
  <1>4. one * one < 3249 /\ two * two < 9604 /\ three * three < 19321
    BY <1>1, <1>3
  <1>5. one <= 56 /\ two <= 97 /\ three <= 138
    BY <1>2, <1>4, Roots
  <1> QED
    BY <1>5 DEF Under, one, two, three

LEMMA UnderFour ==
    \A a, b, c, d \in Int :
        a >= 70 /\ Deviation4(a, b, c, d) < 6400 =>
            /\ Under(b) + Under(c) + Under(d) <= 18
            /\ a >= 90 => Under(b) + Under(c) + Under(d) = 0
  <1> SUFFICES ASSUME NEW a \in Int, NEW b \in Int, NEW c \in Int, NEW d \in Int,
                      a >= 70, Deviation4(a, b, c, d) < 6400
               PROVE  /\ Under(b) + Under(c) + Under(d) <= 18
                      /\ a >= 90 => Under(b) + Under(c) + Under(d) = 0
    OBVIOUS
  <1>1. /\ Deviation4(a, c, d, b) < 6400 /\ Deviation4(a, b, d, c) < 6400
        /\ Deviation4(a, d, b, c) < 6400
    BY DEF Deviation4
  <1>2. /\ Under(b) <= 16 /\ 2 * a - b - c <= 97 /\ 3 * a - b - c - d <= 138
        /\ a >= 90 => Under(b) = 0
    BY NearFour
  <1>3. Under(c) <= 16 /\ 2 * a - c - d <= 97 /\ (a >= 90 => Under(c) = 0)
    BY <1>1, NearFour
  <1>4. 2 * a - b - d <= 97
    BY <1>1, NearFour
  <1>5. Under(d) <= 16 /\ (a >= 90 => Under(d) = 0)
    BY <1>1, NearFour
  <1> QED
    BY <1>2, <1>3, <1>4, <1>5 DEF Under

\* Any number of the other agents may be absent.
Absent(p, b) == p = 0 => b = 0
UnderIf(p, b) == IF p = 1 THEN Under(b) ELSE 0
Deviates(n, squares, sum) == n * squares - sum * sum < 400 * n * n

LEMMA UnderAny ==
    \A a, b, c, d \in Int, p, q, s \in {0, 1} :
        /\ Absent(p, b) /\ Absent(q, c) /\ Absent(s, d) /\ a >= 70
        /\ Deviates(1 + p + q + s, a * a + b * b + c * c + d * d, a + b + c + d)
        => /\ UnderIf(p, b) + UnderIf(q, c) + UnderIf(s, d) <= 18
           /\ a >= 90 => UnderIf(p, b) + UnderIf(q, c) + UnderIf(s, d) = 0
  <1> TAKE a, b, c, d \in Int, p, q, s \in {0, 1}
  <1> HAVE /\ Absent(p, b) /\ Absent(q, c) /\ Absent(s, d) /\ a >= 70
           /\ Deviates(1 + p + q + s, a * a + b * b + c * c + d * d, a + b + c + d)
  <1> USE DEF Deviates, Absent
  <1>1. CASE p = 1 /\ q = 1 /\ s = 1
    <2>1. Deviation4(a, b, c, d) < 6400
      BY <1>1 DEF Deviation4
    <2> QED
      BY <1>1, <2>1, UnderFour DEF UnderIf
  <1>2. CASE p = 1 /\ q = 1 /\ s = 0
    <2>1. Deviation3(a, b, c) < 3600
      BY <1>2 DEF Deviation3
    <2>2. Under(b) + Under(c) <= 16 /\ (a >= 90 => Under(b) + Under(c) = 0)
      BY <2>1, UnderThree
    <2> QED
      BY <1>2, <2>2 DEF UnderIf, Under
  <1>3. CASE p = 1 /\ q = 0 /\ s = 1
    <2>1. Deviation3(a, b, d) < 3600
      BY <1>3 DEF Deviation3
    <2>2. Under(b) + Under(d) <= 16 /\ (a >= 90 => Under(b) + Under(d) = 0)
      BY <2>1, UnderThree
    <2> QED
      BY <1>3, <2>2 DEF UnderIf, Under
  <1>4. CASE p = 0 /\ q = 1 /\ s = 1
    <2>1. Deviation3(a, c, d) < 3600
      BY <1>4 DEF Deviation3
    <2>2. Under(c) + Under(d) <= 16 /\ (a >= 90 => Under(c) + Under(d) = 0)
      BY <2>1, UnderThree
    <2> QED
      BY <1>4, <2>2 DEF UnderIf, Under
  <1>5. CASE p = 1 /\ q = 0 /\ s = 0
    <2>1. Deviation2(a, b) < 1600
      BY <1>5 DEF Deviation2
    <2>2. Under(b) = 0
      BY <2>1, UnderTwo
    <2> QED
      BY <1>5, <2>2 DEF UnderIf
  <1>6. CASE p = 0 /\ q = 1 /\ s = 0
    <2>1. Deviation2(a, c) < 1600
      BY <1>6 DEF Deviation2
    <2>2. Under(c) = 0
      BY <2>1, UnderTwo
    <2> QED
      BY <1>6, <2>2 DEF UnderIf
  <1>7. CASE p = 0 /\ q = 0 /\ s = 1
    <2>1. Deviation2(a, d) < 1600
      BY <1>7 DEF Deviation2
    <2>2. Under(d) = 0
      BY <2>1, UnderTwo
    <2> QED
      BY <1>7, <2>2 DEF UnderIf
  <1>8. CASE p = 0 /\ q = 0 /\ s = 0
    BY <1>8 DEF UnderIf
  <1> QED
    BY <1>1, <1>2, <1>3, <1>4, <1>5, <1>6, <1>7, <1>8

\* The sum over the agents, one of them first.
Split(a, x, y, z) ==
    /\ Agents = {a, x, y, z}
    /\ \A f \in [Agents -> Int] : Total(f) = f[a] + f[x] + f[y] + f[z]

LEMMA Splits ==
    ASSUME NEW a \in Agents
    PROVE  \E x, y, z \in Agents : Split(a, x, y, z)
  <1>1. CASE a = "velocity"
    <2>1. Split(a, "geo", "graph", "behavior")
      BY <1>1 DEF Agents, Total, Split
    <2> QED
      BY <2>1 DEF Agents
  <1>2. CASE a = "geo"
    <2>1. Split(a, "velocity", "graph", "behavior")
      BY <1>2 DEF Agents, Total, Split
    <2> QED
      BY <2>1 DEF Agents
  <1>3. CASE a = "graph"
    <2>1. Split(a, "velocity", "geo", "behavior")
      BY <1>3 DEF Agents, Total, Split
    <2> QED
      BY <2>1 DEF Agents
  <1>4. CASE a = "behavior"
    <2>1. Split(a, "velocity", "geo", "graph")
      BY <1>4 DEF Agents, Total, Split
    <2> QED
      BY <2>1 DEF Agents
  <1> QED
    BY <1>1, <1>2, <1>3, <1>4 DEF Agents

\* If the agents do not disagree, the others are little below the challenge
\* threshold altogether.
Short(v, b) == UnderIf(Present(DOMAIN v)[b], Risk(v)[b])

LEMMA OthersNear ==
    ASSUME NEW v, DOMAIN v \subseteq Agents, v \in [DOMAIN v -> Verdict],
           NEW a \in DOMAIN v, v[a].risk >= 70, ~Disagree(v, 400),
           NEW x \in Agents, NEW y \in Agents, NEW z \in Agents, Split(a, x, y, z)
    PROVE  /\ Short(v, x) + Short(v, y) + Short(v, z) <= 18
           /\ v[a].risk >= 90 => Short(v, x) + Short(v, y) + Short(v, z) = 0
  <1> DEFINE one == Present(DOMAIN v)
             r   == Risk(v)
             squares == [b \in Agents |-> r[b] * r[b]]
             n == Cardinality(DOMAIN v)
  <1>1. /\ one \in [Agents -> 0..1] /\ n = Total(one) /\ one[a] = 1 /\ a \in Agents
    BY Headcount DEF Present
  <1>2. /\ r \in [Agents -> 0..100] /\ r[a] = v[a].risk
        /\ \A b \in Agents : one[b] = 0 => r[b] = 0
    <2>1. \A b \in DOMAIN v : v[b].risk \in 0..100
      BY DEF Verdict
    <2> QED
      BY <2>1, <1>1 DEF Risk, Present
  <1>3. ~(n * Total(squares) - Total(r) * Total(r) >= 400 * n * n)
    BY DEF Disagree
  <1> HIDE DEF one, r, n
  <1>4. squares \in [Agents -> Int]
    <2>1. \A b \in Agents : r[b] \in Int
      BY <1>2
    <2>2. \A b \in Agents : r[b] * r[b] \in Int
      BY <2>1
    <2> QED
      BY <2>2
  <1> DEFINE A == r[a]
             B == r[x]
             C == r[y]
             D == r[z]
             p == one[x]
             q == one[y]
             s == one[z]
  <1>5. /\ Total(squares) = A * A + B * B + C * C + D * D
        /\ Total(r) = A + B + C + D /\ n = 1 + p + q + s
    <2>1. Total(squares) = squares[a] + squares[x] + squares[y] + squares[z]
      BY <1>4 DEF Split
    <2>2. r \in [Agents -> Int] /\ one \in [Agents -> Int]
      BY <1>1, <1>2
    <2>3. Total(r) = r[a] + r[x] + r[y] + r[z] /\ Total(one) = one[a] + one[x] + one[y] + one[z]
      BY <2>2 DEF Split
    <2> QED
      BY <1>1, <2>1, <2>3
  <1>6. /\ A \in Int /\ B \in Int /\ C \in Int /\ D \in Int /\ A >= 70
        /\ p \in {0, 1} /\ q \in {0, 1} /\ s \in {0, 1}
        /\ Absent(p, B) /\ Absent(q, C) /\ Absent(s, D)
    BY <1>1, <1>2 DEF Absent
  <1> HIDE DEF A, B, C, D, p, q, s, squares
  <1>7. Deviates(n, Total(squares), Total(r))
    <2>1. n \in Int /\ Total(squares) \in Int /\ Total(r) \in Int
      <3>1. A * A \in Int /\ B * B \in Int /\ C * C \in Int /\ D * D \in Int
        BY <1>6
      <3>2. p \in Int /\ q \in Int /\ s \in Int
        BY <1>6
      <3>3. n \in Int /\ Total(r) \in Int
        BY <1>5, <1>6, <3>2
      <3> QED
        BY <1>5, <3>1, <3>3
    <2> DEFINE X == n * Total(squares) - Total(r) * Total(r)
               Y == 400 * n * n
    <2>2. X \in Int /\ Y \in Int
      BY <2>1
    <2> HIDE DEF X, Y
    <2>3. ~(X >= Y) => X < Y
      BY <2>2
    <2>4. X < Y
      BY <1>3, <2>3 DEF X, Y
    <2> QED
      BY <2>4 DEF Deviates, X, Y
  <1>8. Deviates(1 + p + q + s, A * A + B * B + C * C + D * D, A + B + C + D)
    BY <1>5, <1>7
  <1>9. /\ UnderIf(p, B) + UnderIf(q, C) + UnderIf(s, D) <= 18
        /\ A >= 90 => UnderIf(p, B) + UnderIf(q, C) + UnderIf(s, D) = 0
    BY <1>6, <1>8, UnderAny
  <1>10. v[a].risk = A
    BY <1>2 DEF A
  <1> QED
    BY <1>9, <1>10 DEF p, q, s, B, C, D, one, r, Short

\* What an agent below the challenge threshold takes from the score is bounded by its
\* weight.
Outweighed(e, risk, short) == e * risk >= 30 * e - 6500 * short

LEMMA LowProduct ==
    \A weight \in 0..65, conf \in 0..100, risk \in 0..29 :
        Outweighed(weight * conf, risk, 30 - risk)
  <1> TAKE weight \in 0..65, conf \in 0..100, risk \in 0..29
  <1> DEFINE i == weight * conf
  <1>1. weight * conf <= weight * 100 /\ weight * conf \in Nat
    OBVIOUS
  <1>2. i \in Nat /\ i <= 6500
    BY <1>1
  <1> HIDE DEF i
  <1>3. (6500 - i) * (30 - risk) >= 0
    BY <1>2
  <1>4. i * risk >= 30 * i - 6500 * (30 - risk)
    BY <1>2, <1>3
  <1> QED
    BY <1>4 DEF i, Outweighed

\* An agent sure of a risk at the block threshold is never outvoted into a PASS, and
\* neither is one half sure of 90, because whoever is below the challenge threshold
\* disagrees with it.
Alarming(x) == \/ x.conf = 100 /\ x.risk >= 70
               \/ x.conf >= 50 /\ x.risk >= 90

LEMMA AlarmStays ==
    ASSUME NEW v, DOMAIN v \subseteq Agents, v \in [DOMAIN v -> Verdict], NEW t,
           NEW a \in DOMAIN v, Alarming(v[a])
    PROVE  Synthesise(v, MapTxnType(t), DefaultConfig) # "PASS"
  <1> DEFINE w == Blend(MapTxnType(t), Pattern(v))
             e == Effective(v, w)
             r == Risk(v)
             low(b) == Short(v, b)
  <1> SUFFICES ASSUME ~Disagree(v, 400) PROVE ~ScoreBelow(v, w, 30)
    BY DEF Synthesise, Decide, DefaultConfig
  <1>1. PICK x \in Agents, y \in Agents, z \in Agents : Split(a, x, y, z)
    BY Splits
  <1>2. /\ v[a].risk >= 70
        /\ low(x) + low(y) + low(z) <= 18
        /\ v[a].risk >= 90 => low(x) + low(y) + low(z) = 0
    <2>1. v[a].risk >= 70
      <3>1. v[a].risk \in Int
        BY DEF Verdict
      <3> QED
        BY <3>1 DEF Alarming
    <2>2. low(x) + low(y) + low(z) <= 18
      BY <1>1, <2>1, OthersNear, Zenon
    <2>3. v[a].risk >= 90 => low(x) + low(y) + low(z) = 0
      BY <1>1, <2>1, OthersNear, Zenon
    <2> QED
      BY <2>1, <2>2, <2>3
  <1>3. /\ w \in [Agents -> Nat] /\ \A b \in Agents : w[b] >= 30
        /\ \A b \in Agents : b # "velocity" \/ "velocity" \notin Loudest(v) => w[b] <= 65
    BY BlendNat, BlendBounds
  <1>4. e \in [Agents -> Nat] /\ r \in [Agents -> 0..100]
    BY <1>3, EffectiveNat
  <1>5. \A b \in DOMAIN v : v[b].risk \in 0..100 /\ v[b].conf \in 0..100
    BY DEF Verdict
  <1>6. \A b \in DOMAIN v : v[b].risk < 30 => w[b] <= 65
    <2>1. \A b \in DOMAIN v : v[b].risk < 30 => ~(v[a].risk <= v[b].risk)
      BY <1>2, <1>5
    <2>2. "velocity" \in DOMAIN v /\ v["velocity"].risk < 30 => "velocity" \notin Loudest(v)
      BY <2>1 DEF Loudest
    <2> QED
      BY <1>3, <2>2
  <1> HIDE DEF w
  <1>7. ASSUME NEW b \in Agents
        PROVE  Outweighed(e[b], r[b], low(b)) /\ low(b) \in Nat
    <2>1. CASE b \notin DOMAIN v
      <3>1. e[b] = 0 /\ r[b] = 0 /\ low(b) = 0
        BY <2>1 DEF Effective, Risk, Present, UnderIf, Short
      <3> HIDE DEF e, r, low
      <3> QED
        BY <3>1 DEF Outweighed
    <2>2. CASE b \in DOMAIN v /\ v[b].risk >= 30
      <3>1. r[b] >= 30 /\ r[b] \in Nat /\ low(b) = 0 /\ e[b] \in Nat
        BY <1>4, <1>5, <2>2 DEF Risk, Present, UnderIf, Under, Short
      <3>2. \A i, j \in Nat : j >= 30 => i * j >= 30 * i
        OBVIOUS
      <3> HIDE DEF e, r, low
      <3>3. e[b] * r[b] >= 30 * e[b]
        BY <3>1, <3>2
      <3> QED
        BY <3>1, <3>3 DEF Outweighed
    <2>3. CASE b \in DOMAIN v /\ v[b].risk < 30
      <3>1. /\ r[b] = v[b].risk /\ low(b) = 30 - r[b] /\ r[b] \in 0..29
            /\ e[b] = w[b] * v[b].conf
        BY <1>4, <1>5, <2>3 DEF Risk, Present, UnderIf, Under, Effective, Short
      <3>2. w[b] \in 0..65 /\ v[b].conf \in 0..100
        BY <1>3, <1>5, <1>6, <2>3
      <3> DEFINE conf == v[b].conf
      <3>3. conf \in 0..100 /\ w[b] \in 0..65 /\ r[b] \in 0..29 /\ e[b] = w[b] * conf
        BY <3>1, <3>2
      <3> HIDE DEF e, r, low, conf
      <3>4. Outweighed(w[b] * conf, r[b], 30 - r[b])
        BY <3>3, LowProduct
      <3>5. low(b) = 30 - r[b] /\ low(b) \in Nat
        BY <3>1, <3>3
      <3> QED
        BY <3>3, <3>4, <3>5
    <2> QED
      BY <1>5, <2>1, <2>2, <2>3
  <1>8. e[a] > 0 /\ e[a] * r[a] >= 30 * e[a] + 6500 * (low(x) + low(y) + low(z))
    <2>1. r[a] = v[a].risk /\ e[a] = w[a] * v[a].conf /\ w[a] >= 30 /\ w[a] \in Nat
      BY <1>3 DEF Risk, Effective
    <2>2. r[a] >= 70 /\ r[a] \in Nat /\ v[a].conf >= 50 /\ v[a].conf \in Nat /\ e[a] \in Nat
      BY <1>2, <1>4, <1>5, <2>1 DEF Alarming
    <2>3. \A i, j, k \in Nat : i >= 30 /\ j >= k => i * j >= 30 * k
      OBVIOUS
    <2>4. \A i, j \in Nat : j >= 70 => i * j >= 70 * i
      OBVIOUS
    <2> DEFINE conf == v[a].conf
    <2>5. conf = 100 \/ r[a] >= 90
      BY <2>1 DEF Alarming
    <2>6. w[a] * conf >= 30 * conf
      BY <2>1, <2>2, <2>3
    <2>7. low(x) \in Nat /\ low(y) \in Nat /\ low(z) \in Nat
      BY <1>7
    <2>8. /\ e[a] = w[a] * conf /\ conf \in Nat /\ conf >= 50
          /\ e[a] \in Nat /\ r[a] \in Nat /\ r[a] >= 70 /\ r[a] = v[a].risk
      BY <2>1, <2>2
    <2> HIDE DEF e, r, low, conf
    <2>9. e[a] * r[a] >= 70 * e[a]
      BY <2>4, <2>8
    <2> DEFINE i == e[a]
               j == i * r[a]
               sum == low(x) + low(y) + low(z)
    <2>10. /\ i \in Nat /\ i >= 30 * conf /\ j \in Int /\ j >= 70 * i
           /\ sum \in Nat /\ sum <= 18 /\ (r[a] >= 90 => sum = 0)
      BY <1>2, <2>6, <2>7, <2>8, <2>9
    <2> HIDE DEF i, j, sum
    <2>11. i > 0 /\ j >= 30 * i + 6500 * sum
      BY <2>5, <2>8, <2>10
    <2> QED
      BY <2>11 DEF i, j, sum
  <1> DEFINE product == [b \in Agents |-> e[b] * r[b]]
  <1>9. product \in [Agents -> Int] /\ e \in [Agents -> Int]
    <2>1. \A b \in Agents : e[b] \in Int /\ r[b] \in Int
      BY <1>4
    <2> HIDE DEF e, r
    <2>2. \A b \in Agents : e[b] * r[b] \in Int
      BY <2>1
    <2> QED
      BY <1>4, <2>2
  <1>10. /\ Numerator(v, w) = e[a] * r[a] + e[x] * r[x] + e[y] * r[y] + e[z] * r[z]
         /\ Denominator(v, w) = e[a] + e[x] + e[y] + e[z]
    <2>1. Numerator(v, w) = Total(product) /\ Denominator(v, w) = Total(e)
      BY DEF Numerator, Denominator
    <2>2. Total(product) = product[a] + product[x] + product[y] + product[z]
      BY <1>1, <1>9 DEF Split
    <2>3. Total(e) = e[a] + e[x] + e[y] + e[z]
      BY <1>1, <1>9 DEF Split
    <2> HIDE DEF e, r
    <2> QED
      BY <1>1, <2>1, <2>2, <2>3
  <1> DEFINE A == e[a] * r[a]
             B == e[x] * r[x]
             C == e[y] * r[y]
             D == e[z] * r[z]
  <1>11. /\ A \in Int /\ B \in Int /\ C \in Int /\ D \in Int
         /\ e[a] \in Nat /\ e[x] \in Nat /\ e[y] \in Nat /\ e[z] \in Nat
    <2>1. \A b \in Agents : e[b] * r[b] \in Int /\ e[b] \in Nat
      BY <1>4, <1>9
    <2> HIDE DEF e, r
    <2> QED
      BY <2>1
  <1>12. /\ B >= 30 * e[x] - 6500 * low(x) /\ C >= 30 * e[y] - 6500 * low(y)
         /\ D >= 30 * e[z] - 6500 * low(z)
         /\ low(x) \in Nat /\ low(y) \in Nat /\ low(z) \in Nat
    <2> HIDE DEF e, r, low
    <2> QED
      BY <1>7 DEF Outweighed
  <1> HIDE DEF A, B, C, D, e, r, low
  <1>13. /\ A + B + C + D >= 30 * (e[a] + e[x] + e[y] + e[z])
         /\ e[a] + e[x] + e[y] + e[z] # 0
    BY <1>2, <1>8, <1>11, <1>12 DEF A
  <1>14. /\ Numerator(v, w) = A + B + C + D
         /\ ~(A + B + C + D < 30 * (e[a] + e[x] + e[y] + e[z]))
    BY <1>10, <1>11, <1>13 DEF A, B, C, D
  <1> QED
    BY <1>10, <1>13, <1>14 DEF ScoreBelow

\* Under the default thresholds no set of reports makes fuse() pass a transfer that an
\* agent is sure is at the block threshold: the tables give no agent under 15% of the
\* blended weight, and reports so far apart that this is not enough disagree.
THEOREM AlarmsHeard == Spec => []AlarmHeard
  <1>1. VerdictsOK => AlarmHeard
    <2> SUFFICES ASSUME VerdictsOK, NEW a \in DOMAIN verdicts,
                        verdicts[a].conf = 100, verdicts[a].risk >= 70
                 PROVE  Fuse(verdicts, DefaultConfig) # "PASS"
      BY DEF AlarmHeard
    <2>1. Alarming(verdicts[a])
      BY DEF Alarming
    <2> QED
      BY <2>1, AlarmStays DEF VerdictsOK, Fuse
  <1> QED
    BY <1>1, VerdictsTyped, PTL

\* Risks below 30 are less than the disagreement threshold apart.
LEMMA QuietAgrees ==
    ASSUME NEW v, DOMAIN v \subseteq Agents, v \in [DOMAIN v -> Verdict], DOMAIN v # {},
           \A a \in DOMAIN v : v[a].risk < 30
    PROVE  ~Disagree(v, 400)
  <1> DEFINE r == Risk(v)
             one == Present(DOMAIN v)
             squares == [a \in Agents |-> r[a] * r[a]]
             n == Cardinality(DOMAIN v)
             T == Total(r)
             S == Total(squares)
  <1>1. one \in [Agents -> 0..1] /\ n = Total(one)
    BY Headcount
  <1>2. \A a \in Agents : r[a] \in 0..(29 * one[a])
    <2>1. \A a \in DOMAIN v : v[a].risk \in 0..29
      BY DEF Verdict
    <2> QED
      BY <2>1 DEF Risk, Present
  <1>3. \E a \in Agents : one[a] = 1
    BY DEF Present
  <1>4. n * S - T * T >= 400 * n * n <=> Disagree(v, 400)
    BY DEF Disagree
  <1> HIDE DEF r, one, n
  <1>5. \A a \in Agents : r[a] \in Nat /\ r[a] * r[a] \in Nat /\ r[a] * r[a] <= 29 * r[a]
    <2>1. \A a \in Agents : r[a] \in 0..29
      BY <1>1, <1>2
    <2>2. \A i \in 0..29 : i * i \in Nat /\ i * i <= 29 * i
      OBVIOUS
    <2> QED
      BY <2>1, <2>2
  <1>6. n \in Nat /\ n >= 1
    <2>1. Total(one) = one["velocity"] + one["geo"] + one["graph"] + one["behavior"]
      BY DEF Total
    <2> QED
      BY <1>1, <1>3, <2>1 DEF Agents
  <1>7. T \in Nat /\ S \in Nat /\ S <= 29 * T /\ T <= 29 * n
    <2>1. T = r["velocity"] + r["geo"] + r["graph"] + r["behavior"]
      BY DEF Total
    <2>2. S = squares["velocity"] + squares["geo"] + squares["graph"] + squares["behavior"]
      BY DEF Total
    <2>3. \A a \in Agents : squares[a] \in Nat /\ squares[a] <= 29 * r[a]
      BY <1>5
    <2>4. n = one["velocity"] + one["geo"] + one["graph"] + one["behavior"]
      BY <1>1 DEF Total
    <2> HIDE DEF T, S, squares
    <2>5. T \in Nat /\ S \in Nat /\ S <= 29 * T
      BY <1>5, <2>1, <2>2, <2>3 DEF Agents
    <2>6. \A a \in Agents : one[a] \in Nat /\ r[a] <= 29 * one[a] /\ r[a] \in Nat
      BY <1>1, <1>2
    <2>7. T <= 29 * n
      BY <2>1, <2>4, <2>6 DEF Agents
    <2> QED
      BY <2>5, <2>7
  <1> HIDE DEF T, S, squares
  <1>8. n * S - T * T < 400 * n * n
    <2> DEFINE d == 29 * n - 2 * T
    <2>1. n * S <= n * (29 * T)
      BY <1>6, <1>7
    <2>2. d \in Int
      BY <1>6, <1>7
    <2>3. 4 * (n * (29 * T) - T * T) = 841 * (n * n) - d * d
      BY <1>6, <1>7
    <2> HIDE DEF d
    <2>4. d * d \in Nat
      BY <2>2, Roots
    <2>5. n * n >= n /\ n * n \in Nat
      BY <1>6
    <2>6. 400 * n * n = 400 * (n * n)
      BY <1>6
    <2>7. n * S \in Int /\ T * T \in Int /\ n * (29 * T) \in Int
      BY <1>6, <1>7
    <2> QED
      BY <1>6, <2>1, <2>3, <2>4, <2>5, <2>6, <2>7
  <1>9. n * S - T * T \in Int /\ 400 * n * n \in Int
    BY <1>6, <1>7
  <1> QED
    BY <1>4, <1>8, <1>9

\* Agents that are all quiet pass a transfer.
LEMMA QuietStays ==
    ASSUME NEW v, DOMAIN v \subseteq Agents, v \in [DOMAIN v -> Verdict], NEW t,
           DOMAIN v # {}, \A a \in DOMAIN v : v[a].risk < 30
    PROVE  Synthesise(v, MapTxnType(t), DefaultConfig) = "PASS"
  <1> DEFINE w == Blend(MapTxnType(t), Pattern(v))
  <1>1. w \in [Agents -> Nat] /\ \A a \in Agents : w[a] >= 30
    BY BlendNat, BlendBounds
  <1>2. ~Disagree(v, 400)
    BY QuietAgrees
  <1>3. \A a \in DOMAIN v : w[a] # 0
    BY <1>1
  <1> HIDE DEF w
  <1>4. \A a \in Speaking(v) : v[a].risk <= 29
    BY DEF Speaking, Verdict
  <1>5. Numerator(v, w) <= 29 * Denominator(v, w)
    BY <1>1, <1>4, Mean
  <1>6. Numerator(v, w) \in Nat /\ Denominator(v, w) \in Nat
    BY <1>1, SumsNat
  <1>7. ScoreBelow(v, w, 30)
    BY <1>5, <1>6 DEF ScoreBelow
  <1>8. Synthesise(v, MapTxnType(t), DefaultConfig) = Decide(v, w, DefaultConfig)
    BY <1>3 DEF Synthesise, w
  <1> QED
    BY <1>2, <1>7, <1>8 DEF Decide, DefaultConfig

\* A transfer that every agent finds below the challenge threshold is not challenged:
\* whoever is absent, the rest cannot be far enough apart to disagree.
THEOREM QuietAgentsPass == Spec => []QuietPasses
  <1>1. VerdictsOK => QuietPasses
    BY QuietStays DEF VerdictsOK, QuietPasses, Fuse
  <1> QED
    BY <1>1, VerdictsTyped, PTL

-----------------------------------------------------------------------------
(* From the agents' facts to a decision (AgentScores, Scoring).  Sums over *)
(* the signals of an agent or the models of the ensemble are folds of the  *)
(* community modules; there are at most four of them, so a sum is unfolded *)
(* name by name.                                                           *)

ScoringSpec == ScoringInit /\ [][ScoringNext]_scoringVars

\* At most four things to sum up, and what each adds.
Four(S, a, b, c, d) == /\ S \subseteq {a, b, c, d}
                       /\ a # b /\ a # c /\ a # d /\ b # c /\ b # d /\ c # d
Part(f, s, x) == IF x \in s THEN f[x] ELSE 0
Parts(f, s, a, b, c, d) == Part(f, s, a) + Part(f, s, b) + Part(f, s, c) + Part(f, s, d)

LEMMA PartsStep ==
    ASSUME NEW S, NEW a, NEW b, NEW c, NEW d, Four(S, a, b, c, d), NEW f,
           \A n \in S : f[n] \in Int, NEW s, s \subseteq S
    PROVE  /\ Parts(f, s, a, b, c, d) \in Int
           /\ \A x \in s : Parts(f, s, a, b, c, d) = f[x] + Parts(f, s \ {x}, a, b, c, d)
  <1>1. \A n \in {a, b, c, d} : Part(f, s, n) \in Int
    BY DEF Part
  <1>2. Parts(f, s, a, b, c, d) \in Int
    BY <1>1 DEF Parts
  <1>3. ASSUME NEW x \in s
        PROVE  Parts(f, s, a, b, c, d) = f[x] + Parts(f, s \ {x}, a, b, c, d)
    <2>1. \A n \in {a, b, c, d} :
              /\ n # x => Part(f, s \ {x}, n) = Part(f, s, n)
              /\ n = x => Part(f, s \ {x}, n) = 0 /\ Part(f, s, n) = f[x]
      BY DEF Part
    <2>2. x = a \/ x = b \/ x = c \/ x = d
      BY DEF Four
    <2>3. f[x] \in Int
      OBVIOUS
    <2> QED
      BY <1>1, <2>1, <2>2, <2>3 DEF Four, Parts
  <1> QED
    BY <1>2, <1>3

\* A sum that takes up one element after another, in whatever order, is that of the
\* parts.
Unfolds(sum, f, S) ==
    \A s \in SUBSET S :
        sum[s] = IF s = {} THEN 0
                 ELSE f[CHOOSE x \in s : TRUE] + sum[s \ {CHOOSE x \in s : TRUE}]

LEMMA Unfolded ==
    ASSUME NEW S, NEW a, NEW b, NEW c, NEW d, Four(S, a, b, c, d), NEW f,
           \A n \in S : f[n] \in Int, NEW sum, Unfolds(sum, f, S)
    PROVE  sum[S] = Parts(f, S, a, b, c, d)
  <1> DEFINE one == [n \in S |-> 1]
             size(s) == Parts(one, s, a, b, c, d)
             Right(s) == sum[s] = Parts(f, s, a, b, c, d)
  <1>1. ASSUME NEW s \in SUBSET S PROVE size(s) \in 0..4 /\ (size(s) = 0 => s = {})
    BY DEF Four, Parts, Part
  <1>2. ASSUME NEW s \in SUBSET S, NEW x \in s
        PROVE  size(s \ {x}) \in Nat /\ size(s) = size(s \ {x}) + 1
    <2>1. size(s) = one[x] + size(s \ {x}) /\ one[x] = 1
      BY PartsStep
    <2>2. size(s \ {x}) \in 0..4
      BY <1>1
    <2> HIDE DEF size, one
    <2> QED
      BY <2>1, <2>2
  <1>3. ASSUME NEW s \in SUBSET S, \A x \in s : Right(s \ {x})
        PROVE  Right(s)
    <2>1. CASE s = {}
      <3>1. sum[s] = 0
        BY <2>1 DEF Unfolds
      <3>2. Parts(f, s, a, b, c, d) = 0
        BY <2>1 DEF Parts, Part
      <3> QED
        BY <3>1, <3>2
    <2>2. CASE s # {}
      <3> DEFINE x == CHOOSE x \in s : TRUE
      <3>1. x \in s
        BY <2>2
      <3>2. sum[s] = f[x] + sum[s \ {x}]
        BY <2>2 DEF Unfolds
      <3> HIDE DEF x
      <3>3. sum[s \ {x}] = Parts(f, s \ {x}, a, b, c, d)
        BY <1>3, <3>1
      <3> QED
        BY <3>1, <3>2, <3>3, PartsStep
    <2> QED
      BY <2>1, <2>2
  <1> HIDE DEF size, Right
  <1>4. \A s \in SUBSET S : size(s) = 0 => Right(s)
    BY <1>1, <1>3
  <1>5. \A s \in SUBSET S : size(s) = 1 => Right(s)
    BY <1>2, <1>3, <1>4
  <1>6. \A s \in SUBSET S : size(s) = 2 => Right(s)
    BY <1>2, <1>3, <1>5
  <1>7. \A s \in SUBSET S : size(s) = 3 => Right(s)
    BY <1>2, <1>3, <1>6
  <1>8. \A s \in SUBSET S : size(s) = 4 => Right(s)
    BY <1>2, <1>3, <1>7
  <1>9. Right(S)
    BY <1>1, <1>4, <1>5, <1>6, <1>7, <1>8
  <1> QED
    BY <1>9 DEF Right

LEMMA Sum ==
    ASSUME NEW S, NEW a, NEW b, NEW c, NEW d, Four(S, a, b, c, d), NEW f,
           \A n \in S : f[n] \in Int
    PROVE  MapThenSumSet(LAMBDA n : f[n], S) = Parts(f, S, a, b, c, d)
  <1> DEFINE Folds(sum) ==
                 sum = [s \in SUBSET S |->
                            IF s = {} THEN 0
                            ELSE f[CHOOSE x \in s : TRUE] + sum[s \ {CHOOSE x \in s : TRUE}]]
             total == [s \in SUBSET S |-> Parts(f, s, a, b, c, d)]
  <1>1. MapThenSumSet(LAMBDA n : f[n], S) = (CHOOSE sum : Folds(sum))[S]
    BY DEF MapThenSumSet, MapThenFoldSet
  <1>2. Folds(total)
    <2>1. ASSUME NEW s \in SUBSET S
          PROVE  total[s] = IF s = {} THEN 0
                            ELSE f[CHOOSE x \in s : TRUE] + total[s \ {CHOOSE x \in s : TRUE}]
      <3>1. CASE s = {}
        BY <3>1 DEF Parts, Part
      <3>2. CASE s # {}
        <4>1. PICK x \in s : x = CHOOSE y \in s : TRUE
          BY <3>2
        <4>2. Parts(f, s, a, b, c, d) = f[x] + Parts(f, s \ {x}, a, b, c, d)
          BY PartsStep
        <4>3. total[s \ {x}] = Parts(f, s \ {x}, a, b, c, d)
          OBVIOUS
        <4>4. total[s] = f[x] + total[s \ {x}]
          BY <4>2, <4>3
        <4> HIDE DEF total
        <4> QED
          BY <3>2, <4>1, <4>4
      <3> QED
        BY <3>1, <3>2
    <2>2. total = [s \in SUBSET S |-> total[s]]
      OBVIOUS
    <2> HIDE DEF total
    <2> QED
      BY <2>1, <2>2
  <1>3. ASSUME NEW sum, Folds(sum) PROVE Unfolds(sum, f, S)
    BY <1>3 DEF Unfolds
  <1> HIDE DEF Folds, total
  <1>4. Folds(CHOOSE sum : Folds(sum))
    BY <1>2
  <1>5. Unfolds(CHOOSE sum : Folds(sum), f, S)
    BY <1>3, <1>4
  <1> QED
    BY <1>1, <1>5, Unfolded

\* The same with a weight on each.
ProductSum(w, g, S) == MapThenSumSet(LAMBDA n : w[n] * g[n], S)

LEMMA SumOfProducts ==
    ASSUME NEW S, NEW a, NEW b, NEW c, NEW d, Four(S, a, b, c, d), NEW w, NEW g,
           \A n \in S : w[n] * g[n] \in Int
    PROVE  ProductSum(w, g, S) = Parts([n \in S |-> w[n] * g[n]], S, a, b, c, d)
  <1> DEFINE f == [n \in S |-> w[n] * g[n]]
             Folds(sum) ==
                 sum = [s \in SUBSET S |->
                            IF s = {} THEN 0
                            ELSE w[CHOOSE x \in s : TRUE] * g[CHOOSE x \in s : TRUE]
                                   + sum[s \ {CHOOSE x \in s : TRUE}]]
             Same(sum) ==
                 sum = [s \in SUBSET S |->
                            IF s = {} THEN 0
                            ELSE f[CHOOSE x \in s : TRUE] + sum[s \ {CHOOSE x \in s : TRUE}]]
  <1>1. ProductSum(w, g, S) = (CHOOSE sum : Folds(sum))[S]
    BY DEF ProductSum, MapThenSumSet, MapThenFoldSet
  <1>2. MapThenSumSet(LAMBDA n : f[n], S) = (CHOOSE sum : Same(sum))[S]
    <2> HIDE DEF f
    <2> QED
      BY DEF MapThenSumSet, MapThenFoldSet
  <1>3. ASSUME NEW sum PROVE Folds(sum) <=> Same(sum)
    <2>1. ASSUME NEW s \in SUBSET S, s # {}
          PROVE  f[CHOOSE x \in s : TRUE]
                   = w[CHOOSE x \in s : TRUE] * g[CHOOSE x \in s : TRUE]
      <3>1. PICK x \in s : x = CHOOSE y \in s : TRUE
        BY <2>1
      <3>2. f[x] = w[x] * g[x]
        OBVIOUS
      <3> HIDE DEF f
      <3> QED
        BY <3>1, <3>2
    <2> HIDE DEF f
    <2> QED
      BY <2>1
  <1>4. (CHOOSE sum : Folds(sum)) = (CHOOSE sum : Same(sum))
    <2> HIDE DEF Folds, Same
    <2> QED
      BY <1>3
  <1>5. \A n \in S : f[n] \in Int
    OBVIOUS
  <1> HIDE DEF f, Folds, Same
  <1>6. MapThenSumSet(LAMBDA n : f[n], S) = Parts(f, S, a, b, c, d)
    BY <1>5, Sum
  <1> QED
    BY <1>1, <1>2, <1>4, <1>6 DEF f

\* What clipping and rounding a quotient down leave of a bound.
LEMMA Clipped ==
    ASSUME NEW x \in Int
    PROVE  /\ Clip(x) \in 0..100
           /\ \A k \in 0..100 : x >= k => Clip(x) >= k
           /\ \A k \in 0..100 : x <= k => Clip(x) <= k
  <1>1. PICK u \in {0, x} : \A y \in {0, x} : u >= y
    <2>1. 0 >= x \/ x >= 0
      OBVIOUS
    <2> QED
      BY <2>1
  <1> DEFINE top == Max({0, x})
  <1>2. top \in {0, x} /\ \A y \in {0, x} : top >= y
    BY <1>1 DEF Max
  <1> HIDE DEF top
  <1>3. top \in Nat /\ top >= x /\ (x >= 0 => top = x) /\ (x <= 0 => top = 0)
    BY <1>2
  <1>4. PICK u2 \in {100, top} : \A y \in {100, top} : u2 <= y
    <2>1. 100 <= top \/ top <= 100
      BY <1>3
    <2> QED
      BY <1>3, <2>1
  <1> DEFINE low == Min({100, top})
  <1>5. low \in {100, top} /\ \A y \in {100, top} : low <= y
    BY <1>4 DEF Min
  <1>6. Clip(x) = low
    BY DEF Clip, top
  <1> HIDE DEF low
  <1> QED
    BY <1>3, <1>5, <1>6

LEMMA Quotient ==
    ASSUME NEW x \in Int, NEW y \in Nat \ {0}
    PROVE  /\ x \div y \in Int
           /\ \A k \in Int : x >= k * y => x \div y >= k
           /\ \A k \in Int : x < (k + 1) * y => x \div y <= k
  <1> DEFINE q == x \div y
             r == x % y
  <1>1. q \in Int /\ r \in 0..(y - 1) /\ x = y * q + r
    OBVIOUS
  <1> HIDE DEF q, r
  <1>2. ASSUME NEW k \in Int, x >= k * y, q < k PROVE FALSE
    <2>1. y * (q + 1) <= y * k
      BY <1>1, <1>2
    <2> QED
      BY <1>1, <1>2, <2>1
  <1>3. ASSUME NEW k \in Int, x < (k + 1) * y, q > k PROVE FALSE
    <2>1. y * (k + 1) <= y * q
      BY <1>1, <1>3
    <2> QED
      BY <1>1, <1>3, <2>1
  <1> QED
    BY <1>1, <1>2, <1>3 DEF q

\* A weighted score is a percentage, and at least what the signals make it.
LEMMA WeightedAtLeast ==
    ASSUME NEW w, NEW g, NEW a, NEW b, NEW c, NEW d, Four(DOMAIN g, a, b, c, d),
           \A n \in DOMAIN g : w[n] \in Nat /\ g[n] \in Int
    PROVE  /\ Weighted(w, g) \in 0..100
           /\ \A k \in 0..100 :
                  /\ Parts(w, DOMAIN g, a, b, c, d) > 0
                  /\ Parts([n \in DOMAIN g |-> w[n] * g[n]], DOMAIN g, a, b, c, d)
                       >= k * Parts(w, DOMAIN g, a, b, c, d)
                  => Weighted(w, g) >= k
  <1> DEFINE product == [n \in DOMAIN g |-> w[n] * g[n]]
             total == Parts(w, DOMAIN g, a, b, c, d)
             score == Parts(product, DOMAIN g, a, b, c, d)
  <1>1. \A n \in DOMAIN g : w[n] * g[n] \in Int /\ w[n] \in Int
    OBVIOUS
  <1>2. total \in Nat
    BY DEF Parts, Part
  <1>3. score \in Int
    <2>1. \A n \in DOMAIN g : product[n] \in Int
      BY <1>1
    <2> HIDE DEF product
    <2> QED
      BY <2>1, PartsStep
  <1>4. MapThenSumSet(LAMBDA n : w[n], DOMAIN g) = total
    BY <1>1, Sum
  <1>5. MapThenSumSet(LAMBDA n : w[n] * g[n], DOMAIN g) = score
    <2>1. ProductSum(w, g, DOMAIN g) = score
      BY <1>1, SumOfProducts
    <2> HIDE DEF score
    <2> QED
      BY <2>1 DEF ProductSum
  <1>6. Weighted(w, g) = IF total = 0 THEN 0 ELSE Clip(score \div total)
    <2> HIDE DEF total, score
    <2> QED
      BY <1>4, <1>5 DEF Weighted
  <1> HIDE DEF total, score
  <1>7. total > 0 => /\ score \div total \in Int
                     /\ \A k \in Int : score >= k * total => score \div total >= k
    BY <1>2, <1>3, Quotient
  <1>8. Weighted(w, g) \in 0..100
    BY <1>2, <1>6, <1>7, Clipped
  <1>9. ASSUME NEW k \in 0..100, total > 0, score >= k * total
        PROVE  Weighted(w, g) >= k
    <2>1. score \div total \in Int /\ score \div total >= k
      BY <1>7, <1>9
    <2>2. Weighted(w, g) = Clip(score \div total)
      BY <1>6, <1>9
    <2> QED
      BY <2>1, <2>2, Clipped
  <1> QED
    BY <1>8, <1>9 DEF total, score

\* Cold start: a score counts fully from the threshold of its agent on.
LEMMA Warm ==
    ASSUME NEW threshold \in {20, 50}
    PROVE  \A n \in Nat :
               /\ Warmth(n, threshold) \in 0..100
               /\ n >= threshold => Warmth(n, threshold) = 100
  <1> TAKE n \in Nat
  <1>1. /\ n * 100 \in Int /\ (n * 100) \div threshold \in Int
        /\ n * 100 >= 100 * threshold => (n * 100) \div threshold >= 100
    BY Quotient
  <1>2. n >= threshold => n * 100 >= 100 * threshold
    OBVIOUS
  <1>3. Clip((n * 100) \div threshold) \in 0..100
    BY <1>1, Clipped
  <1>4. n >= threshold => Clip((n * 100) \div threshold) >= 100
    BY <1>1, <1>2, Clipped
  <1> QED
    BY <1>3, <1>4 DEF Warmth

\* GeoAgent.evaluate: a percentage, and from an account that is known and jumps on a
\* device it never used an alarm.
LEMMA GeoScores ==
    ASSUME NEW f \in GeoFacts
    PROVE  /\ GeoVerdict(f) \in Verdict
           /\ /\ f.observations >= 20 /\ ~f.first /\ f.km >= 50 /\ f.dt <= 30
              /\ f.device = "unknown"
              => Alarming(GeoVerdict(f))
  <1> DEFINE travel == TravelFeasibility(f)
             device == DeviceNovelty(f)
             w == [travel |-> 50, device |-> 50]
             g == [travel |-> travel, device |-> device]
  <1>1. /\ f.km \in Nat /\ f.dt \in Int /\ f.observations \in Nat
        /\ f.first \in BOOLEAN /\ f.device \in {"known", "first", "unknown"}
    BY ScoringAssumption
  <1>2. /\ travel \in 0..100
        /\ ~f.first /\ f.km >= 50 /\ f.dt <= 30 => travel = 100
    <2>1. f.dt > 30 => (f.km * 400) \div f.dt \in Int
      BY <1>1, Quotient
    <2>2. f.dt > 30 => Clip((f.km * 400) \div f.dt - 50) \in 0..100
      BY <2>1, Clipped
    <2> QED
      BY <1>1, <2>2 DEF TravelFeasibility
  <1>3. /\ device \in 0..100
        /\ f.device = "unknown" => device >= 60
    <2>1. Bonus(f.fingerprint) \in Nat
      <3> DEFINE rooted == IF "rooted" \in f.fingerprint THEN 20 ELSE 0
                 shared == IF "shared" \in f.fingerprint THEN 10 ELSE 0
                 many == IF "many accounts" \in f.fingerprint THEN 10 ELSE 0
      <3>1. rooted \in Nat /\ shared \in Nat /\ many \in Nat
        OBVIOUS
      <3>2. Bonus(f.fingerprint) = rooted + shared + many
        BY DEF Bonus
      <3> HIDE DEF rooted, shared, many
      <3> QED
        BY <3>1, <3>2
    <2> DEFINE one == 20 + Bonus(f.fingerprint)
               two == 60 + Bonus(f.fingerprint)
    <2>3. one \in Int /\ two \in Int /\ two >= 60
      BY <2>1
    <2>2. Clip(one) \in 0..100 /\ Clip(two) \in 0..100 /\ Clip(two) >= 60
      <3> HIDE DEF one, two
      <3> QED
        BY <2>3, Clipped
    <2> QED
      BY <1>1, <2>2 DEF DeviceNovelty
  <1> HIDE DEF travel, device
  <1>4. /\ DOMAIN g = {"travel", "device"} /\ Four(DOMAIN g, "travel", "device", "spike", "count")
        /\ \A n \in DOMAIN g : w[n] \in Nat /\ g[n] \in Int
    BY <1>2, <1>3 DEF Four
  <1>5. /\ Parts(w, DOMAIN g, "travel", "device", "spike", "count") = 100
        /\ Parts([n \in DOMAIN g |-> w[n] * g[n]], DOMAIN g, "travel", "device", "spike", "count")
             = 50 * travel + 50 * device
    BY <1>2, <1>3 DEF Parts, Part
  <1> HIDE DEF w, g
  <1>6. /\ Weighted(w, g) \in 0..100
        /\ 50 * travel + 50 * device >= 80 * 100 => Weighted(w, g) >= 80
    BY <1>4, <1>5, WeightedAtLeast
  <1>7. /\ Warmth(f.observations, 20) \in 0..100
        /\ f.observations >= 20 => Warmth(f.observations, 20) = 100
    BY <1>1, Warm
  <1>8. GeoVerdict(f) = [risk |-> Weighted(w, g), conf |-> Warmth(f.observations, 20)]
    BY DEF GeoVerdict, travel, device, w, g
  <1> QED
    BY <1>2, <1>3, <1>6, <1>7, <1>8 DEF Verdict, Alarming

LEMMA Largest ==
    ASSUME NEW x \in Int, NEW y \in Int
    PROVE  Max({x, y}) \in {x, y} /\ Max({x, y}) >= x /\ Max({x, y}) >= y
  <1>1. PICK u \in {x, y} : \A z \in {x, y} : u >= z
    <2>1. x >= y \/ y >= x
      OBVIOUS
    <2> QED
      BY <2>1
  <1> DEFINE top == Max({x, y})
  <1>2. top \in {x, y} /\ \A z \in {x, y} : top >= z
    BY <1>1 DEF Max
  <1> HIDE DEF top
  <1>3. top \in {x, y} /\ top >= x /\ top >= y
    BY <1>2
  <1> QED
    BY <1>3 DEF top

\* The signals of the velocity agent, each full in a burst of unusual amounts.
LEMMA Spiking ==
    ASSUME NEW f \in VelocityFacts
    PROVE  /\ AmountSpike(f) \in 0..100 /\ AmountVsBaseline(f) \in 0..100
           /\ f.avg > 0 /\ f.amount >= 15 * f.avg
                => AmountSpike(f) = 100 /\ AmountVsBaseline(f) = 100
  <1> DEFINE avg == f.avg
             amount == f.amount
             up == (30 * (amount - 5 * avg)) \div (10 * avg)
             over == ((amount - avg) * 100) \div (9 * avg)
  <1>1. avg \in Nat /\ amount \in Nat
    BY ScoringAssumption
  <1>2. /\ AmountSpike(f) = IF avg < 1 \/ amount < 5 * avg THEN 0 ELSE Clip(70 + up)
        /\ AmountVsBaseline(f) = IF avg < 1 THEN 50 ELSE Clip(over)
    BY DEF AmountSpike, AmountVsBaseline
  <1> HIDE DEF avg, amount
  <1>3. avg >= 1 => up \in Int /\ (amount >= 15 * avg => up >= 30)
    <2> SUFFICES ASSUME avg >= 1 PROVE up \in Int /\ (amount >= 15 * avg => up >= 30)
      OBVIOUS
    <2>1. 30 * (amount - 5 * avg) \in Int /\ 10 * avg \in Nat \ {0}
      BY <1>1
    <2>2. amount >= 15 * avg => 30 * (amount - 5 * avg) >= 30 * (10 * avg)
      BY <1>1
    <2> QED
      BY <2>1, <2>2, Quotient
  <1>4. avg >= 1 => over \in Int /\ (amount >= 15 * avg => over >= 100)
    <2> SUFFICES ASSUME avg >= 1 PROVE over \in Int /\ (amount >= 15 * avg => over >= 100)
      OBVIOUS
    <2>1. (amount - avg) * 100 \in Int /\ 9 * avg \in Nat \ {0}
      BY <1>1
    <2>2. amount >= 15 * avg => (amount - avg) * 100 >= 100 * (9 * avg)
      BY <1>1
    <2> QED
      BY <2>1, <2>2, Quotient
  <1> HIDE DEF up, over
  <1> DEFINE x == 70 + up
  <1>5. avg >= 1 => x \in Int /\ (amount >= 15 * avg => x >= 100)
    BY <1>3
  <1> HIDE DEF x
  <1>6. avg >= 1 => /\ Clip(x) \in 0..100 /\ Clip(over) \in 0..100
                    /\ amount >= 15 * avg => Clip(x) = 100 /\ Clip(over) = 100
    <2> SUFFICES ASSUME avg >= 1
                 PROVE  /\ Clip(x) \in 0..100 /\ Clip(over) \in 0..100
                        /\ amount >= 15 * avg => Clip(x) = 100 /\ Clip(over) = 100
      OBVIOUS
    <2>1. Clip(x) \in 0..100 /\ (x >= 100 => Clip(x) >= 100)
      BY <1>5, Clipped
    <2>2. Clip(over) \in 0..100 /\ (over >= 100 => Clip(over) >= 100)
      BY <1>4, Clipped
    <2> QED
      BY <1>4, <1>5, <2>1, <2>2
  <1>7. /\ AmountSpike(f) \in 0..100 /\ AmountVsBaseline(f) \in 0..100
        /\ avg > 0 /\ amount >= 15 * avg => AmountSpike(f) = 100 /\ AmountVsBaseline(f) = 100
    BY <1>1, <1>2, <1>6 DEF x
  <1> QED
    BY <1>7 DEF avg, amount

LEMMA Counting ==
    ASSUME NEW f \in VelocityFacts
    PROVE  /\ TxnCount(f) \in 0..100
           /\ (\E w \in Windows : f.live[w] >= 10 + 11 * f.mean[w]) => TxnCount(f) = 100
  <1> DEFINE Over(w) == ((f.live[w] - f.mean[w]) * 100) \div ((f.mean[w] + 1) * 10)
  <1>1. \A w \in Windows : f.live[w] \in Nat /\ f.mean[w] \in Nat
    BY ScoringAssumption
  <1>2. ASSUME NEW w \in Windows
        PROVE  /\ Clip(Over(w)) \in 0..100
               /\ f.live[w] >= 10 + 11 * f.mean[w] => Clip(Over(w)) = 100
    <2> DEFINE live == f.live[w]
               mean == f.mean[w]
               over == ((live - mean) * 100) \div ((mean + 1) * 10)
    <2>1. live \in Nat /\ mean \in Nat /\ Over(w) = over
      BY <1>1
    <2> HIDE DEF live, mean
    <2>2. (live - mean) * 100 \in Int /\ (mean + 1) * 10 \in Nat \ {0}
      BY <2>1
    <2>3. live >= 10 + 11 * mean => (live - mean) * 100 >= 100 * ((mean + 1) * 10)
      BY <2>1
    <2>4. over \in Int /\ (live >= 10 + 11 * mean => over >= 100)
      BY <2>2, <2>3, Quotient
    <2> HIDE DEF over
    <2>5. Clip(over) \in 0..100 /\ (over >= 100 => Clip(over) >= 100)
      BY <2>4, Clipped
    <2>6. Clip(over) \in 0..100 /\ (live >= 10 + 11 * mean => Clip(over) = 100)
      BY <2>4, <2>5
    <2> QED
      BY <2>1, <2>6 DEF live, mean, over
  <1> DEFINE short == Clip(Over("count_2min"))
             long == Clip(Over("count_1hr"))
  <1>3. /\ short \in 0..100 /\ long \in 0..100
        /\ (\E w \in Windows : f.live[w] >= 10 + 11 * f.mean[w]) => short = 100 \/ long = 100
    BY <1>2 DEF Windows
  <1>4. TxnCount(f) = Max({short, long})
    <2>1. {Clip(Over(w)) : w \in Windows} = {short, long}
      BY DEF Windows
    <2> QED
      BY <2>1 DEF TxnCount
  <1> HIDE DEF short, long
  <1>5. Max({short, long}) \in {short, long} /\ Max({short, long}) >= short
        /\ Max({short, long}) >= long
    <2>1. short \in Int /\ long \in Int
      BY <1>3
    <2> QED
      BY <2>1, Largest
  <1> QED
    BY <1>3, <1>4, <1>5

\* VelocityAgent.evaluate: a percentage, and for an account that is known in a burst
\* of unusual amounts an alarm.
LEMMA VelocityScores ==
    ASSUME NEW f \in VelocityFacts
    PROVE  /\ VelocityVerdict(f) \in Verdict
           /\ /\ f.observations >= 50 /\ f.avg > 0 /\ f.amount >= 15 * f.avg
              /\ \E w \in Windows : f.live[w] >= 10 + 11 * f.mean[w]
              => Alarming(VelocityVerdict(f))
  <1> DEFINE spike == AmountSpike(f)
             count == TxnCount(f)
             base == AmountVsBaseline(f)
             type == TypeMismatch(f)
             w == VelocityWeights
             g == [spike |-> spike, count |-> count, amount |-> base, type |-> type]
  <1>1. /\ spike \in 0..100 /\ base \in 0..100
        /\ f.avg > 0 /\ f.amount >= 15 * f.avg => spike = 100 /\ base = 100
    BY Spiking
  <1>2. /\ count \in 0..100
        /\ (\E u \in Windows : f.live[u] >= 10 + 11 * f.mean[u]) => count = 100
    BY Counting
  <1>3. type \in 0..100
    <2> DEFINE x == 100 - 5 * f.share
    <2>1. x \in Int
      BY ScoringAssumption
    <2>2. type = IF f.share = NoShare THEN 50 ELSE Clip(x)
      BY DEF TypeMismatch
    <2> HIDE DEF x
    <2>3. Clip(x) \in 0..100
      BY <2>1, Clipped
    <2> QED
      BY <2>2, <2>3
  <1> HIDE DEF spike, count, base, type
  <1>4. /\ Four(DOMAIN g, "spike", "count", "amount", "type")
        /\ \A n \in DOMAIN g : w[n] \in Nat /\ g[n] \in Int
    BY <1>1, <1>2, <1>3 DEF Four, VelocityWeights
  <1>5. /\ Parts(w, DOMAIN g, "spike", "count", "amount", "type") = 100
        /\ Parts([n \in DOMAIN g |-> w[n] * g[n]], DOMAIN g, "spike", "count", "amount", "type")
             = 35 * spike + 30 * count + 20 * base + 15 * type
    BY <1>1, <1>2, <1>3 DEF Parts, Part, VelocityWeights
  <1>6. VelocityVerdict(f) = [risk |-> Weighted(w, g), conf |-> Warmth(f.observations, 50)]
    BY DEF VelocityVerdict, spike, count, base, type, w, g
  <1> HIDE DEF w, g
  <1>7. /\ Weighted(w, g) \in 0..100
        /\ 35 * spike + 30 * count + 20 * base + 15 * type >= 85 * 100 => Weighted(w, g) >= 85
    BY <1>4, <1>5, WeightedAtLeast
  <1>8. /\ Warmth(f.observations, 50) \in 0..100
        /\ f.observations >= 50 => Warmth(f.observations, 50) = 100
    BY ScoringAssumption, Warm
  <1> QED
    BY <1>1, <1>2, <1>3, <1>6, <1>7, <1>8 DEF Verdict, Alarming

\* GraphAgent.score: a percentage, and for a fraud seed that has paid the ring's
\* collector an alarm.
LEMMA GraphScores ==
    ASSUME NEW n \in Networks
    PROVE  /\ GraphVerdict(n.edges, n.node, ScoredAccount) \in Verdict
           /\ n.node.seed /\ Direct(n.edges, ScoredAccount)
                => Alarming(GraphVerdict(n.edges, n.node, ScoredAccount))
  <1> DEFINE near == Proximity(n.edges, ScoredAccount)
             seed == IF n.node.seed THEN 30 ELSE 0
             tier == TierScore(n.node.tier)
             fan == Fanned(MaxFanout(n.edges, ScoredAccount))
             gather == Gathered(InSenders(n.edges, ScoredAccount))
             structured == IF Structures(n.edges, ScoredAccount) THEN 35 ELSE 0
             mule == IF IsMule(n.node) THEN 40 ELSE 0
             layers == Layers(n.edges, ScoredAccount)
             sum == near + seed + tier + fan + gather + structured + mule + layers
  <1>1. /\ near \in Nat /\ (Direct(n.edges, ScoredAccount) => near = 55)
        /\ seed \in Nat /\ (n.node.seed => seed = 30)
    BY DEF Proximity
  <1>2. tier \in Nat /\ fan \in Nat /\ gather \in Nat
    BY DEF TierScore, Fanned, Gathered
  <1>3. structured \in Nat /\ mule \in Nat
    OBVIOUS
  <1>4. layers \in Nat
    <2> DEFINE some == {e \in OutEdges(n.edges, ScoredAccount) : e.reciprocal}
               k == Cardinality(some)
               m == Min({3, k})
    <2>1. IsFiniteSet(n.edges) /\ some \in SUBSET n.edges
      BY ScoringAssumption DEF OutEdges
    <2>2. k \in Nat
      BY <2>1, FS_Subset, FS_CardinalityType
    <2>3. layers = 5 * m
      BY DEF Layers
    <2> HIDE DEF k
    <2>4. PICK u \in {3, k} : \A y \in {3, k} : u <= y
      <3>1. 3 <= k \/ k <= 3
        BY <2>2
      <3> QED
        BY <2>2, <3>1
    <2>5. m \in {3, k}
      BY <2>4 DEF Min
    <2> HIDE DEF m
    <2>6. m \in Nat
      BY <2>2, <2>5
    <2> QED
      BY <2>3, <2>6
  <1>5. GraphVerdict(n.edges, n.node, ScoredAccount) = [risk |-> Clip(sum), conf |-> 100]
    BY DEF GraphVerdict
  <1> HIDE DEF near, seed, tier, fan, gather, structured, mule, layers
  <1>6. sum \in Int /\ (n.node.seed /\ Direct(n.edges, ScoredAccount) => sum >= 85)
    BY <1>1, <1>2, <1>3, <1>4
  <1> HIDE DEF sum
  <1>7. Clip(sum) \in 0..100 /\ (sum >= 85 => Clip(sum) >= 85)
    BY <1>6, Clipped
  <1> QED
    BY <1>5, <1>6, <1>7 DEF Verdict, Alarming

\* The integer square root exists.
LEMMA RootOf ==
    ASSUME NEW x \in Nat
    PROVE  /\ Root(x) \in Nat /\ Root(x) * Root(x) <= x
           /\ \A k \in Nat : x < (k + 1) * (k + 1) => Root(x) <= k
  <1> DEFINE Over == {r \in Nat : (r + 1) * (r + 1) > x}
  <1>1. x \in Over
    BY SMT
  <1>2. PICK r \in Over : \A y \in Over : ~(<<y, r>> \in OpToRel(<, Nat))
    <2>1. Over \subseteq Nat /\ Over # {}
      BY <1>1
    <2> HIDE DEF Over
    <2> QED
      BY <2>1, NatLessThanWellFounded, WFMin
  <1>3. r \in Nat /\ (r + 1) * (r + 1) > x
    OBVIOUS
  <1>4. r * r <= x
    <2>1. CASE r = 0
      BY <2>1
    <2>2. CASE r # 0
      <3>1. r - 1 \in Nat /\ r - 1 < r
        BY <1>3, <2>2
      <3>2. r - 1 \notin Over
        BY <1>2, <1>3, <3>1 DEF OpToRel
      <3>3. ~(((r - 1) + 1) * ((r - 1) + 1) > x)
        BY <3>1, <3>2
      <3>4. (r - 1) + 1 = r
        BY <1>3
      <3>5. ~(r * r > x) /\ r * r \in Int
        BY <1>3, <3>3, <3>4
      <3> QED
        BY <3>5
    <2> QED
      BY <2>1, <2>2
  <1>5. r \in 0..x
    <2>1. r = 0 \/ r * r >= r
      BY <1>3
    <2> QED
      BY <1>3, <1>4, <2>1
  <1> HIDE DEF Over
  <1> DEFINE root == Root(x)
  <1>6. root \in 0..x /\ root * root <= x /\ (root + 1) * (root + 1) > x
    BY <1>3, <1>4, <1>5 DEF Root
  <1> HIDE DEF root
  <1>7. ASSUME NEW k \in Nat, x < (k + 1) * (k + 1) PROVE root <= k
    <2>1. root \in Int /\ root * root < (k + 1) * (k + 1)
      BY <1>6, <1>7
    <2> QED
      BY <2>1, Squares
  <1> QED
    BY <1>6, <1>7 DEF root

\* n * n times the variance of the scores of n models; scores that are all in the worst
\* tenth are at most 5 from their mean, and so at most 10 counts against agreement.
Variance(n, x, y, z) == n * (x * x + y * y + z * z) - (x + y + z) * (x + y + z)
Worst(p, x) == p = 1 => x \in 90..100
Shown(n, v) == v \in Nat /\ (n = 1 => v = 0)
Close(n, v) == v <= 25 * (n * n)

LEMMA TwoModels ==
    \A x, y \in Int :
        /\ Shown(2, Deviation2(x, y))
        /\ x \in 90..100 /\ y \in 90..100 => Close(2, Deviation2(x, y))
  <1> SUFFICES ASSUME NEW x \in Int, NEW y \in Int
               PROVE  /\ Shown(2, Deviation2(x, y))
                      /\ x \in 90..100 /\ y \in 90..100 => Close(2, Deviation2(x, y))
    OBVIOUS
  <1> DEFINE p == x - y
  <1>1. p \in Int /\ Deviation2(x, y) = p * p
    BY Squared
  <1>2. x \in 90..100 /\ y \in 90..100 => p <= 10 /\ -10 <= p
    OBVIOUS
  <1> HIDE DEF p
  <1>3. p * p \in Nat
    BY <1>1, Roots
  <1>4. p <= 10 /\ -10 <= p => p * p <= 100
    <2>1. p <= 10 /\ -10 <= p => (10 - p) * (10 + p) >= 0
      BY <1>1
    <2> QED
      BY <1>1, <2>1
  <1> QED
    BY <1>1, <1>2, <1>3, <1>4 DEF Shown, Close

LEMMA ThreeModels ==
    \A x, y, z \in Int :
        /\ Shown(3, Deviation3(x, y, z))
        /\ x \in 90..100 /\ y \in 90..100 /\ z \in 90..100 => Close(3, Deviation3(x, y, z))
  <1> SUFFICES ASSUME NEW x \in Int, NEW y \in Int, NEW z \in Int
               PROVE  /\ Shown(3, Deviation3(x, y, z))
                      /\ x \in 90..100 /\ y \in 90..100 /\ z \in 90..100
                           => Close(3, Deviation3(x, y, z))
    OBVIOUS
  <1>1. Deviation3(x, y, z) \in Nat
    <2> DEFINE p == x - y
               q == 2 * z - x - y
    <2>1. /\ 2 * Deviation3(x, y, z) = 3 * (p * p) + q * q
          /\ p \in Int /\ q \in Int /\ Deviation3(x, y, z) \in Int
      BY Squared
    <2> HIDE DEF p, q
    <2>2. p * p \in Nat /\ q * q \in Nat
      BY <2>1, Roots
    <2> QED
      BY <2>1, <2>2
  <1>2. ASSUME x \in 90..100, y \in 90..100, z \in 90..100
        PROVE  Deviation3(x, y, z) <= 225
    <2> DEFINE u == x - 90
               v == y - 90
               w == z - 90
               sum == u + v + w
    <2>1. Deviation3(x, y, z) = 3 * (u * u + v * v + w * w) - sum * sum
      BY DEF Deviation3
    <2>2. u \in 0..10 /\ v \in 0..10 /\ w \in 0..10
      BY <1>2
    <2> HIDE DEF u, v, w
    <2>3. \A i \in 0..10 : i * i \in Int /\ i * i <= 10 * i
      <3> TAKE i \in 0..10
      <3>1. i * (10 - i) >= 0
        OBVIOUS
      <3> QED
        BY <3>1
    <2>4. u * u <= 10 * u /\ v * v <= 10 * v /\ w * w <= 10 * w
      BY <2>2, <2>3
    <2>5. u * u \in Int /\ v * v \in Int /\ w * w \in Int
      BY <2>2, <2>3
    <2>6. sum \in Int
      BY <2>2
    <2>7. 3 * (u * u + v * v + w * w) <= 30 * sum
      BY <2>2, <2>4, <2>5
    <2> DEFINE squares == u * u + v * v + w * w
    <2>8. squares \in Int /\ 3 * squares <= 30 * sum
      BY <2>5, <2>7
    <2>9. Deviation3(x, y, z) = 3 * squares - sum * sum
      BY <2>1
    <2> HIDE DEF sum, squares
    <2>10. (sum - 15) * (sum - 15) \in Nat
      BY <2>6, Roots
    <2>11. 30 * sum - sum * sum <= 225
      BY <2>6, <2>10
    <2>12. sum * sum \in Int
      BY <2>6
    <2> QED
      BY <2>6, <2>8, <2>9, <2>11, <2>12
  <1> QED
    BY <1>1, <1>2 DEF Shown, Close

\* Any of the models may be absent, but not all.
LEMMA AnyModels ==
    ASSUME NEW x \in Int, NEW y \in Int, NEW z \in Int,
           NEW p \in {0, 1}, NEW q \in {0, 1}, NEW s \in {0, 1}, NEW n, n = p + q + s, n > 0,
           Absent(p, x), Absent(q, y), Absent(s, z)
    PROVE  /\ Shown(n, Variance(n, x, y, z))
           /\ Worst(p, x) /\ Worst(q, y) /\ Worst(s, z) => Close(n, Variance(n, x, y, z))
  <1> USE DEF Absent
  <1> DEFINE v == Variance(n, x, y, z)
  <1>1. CASE p = 1 /\ q = 1 /\ s = 1
    <2>1. v = Deviation3(x, y, z)
      BY <1>1 DEF Deviation3, Variance
    <2> QED
      BY <1>1, <2>1, ThreeModels DEF Worst
  <1>2. CASE p = 1 /\ q = 1 /\ s = 0
    <2>1. v = Deviation2(x, y)
      BY <1>2 DEF Deviation2, Variance
    <2> QED
      BY <1>2, <2>1, TwoModels DEF Worst
  <1>3. CASE p = 1 /\ q = 0 /\ s = 1
    <2>1. v = Deviation2(x, z)
      BY <1>3 DEF Deviation2, Variance
    <2> QED
      BY <1>3, <2>1, TwoModels DEF Worst
  <1>4. CASE p = 0 /\ q = 1 /\ s = 1
    <2>1. v = Deviation2(y, z)
      BY <1>4 DEF Deviation2, Variance
    <2> QED
      BY <1>4, <2>1, TwoModels DEF Worst
  <1>5. CASE n = 1
    <2>1. v = 0
      BY <1>5 DEF Variance
    <2> QED
      BY <1>5, <2>1 DEF Shown, Close
  <1>6. \/ n = 1
        \/ p = 1 /\ q = 1 /\ s = 1
        \/ p = 1 /\ q = 1 /\ s = 0
        \/ p = 1 /\ q = 0 /\ s = 1
        \/ p = 0 /\ q = 1 /\ s = 1
    OBVIOUS
  <1> QED
    BY <1>1, <1>2, <1>3, <1>4, <1>5, <1>6

\* The models that contributed, counted one by one.
LEMMA ModelCount ==
    ASSUME NEW D, D \subseteq Models
    PROVE  LET In(m) == IF m \in D THEN 1 ELSE 0
           IN Cardinality(D) = In("xgboost") + In("isolation_forest") + In("lstm")
  <1> DEFINE In(m) == IF m \in D THEN 1 ELSE 0
             One == {} \cup (D \cap {"xgboost"})
             Two == One \cup (D \cap {"isolation_forest"})
  <1>1. IsFiniteSet({}) /\ Cardinality({}) = 0
    BY FS_EmptySet
  <1>2. IsFiniteSet(One) /\ Cardinality(One) = In("xgboost")
    BY <1>1, OneMore
  <1>3. IsFiniteSet(Two) /\ Cardinality(Two) = Cardinality(One) + In("isolation_forest")
    <2>1. "isolation_forest" \notin One
      OBVIOUS
    <2> HIDE DEF One
    <2> QED
      BY <1>2, <2>1, OneMore
  <1>4. D = Two \cup (D \cap {"lstm"}) /\ "lstm" \notin Two
    BY DEF Models
  <1> HIDE DEF Two
  <1>5. Cardinality(D) = Cardinality(Two) + In("lstm")
    BY <1>3, <1>4, OneMore
  <1> QED
    BY <1>2, <1>3, <1>5

\* combine: the models' dispersion is a percentage, none for a single model, and small
\* for models that all put the transaction in their worst tenth.
LEMMA Dispersed ==
    ASSUME NEW score, DOMAIN score \subseteq Models, DOMAIN score # {},
           \A m \in DOMAIN score : score[m] \in 0..100
    PROVE  /\ Dispersion(score) \in 0..100 /\ Cardinality(DOMAIN score) \in 1..3
           /\ (\A m \in DOMAIN score : score[m] >= 90) =>
                  /\ Dispersion(score) <= 10
                  /\ Cardinality(DOMAIN score) = 1 => Dispersion(score) = 0
  <1> DEFINE D == DOMAIN score
             In(m) == IF m \in D THEN 1 ELSE 0
             p == In("xgboost")
             q == In("isolation_forest")
             s == In("lstm")
             x == Part(score, D, "xgboost")
             y == Part(score, D, "isolation_forest")
             z == Part(score, D, "lstm")
             n == Cardinality(D)
             sum == x + y + z
             squares == x * x + y * y + z * z
             v == Variance(n, x, y, z)
             worst == \A m \in D : score[m] >= 90
  <1>1. n = p + q + s
    BY ModelCount
  <1>2. /\ p \in {0, 1} /\ q \in {0, 1} /\ s \in {0, 1} /\ p + q + s > 0
        /\ Absent(p, x) /\ Absent(q, y) /\ Absent(s, z)
    BY DEF Models, Part, Absent
  <1>3. /\ x \in Int /\ y \in Int /\ z \in Int
        /\ worst => Worst(p, x) /\ Worst(q, y) /\ Worst(s, z)
    BY DEF Part, Worst
  <1>4. Four(D, "xgboost", "isolation_forest", "lstm", "spike")
    BY DEF Four, Models
  <1>5. MapThenSumSet(LAMBDA m : score[m], D) = sum
    <2>1. \A m \in D : score[m] \in Int
      OBVIOUS
    <2>2. MapThenSumSet(LAMBDA m : score[m], D)
            = Parts(score, D, "xgboost", "isolation_forest", "lstm", "spike")
      BY <1>4, <2>1, Sum
    <2>3. Part(score, D, "spike") = 0
      BY DEF Models, Part
    <2>4. Parts(score, D, "xgboost", "isolation_forest", "lstm", "spike") = sum
      <3> HIDE DEF x, y, z
      <3>1. Parts(score, D, "xgboost", "isolation_forest", "lstm", "spike") = x + y + z + 0
        BY <2>3 DEF Parts, x, y, z
      <3> QED
        BY <1>3, <3>1
    <2> HIDE DEF sum
    <2> QED
      BY <2>2, <2>4
  <1>6. MapThenSumSet(LAMBDA m : score[m] * score[m], D) = squares
    <2> DEFINE square == [m \in D |-> score[m] * score[m]]
    <2>1. \A m \in D : score[m] * score[m] \in Int
      OBVIOUS
    <2>2. ProductSum(score, score, D)
            = Parts(square, D, "xgboost", "isolation_forest", "lstm", "spike")
      BY <1>4, <2>1, SumOfProducts
    <2>3. /\ Part(square, D, "xgboost") = x * x /\ Part(square, D, "isolation_forest") = y * y
          /\ Part(square, D, "lstm") = z * z /\ Part(square, D, "spike") = 0
      BY DEF Models, Part
    <2>4. Parts(square, D, "xgboost", "isolation_forest", "lstm", "spike") = squares
      <3> HIDE DEF square, x, y, z
      <3>1. x * x \in Int /\ y * y \in Int /\ z * z \in Int
        BY <1>3
      <3> QED
        BY <2>3, <3>1 DEF Parts
    <2> HIDE DEF squares, square
    <2>5. ProductSum(score, score, D) = squares
      BY <2>2, <2>4
    <2> QED
      BY <2>5 DEF ProductSum
  <1>7. Dispersion(score) = Min({100, Root((4 * v) \div (n * n))})
    <2>1. v = n * squares - sum * sum
      BY DEF Variance
    <2> HIDE DEF v, sum, squares
    <2> QED
      BY <1>5, <1>6, <2>1 DEF Dispersion
  <1>8. Shown(n, v) /\ (Worst(p, x) /\ Worst(q, y) /\ Worst(s, z) => Close(n, v))
    <2> HIDE DEF p, q, s, x, y, z, n
    <2> QED
      BY <1>1, <1>2, <1>3, AnyModels
  <1>9. n \in 1..3
    <2> HIDE DEF p, q, s, n
    <2> QED
      BY <1>1, <1>2
  <1>10. Cardinality(DOMAIN score) = n
    OBVIOUS
  <1>11. v \in Nat /\ (n = 1 => v = 0) /\ (worst => v <= 25 * (n * n))
    <2> HIDE DEF v, n, p, q, s, x, y, z, worst
    <2> QED
      BY <1>3, <1>8 DEF Shown, Close
  <1> DEFINE share == (4 * v) \div (n * n)
             nn == n * n
  <1> HIDE DEF v, n, worst
  <1>12. nn \in Nat \ {0}
    BY <1>9
  <1> HIDE DEF nn
  <1>13. /\ share \in Nat /\ (n = 1 => share = 0)
         /\ worst => share <= 100
    <2>1. 4 * v \in Int /\ 4 * v >= 0 * nn
      BY <1>11, <1>12
    <2>2. share = (4 * v) \div nn
      BY DEF nn
    <2>3. share \in Int /\ share >= 0
      BY <1>12, <2>1, <2>2, Quotient
    <2>4. n = 1 => 4 * v < (0 + 1) * nn
      BY <1>11, <1>12
    <2>5. worst => 4 * v < (100 + 1) * nn
      BY <1>11, <1>12 DEF nn
    <2>6. n = 1 => share <= 0
      BY <1>12, <2>1, <2>2, <2>4, Quotient
    <2>7. worst => share <= 100
      BY <1>12, <2>1, <2>2, <2>5, Quotient
    <2> QED
      BY <2>3, <2>6, <2>7
  <1> DEFINE root == Root(share)
             least == Min({100, root})
  <1>14. root \in Nat /\ (n = 1 => root = 0) /\ (worst => root <= 10)
    <2> HIDE DEF share
    <2>1. /\ root \in Nat
          /\ share < (0 + 1) * (0 + 1) => root <= 0
          /\ share < (10 + 1) * (10 + 1) => root <= 10
      BY <1>13, RootOf
    <2> QED
      BY <1>13, <2>1
  <1> HIDE DEF root
  <1>15. PICK u \in {100, root} : \A t \in {100, root} : u <= t
    <2>1. 100 <= root \/ root <= 100
      BY <1>14
    <2> QED
      BY <1>14, <2>1
  <1>16. least \in {100, root} /\ \A t \in {100, root} : least <= t
    BY <1>15 DEF Min
  <1> HIDE DEF least
  <1>17. least \in 0..100 /\ (n = 1 => least = 0) /\ (worst => least <= 10)
    BY <1>14, <1>16
  <1>18. Dispersion(score) = least
    BY <1>7 DEF least, root
  <1> QED
    BY <1>9, <1>10, <1>17, <1>18 DEF worst

\* percentile_score: the share of the reference grid below the raw score.
LEMMA PercentileShare ==
    ASSUME NEW x, NEW m \in Models
    PROVE  Percentile(x, Grids[m]) \in 0..100
  <1> DEFINE grid == Grids[m]
             below == {i \in DOMAIN grid : grid[i] < x}
             n == Len(grid)
             k == Cardinality(below)
  <1>1. grid \in Seq(Int) /\ grid # <<>>
    BY ScoringAssumption
  <1> HIDE DEF grid
  <1>2. n \in Nat \ {0} /\ DOMAIN grid = 1..n
    BY <1>1
  <1>3. IsFiniteSet(1..n) /\ Cardinality(1..n) = n
    <2>1. n \in Int /\ 1 \in Int /\ 1 <= n
      BY <1>2
    <2> HIDE DEF n
    <2> QED
      BY <2>1, FS_Interval
  <1>4. k \in Nat /\ k <= n
    <2>1. below \subseteq 1..n
      BY <1>2
    <2> HIDE DEF below, n
    <2> QED
      BY <1>3, <2>1, FS_Subset, FS_CardinalityType
  <1>5. Percentile(x, grid) = (100 * k) \div n
    BY DEF Percentile
  <1> HIDE DEF n, k
  <1>6. 100 * k \in Int /\ 100 * k >= 0 * n /\ 100 * k < (100 + 1) * n
    BY <1>2, <1>4
  <1>7. (100 * k) \div n \in 0..100
    <2> DEFINE y == 100 * k
               q == y \div n
    <2>1. y \in Int /\ y >= 0 * n /\ y < (100 + 1) * n
      BY <1>6
    <2> HIDE DEF y
    <2>2. q \in Int /\ q >= 0 /\ q <= 100
      BY <1>2, <2>1, Quotient
    <2> HIDE DEF q
    <2>3. q \in 0..100
      BY <2>2
    <2> QED
      BY <2>3 DEF q, y
  <1> QED
    BY <1>5, <1>7 DEF grid

\* BehaviorAgent.evaluate: a percentage, and an alarm once every model that could
\* score puts the transaction in its worst tenth, whichever these are.
LEMMA EnsembleScores ==
    ASSUME NEW score, DOMAIN score \subseteq Models, DOMAIN score # {},
           \A m \in DOMAIN score : score[m] \in 0..100, NEW history \in Nat
    PROVE  /\ Ensemble(score, history) \in Verdict
           /\ (\A m \in DOMAIN score : score[m] >= 90) => Alarming(Ensemble(score, history))
  <1> DEFINE D == DOMAIN score
             weight == EnsembleWeights[WeightProfile(history)]
             alike == \A m \in D : weight[m] = 0
             w == IF alike THEN [m \in Models |-> 1] ELSE weight
             risk == Weighted(w, score)
             lack == Dispersion(score)
             n == Cardinality(D)
             conf == (Coverage(n) * (100 - lack)) \div 100
             worst == \A m \in D : score[m] >= 90
  <1>1. Ensemble(score, history) = [risk |-> risk, conf |-> conf]
    BY DEF Ensemble
  <1>2. \A m \in Models : weight[m] \in Nat
    BY DEF WeightProfile, EnsembleWeights, Models
  <1>3. /\ \A m \in D : w[m] \in Nat
        /\ \E m \in D : w[m] # 0
    <2> HIDE DEF weight
    <2>1. CASE alike
      BY <2>1
    <2>2. CASE ~alike
      BY <1>2, <2>2
    <2> QED
      BY <2>1, <2>2
  <1> HIDE DEF w
  <1> DEFINE product == [m \in D |-> w[m] * score[m]]
             Total4(f) == Parts(f, D, "xgboost", "isolation_forest", "lstm", "spike")
  <1>4. Four(D, "xgboost", "isolation_forest", "lstm", "spike")
    BY DEF Four, Models
  <1>5. /\ risk \in 0..100
        /\ Total4(w) > 0 /\ Total4(product) >= 90 * Total4(w) => risk >= 90
    BY <1>3, <1>4, WeightedAtLeast
  <1>6. Total4(w) > 0
    <2>1. \A m \in Models \cup {"spike"} : Part(w, D, m) \in Nat
      BY <1>3 DEF Part
    <2>2. PICK m \in D : w[m] # 0
      BY <1>3
    <2>3. Part(w, D, m) > 0 /\ m \in Models
      BY <1>3, <2>2 DEF Part
    <2> QED
      BY <2>1, <2>3 DEF Parts, Models
  <1>7. worst => Total4(product) >= 90 * Total4(w)
    <2> SUFFICES ASSUME worst PROVE Total4(product) >= 90 * Total4(w)
      OBVIOUS
    <2>1. \A i, j \in Nat : j >= 90 => i * j >= 90 * i
      OBVIOUS
    <2>2. ASSUME NEW m \in Models \cup {"spike"}
          PROVE  /\ Part(product, D, m) \in Int /\ Part(w, D, m) \in Int
                 /\ Part(product, D, m) >= 90 * Part(w, D, m)
      <3>1. CASE m \in D
        <4>1. /\ Part(product, D, m) = w[m] * score[m] /\ Part(w, D, m) = w[m]
              /\ w[m] \in Nat /\ score[m] \in Nat /\ score[m] >= 90
          BY <1>3, <3>1 DEF Part
        <4>2. w[m] * score[m] \in Int /\ w[m] * score[m] >= 90 * w[m]
          BY <2>1, <4>1
        <4> QED
          BY <4>1, <4>2
      <3>2. CASE m \notin D
        BY <3>2 DEF Part
      <3> QED
        BY <3>1, <3>2
    <2> HIDE DEF product
    <2> QED
      BY <2>2 DEF Parts, Models
  <1>8. /\ lack \in 0..100 /\ n \in 1..3
        /\ worst => lack <= 10 /\ (n = 1 => lack = 0)
    BY Dispersed
  <1>9. Coverage(n) = CASE n = 1 -> 50 [] n = 2 -> 75 [] n = 3 -> 100
    BY DEF Coverage
  <1> HIDE DEF lack, n, worst
  <1>10. /\ conf \in 0..100
         /\ worst => conf >= 50
    <2> DEFINE x == Coverage(n) * (100 - lack)
    <2>1. /\ x \in Int /\ x >= 0 * 100 /\ x < (100 + 1) * 100
          /\ worst => x >= 50 * 100
      BY <1>8, <1>9
    <2> HIDE DEF x
    <2>2. /\ x \div 100 \in 0..100
          /\ worst => x \div 100 >= 50
      BY <2>1, Quotient
    <2> QED
      BY <2>2 DEF x
  <1> HIDE DEF risk, conf
  <1> QED
    BY <1>1, <1>5, <1>6, <1>7, <1>8, <1>10 DEF Verdict, Alarming, worst

LEMMA CalibratedScores ==
    ASSUME NEW f \in BehaviorFacts
    PROVE  /\ Ensemble(Calibrated(f), f.history) \in Verdict
           /\ (\A m \in DOMAIN f.raw : Calibrated(f)[m] >= 90)
                => Alarming(Ensemble(Calibrated(f), f.history))
  <1> DEFINE score == Calibrated(f)
             history == f.history
  <1>1. DOMAIN f.raw \subseteq Models /\ DOMAIN f.raw # {} /\ history \in Nat
    BY ScoringAssumption
  <1>2. /\ DOMAIN score = DOMAIN f.raw
        /\ \A m \in DOMAIN f.raw : score[m] = Percentile(f.raw[m], Grids[m])
    BY DEF Calibrated
  <1>3. \A m \in DOMAIN score : score[m] \in 0..100
    <2> HIDE DEF score
    <2> QED
      BY <1>1, <1>2, PercentileShare
  <1> HIDE DEF score, history
  <1>4. /\ Ensemble(score, history) \in Verdict
        /\ (\A m \in DOMAIN score : score[m] >= 90) => Alarming(Ensemble(score, history))
    BY <1>1, <1>2, <1>3, EnsembleScores
  <1> QED
    BY <1>2, <1>4 DEF score, history

\* What was read of each agent that scored is one of the facts it may read.
FactsOK == DOMAIN facts \subseteq Agents /\ \A a \in DOMAIN facts : facts[a] \in FactsOf[a]

LEMMA FactsRead == ScoringSpec => []FactsOK
  <1>1. ScoringInit => FactsOK
    BY DEF ScoringInit, FactsOK
  <1>2. FactsOK /\ [ScoringNext]_scoringVars => FactsOK'
    <2> SUFFICES ASSUME FactsOK, [ScoringNext]_scoringVars PROVE FactsOK'
      OBVIOUS
    <2>1. ASSUME NEW a \in Agents, Scores(a) PROVE FactsOK'
      BY <2>1 DEF Scores, FactsOK
    <2>2. CASE Arrives \/ UNCHANGED scoringVars
      BY <2>2 DEF Arrives, scoringVars, FactsOK
    <2> QED
      BY <2>1, <2>2 DEF ScoringNext
  <1> QED
    BY <1>1, <1>2, PTL DEF ScoringSpec

\* An agent's verdict is a percentage with a percentage of confidence.
LEMMA VerdictsScored ==
    ASSUME FactsOK, NEW a \in DOMAIN facts
    PROVE  Verdicts(facts)[a] = VerdictOf(a, facts[a]) /\ Verdicts(facts)[a] \in Verdict
  <1>1. Verdicts(facts)[a] = VerdictOf(a, facts[a]) /\ facts[a] \in FactsOf[a] /\ a \in Agents
    BY DEF Verdicts, FactsOK
  <1> DEFINE f == facts[a]
  <1>2. CASE a = "velocity"
    <2>1. f \in VelocityFacts /\ VerdictOf(a, f) = VelocityVerdict(f)
      BY <1>1, <1>2 DEF FactsOf, VerdictOf
    <2> HIDE DEF f
    <2> QED
      BY <1>1, <2>1, VelocityScores DEF f
  <1>3. CASE a = "geo"
    <2>1. f \in GeoFacts /\ VerdictOf(a, f) = GeoVerdict(f)
      BY <1>1, <1>3 DEF FactsOf, VerdictOf
    <2> QED
      BY <1>1, <2>1, GeoScores
  <1>4. CASE a = "graph"
    <2>1. f \in Networks /\ VerdictOf(a, f) = GraphVerdict(f.edges, f.node, ScoredAccount)
      BY <1>1, <1>4 DEF FactsOf, VerdictOf
    <2> QED
      BY <1>1, <2>1, GraphScores
  <1>5. CASE a = "behavior"
    <2>1. f \in BehaviorFacts /\ VerdictOf(a, f) = Ensemble(Calibrated(f), f.history)
      BY <1>1, <1>5 DEF FactsOf, VerdictOf
    <2> QED
      BY <1>1, <2>1, CalibratedScores
  <1> QED
    BY <1>1, <1>2, <1>3, <1>4, <1>5 DEF Agents

\* Evidence that one agent finds hard is never outvoted into a PASS, for all facts the
\* agents may read, whichever other agents scored or abstained, every grid and every
\* type of transaction (run_velocity, run_geo, run_graph, run_behavior and fuse).
THEOREM HardEvidenceStays == ScoringSpec => []HardEvidenceHeard
  <1>1. FactsOK => HardEvidenceHeard
    <2> SUFFICES ASSUME FactsOK, kind # "none", Teleports \/ Bursts \/ PaysRing \/ ModelsAgree
                 PROVE  Decision(facts) # "PASS"
      BY DEF HardEvidenceHeard
    <2> DEFINE v == Verdicts(facts)
    <2>1. DOMAIN v = DOMAIN facts /\ DOMAIN v \subseteq Agents
      BY DEF Verdicts, FactsOK
    <2>2. v \in [DOMAIN v -> Verdict]
      <3>1. \A a \in DOMAIN v : v[a] \in Verdict
        BY <2>1, VerdictsScored
      <3>2. v = [a \in DOMAIN v |-> v[a]]
        BY DEF Verdicts
      <3> HIDE DEF v
      <3> QED
        BY <3>1, <3>2
    <2>3. \E a \in DOMAIN v : Alarming(v[a])
      <3>1. CASE Teleports
        <4>1. "geo" \in DOMAIN facts /\ facts["geo"] \in GeoFacts
          BY <3>1 DEF Teleports, FactsOK, FactsOf
        <4>2. v["geo"] = GeoVerdict(facts["geo"])
          BY <4>1, VerdictsScored DEF VerdictOf
        <4>3. Alarming(GeoVerdict(facts["geo"]))
          BY <3>1, <4>1, GeoScores DEF Teleports
        <4> QED
          BY <2>1, <4>1, <4>2, <4>3
      <3>2. CASE Bursts
        <4>1. "velocity" \in DOMAIN facts /\ facts["velocity"] \in VelocityFacts
          BY <3>2 DEF Bursts, FactsOK, FactsOf
        <4>2. v["velocity"] = VelocityVerdict(facts["velocity"])
          BY <4>1, VerdictsScored DEF VerdictOf
        <4>3. Alarming(VelocityVerdict(facts["velocity"]))
          BY <3>2, <4>1, VelocityScores DEF Bursts
        <4> QED
          BY <2>1, <4>1, <4>2, <4>3
      <3>3. CASE PaysRing
        <4>1. "graph" \in DOMAIN facts /\ facts["graph"] \in Networks
          BY <3>3 DEF PaysRing, FactsOK, FactsOf
        <4>2. v["graph"]
                = GraphVerdict(facts["graph"].edges, facts["graph"].node, ScoredAccount)
          BY <4>1, VerdictsScored DEF VerdictOf
        <4>3. Alarming(GraphVerdict(facts["graph"].edges, facts["graph"].node, ScoredAccount))
          BY <3>3, <4>1, GraphScores DEF PaysRing
        <4> QED
          BY <2>1, <4>1, <4>2, <4>3
      <3>4. CASE ModelsAgree
        <4>1. "behavior" \in DOMAIN facts /\ facts["behavior"] \in BehaviorFacts
          BY <3>4 DEF ModelsAgree, FactsOK, FactsOf
        <4>2. v["behavior"]
                = Ensemble(Calibrated(facts["behavior"]), facts["behavior"].history)
          BY <4>1, VerdictsScored DEF VerdictOf
        <4>3. Alarming(Ensemble(Calibrated(facts["behavior"]), facts["behavior"].history))
          BY <3>4, <4>1, CalibratedScores DEF ModelsAgree
        <4> QED
          BY <2>1, <4>1, <4>2, <4>3
      <3> QED
        BY <3>1, <3>2, <3>3, <3>4
    <2> HIDE DEF v
    <2>4. Synthesise(v, MapTxnType(kind), DefaultConfig) # "PASS"
      BY <2>1, <2>2, <2>3, AlarmStays
    <2> QED
      BY <2>4 DEF Decision, v
  <1> QED
    BY <1>1, FactsRead, PTL
=============================================================================
