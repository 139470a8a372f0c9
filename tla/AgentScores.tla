------------------------------ MODULE AgentScores ------------------------------
(***************************************************************************)
(* How the four agents turn what they read into a risk and a confidence.   *)
(* Scores are integers in percent, every quotient rounded down; amounts    *)
(* are whole rupees, distances kilometres, times seconds.  The numbers are *)
(* those of feature_config.yaml and behavior_agent/config.yaml.            *)
(***************************************************************************)
EXTENDS Integers, FiniteSets, FiniteSetsExt, Sequences

Clip(x) == Min({100, Max({0, x})})

Weighted(weight, score) ==
    LET total == MapThenSumSet(LAMBDA n : weight[n], DOMAIN score)
    IN IF total = 0 THEN 0
       ELSE Clip(MapThenSumSet(LAMBDA n : weight[n] * score[n], DOMAIN score) \div total)

\* Cold start: n observations count for less than full confidence up to the threshold.
Warmth(n, threshold) == Clip((n * 100) \div threshold)

-----------------------------------------------------------------------------
(* Velocity: what Redis holds of the account, [live and mean per window, avg, *)
(* observations, share of the declared type]; a missing baseline reads as 0.  *)

Windows == {"count_2min", "count_1hr"}
NoShare == -1 \* no type history, or no declared type

TxnCount(f) ==
    Max({Clip(((f.live[w] - f.mean[w]) * 100) \div ((f.mean[w] + 1) * 10)) : w \in Windows})

AmountVsBaseline(f) ==
    IF f.avg < 1 THEN 50 ELSE Clip(((f.amount - f.avg) * 100) \div (9 * f.avg))

\* Nothing below five times the average, then from 70 up to 100 at fifteen times.
AmountSpike(f) ==
    IF f.avg < 1 \/ f.amount < 5 * f.avg THEN 0
    ELSE Clip(70 + (30 * (f.amount - 5 * f.avg)) \div (10 * f.avg))

TypeMismatch(f) == IF f.share = NoShare THEN 50 ELSE Clip(100 - 5 * f.share)

VelocityWeights == [spike |-> 35, count |-> 30, amount |-> 20, type |-> 15]

\* Without a balance feed the fifth signal is None and left out.
VelocityVerdict(f) ==
    [risk |-> Weighted(VelocityWeights,
                       [spike |-> AmountSpike(f), count |-> TxnCount(f),
                        amount |-> AmountVsBaseline(f), type |-> TypeMismatch(f)]),
     conf |-> Warmth(f.observations, 50)]

-----------------------------------------------------------------------------
(* Geo: the trip since the last location on file, the device and its           *)
(* fingerprint, the number of geo events on file.                              *)

\* Variant: a trip in no or negative time is not told apart.
TravelBySpeed(f) ==
    IF f.first \/ f.km < 50 THEN 0 ELSE Clip((f.km * 400) \div f.dt - 50)

\* Up to 50 km is jitter; half the plausible speed scores 0, 1.5 times scores 100.
TravelFeasibility(f) ==
    CASE f.first \/ f.km < 50                   -> 0
      [] ~f.first /\ f.km >= 50 /\ f.dt <= 30   -> 100
      [] OTHER                                  -> Clip((f.km * 400) \div f.dt - 50)

Bonus(fingerprint) ==
    (IF "rooted" \in fingerprint THEN 20 ELSE 0)
      + (IF "shared" \in fingerprint THEN 10 ELSE 0)
      + (IF "many accounts" \in fingerprint THEN 10 ELSE 0)

DeviceNovelty(f) ==
    CASE f.device = "known"   -> 0
      [] f.device = "first"   -> Clip(20 + Bonus(f.fingerprint))
      [] f.device = "unknown" -> Clip(60 + Bonus(f.fingerprint))

GeoVerdict(f) ==
    [risk |-> Weighted([travel |-> 50, device |-> 50],
                       [travel |-> TravelFeasibility(f), device |-> DeviceNovelty(f)]),
     conf |-> Warmth(f.observations, 20)]

-----------------------------------------------------------------------------
(* Graph: the account in a graph of SENT edges [from, to, day, structuring,     *)
(* reciprocal, n] (n tells parallel edges apart), and its node facts            *)
(* [tier, seed, degreeIn, received, sent].                                      *)

Collector == "ACC-0011204"

OutEdges(edges, a) == {e \in edges : e.from = a}

\* Distinct recipients on the busiest calendar day.
MaxFanout(edges, a) ==
    Max({0} \cup {Cardinality({e.to : e \in {x \in OutEdges(edges, a) : x.day = d}}) :
                  d \in {e.day : e \in OutEdges(edges, a)}})

InSenders(edges, a) == Cardinality({e.from : e \in {x \in edges : x.to = a}})

Direct(edges, a) == a # Collector /\ \E e \in OutEdges(edges, a) : e.to = Collector
WithinTwo(edges, a) ==
    /\ a # Collector
    /\ \/ Direct(edges, a)
       \/ \E e \in OutEdges(edges, a) : \E x \in OutEdges(edges, e.to) :
              x # e /\ x.to = Collector

TierScore(tier) ==
    CASE tier = "WATCHLIST" -> 35 [] tier = "HIGH" -> 15 [] tier = "MEDIUM" -> 5 [] OTHER -> 0

Fanned(n) == CASE n >= 5 -> 45 [] n = 4 -> 20 [] OTHER -> 0
Gathered(n) == CASE n >= 50 -> 35 [] n >= 5 /\ n < 50 -> 15 [] OTHER -> 0

\* At least half of what it sends hugs a reporting threshold.
Structures(edges, a) ==
    /\ OutEdges(edges, a) # {}
    /\ 2 * Cardinality({e \in OutEdges(edges, a) : e.structuring})
         >= Cardinality(OutEdges(edges, a))

\* Many in, and nearly all of it out again.
IsMule(node) ==
    /\ node.degreeIn >= 100 /\ node.received > 0
    /\ 10 * node.received - 10 * node.sent < node.received
    /\ 10 * node.sent - 10 * node.received < node.received

Proximity(edges, a) ==
    CASE Direct(edges, a) -> 55 [] ~Direct(edges, a) /\ WithinTwo(edges, a) -> 25 [] OTHER -> 0

Layers(edges, a) == 5 * Min({3, Cardinality({e \in OutEdges(edges, a) : e.reciprocal})})

\* An account the graph does not know is an error, not a score; a score is certain.
GraphVerdict(edges, node, a) ==
    [risk |-> Clip(Proximity(edges, a) + (IF node.seed THEN 30 ELSE 0) + TierScore(node.tier)
                   + Fanned(MaxFanout(edges, a)) + Gathered(InSenders(edges, a))
                   + (IF Structures(edges, a) THEN 35 ELSE 0) + (IF IsMule(node) THEN 40 ELSE 0)
                   + Layers(edges, a)),
     conf |-> 100]

-----------------------------------------------------------------------------
(* Behavior: the models that contributed, with their percentile scores.        *)

Models == {"xgboost", "isolation_forest", "lstm"}

\* The share of the model's reference grid strictly below the raw score.
Percentile(raw, grid) ==
    (100 * Cardinality({i \in DOMAIN grid : grid[i] < raw})) \div Len(grid)

WeightProfile(history) ==
    CASE history < 10                      -> "cold_start"
      [] history >= 10 /\ history < 50     -> "medium"
      [] history >= 50                     -> "rich"

EnsembleWeights ==
    [cold_start |-> [xgboost |-> 35, isolation_forest |-> 65, lstm |-> 0],
     medium     |-> [xgboost |-> 60, isolation_forest |-> 40, lstm |-> 0],
     rich       |-> [xgboost |-> 45, isolation_forest |-> 20, lstm |-> 35]]

Coverage(n) == CASE n = 1 -> 50 [] n = 2 -> 75 [] n = 3 -> 100

Root(x) == CHOOSE r \in 0..x : r * r <= x /\ (r + 1) * (r + 1) > x

\* Twice the population deviation, in percent: what agreement lacks to 100.
Dispersion(score) ==
    LET n  == Cardinality(DOMAIN score)
        sum == MapThenSumSet(LAMBDA m : score[m], DOMAIN score)
        squares == MapThenSumSet(LAMBDA m : score[m] * score[m], DOMAIN score)
    IN Min({100, Root((4 * (n * squares - sum * sum)) \div (n * n))})

\* Only models without a weight contributed: they count alike.
Ensemble(score, history) ==
    LET weight == EnsembleWeights[WeightProfile(history)]
        alike  == \A m \in DOMAIN score : weight[m] = 0
    IN [risk |-> Weighted(IF alike THEN [m \in Models |-> 1] ELSE weight, score),
        conf |-> (Coverage(Cardinality(DOMAIN score)) * (100 - Dispersion(score))) \div 100]
=============================================================================
