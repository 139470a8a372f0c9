------------------------------- MODULE Synthesis -------------------------------
(***************************************************************************)
(* The synthesis agent: a pure function from the verdicts of the agents    *)
(* that reported to a decision.  Risks, confidences and table weights are  *)
(* integers in percent, the blended weight is the sum of its two layers    *)
(* (their mean, doubled), and the fused score stays a fraction             *)
(* Numerator / Denominator compared by cross-multiplication; so a variance *)
(* is in units of 10^-4 and nothing is rounded.                            *)
(***************************************************************************)
EXTENDS Integers, FiniteSets

Agents == {"velocity", "geo", "graph", "behavior"}

\* AgentVerdict: what one agent reports; verdicts is a function on the set of
\* agents that did report.
Verdict == [risk : 0..100, conf : 0..100]

Elevated  == 50
MaxSpread == 20
Thresholds == [low : 0..100, high : 0..100, disagreement : 0..10000]
DefaultConfig == [low |-> 30, high |-> 70, disagreement |-> 400]

Quad(velocity, geo, graph, behavior) ==
    [velocity |-> velocity, geo |-> geo, graph |-> graph, behavior |-> behavior]

\* Table I, by transaction type; Table II, by fraud pattern.
Layer1 ==
    [p2p_transfer     |-> Quad(35, 20, 20, 25),
     merchant_payment |-> Quad(25, 25, 25, 25),
     atm_withdrawal   |-> Quad(30, 30, 25, 15),
     bill_payment     |-> Quad(20, 25, 20, 35)]
Layer2 ==
    [rapid_transfers  |-> Quad(50, 10, 15, 25),
     fraud_ring       |-> Quad(15, 30, 40, 15),
     money_laundering |-> Quad(25, 25, 25, 25),
     novel_pattern    |-> Quad(25, 25, 20, 30)]

\* The category of a raw transaction type; an unknown one counts as P2P.
MapTxnType(raw) ==
    CASE raw \in {"KHALTI_QR", "CARD_POS"}         -> "merchant_payment"
      [] raw = "ATM_WITHDRAWAL"                    -> "atm_withdrawal"
      [] raw \in {"UTILITY_BILL", "MOBILE_TOPUP"}  -> "bill_payment"
      [] OTHER                                     -> "p2p_transfer"

-----------------------------------------------------------------------------
(* The steps of synthesise. *)

\* Ties for the loudest agent go to the first in the order of Agents above.
Loudest(v) == {a \in DOMAIN v : \A b \in DOMAIN v : v[b].risk <= v[a].risk}

Clustered(v) ==
    /\ Cardinality({a \in DOMAIN v : v[a].risk >= Elevated}) >= 3
    /\ \A a, b \in DOMAIN v : v[a].risk - v[b].risk <= MaxSpread

Pattern(v) ==
    CASE Clustered(v)                          -> "money_laundering"
      [] ~Clustered(v) /\ "velocity" \in Loudest(v) -> "rapid_transfers"
      [] /\ ~Clustered(v) /\ "velocity" \notin Loudest(v)
         /\ Loudest(v) \cap {"geo", "graph"} # {}   -> "fraud_ring"
      [] OTHER                                 -> "novel_pattern"

Blend(type, pattern) == [a \in Agents |-> Layer1[type][a] + Layer2[pattern][a]]

Total(f) == f["velocity"] + f["geo"] + f["graph"] + f["behavior"]

\* A verdict's weight times its confidence; an absent agent has none.
Effective(v, w) == [a \in Agents |-> IF a \in DOMAIN v THEN w[a] * v[a].conf ELSE 0]
Risk(v) == [a \in Agents |-> IF a \in DOMAIN v THEN v[a].risk ELSE 0]

Denominator(v, w) == Total(Effective(v, w))

\* Variant: the confidence is left out of the numerator.
NumeratorNoConf(v, w) ==
    Total([a \in Agents |-> IF a \in DOMAIN v THEN w[a] * 100 * v[a].risk ELSE 0])

Numerator(v, w) == Total([a \in Agents |-> Effective(v, w)[a] * Risk(v)[a]])

\* The fused score against a threshold; with no effective weight it is 0.
ScoreBelow(v, w, tau) ==
    IF Denominator(v, w) = 0 THEN 0 < tau ELSE Numerator(v, w) < tau * Denominator(v, w)
ScoreAbove(v, w, tau) ==
    Denominator(v, w) # 0 /\ Numerator(v, w) > tau * Denominator(v, w)

\* Variant: the squared deviations are summed, not averaged.
DisagreeSummed(v, tau) ==
    LET n == Cardinality(DOMAIN v)
        squares == Total([a \in Agents |-> Risk(v)[a] * Risk(v)[a]])
    IN n * squares - Total(Risk(v)) * Total(Risk(v)) >= tau * n

\* Population variance of the reported risks, at or above the threshold.
Disagree(v, tau) ==
    LET n == Cardinality(DOMAIN v)
        squares == Total([a \in Agents |-> Risk(v)[a] * Risk(v)[a]])
    IN n * squares - Total(Risk(v)) * Total(Risk(v)) >= tau * n * n

\* Variant: disagreement is ignored.
DecideNoOverride(v, w, cfg) ==
    CASE ScoreBelow(v, w, cfg.low) -> "PASS"
      [] ~ScoreBelow(v, w, cfg.low) /\ ScoreAbove(v, w, cfg.high) -> "BLOCK"
      [] OTHER -> "OTP"

\* Table III; disagreement turns a PASS into a challenge, never a BLOCK.
Decide(v, w, cfg) ==
    CASE ScoreBelow(v, w, cfg.low) /\ ~Disagree(v, cfg.disagreement) -> "PASS"
      [] ~ScoreBelow(v, w, cfg.low) /\ ScoreAbove(v, w, cfg.high)    -> "BLOCK"
      [] OTHER                                                       -> "OTP"

\* synthesise: no verdict, or one whose agent has no weight, is an error.
Synthesise(v, type, cfg) ==
    LET w == Blend(type, Pattern(v))
    IN IF DOMAIN v = {} \/ \E a \in DOMAIN v : w[a] = 0
       THEN "ERROR" ELSE Decide(v, w, cfg)
=============================================================================
