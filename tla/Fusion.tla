-------------------------------- MODULE Fusion --------------------------------
(***************************************************************************)
(* The fan-out of one transaction to the fusion agents as fuse() sees it:  *)
(* the agents that come back with a usable score do so in any order, and   *)
(* any of them may abstain, so fuse() may find any set of verdicts.  The   *)
(* properties speak of the decision at each point, for every category of   *)
(* transaction and every setting of the thresholds in force.               *)
(***************************************************************************)
EXTENDS Synthesis

CONSTANTS
    RawTypes,    \* raw transaction types
    Risks,       \* risk scores an agent may report, in percent
    Confidences, \* confidences it may report, in percent
    Settings     \* thresholds that may be in force

ASSUME FusionAssumption ==
    /\ Risks \subseteq 0..100 /\ Confidences \subseteq 0..100
    /\ Settings \subseteq Thresholds
    /\ \A cfg \in Settings : cfg.low < cfg.high

VARIABLES
    verdicts,  \* build_verdicts: the agents that produced a score, with it
    raw        \* the transaction's type

Init == verdicts = [a \in {} |-> [risk |-> 0, conf |-> 0]] /\ raw \in RawTypes

\* An agent's outcome has status "ok" and carries both numbers.
Report(a, r, c) ==
    /\ a \notin DOMAIN verdicts
    /\ verdicts' = [b \in DOMAIN verdicts \cup {a} |->
           IF b = a THEN [risk |-> r, conf |-> c] ELSE verdicts[b]]
    /\ UNCHANGED raw

Next == \E a \in Agents, r \in Risks, c \in Confidences : Report(a, r, c)

Spec == Init /\ [][Next]_<<verdicts, raw>>

\* fuse: synthesise under the thresholds in force; nothing to fuse is an error.
Fuse(v, cfg) == Synthesise(v, MapTxnType(raw), cfg)

-----------------------------------------------------------------------------
(* Properties. *)

\* The verdicts are scores of a set of agents.
VerdictsOK == DOMAIN verdicts \subseteq Agents /\ verdicts \in [DOMAIN verdicts -> Verdict]

Speaking(v) == {a \in DOMAIN v : v[a].conf > 0}

\* Whatever the tables and the pattern make of the weights, a decision is backed
\* by an agent that has some confidence: a BLOCK by one above the block
\* threshold, a PASS by one below the challenge threshold (or none is sure).
DecisionBacked ==
    \A cfg \in Settings :
        /\ Fuse(verdicts, cfg) = "BLOCK" =>
               \E a \in Speaking(verdicts) : verdicts[a].risk > cfg.high
        /\ Fuse(verdicts, cfg) = "PASS" =>
               \/ Speaking(verdicts) = {}
               \/ \E a \in Speaking(verdicts) : verdicts[a].risk < cfg.low

Severity == [PASS |-> 0, OTP |-> 1, BLOCK |-> 2, ERROR |-> 3]

\* A loudest agent that becomes surer never relaxes the decision.
SurerAlarm ==
    \A a \in Loudest(verdicts), c \in Confidences, cfg \in Settings :
        c > verdicts[a].conf =>
            Severity[Fuse(verdicts, cfg)]
              <= Severity[Fuse([verdicts EXCEPT ![a].conf = c], cfg)]

\* The tables and the override together: under the default thresholds an agent
\* sure of a risk at the block threshold is never outvoted into a PASS, however
\* the others report.
AlarmHeard ==
    (\E a \in DOMAIN verdicts : verdicts[a].conf = 100 /\ verdicts[a].risk >= 70)
        => Fuse(verdicts, DefaultConfig) # "PASS"

\* Agents that all find the transfer harmless never trip the disagreement
\* override: such a transfer is not challenged under the default thresholds.
QuietPasses ==
    (DOMAIN verdicts # {} /\ \A a \in DOMAIN verdicts : verdicts[a].risk < 30)
        => Fuse(verdicts, DefaultConfig) = "PASS"
=============================================================================
