------------------------------- MODULE MCFusion -------------------------------
(* Fusion on a grid of scores around the thresholds. *)
EXTENDS Fusion

\* The default, a lenient and a narrow pair of thresholds.
Sample == {DefaultConfig,
           [low |-> 0, high |-> 20, disagreement |-> 10000],
           [low |-> 50, high |-> 51, disagreement |-> 100]}
=============================================================================
