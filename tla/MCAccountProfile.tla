--------------------------- MODULE MCAccountProfile ---------------------------
(* AccountProfile with windows of one and two ticks. *)
EXTENDS AccountProfile, TLC

WindowLengths == {1, 2}
Evals == [velocity |-> 4, geo |-> 2, pipeline |-> 1]

\* The transactions are interchangeable.
Symmetry == Permutations(Txns)
=============================================================================
