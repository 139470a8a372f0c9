---------------------------- MODULE MCOrchestrator ----------------------------
(* Orchestrator on small sets of transactions and agents. *)
EXTENDS Orchestrator, TLC

\* The transactions are interchangeable, and so are the agents.
Symmetry == Permutations(Txns) \cup Permutations(Agents)
=============================================================================
