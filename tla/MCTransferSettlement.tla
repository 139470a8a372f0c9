------------------------ MODULE MCTransferSettlement ------------------------
(* Small instances of TransferSettlement. *)
EXTENDS TransferSettlement, TLC

CONSTANTS a1

OneAccount  == [t \in Txns |-> a1]
TenEach     == [t \in Txns |-> 10]
OpenFifteen == [a \in Accounts |-> 15]
ClientSymmetry == Permutations(Clients)
=============================================================================
