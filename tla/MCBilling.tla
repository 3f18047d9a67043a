----------------------------- MODULE MCBilling ------------------------------
(* Instances of Billing for TLC: one fee of either type and two members.   *)
EXTENDS Recipients, TLC

CONSTANTS f1, m1

MCCost == [f \in Fees |-> 2]

MCMaxRows == [m \in Members |-> IF m = m1 THEN 2 ELSE 1]
MCRequests == {M \in SUBSET Members : Cardinality(M) < 2}
=============================================================================
