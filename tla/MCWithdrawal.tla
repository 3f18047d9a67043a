---------------------------- MODULE MCWithdrawal ----------------------------
(* Instances of Withdrawal for TLC: every withdrawal fits the opening      *)
(* balance by itself, two of them do not.                                  *)
EXTENDS Withdrawal, TLC

CONSTANTS w1, w2, w3, w4

MCTypeOf == [r \in Requests |-> "DEBIT"]
MCAmount == [w \in Withdrawals |-> IF w = w3 THEN 3 ELSE 2]

RequestSymmetry == Permutations(Requests)
=============================================================================
