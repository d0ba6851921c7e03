------------------------------ MODULE MCPayments ------------------------------
(***************************************************************************)
(* The run of Payments with one request at a time, on two checkouts.       *)
(***************************************************************************)
EXTENDS Payments, TLC

Symmetry == Permutations(Txs) \cup Permutations(ExtIds) \cup Permutations(Subs)
                \cup Permutations(Users)
=============================================================================
