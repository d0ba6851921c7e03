------------------------------- MODULE MCBalance -------------------------------
(* Symmetry for the runs of Balance: ids are only compared. *)
EXTENDS Balance, TLC

Symmetry == Permutations(Users) \cup Permutations(Admins)
                \cup Permutations(Topups) \cup Permutations(Posts)
=============================================================================
