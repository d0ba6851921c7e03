---------------------------- MODULE MCSubscriptions ----------------------------
(* Symmetry for the runs of Subscriptions: ids are only compared. *)
EXTENDS Subscriptions, TLC

Symmetry == Permutations(Users) \cup Permutations(Subs)
=============================================================================
