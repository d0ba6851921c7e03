------------------------------ MODULE MCMessaging ------------------------------
(* Symmetry for the run of Messaging: users and messages are only compared. *)
EXTENDS Messaging, TLC

Symmetry == Permutations(Users) \cup Permutations(Msgs)
=============================================================================
