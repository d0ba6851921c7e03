-------------------------------- MODULE MCUsers --------------------------------
(* Symmetry for the run of Users: requests and documents are only compared. *)
EXTENDS Users, TLC

Symmetry == Permutations(Reqs) \cup Permutations(Docs)
=============================================================================
