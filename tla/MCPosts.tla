-------------------------------- MODULE MCPosts --------------------------------
(* Symmetry for the runs of Posts: requests and images are only compared. *)
EXTENDS Posts, TLC

Symmetry == Permutations(Reqs) \cup Permutations(Images)
=============================================================================
