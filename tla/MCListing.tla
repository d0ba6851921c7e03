------------------------------- MODULE MCListing -------------------------------
(***************************************************************************)
(* The run of Listing: posts are told apart by their keys alone.  A walk   *)
(* of which neither property says anything any more is not followed.       *)
(***************************************************************************)
EXTENDS Listing, TLC

StillPromised == events \subseteq {"inserted"} \/ events \subseteq {"removed"}

Symmetry == Permutations(Posts)
=============================================================================
