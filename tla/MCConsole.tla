------------------------------- MODULE MCConsole -------------------------------
(* Names and slugs for the run of Console: a slug can be derived from "latin" and
   not from "cyrillic", which may be given the same one. *)
EXTENDS Console, TLC

MCNames == {"latin", "cyrillic"}

MCSlugs == {"s"}

MCGenerate == [latin |-> "s", cyrillic |-> Empty]

MCSlugify == [latin |-> "s", cyrillic |-> Empty]

Symmetry == Permutations(Reqs) \cup Permutations(Ids) \cup Permutations(Emails)
                \cup Permutations(GameIds)
=============================================================================
