-------------------------------- MODULE MCSignIn --------------------------------
(***************************************************************************)
(* The run of SignIn.  Its identities are a person with one address at     *)
(* Google, at Apple and with a password, and two whose address Apple keeps *)
(* to itself.                                                              *)
(*                                                                         *)
(* All of the limiter together with all of Identity is too much for TLC.   *)
(* Either the limiter meets everything and a request that it lets through  *)
(* fails at once, or Redis is down, so that everybody gets through, and    *)
(* the rest meets everything.                                              *)
(***************************************************************************)
EXTENDS SignIn, TLC

MCProvider == [google |-> "google", apple |-> "apple", pair |-> "password",
               hidden1 |-> "apple", hidden2 |-> "apple"]

MCIdentities == DOMAIN MCProvider

MCEmails == {"m"}

MCEmailOf == [google |-> "m", apple |-> "m", pair |-> "m",
              hidden1 |-> NoEmail, hidden2 |-> NoEmail]

VARIABLE down  \* Redis is down for good

mcvars == <<signInVars, down>>

MCInit == SignInInit /\ down \in BOOLEAN

MCNext ==
    /\ SignInNext
    /\ UNCHANGED down
    /\ IF down
       THEN now' = 0 /\ count' = 0
       ELSE users' = users /\ \A r \in Reqs : req'[r].pc \in {"idle", "check"}

MCSpec == MCInit /\ [][MCNext]_mcvars

Symmetry == Permutations(Reqs) \cup Permutations(Ids)
=============================================================================
