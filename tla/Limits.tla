--------------------------------- MODULE Limits ---------------------------------
(* One limit of the rate limiter, and the bounds of its model. *)
EXTENDS Naturals

CONSTANTS
    Window,       \* how long a counter lives, in units of time
    Limit,        \* the requests a window admits
    MaxTime,      \* bound on the time
    MaxRequests,  \* bound on the requests
    None          \* no time, no expiry

ASSUME BoundAssumption ==
    /\ Window \in Nat \ {0} /\ Limit \in Nat
    /\ MaxTime \in Nat /\ MaxRequests \in Nat
ASSUME NoneAssumption == None \notin Nat
=============================================================================
