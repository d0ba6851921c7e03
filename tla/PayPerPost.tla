------------------------------ MODULE PayPerPost ------------------------------
(***************************************************************************)
(* What paying per post promises: a wallet is filled by each top-up at     *)
(* most once, and a post is published and paid for in one step, or not at  *)
(* all.  A failure can break this in two ways, one post at a time: the fee *)
(* is lost, or the post is given away.                                     *)
(***************************************************************************)
EXTENDS Integers

CONSTANTS Users, Topups, Posts, Amounts, Cost

VARIABLES wallet, review, published

Init ==
    /\ wallet = [u \in Users |-> 0]
    /\ review = [t \in Topups |-> "absent"]
    /\ published = {}

Request(t) ==
    /\ review[t] = "absent"
    /\ review' = [review EXCEPT ![t] = "pending"]
    /\ UNCHANGED <<wallet, published>>

Approve(t, u, amount) ==
    /\ review[t] = "pending"
    /\ review' = [review EXCEPT ![t] = "approved"]
    /\ wallet' = [wallet EXCEPT ![u] = @ + amount]
    /\ UNCHANGED published

Reject(t) ==
    /\ review[t] = "pending"
    /\ review' = [review EXCEPT ![t] = "rejected"]
    /\ UNCHANGED <<wallet, published>>

Publish(p, u) ==
    /\ p \notin published
    /\ wallet[u] >= Cost
    /\ wallet' = [wallet EXCEPT ![u] = @ - Cost]
    /\ published' = published \cup {p}
    /\ UNCHANGED review

\* The request is cut after the fee was taken.
Lose(u) ==
    /\ wallet[u] >= Cost
    /\ wallet' = [wallet EXCEPT ![u] = @ - Cost]
    /\ UNCHANGED <<review, published>>

\* The answer to the INSERT is lost, and the fee is still in the wallet.
GiveAway(p, u) ==
    /\ p \notin published
    /\ wallet[u] >= Cost
    /\ published' = published \cup {p}
    /\ UNCHANGED <<wallet, review>>

Next ==
    \/ \E t \in Topups :
          \/ Request(t)
          \/ Reject(t)
          \/ \E u \in Users, amount \in Amounts : Approve(t, u, amount)
    \/ \E p \in Posts, u \in Users : Publish(p, u) \/ GiveAway(p, u)
    \/ \E u \in Users : Lose(u)

ASpec == Init /\ [][Next]_<<wallet, review, published>>
=============================================================================
