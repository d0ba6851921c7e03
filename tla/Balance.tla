-------------------------------- MODULE Balance --------------------------------
(***************************************************************************)
(* The balance of a user (users.balance): filled by top-ups that an        *)
(* administrator approves, spent by publishing posts, and summed up for    *)
(* the revenue page.                                                       *)
(*                                                                         *)
(* Approving is the one operation of the program that uses a database      *)
(* transaction.  Its three statements are three steps here: the row locks  *)
(* it takes are held, and its changes are invisible to others, until it    *)
(* commits.  Publishing is not a transaction: the fee is deducted, the     *)
(* post inserted, and the fee paid back if the INSERT fails.               *)
(***************************************************************************)
EXTENDS Integers, FiniteSets, Functions

CONSTANTS
    Users,    \* user ids
    Admins,   \* administrators; each reviews one top-up at a time
    Topups,   \* top-up ids
    Posts,    \* post ids; each is created by one request
    Amounts,  \* amounts a top-up may ask for
    Cost,     \* PostCostUZS
    None

ASSUME UsersAssumption == IsFiniteSet(Users)
ASSUME CostAssumption == Cost \in Nat \ {0}
ASSUME AmountsAssumption == Amounts \subseteq Nat \ {0}
ASSUME NoneAssumption == None \notin Users \cup Topups

VARIABLES
    balance,    \* users.balance
    topup,      \* the balance_topups table
    review,     \* the transaction of each administrator
    purchase,   \* the requests that create posts
    published,  \* the posts table
    stats,      \* the request that computes the revenue page
    credits     \* history: how often each top-up was credited

vars == <<balance, topup, review, purchase, published, stats, credits>>

Topup == [user : Users \cup {None}, amount : Amounts \cup {0},
          status : {"absent", "pending", "approved", "rejected"}]

Review == [pc : {"idle", "marked", "credited"}, topup : Topups \cup {None}]
NoReview == [pc |-> "idle", topup |-> None]

\* A request ends with the post ("done"), with the refund ("refunded"), or it is
\* cut after it has taken the fee ("cut").
Purchase == [pc : {"none", "charged", "refund", "done", "refunded", "cut"},
             user : Users \cup {None}]

Stats == [pc : {"idle", "summed", "shown"}, approved : Nat, consumed : Nat]

TypeOK ==
    /\ balance \in [Users -> Nat]
    /\ topup \in [Topups -> Topup]
    /\ review \in [Admins -> Review]
    /\ purchase \in [Posts -> Purchase]
    /\ published \in SUBSET Posts
    /\ stats \in Stats
    /\ credits \in [Topups -> Nat]

Init ==
    /\ balance = [u \in Users |-> 0]
    /\ topup = [t \in Topups |-> [user |-> None, amount |-> 0,
                                  status |-> "absent"]]
    /\ review = [a \in Admins |-> NoReview]
    /\ purchase = [p \in Posts |-> [pc |-> "none", user |-> None]]
    /\ published = {}
    /\ stats = [pc |-> "idle", approved |-> 0, consumed |-> 0]
    /\ credits = [t \in Topups |-> 0]

-----------------------------------------------------------------------------
(* Row locks *)

TopupLocked(t) == \E a \in Admins : review[a].topup = t
UserLocked(u) ==
    \E a \in Admins : /\ review[a].pc = "credited"
                      /\ topup[review[a].topup].user = u

-----------------------------------------------------------------------------
(* Top-ups and their review *)

CreateTopup(t, u, amount) ==
    /\ topup[t].status = "absent"
    /\ topup' = [topup EXCEPT ![t] = [user |-> u, amount |-> amount,
                                      status |-> "pending"]]
    /\ UNCHANGED <<balance, review, purchase, published, stats, credits>>

\* Mutant: the WHERE clause of the first statement only leaves out rejected ones.
ApproveNotRejected(a, t) ==
    /\ review[a].pc = "idle"
    /\ topup[t].status \in {"pending", "approved"}
    /\ ~TopupLocked(t)
    /\ review' = [review EXCEPT ![a] = [pc |-> "marked", topup |-> t]]
    /\ UNCHANGED <<balance, topup, purchase, published, stats, credits>>

\* The first statement: a second one that waits for the lock looks at the
\* status again once it gets it.
Approve(a, t) ==
    /\ review[a].pc = "idle"
    /\ topup[t].status = "pending"
    /\ ~TopupLocked(t)
    /\ review' = [review EXCEPT ![a] = [pc |-> "marked", topup |-> t]]
    /\ UNCHANGED <<balance, topup, purchase, published, stats, credits>>

\* The second statement locks the user's row.
ApproveCredit(a) ==
    /\ review[a].pc = "marked"
    /\ ~UserLocked(topup[review[a].topup].user)
    /\ review' = [review EXCEPT ![a].pc = "credited"]
    /\ UNCHANGED <<balance, topup, purchase, published, stats, credits>>

ApproveCommit(a) ==
    LET t == review[a].topup IN
    /\ review[a].pc = "credited"
    /\ topup' = [topup EXCEPT ![t].status = "approved"]
    /\ balance' = [balance EXCEPT ![topup[t].user] = @ + topup[t].amount]
    /\ credits' = [credits EXCEPT ![t] = @ + 1]
    /\ review' = [review EXCEPT ![a] = NoReview]
    /\ UNCHANGED <<purchase, published, stats>>

\* A statement fails or the server stops: the transaction is rolled back.
ApproveRollback(a) ==
    /\ review[a].pc # "idle"
    /\ review' = [review EXCEPT ![a] = NoReview]
    /\ UNCHANGED <<balance, topup, purchase, published, stats, credits>>

Reject(t) ==
    /\ topup[t].status = "pending"
    /\ ~TopupLocked(t)
    /\ topup' = [topup EXCEPT ![t].status = "rejected"]
    /\ UNCHANGED <<balance, review, purchase, published, stats, credits>>

-----------------------------------------------------------------------------
(* Publishing a post *)

Step(p, pc) == purchase' = [purchase EXCEPT ![p].pc = pc]

\* Mutant: the balance is not compared with the fee.
DeductBalanceUnguarded(p, u) ==
    /\ purchase[p].pc = "none"
    /\ ~UserLocked(u)
    /\ balance' = [balance EXCEPT ![u] = @ - Cost]
    /\ purchase' = [purchase EXCEPT ![p] = [pc |-> "charged", user |-> u]]
    /\ UNCHANGED <<topup, review, published, stats, credits>>

\* One guarded UPDATE: too low a balance ends the request without any change.
DeductBalance(p, u) ==
    /\ purchase[p].pc = "none"
    /\ ~UserLocked(u)
    /\ balance[u] >= Cost
    /\ balance' = [balance EXCEPT ![u] = @ - Cost]
    /\ purchase' = [purchase EXCEPT ![p] = [pc |-> "charged", user |-> u]]
    /\ UNCHANGED <<topup, review, published, stats, credits>>

\* Mutant: an INSERT that failed is tried again after the refund.
CreatePostRetried(p) ==
    /\ purchase[p].pc \in {"charged", "refunded"}
    /\ published' = published \cup {p}
    /\ Step(p, IF purchase[p].pc = "charged" THEN "done" ELSE "refunded")
    /\ UNCHANGED <<balance, topup, review, stats, credits>>

CreatePost(p) ==
    /\ purchase[p].pc = "charged"
    /\ published' = published \cup {p}
    /\ Step(p, "done")
    /\ UNCHANGED <<balance, topup, review, stats, credits>>

\* The INSERT is refused, for instance because the title is longer than the
\* column (the handler lets 200 characters pass, the column holds 100).
CreatePostFails(p) ==
    /\ purchase[p].pc = "charged"
    /\ Step(p, "refund")
    /\ UNCHANGED <<balance, topup, review, published, stats, credits>>

\* The INSERT is carried out, but the connection breaks before the answer.
CreatePostUnanswered(p) ==
    /\ purchase[p].pc = "charged"
    /\ published' = published \cup {p}
    /\ Step(p, "refund")
    /\ UNCHANGED <<balance, topup, review, stats, credits>>

\* Mutant: the refund is forgotten.
AddBalanceForgotten(p) ==
    /\ purchase[p].pc = "refund"
    /\ Step(p, "refunded")
    /\ UNCHANGED <<balance, topup, review, published, stats, credits>>

AddBalance(p) ==
    /\ purchase[p].pc = "refund"
    /\ ~UserLocked(purchase[p].user)
    /\ balance' = [balance EXCEPT ![purchase[p].user] = @ + Cost]
    /\ Step(p, "refunded")
    /\ UNCHANGED <<topup, review, published, stats, credits>>

\* The refund fails (its error is only logged), or the server stops after the
\* fee was deducted.
PurchaseCut(p) ==
    /\ purchase[p].pc \in {"charged", "refund"}
    /\ Step(p, "cut")
    /\ UNCHANGED <<balance, topup, review, published, stats, credits>>

-----------------------------------------------------------------------------
(* The revenue page: two queries outside any transaction *)

AmountOf == [t \in Topups |-> topup[t].amount]
ApprovedTopups(u) == {t \in Topups : topup[t].user = u /\ topup[t].status = "approved"}

ApprovedOf(u) == SumFunctionOnSet(AmountOf, ApprovedTopups(u))
TotalApproved == SumFunctionOnSet([u \in Users |-> ApprovedOf(u)], Users)
OutstandingBalance == SumFunctionOnSet(balance, Users)

\* Mutant: the sum does not look at the status.
SumTopupsAnyStatus ==
    /\ stats.pc # "summed"
    /\ stats' = [pc |-> "summed", consumed |-> 0,
                 approved |-> SumFunctionOnSet(AmountOf, Topups)]
    /\ UNCHANGED <<balance, topup, review, purchase, published, credits>>

SumTopups ==
    /\ stats.pc # "summed"
    /\ stats' = [pc |-> "summed", approved |-> TotalApproved, consumed |-> 0]
    /\ UNCHANGED <<balance, topup, review, purchase, published, credits>>

\* ConsumedRevenue, cut off at zero.
SumBalances ==
    /\ stats.pc = "summed"
    /\ LET consumed == stats.approved - OutstandingBalance
       IN stats' = [stats EXCEPT !.pc = "shown",
                        !.consumed = IF consumed < 0 THEN 0 ELSE consumed]
    /\ UNCHANGED <<balance, topup, review, purchase, published, credits>>

-----------------------------------------------------------------------------

TopupStep ==
    \E t \in Topups :
        \/ \E u \in Users, amount \in Amounts : CreateTopup(t, u, amount)
        \/ \E a \in Admins : Approve(a, t)
        \/ Reject(t)

ReviewStep ==
    \E a \in Admins : ApproveCredit(a) \/ ApproveCommit(a) \/ ApproveRollback(a)

PurchaseStep ==
    \E p \in Posts :
        \/ \E u \in Users : DeductBalance(p, u)
        \/ CreatePost(p) \/ CreatePostFails(p) \/ CreatePostUnanswered(p)
        \/ AddBalance(p) \/ PurchaseCut(p)

Next == TopupStep \/ ReviewStep \/ PurchaseStep \/ SumTopups \/ SumBalances

Spec == Init /\ [][Next]_vars

-----------------------------------------------------------------------------
(* Properties *)

With(u, pcs) == {p \in Posts : purchase[p].user = u /\ purchase[p].pc \in pcs}

\* Two administrators who approve or reject the same top-up at the same time
\* credit it once if it ends up approved, and never if it does not.
CreditedOnce ==
    \A t \in Topups : credits[t] = IF topup[t].status = "approved" THEN 1 ELSE 0

\* Whatever fails, the books balance to the last so'm: what was approved is the
\* balance and one fee for every request that took it and did not pay it back.
\* No interleaving of refunds, fees and approvals makes or loses more.
BooksBalance ==
    \A u \in Users :
        balance[u] + Cost * Cardinality(With(u, {"charged", "refund", "done", "cut"}))
            = ApprovedOf(u)

\* The revenue page reads approvals and balances at two moments.  When it has
\* read the second, the consumed revenue it shows is not more than what has
\* really been consumed, although top-ups and posts go on between the two.
RevenueNotOverstated ==
    [][stats.pc = "summed" /\ stats'.pc = "shown" =>
           stats'.consumed <= TotalApproved - OutstandingBalance]_vars

\* Publishing implements the one-step purchase of PayPerPost: the wallet is the
\* balance and the fees of the requests not yet over.  "Refund the fee if the
\* post could not be created" and "Publishing a post costs a fixed fee" fail
\* only as the contract says.
Purchases == INSTANCE PayPerPost WITH
    wallet <- [u \in Users |-> balance[u]
                  + Cost * Cardinality(With(u, {"charged", "refund"}))],
    review <- [t \in Topups |-> topup[t].status]

ImplementsPayPerPost == Purchases!ASpec
=============================================================================
