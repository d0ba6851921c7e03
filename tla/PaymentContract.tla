---------------------------- MODULE PaymentContract ----------------------------
(***************************************************************************)
(* What the payment service promises for a checkout, without requests,     *)
(* copies of rows or database calls: a checkout is opened, held, then paid *)
(* or void, and a paid one is granted its subscription.  Whoever opened    *)
(* it, every gateway may move it, each in its own way: Payme only forward, *)
(* and a paid or void checkout never again; Click may void anything, even  *)
(* what was paid; the banks (Xazna, Uzum) also pay what is open or void.   *)
(***************************************************************************)
EXTENDS Naturals

CONSTANT Txs    \* checkouts

VARIABLES
    movers,     \* the gateways that have moved a checkout
    state,      \* "none", "open", "held", "paid" or "void"
    grants      \* number of subscriptions granted for a checkout

cvars == <<movers, state, grants>>

Banks == {"xazna", "uzum"}

Opened == {"open", "held", "paid", "void"}

\* The moves a gateway may make.
Moves(g) ==
    CASE g = "payme" -> {<<"open", "held">>, <<"held", "paid">>,
                         <<"held", "void">>}
      [] g = "click" -> {<<"open", "held">>, <<"held", "paid">>}
                            \cup Opened \X {"void"}
      [] g \in Banks -> {"open", "held"} \X {"held"}
                            \cup Opened \X {"paid", "void"}

CInit ==
    /\ movers = [t \in Txs |-> {}]
    /\ state = [t \in Txs |-> "none"]
    /\ grants = [t \in Txs |-> 0]

Open(t) ==
    /\ state[t] = "none"
    /\ state' = [state EXCEPT ![t] = "open"]
    /\ UNCHANGED <<movers, grants>>

Move(g, t) ==
    /\ \E to \in Opened : /\ <<state[t], to>> \in Moves(g)
                          /\ state' = [state EXCEPT ![t] = to]
    /\ movers' = [movers EXCEPT ![t] = @ \cup {g}]
    /\ UNCHANGED grants

\* A payment is honoured once.  Only a bank can have a checkout paid a second
\* time, which is granted again when the link of the first grant was lost.
Grant(t) ==
    /\ state[t] = "paid"
    /\ grants[t] = 0 \/ movers[t] \cap Banks # {}
    /\ grants' = [grants EXCEPT ![t] = @ + 1]
    /\ UNCHANGED <<movers, state>>

CNext ==
    \E t \in Txs : \/ Open(t) \/ Grant(t)
                   \/ \E g \in {"payme", "click"} \cup Banks : Move(g, t)

CSpec == CInit /\ [][CNext]_cvars
=============================================================================
