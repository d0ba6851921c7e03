------------------------------- MODULE Payments -------------------------------
(***************************************************************************)
(* The payment service (internal/service/payment_service.go): a checkout   *)
(* inserts a pending transaction row, the payment gateways then call the   *)
(* webhook handlers, and a completed payment creates a subscription.       *)
(*                                                                         *)
(* Every handler runs in the goroutine of its HTTP request and uses no     *)
(* database transaction and no lock: it SELECTs the row, decides on its    *)
(* in-memory copy, and UPDATEs every column of the row from that copy.     *)
(* A request is therefore a small process with a program counter and a     *)
(* copy of the row, and each database call is one step, so that requests   *)
(* interleave between any two calls.                                       *)
(***************************************************************************)
EXTENDS Naturals, FiniteSets

CONSTANTS
    Txs,        \* transaction ids (transactions.id)
    Users,      \* user ids
    ExtIds,     \* ids the gateways give their own transactions
    Subs,       \* fresh subscription ids; bounds how many can be created
    Requests,   \* handler goroutines; a singleton is one request at a time
    Methods,    \* gateways that call, a subset of PaymentMethods
    None        \* SQL NULL

PaymentMethods == {"payme", "click", "xazna", "uzum"}

ASSUME MethodsAssumption == Methods \subseteq PaymentMethods
ASSUME NoneAssumption ==
    None \notin Txs \cup Users \cup ExtIds \cup Subs \cup PaymentMethods

VARIABLES
    tx,         \* the transactions table, by id
    expired,    \* ids whose row is older than PaymeTransactionTimeout
    payment,    \* the subscriptions table: last_payment_id, None if no row
    current,    \* users.current_subscription_id, None if never subscribed
    req,        \* the requests in progress
    paid,       \* history: rows that have once been written as completed
    movers,     \* history: gateways for whose calls a row was UPDATEd
    told,       \* history: outcomes Payme and Click were given for a row
    faults      \* whether database calls fail and requests are cut; constant

vars == <<tx, expired, payment, current, req, paid, movers, told, faults>>

Statuses == {"pending", "processing", "completed", "cancelled"}

\* payment_method is left out: it is stored and listed, and no handler reads
\* it, so that a gateway's call may name the checkout of another.
Row == [user : Users \cup {None}, status : Statuses \cup {"absent"},
        ext : ExtIds \cup {None}, sub : Subs \cup {None}]

NoRow == [user |-> None, status |-> "absent", ext |-> None, sub |-> None]

Exists(t) == tx[t].status # "absent"

\* A request: where it is, the gateway that called, the row it works on, and
\* its copy of the columns that a handler may change.  activates: the handler goes on to
\* activateSubscription once its UPDATE has succeeded.
Request == [pc : {"idle", "byId", "update", "insert", "link", "user"},
            by : PaymentMethods \cup {None}, tx : Txs \cup {None},
            status : Statuses \cup {"absent"},
            ext : ExtIds \cup {None}, sub : Subs \cup {None},
            activates : BOOLEAN]

Idle == [pc |-> "idle", by |-> None, tx |-> None, status |-> "absent",
         ext |-> None, sub |-> None, activates |-> FALSE]

\* An outcome told, and to whom.  The answer to Xazna and Uzum carries none,
\* and "performed" told to Click binds nothing: Click may still cancel.
Outcomes == {<<"payme", "performed">>, <<"payme", "cancelled">>,
             <<"click", "cancelled">>}

TypeOK ==
    /\ tx \in [Txs -> Row]
    /\ expired \in SUBSET Txs
    /\ payment \in [Subs -> Txs \cup {None}]
    /\ current \in [Users -> Subs \cup {None}]
    /\ req \in [Requests -> Request]
    /\ paid \in SUBSET Txs
    /\ movers \in [Txs -> SUBSET PaymentMethods]
    /\ told \in [Txs -> SUBSET Outcomes]
    /\ faults \in BOOLEAN

Init ==
    /\ tx = [t \in Txs |-> NoRow]
    /\ expired = {}
    /\ payment = [s \in Subs |-> None]
    /\ current = [u \in Users |-> None]
    /\ req = [r \in Requests |-> Idle]
    /\ paid = {}
    /\ movers = [t \in Txs |-> {}]
    /\ told = [t \in Txs |-> {}]
    /\ faults \in BOOLEAN

-----------------------------------------------------------------------------
(* Checkout and the passing of time *)

\* The row is inserted before the checkout URL is built: an error of the
\* second leaves the row behind, so both outcomes are this one step.
InitiatePayment(t, u) ==
    /\ ~Exists(t)
    /\ tx' = [tx EXCEPT ![t] = [NoRow EXCEPT !.user = u, !.status = "pending"]]
    /\ UNCHANGED <<expired, payment, current, req, paid, movers, told, faults>>

\* The twelve hours that CreateTransaction allows have passed.
Expire(t) ==
    /\ Exists(t)
    /\ expired' = expired \cup {t}
    /\ UNCHANGED <<tx, payment, current, req, paid, movers, told, faults>>

-----------------------------------------------------------------------------
(* Steps that every handler is built from *)

\* What an answer made from this status tells the gateway.
OutcomeOf(by, status) ==
    {o \in Outcomes : /\ o[1] = by
                      /\ \/ status = "completed" /\ o[2] = "performed"
                         \/ status = "cancelled" /\ o[2] = "cancelled"}

\* The handler answers without writing anything.
Report(by, t, status) ==
    /\ told' = [told EXCEPT ![t] = @ \cup OutcomeOf(by, status)]
    /\ UNCHANGED <<tx, expired, payment, current, req, paid, movers, faults>>

\* The SELECT of the row and the decision taken on the copy; the UPDATE is
\* the next step of the request.
Decide(r, by, t, status, ext, activates) ==
    /\ req' = [req EXCEPT ![r] =
                 [pc |-> "update", by |-> by, tx |-> t, status |-> status,
                  ext |-> ext, sub |-> tx[t].sub, activates |-> activates]]
    /\ UNCHANGED <<tx, expired, payment, current, paid, movers, told, faults>>

FreeSubs == {s \in Subs : payment[s] = None}

\* Bound: a request that may create a subscription is taken only while there
\* is an unused id for it and for each request in progress.
Room == Cardinality(FreeSubs) >
            Cardinality({r \in Requests : req[r].pc # "idle"})

Ready(r) == req[r].pc = "idle"

\* external_transaction_id is UNIQUE: no other row may hold this value.
ExtFree(t, ext) == ext = None \/ \A t2 \in Txs \ {t} : tx[t2].ext # ext

\* txRepo.Update writes the whole copy, whatever the row holds by now.
Write(r, sub) ==
    LET q == req[r] IN
    /\ ExtFree(q.tx, q.ext)
    /\ tx' = [tx EXCEPT ![q.tx].status = q.status, ![q.tx].ext = q.ext,
                        ![q.tx].sub = sub]
    /\ paid' = IF q.status = "completed" THEN paid \cup {q.tx} ELSE paid
    /\ movers' = [movers EXCEPT ![q.tx] = @ \cup {q.by}]

\* The request ends and the gateway reads the outcome in the answer.
Answer(r) ==
    /\ told' = [told EXCEPT ![req[r].tx] =
                             @ \cup OutcomeOf(req[r].by, req[r].status)]
    /\ req' = [req EXCEPT ![r] = Idle]

-----------------------------------------------------------------------------
(* Payme (JSON-RPC) *)

\* The row of any gateway that has stored this external id.
FoundByExt(t, e) == tx[t].ext = e

\* CreateTransaction, first query: a known external id is answered with the
\* state of its row.  A query that fails counts as one that found nothing.
PaymeCreateTransaction(r, t, e) ==
    /\ Ready(r)
    /\ \/ \E t2 \in Txs :
             FoundByExt(t2, e) /\ Report("payme", t2, tx[t2].status)
       \/ /\ faults \/ \A t2 \in Txs : ~FoundByExt(t2, e)
          /\ Exists(t)
          /\ req' = [req EXCEPT ![r] = [Idle EXCEPT !.pc = "byId", !.by = "payme",
                                                    !.tx = t, !.ext = e]]
          /\ UNCHANGED <<tx, expired, payment, current, paid, movers, told, faults>>

\* Mutant: the second query forgets the twelve-hour limit.
PaymeCreateUnlimited(r) ==
    /\ req[r].pc = "byId"
    /\ tx[req[r].tx].status = "pending"
    /\ Decide(r, "payme", req[r].tx, "processing", req[r].ext, FALSE)

\* CreateTransaction, second query: the row must be pending and young enough.
\* A wrong amount or a refused row ends the request with an error answer.
PaymeCreateChecked(r) ==
    LET t == req[r].tx IN
    /\ req[r].pc = "byId"
    /\ \/ /\ tx[t].status = "pending"
          /\ t \notin expired
          /\ Decide(r, "payme", t, "processing", req[r].ext, FALSE)
       \/ /\ req' = [req EXCEPT ![r] = Idle]
          /\ UNCHANGED <<tx, expired, payment, current, paid, movers, told, faults>>

PaymePerformTransaction(r, t, e) ==
    /\ Ready(r)
    /\ FoundByExt(t, e)
    /\ \/ tx[t].status = "completed" /\ Report("payme", t, "completed")
       \/ /\ tx[t].status = "processing"
          /\ Room
          /\ Decide(r, "payme", t, "completed", e, TRUE)

\* Mutant: a completed row is not refused.
PaymeCancelCompleted(r, t, e) ==
    /\ Ready(r)
    /\ FoundByExt(t, e)
    /\ \/ tx[t].status = "cancelled" /\ Report("payme", t, "cancelled")
       \/ /\ tx[t].status # "cancelled"
          /\ Decide(r, "payme", t, "cancelled", e, FALSE)

PaymeCancelTransaction(r, t, e) ==
    /\ Ready(r)
    /\ FoundByExt(t, e)
    /\ \/ tx[t].status = "cancelled" /\ Report("payme", t, "cancelled")
       \/ /\ tx[t].status \notin {"cancelled", "completed"}
          /\ Decide(r, "payme", t, "cancelled", e, FALSE)

PaymeCheckTransaction(r, t, e) ==
    /\ Ready(r)
    /\ FoundByExt(t, e)
    /\ Report("payme", t, tx[t].status)

-----------------------------------------------------------------------------
(* Click: PREPARE, then COMPLETE with or without an error *)

ClickPrepare(r, t, e) ==
    /\ Ready(r)
    /\ \/ /\ tx[t].status = "pending"
          /\ Decide(r, "click", t, "processing", e, FALSE)
       \/ tx[t].status = "cancelled" /\ Report("click", t, "cancelled")

\* A COMPLETE that carries an error cancels the row whatever its status, and
\* is answered as cancelled even when the row was not found.
ClickCancels(r, t) ==
    \/ Exists(t) /\ Decide(r, "click", t, "cancelled", tx[t].ext, FALSE)
    \/ Exists(t) /\ faults /\ Report("click", t, "cancelled")

\* Mutant: COMPLETE is accepted without a PREPARE.
ClickCompleteUnprepared(r, t, error) ==
    /\ Ready(r)
    /\ \/ error /\ ClickCancels(r, t)
       \/ /\ ~error
          /\ tx[t].status \in {"pending", "processing"}
          /\ Room
          /\ Decide(r, "click", t, "completed", tx[t].ext, TRUE)

ClickComplete(r, t, error) ==
    /\ Ready(r)
    /\ \/ error /\ ClickCancels(r, t)
       \/ /\ ~error
          /\ tx[t].status \in {"completed", "cancelled"}
          /\ Report("click", t, tx[t].status)
       \/ /\ ~error
          /\ tx[t].status = "processing"
          /\ Room
          /\ Decide(r, "click", t, "completed", tx[t].ext, TRUE)

-----------------------------------------------------------------------------
(* Xazna and Uzum: one webhook that carries the status to take over *)

Events == {"created", "confirmed", "completed", "cancelled"}

\* Mutant: a cancelled payment is reopened for another attempt.
StatusAfterReopening(event, status) ==
    CASE event \in {"created", "confirmed"} -> "processing"
      [] event = "completed" -> "completed"
      [] event = "cancelled" -> "pending"

StatusAfter(event, status) ==
    CASE event = "created" /\ status = "pending" -> "processing"
      [] event = "confirmed" /\ status \in {"pending", "processing"} ->
             "processing"
      [] event = "completed" -> "completed"
      [] event = "cancelled" -> "cancelled"
      [] OTHER -> status

\* Mutant: the completed event is stored like any other.
StatusWebhookStoring(r, by, t, e, event) ==
    /\ Ready(r)
    /\ Exists(t)
    /\ Decide(r, by, t, StatusAfter(event, tx[t].status), e, FALSE)

StatusWebhook(r, by, t, e, event) ==
    LET completes == event = "completed" /\ tx[t].status # "completed" IN
    /\ Ready(r)
    /\ Exists(t)
    /\ completes => Room
    /\ Decide(r, by, t, StatusAfter(event, tx[t].status), e, completes)

XaznaWebhook(r, t, e, event) == StatusWebhook(r, "xazna", t, e, event)

UzumWebhook(r, t, e, event) == StatusWebhook(r, "uzum", t, e, event)

-----------------------------------------------------------------------------
(* The database calls of a request that has decided *)

\* A completed row without a subscription goes on to activateSubscription,
\* which looks at the request's own copy of the link.
UpdateRow(r) ==
    /\ req[r].pc = "update"
    /\ Write(r, req[r].sub)
    /\ IF req[r].activates /\ req[r].sub = None
         THEN req' = [req EXCEPT ![r].pc = "insert"] /\ UNCHANGED told
         ELSE Answer(r)
    /\ UNCHANGED <<expired, payment, current, faults>>

\* Mutant: the error of the UPDATE is ignored.
UpdateRowErrorIgnored(r) ==
    /\ req[r].pc = "update"
    /\ faults
    /\ req' = [req EXCEPT ![r].pc =
                  IF req[r].activates THEN "insert" ELSE "idle"]
    /\ UNCHANGED <<tx, expired, payment, current, paid, movers, told, faults>>

\* The UPDATE fails (UNIQUE violation, or the database is unreachable): the
\* handler answers with an error and does nothing more.  Only a COMPLETE that
\* carries an error ignores the failure and answers as cancelled.
UpdateRowFails(r) ==
    /\ req[r].pc = "update"
    /\ faults \/ ~ExtFree(req[r].tx, req[r].ext)
    /\ IF req[r].by = "click" /\ req[r].status = "cancelled"
         THEN Answer(r)
         ELSE req' = [req EXCEPT ![r] = Idle] /\ UNCHANGED told
    /\ UNCHANGED <<tx, expired, payment, current, paid, movers, faults>>

InsertSubscription(r, s) ==
    /\ req[r].pc = "insert"
    /\ payment[s] = None
    /\ payment' = [payment EXCEPT ![s] = req[r].tx]
    /\ req' = [req EXCEPT ![r].pc = "link", ![r].sub = s]
    /\ UNCHANGED <<tx, expired, current, paid, movers, told, faults>>

\* Mutant: activation goes on after a failed INSERT.
InsertErrorIgnored(r) ==
    /\ faults
    /\ req[r].pc = "insert"
    /\ \E s \in FreeSubs :
          req' = [req EXCEPT ![r].pc = "link", ![r].sub = s]
    /\ UNCHANGED <<tx, expired, payment, current, paid, movers, told, faults>>

\* activateSubscription only logs the error: the gateway is still told that
\* the payment has been performed.
InsertSubscriptionFails(r) ==
    /\ faults
    /\ req[r].pc = "insert"
    /\ Answer(r)
    /\ UNCHANGED <<tx, expired, payment, current, paid, movers, faults>>

\* Mutant: activation ends with the link.
LinkSubscriptionOnly(r) ==
    /\ req[r].pc = "link"
    /\ Write(r, req[r].sub)
    /\ Answer(r)
    /\ UNCHANGED <<expired, payment, current, faults>>

LinkSubscription(r) ==
    /\ req[r].pc = "link"
    /\ Write(r, req[r].sub)
    /\ req' = [req EXCEPT ![r].pc = "user"]
    /\ UNCHANGED <<expired, payment, current, told, faults>>

LinkSubscriptionFails(r) ==
    /\ req[r].pc = "link"
    /\ faults \/ ~ExtFree(req[r].tx, req[r].ext)
    /\ req' = [req EXCEPT ![r].pc = "user"]
    /\ UNCHANGED <<tx, expired, payment, current, paid, movers, told, faults>>

UpdateSubscriptionStatus(r) ==
    /\ req[r].pc = "user"
    /\ current' = [current EXCEPT ![tx[req[r].tx].user] = req[r].sub]
    /\ Answer(r)
    /\ UNCHANGED <<tx, expired, payment, paid, movers, faults>>

UpdateSubscriptionStatusFails(r) ==
    /\ faults
    /\ req[r].pc = "user"
    /\ Answer(r)
    /\ UNCHANGED <<tx, expired, payment, current, paid, movers, faults>>

\* The request is cut between two calls: the server stops, or the gateway
\* closes the connection and the request context is cancelled.
Abandon(r) ==
    /\ faults
    /\ req[r].pc # "idle"
    /\ req' = [req EXCEPT ![r] = Idle]
    /\ UNCHANGED <<tx, expired, payment, current, paid, movers, told, faults>>

-----------------------------------------------------------------------------

PaymeCall(r) ==
    /\ "payme" \in Methods
    /\ \E t \in Txs, e \in ExtIds :
        \/ PaymeCreateTransaction(r, t, e)
        \/ PaymePerformTransaction(r, t, e)
        \/ PaymeCancelTransaction(r, t, e)
        \/ PaymeCheckTransaction(r, t, e)

ClickCall(r) ==
    /\ "click" \in Methods
    /\ \E t \in Txs :
        \/ \E e \in ExtIds : ClickPrepare(r, t, e)
        \/ \E error \in BOOLEAN : ClickComplete(r, t, error)

WebhookCall(r) ==
    \E t \in Txs, e \in ExtIds, event \in Events :
        \/ "xazna" \in Methods /\ XaznaWebhook(r, t, e, event)
        \/ "uzum" \in Methods /\ UzumWebhook(r, t, e, event)

\* The remaining database calls of a request already taken.
Continue(r) ==
    \/ PaymeCreateChecked(r)
    \/ UpdateRow(r) \/ UpdateRowFails(r)
    \/ \E s \in Subs : InsertSubscription(r, s)
    \/ InsertSubscriptionFails(r)
    \/ LinkSubscription(r) \/ LinkSubscriptionFails(r)
    \/ UpdateSubscriptionStatus(r) \/ UpdateSubscriptionStatusFails(r)
    \/ Abandon(r)

Next ==
    \/ \E t \in Txs : (\E u \in Users : InitiatePayment(t, u)) \/ Expire(t)
    \/ \E r \in Requests :
          PaymeCall(r) \/ ClickCall(r) \/ WebhookCall(r) \/ Continue(r)

Spec == Init /\ [][Next]_vars

\* A goroutine that has been started is scheduled again: its next database
\* call returns, with a result or with an error.
FairSpec == Spec /\ \A r \in Requests : WF_vars(Continue(r))

-----------------------------------------------------------------------------
(* Properties *)

Granted(t) == {s \in Subs : payment[s] = t}

\* A subscription exists only for a payment whose completion had been stored
\* first: no failure of the UPDATE, and no other request, lets
\* activateSubscription run for a payment that was never recorded as paid.
GrantedOnlyIfPaid == \A t \in Txs : Granted(t) # {} => t \in paid

\* The three copies of "this payment bought this subscription" agree: the row
\* of a transaction links only a subscription it paid for, and a user's
\* current subscription was paid for by a transaction of that same user.
LinksConsistent ==
    /\ \A t \in Txs : tx[t].sub # None => payment[tx[t].sub] = t
    /\ \A u \in Users : current[u] # None =>
          /\ payment[current[u]] # None
          /\ tx[payment[current[u]]].user = u

\* A row that has left the pending state never becomes pending again, so the
\* gateway cannot open the same checkout twice: holds although every write is
\* a full-row write from a possibly stale copy.
NeverPendingAgain ==
    [][\A t \in Txs : tx[t].status \notin {"absent", "pending"} =>
                          tx'[t].status # "pending"]_vars

\* One payment buys one subscription, whatever is retried, cut or failing
\* (activateSubscription: "Already has a subscription linked, skip").
OneSubscriptionPerPayment == \A t \in Txs : Cardinality(Granted(t)) <= 1

\* What Payme was told stays true as long as no other gateway's call reached
\* the row: performed is completed for good.  "Cancelled" lasts through Click's
\* calls too, and is also true when told to Click, unless its UPDATE failed.
AnswersStand ==
    \A t \in Txs :
        /\ <<"payme", "performed">> \in told[t] /\ movers[t] \subseteq {"payme"} =>
               tx[t].status = "completed"
        /\ /\ \/ <<"payme", "cancelled">> \in told[t]
              \/ <<"click", "cancelled">> \in told[t] /\ ~faults
           /\ movers[t] \subseteq {"payme", "click"}
           => tx[t].status = "cancelled"

\* A checkout nobody started to pay within twelve hours is dead to Payme: an
\* expired pending row that no request has decided about stays so, however
\* often Payme calls CreateTransaction.  Only a call of another gateway, none
\* of which looks at the age of the row, takes it further.
Dead(t) ==
    /\ tx[t].status = "pending" /\ t \in expired
    /\ \A r \in Requests : req[r].tx = t => req[r].pc = "byId"

PaymeExpiryFinal ==
    [][\A t \in Txs :
          Dead(t) /\ (\A r \in Requests : req'[r].tx = t => req'[r].by = "payme")
          => Dead(t)']_vars

\* When no request is in progress and no call has failed, whoever completed a
\* payment has a current subscription: no interleaving of activations loses
\* the user's entitlement.
EntitledWhenQuiet ==
    ~faults /\ (\A r \in Requests : req[r].pc = "idle") =>
        \A t \in paid : current[tx[t].user] # None

\* How the service implements the contract of PaymentContract, as long as
\* requests follow one another: a checkout moves between open, held, paid and
\* void only as the gateway that calls may move it, and is granted its
\* subscription while it is paid, once unless a bank's webhook moved it.
StateOf(status) ==
    CASE status = "absent"     -> "none"
      [] status = "pending"    -> "open"
      [] status = "processing" -> "held"
      [] status = "completed"  -> "paid"
      [] status = "cancelled"  -> "void"

Contract == INSTANCE PaymentContract WITH
    state <- [t \in Txs |-> StateOf(tx[t].status)],
    grants <- [t \in Txs |-> Cardinality(Granted(t))]

ImplementsContract == Contract!CSpec

\* Unless a call fails, a completed payment eventually has its subscription
\* ("activateSubscription creates a subscription after successful payment").
PaidIsHonoured ==
    \A t \in Txs : (~faults /\ t \in paid) ~> (Granted(t) # {})
=============================================================================
