---------------------------- MODULE PaymentsProofs ----------------------------
(***************************************************************************)
(* Theorems about Payments, for every number of transactions, users,       *)
(* requests and subscriptions, with or without faults.                     *)
(*                                                                         *)
(* The properties are not inductive by themselves: what a request writes   *)
(* comes from its copy, so the invariant must say what a copy may contain  *)
(* at each program counter (RequestOK), and that rows, payments and        *)
(* history agree (RowsOK).                                                 *)
(***************************************************************************)
EXTENDS Payments, FiniteSetTheorems, TLAPS

\* A row exists as a whole: with a status it has an owner, and without one no
\* id and no link.
RowsOK ==
    /\ \A t \in Txs : tx[t].status = "absent" =>
          tx[t].ext = None /\ tx[t].sub = None
    /\ \A t \in Txs : tx[t].status # "absent" => tx[t].user \in Users
    /\ \A t \in paid : tx[t].status # "absent"

\* A request at work has a gateway and a row; once it has decided it never writes the
\* pending status; once its completing UPDATE has been done the row is in the
\* history, and the subscription it carries was paid for by its own row.
RequestOK(q) ==
    /\ q.pc # "idle" =>
          q.by \in PaymentMethods /\ q.tx \in Txs /\ tx[q.tx].status # "absent"
    /\ q.pc \in {"update", "insert", "link", "user"} =>
          /\ q.status \in {"processing", "completed", "cancelled"}
          /\ q.sub # None => payment[q.sub] = q.tx
    /\ q.pc = "update" /\ q.activates => q.status = "completed"
    /\ q.pc \in {"insert", "link", "user"} =>
          q.status = "completed" /\ q.tx \in paid
    /\ q.pc \in {"link", "user"} => q.sub \in Subs

IInv ==
    /\ TypeOK
    /\ RowsOK
    /\ \A r \in Requests : RequestOK(req[r])
    /\ GrantedOnlyIfPaid
    /\ LinksConsistent

-----------------------------------------------------------------------------
(* Steps that touch only the history of answers or the request itself. *)

\* An answer tells the outcomes it may tell, and of these at most the one of
\* its status.
LEMMA OutcomeType ==
    ASSUME NEW by, NEW st
    PROVE  /\ OutcomeOf(by, st) \in SUBSET Outcomes
           /\ \A g, o : <<g, o>> \in OutcomeOf(by, st) =>
                 /\ g = by
                 /\ o = "performed" => st = "completed"
                 /\ o = "cancelled" => st = "cancelled"
  BY DEF OutcomeOf

\* Answering without a write (Report) keeps the invariant.
LEMMA ReportStep ==
    ASSUME IInv, NEW by, NEW t \in Txs, NEW st, Report(by, t, st)
    PROVE  IInv'
  <1>2. told' \in [Txs -> SUBSET Outcomes]
    BY OutcomeType DEF Report, IInv, TypeOK
  <1>3. UNCHANGED <<tx, expired, payment, current, req, paid, movers, faults>>
    BY DEF Report
  <1> QED
    BY <1>2, <1>3 DEF IInv, TypeOK, RowsOK, RequestOK, GrantedOnlyIfPaid,
                      Granted, LinksConsistent

\* Only the table of requests changes, and the new request is well formed.
LEMMA RequestStep ==
    ASSUME IInv, NEW r \in Requests, NEW q \in Request, RequestOK(q),
           req' = [req EXCEPT ![r] = q],
           UNCHANGED <<tx, expired, payment, current, paid, movers, faults>>,
           told' \in [Txs -> SUBSET Outcomes]
    PROVE  IInv'
  <1>1. TypeOK'
    BY DEF IInv, TypeOK
  <1>2. \A r2 \in Requests : RequestOK(req'[r2])
    BY DEF IInv, TypeOK
  <1>3. (\A r2 \in Requests : RequestOK(req[r2]))'
    BY <1>2 DEF RequestOK
  <1> QED
    BY <1>1, <1>3 DEF IInv, RowsOK, GrantedOnlyIfPaid, Granted, LinksConsistent

\* The request ends without an answer.
LEMMA IdleStep ==
    ASSUME IInv, NEW r \in Requests, req' = [req EXCEPT ![r] = Idle],
           UNCHANGED <<tx, expired, payment, current, paid, movers, faults>>,
           told' \in [Txs -> SUBSET Outcomes]
    PROVE  IInv'
  <1>1. Idle \in Request
    BY DEF Idle, Request
  <1>2. RequestOK(Idle)
    BY DEF Idle, RequestOK
  <1> QED
    BY <1>1, <1>2, RequestStep

\* The SELECT and decision of a handler keep the invariant when the row
\* exists and the status decided on is not pending.
LEMMA DecideStep ==
    ASSUME IInv, NEW r \in Requests, NEW by \in PaymentMethods,
           NEW t \in Txs, tx[t].status # "absent",
           NEW st \in {"processing", "completed", "cancelled"},
           NEW ext \in ExtIds \cup {None}, NEW activates \in BOOLEAN,
           activates => st = "completed",
           Decide(r, by, t, st, ext, activates)
    PROVE  IInv'
  <1> DEFINE q == [pc |-> "update", by |-> by, tx |-> t, status |-> st,
                   ext |-> ext, sub |-> tx[t].sub, activates |-> activates]
  <1>1. q \in Request
    BY DEF Request, Statuses, IInv, TypeOK, Row
  <1>2. tx[t].sub # None => payment[tx[t].sub] = t
    BY DEF IInv, LinksConsistent
  <1>3. RequestOK(q)
    BY <1>2 DEF RequestOK
  <1>4. /\ req' = [req EXCEPT ![r] = q]
        /\ UNCHANGED <<tx, expired, payment, current, paid, movers, told, faults>>
    BY DEF Decide
  <1>5. told' \in [Txs -> SUBSET Outcomes]
    BY <1>4 DEF IInv, TypeOK
  <1> HIDE DEF q
  <1> QED
    BY <1>1, <1>3, <1>4, <1>5, RequestStep

\* A row that has stored an id exists.
LEMMA FoundExists ==
    ASSUME IInv, NEW t \in Txs, NEW e \in ExtIds, FoundByExt(t, e)
    PROVE  tx[t].status # "absent"
  BY NoneAssumption DEF IInv, RowsOK, FoundByExt

-----------------------------------------------------------------------------
(* Steps that write the database. *)

\* A checkout writes a row that nothing refers to yet.
LEMMA InitiateStep ==
    ASSUME IInv, NEW t \in Txs, NEW u \in Users, InitiatePayment(t, u)
    PROVE  IInv'
  <1> DEFINE row == [NoRow EXCEPT !.user = u, !.status = "pending"]
  <1>1. tx' = [tx EXCEPT ![t] = row] /\ tx[t].status = "absent"
    BY DEF InitiatePayment, Exists
  <1>2. UNCHANGED <<expired, payment, current, req, paid, movers, told, faults>>
    BY DEF InitiatePayment
  <1>3. row \in Row /\ row.status # "absent" /\ row.user = u /\ row.sub = None
    BY DEF NoRow, Row, Statuses
  <1>4. t \notin paid
    BY <1>1 DEF IInv, RowsOK
  <1> HIDE DEF row
  <1>5. TypeOK'
    BY <1>1, <1>2, <1>3 DEF IInv, TypeOK
  <1>6. RowsOK'
    BY <1>1, <1>2, <1>3 DEF IInv, TypeOK, RowsOK
  <1>7. (\A r \in Requests : RequestOK(req[r]))'
    BY <1>1, <1>2, <1>3 DEF IInv, TypeOK, RequestOK
  <1>8. GrantedOnlyIfPaid'
    BY <1>2 DEF IInv, GrantedOnlyIfPaid, Granted
  <1>9. (\A t2 \in Txs : tx[t2].sub # None => payment[tx[t2].sub] = t2)'
    BY <1>1, <1>2, <1>3 DEF IInv, TypeOK, LinksConsistent
  <1>10. \A v \in Users : current[v] # None => payment[current[v]] \in paid
    BY NoneAssumption DEF IInv, TypeOK, LinksConsistent, GrantedOnlyIfPaid, Granted
  <1>11. \A v \in Users : current[v] # None => payment[current[v]] # t
    BY <1>4, <1>10
  <1>12. LinksConsistent'
    BY <1>1, <1>2, <1>9, <1>11 DEF IInv, TypeOK, LinksConsistent
  <1> QED
    BY <1>5, <1>6, <1>7, <1>8, <1>12 DEF IInv

\* Time passing changes nothing the invariant speaks of.
LEMMA ExpireStep ==
    ASSUME IInv, NEW t \in Txs, Expire(t)
    PROVE  IInv'
  BY DEF Expire, IInv, TypeOK, RowsOK, RequestOK, GrantedOnlyIfPaid, Granted,
         LinksConsistent

\* The UPDATE of a row from a request's copy, the next state of the request
\* being q: only the three columns of the copy change, the subscription
\* written was paid for by this row, and the history follows the status.
LEMMA WriteStep ==
    ASSUME IInv, NEW r \in Requests, req[r].pc \in {"update", "link"},
           Write(r, req[r].sub),
           NEW q \in Request, req' = [req EXCEPT ![r] = q],
           q = Idle \/ (/\ q.tx = req[r].tx /\ q.by = req[r].by /\ q.status = "completed"
                        /\ q.status = req[r].status /\ q.sub = req[r].sub
                        /\ \/ q.pc = "insert"
                           \/ q.pc = "user" /\ q.sub \in Subs),
           UNCHANGED <<expired, payment, current, faults>>,
           told' \in [Txs -> SUBSET Outcomes]
    PROVE  IInv'
  <1> DEFINE t == req[r].tx
             row == [tx[t] EXCEPT !.status = req[r].status,
                                  !.ext = req[r].ext, !.sub = req[r].sub]
  <1>1. /\ t \in Txs
        /\ tx[t].status # "absent"
        /\ req[r].status \in {"processing", "completed", "cancelled"}
        /\ req[r].sub # None => payment[req[r].sub] = t
        /\ req[r] \in Request
        /\ req[r].by \in PaymentMethods
    BY DEF IInv, TypeOK, RequestOK
  <1>2. tx[t] \in Row
    BY <1>1 DEF IInv, TypeOK
  <1>3. tx' = [tx EXCEPT ![t] = row]
    BY <1>1, <1>2 DEF Write, IInv, TypeOK, Row
  <1>4. /\ row \in Row
        /\ row.status = req[r].status
        /\ row.sub = req[r].sub
        /\ row.user = tx[t].user
    BY <1>1, <1>2 DEF Row, Request, Statuses
  <1>5. /\ paid \subseteq paid'
        /\ paid' \subseteq paid \cup {t}
        /\ req[r].status = "completed" => t \in paid'
        /\ movers' = [movers EXCEPT ![t] = @ \cup {req[r].by}]
    BY DEF Write
  <1> HIDE DEF row, t
  <1>6. TypeOK'
    BY <1>1, <1>3, <1>4, <1>5 DEF IInv, TypeOK
  <1>7. RowsOK'
    BY <1>1, <1>3, <1>4, <1>5 DEF IInv, TypeOK, RowsOK
  <1>8. (\A r2 \in Requests : RequestOK(req[r2]))'
    <2>1. ASSUME NEW r2 \in Requests, r2 # r
          PROVE  RequestOK(req[r2])'
      BY <1>1, <1>3, <1>4, <1>5, <2>1 DEF IInv, TypeOK, RequestOK
    <2>2. req'[r] = q
      BY DEF IInv, TypeOK
    <2>3. RequestOK(q)'
      <3>1. CASE q = Idle
        BY <3>1 DEF RequestOK, Idle
      <3>2. CASE q # Idle
        BY <3>2, <1>1, <1>3, <1>4, <1>5 DEF IInv, TypeOK, RequestOK, t
      <3> QED
        BY <3>1, <3>2
    <2>4. RequestOK(req[r])'
      BY <2>2, <2>3 DEF RequestOK
    <2> QED
      BY <2>1, <2>4
  <1>9. GrantedOnlyIfPaid'
    BY <1>5 DEF IInv, GrantedOnlyIfPaid, Granted
  <1>10. LinksConsistent'
    BY <1>1, <1>3, <1>4 DEF IInv, TypeOK, LinksConsistent
  <1> QED
    BY <1>6, <1>7, <1>8, <1>9, <1>10 DEF IInv

\* The INSERT of a subscription: a fresh id, paid for by a row in the history.
LEMMA InsertStep ==
    ASSUME IInv, NEW r \in Requests, NEW s \in Subs, InsertSubscription(r, s)
    PROVE  IInv'
  <1> DEFINE t == req[r].tx
             q == [req[r] EXCEPT !.pc = "link", !.sub = s]
  <1>1. /\ t \in Txs
        /\ t \in paid
        /\ tx[t].status # "absent"
        /\ req[r].status = "completed"
        /\ req[r] \in Request
    BY DEF InsertSubscription, IInv, TypeOK, RequestOK
  <1>2. /\ payment[s] = None
        /\ payment' = [payment EXCEPT ![s] = t]
        /\ req' = [req EXCEPT ![r] = q]
        /\ UNCHANGED <<tx, expired, current, paid, movers, told, faults>>
    BY <1>1 DEF InsertSubscription, IInv, TypeOK, Request
  <1>3. /\ q \in Request
        /\ q.pc = "link"
        /\ q.tx = t
        /\ q.by = req[r].by
        /\ q.status = "completed"
        /\ q.sub = s
    BY <1>1 DEF Request
  <1>4. t # None
    BY <1>1, NoneAssumption
  <1> HIDE DEF q
  <1>5. TypeOK'
    BY <1>1, <1>2, <1>3 DEF IInv, TypeOK
  <1>6. RowsOK'
    BY <1>2 DEF IInv, RowsOK
  <1>7. (\A r2 \in Requests : RequestOK(req[r2]))'
    <2>1. ASSUME NEW r2 \in Requests, r2 # r
          PROVE  RequestOK(req[r2])'
      <3>1. req'[r2] = req[r2] /\ req[r2] \in Request /\ RequestOK(req[r2])
        BY <1>2, <2>1 DEF IInv, TypeOK
      <3>2. req[r2].pc # "idle" => req[r2].tx \in Txs
        BY <3>1 DEF RequestOK
      <3>3. payment[req[r2].sub] = req[r2].tx /\ req[r2].tx \in Txs
               => req[r2].sub # s
        BY <1>2, NoneAssumption
      <3> QED
        BY <1>2, <3>1, <3>2, <3>3, NoneAssumption DEF RequestOK, Request, IInv, TypeOK
    <2>2. RequestOK(req[r])'
      <3>1. req'[r] = q /\ payment'[s] = t /\ q.by \in PaymentMethods
        BY <1>1, <1>2, <1>3 DEF IInv, TypeOK, RequestOK, InsertSubscription
      <3> QED
        BY <1>1, <1>2, <1>3, <3>1 DEF RequestOK
    <2> QED
      BY <2>1, <2>2
  <1>8. GrantedOnlyIfPaid'
    BY <1>1, <1>2 DEF IInv, TypeOK, GrantedOnlyIfPaid, Granted
  <1>9. LinksConsistent'
    <2>1. \A t2 \in Txs : tx[t2].sub # None => tx[t2].sub \in Subs \ {s}
      BY <1>2, NoneAssumption DEF IInv, TypeOK, Row, LinksConsistent
    <2>2. \A u \in Users : current[u] # None => current[u] \in Subs \ {s}
      BY <1>2 DEF IInv, TypeOK, LinksConsistent
    <2> QED
      BY <1>2, <2>1, <2>2 DEF IInv, TypeOK, LinksConsistent
  <1> QED
    BY <1>5, <1>6, <1>7, <1>8, <1>9 DEF IInv

\* The user row takes over the subscription of the request, which its own
\* transaction paid for.
LEMMA UserStep ==
    ASSUME IInv, NEW r \in Requests, UpdateSubscriptionStatus(r),
           told' \in [Txs -> SUBSET Outcomes]
    PROVE  IInv'
  <1> DEFINE t == req[r].tx
             s == req[r].sub
  <1>1. /\ t \in Txs
        /\ tx[t].user \in Users
        /\ s \in Subs
        /\ payment[s] = t
    BY NoneAssumption
    DEF UpdateSubscriptionStatus, IInv, TypeOK, RequestOK, RowsOK
  <1>2. /\ current' = [current EXCEPT ![tx[t].user] = s]
        /\ req' = [req EXCEPT ![r] = Idle]
        /\ UNCHANGED <<tx, expired, payment, paid, movers, faults>>
    BY DEF UpdateSubscriptionStatus, Answer
  <1>3. Idle \in Request /\ RequestOK(Idle)
    BY DEF Idle, Request, RequestOK
  <1>4. TypeOK'
    BY <1>1, <1>2, <1>3 DEF IInv, TypeOK
  <1>5. \A r2 \in Requests : RequestOK(req'[r2])
    BY <1>2, <1>3 DEF IInv, TypeOK
  <1>6. (\A r2 \in Requests : RequestOK(req[r2]))'
    BY <1>2, <1>5 DEF RequestOK
  <1>7. LinksConsistent'
    BY <1>1, <1>2, NoneAssumption DEF IInv, TypeOK, LinksConsistent
  <1> QED
    BY <1>2, <1>4, <1>6, <1>7 DEF IInv, RowsOK, GrantedOnlyIfPaid, Granted

\* An answer gives the gateway a legal outcome and ends the request.
LEMMA AnswerType ==
    ASSUME IInv, NEW r \in Requests, Answer(r)
    PROVE  /\ told' \in [Txs -> SUBSET Outcomes]
           /\ req' = [req EXCEPT ![r] = Idle]
  <1>1. OutcomeOf(req[r].by, req[r].status) \in SUBSET Outcomes
    BY OutcomeType
  <1> QED
    BY <1>1 DEF Answer, IInv, TypeOK

-----------------------------------------------------------------------------
(* One lemma per group of handlers, then the remaining calls of a request. *)

LEMMA PaymeStep ==
    ASSUME IInv, NEW r \in Requests, PaymeCall(r)
    PROVE  IInv'
  <1> PICK t \in Txs, e \in ExtIds :
             \/ PaymeCreateTransaction(r, t, e)
             \/ PaymePerformTransaction(r, t, e)
             \/ PaymeCancelTransaction(r, t, e)
             \/ PaymeCheckTransaction(r, t, e)
    BY DEF PaymeCall
  <1>1. CASE PaymeCreateTransaction(r, t, e)
    <2> DEFINE q == [Idle EXCEPT !.pc = "byId", !.by = "payme", !.tx = t,
                                 !.ext = e]
    <2>1. CASE \E t2 \in Txs :
                  FoundByExt(t2, e) /\ Report("payme", t2, tx[t2].status)
      BY <2>1, ReportStep
    <2>2. CASE /\ Exists(t)
               /\ req' = [req EXCEPT ![r] = q]
               /\ UNCHANGED <<tx, expired, payment, current, paid, movers>>
               /\ UNCHANGED <<told, faults>>
      <3>1. q \in Request /\ q.tx = t /\ q.pc = "byId" /\ q.by \in PaymentMethods
        BY DEF Idle, Request, PaymentMethods
      <3>2. tx[t].status # "absent"
        BY <2>2 DEF Exists
      <3>3. RequestOK(q)
        BY <3>1, <3>2 DEF RequestOK
      <3>4. told' \in [Txs -> SUBSET Outcomes]
        BY <2>2 DEF IInv, TypeOK
      <3> HIDE DEF q
      <3> QED
        BY <2>2, <3>1, <3>3, <3>4, RequestStep
    <2> QED
      BY <1>1, <2>1, <2>2 DEF PaymeCreateTransaction
  <1>2. CASE PaymePerformTransaction(r, t, e)
    <2>1. CASE Report("payme", t, "completed")
      BY <2>1, ReportStep
    <2>2. CASE /\ tx[t].status = "processing"
               /\ Decide(r, "payme", t, "completed", e, TRUE)
      BY <2>2, DecideStep DEF PaymentMethods
    <2> QED
      BY <1>2, <2>1, <2>2 DEF PaymePerformTransaction
  <1>3. CASE PaymeCancelTransaction(r, t, e)
    <2>1. CASE Report("payme", t, "cancelled")
      BY <2>1, ReportStep
    <2>2. CASE Decide(r, "payme", t, "cancelled", e, FALSE)
      <3>1. tx[t].status # "absent"
        BY <1>3, FoundExists DEF PaymeCancelTransaction
      <3> QED
        BY <2>2, <3>1, DecideStep DEF PaymentMethods
    <2> QED
      BY <1>3, <2>1, <2>2 DEF PaymeCancelTransaction
  <1>4. CASE PaymeCheckTransaction(r, t, e)
    BY <1>4, ReportStep DEF PaymeCheckTransaction
  <1> QED
    BY <1>1, <1>2, <1>3, <1>4

LEMMA ClickStep ==
    ASSUME IInv, NEW r \in Requests, ClickCall(r)
    PROVE  IInv'
  <1>1. ASSUME NEW t \in Txs, NEW e \in ExtIds, ClickPrepare(r, t, e)
        PROVE  IInv'
    <2>1. CASE Report("click", t, "cancelled")
      BY <2>1, ReportStep
    <2>2. CASE /\ tx[t].status = "pending"
               /\ Decide(r, "click", t, "processing", e, FALSE)
      BY <2>2, DecideStep DEF PaymentMethods
    <2> QED
      BY <1>1, <2>1, <2>2 DEF ClickPrepare
  <1>2. ASSUME NEW t \in Txs, NEW error \in BOOLEAN, ClickComplete(r, t, error)
        PROVE  IInv'
    <2>1. tx[t].ext \in ExtIds \cup {None}
      BY DEF IInv, TypeOK, Row
    <2>2. CASE Report("click", t, "cancelled") \/ Report("click", t, tx[t].status)
      BY <2>2, ReportStep
    <2>3. CASE /\ tx[t].status # "absent"
               /\ Decide(r, "click", t, "cancelled", tx[t].ext, FALSE)
      BY <2>1, <2>3, DecideStep DEF PaymentMethods
    <2>4. CASE /\ tx[t].status = "processing"
               /\ Decide(r, "click", t, "completed", tx[t].ext, TRUE)
      BY <2>1, <2>4, DecideStep DEF PaymentMethods
    <2> QED
      BY <1>2, <2>2, <2>3, <2>4 DEF ClickComplete, ClickCancels, Exists
  <1> QED
    BY <1>1, <1>2 DEF ClickCall

\* Whatever the event and the row, the status taken over is not pending.
LEMMA StatusAfterType ==
    ASSUME NEW event \in Events, NEW st \in Statuses
    PROVE  /\ StatusAfter(event, st) \in {"processing", "completed", "cancelled"}
           /\ event = "completed" => StatusAfter(event, st) = "completed"
  BY DEF StatusAfter, Events, Statuses

LEMMA WebhookStep ==
    ASSUME IInv, NEW r \in Requests, WebhookCall(r)
    PROVE  IInv'
  <1> PICK t \in Txs, e \in ExtIds, event \in Events :
             XaznaWebhook(r, t, e, event) \/ UzumWebhook(r, t, e, event)
    BY DEF WebhookCall
  <1>1. PICK by \in PaymentMethods : StatusWebhook(r, by, t, e, event)
    BY DEF XaznaWebhook, UzumWebhook, PaymentMethods
  <1>2. tx[t].status # "absent"
    BY <1>1 DEF StatusWebhook, Exists
  <1>3. tx[t].status \in Statuses
    BY <1>2 DEF IInv, TypeOK, Row
  <1> DEFINE st == StatusAfter(event, tx[t].status)
             completes == event = "completed" /\ tx[t].status # "completed"
  <1>4. /\ st \in {"processing", "completed", "cancelled"}
        /\ completes => st = "completed"
    BY <1>3, StatusAfterType
  <1>5. Decide(r, by, t, st, e, completes)
    BY <1>1 DEF StatusWebhook
  <1>6. completes \in BOOLEAN
    OBVIOUS
  <1> HIDE DEF st, completes
  <1> QED
    BY <1>2, <1>4, <1>5, <1>6, DecideStep

\* PaymeCreateChecked: a request that waits for its second query has a row.
LEMMA CreateCheckedStep ==
    ASSUME IInv, NEW r \in Requests, PaymeCreateChecked(r)
    PROVE  IInv'
  <1> DEFINE t == req[r].tx
  <1>1. /\ t \in Txs
        /\ tx[t].status # "absent"
        /\ req[r].ext \in ExtIds \cup {None}
    BY DEF PaymeCreateChecked, IInv, TypeOK, RequestOK, Request
  <1>2. CASE Decide(r, "payme", t, "processing", req[r].ext, FALSE)
    BY <1>1, <1>2, DecideStep DEF PaymentMethods
  <1>3. CASE /\ req' = [req EXCEPT ![r] = Idle]
             /\ UNCHANGED <<tx, expired, payment, current, paid, movers, told, faults>>
    BY <1>3, IdleStep DEF IInv, TypeOK
  <1> QED
    BY <1>2, <1>3 DEF PaymeCreateChecked

LEMMA UpdateRowStep ==
    ASSUME IInv, NEW r \in Requests, UpdateRow(r)
    PROVE  IInv'
  <1>1. /\ req[r].pc = "update"
        /\ Write(r, req[r].sub)
        /\ UNCHANGED <<expired, payment, current, faults>>
    BY DEF UpdateRow
  <1>2. CASE Answer(r)
    <2>1. Idle \in Request
      BY DEF Idle, Request
    <2> QED
      BY <1>1, <1>2, <2>1, AnswerType, WriteStep
  <1>3. CASE /\ req[r].activates
             /\ req' = [req EXCEPT ![r].pc = "insert"]
             /\ UNCHANGED told
    <2> DEFINE q == [req[r] EXCEPT !.pc = "insert"]
    <2>1. req[r] \in Request /\ req[r].status = "completed"
      BY <1>1, <1>3 DEF IInv, TypeOK, RequestOK
    <2>2. /\ q \in Request
          /\ q.pc = "insert"
          /\ q.tx = req[r].tx
          /\ q.by = req[r].by
          /\ q.status = req[r].status
          /\ q.sub = req[r].sub
      BY <2>1 DEF Request
    <2>3. req' = [req EXCEPT ![r] = q] /\ told' \in [Txs -> SUBSET Outcomes]
      BY <1>3 DEF IInv, TypeOK
    <2> HIDE DEF q
    <2> QED
      BY <1>1, <2>1, <2>2, <2>3, WriteStep
  <1> QED
    BY <1>2, <1>3 DEF UpdateRow

LEMMA LinkStep ==
    ASSUME IInv, NEW r \in Requests,
           LinkSubscription(r) \/ LinkSubscriptionFails(r)
    PROVE  IInv'
  <1> DEFINE q == [req[r] EXCEPT !.pc = "user"]
  <1>1. /\ req[r].pc = "link"
        /\ req[r] \in Request
        /\ RequestOK(req[r])
    BY DEF LinkSubscription, LinkSubscriptionFails, IInv, TypeOK
  <1>2. /\ q \in Request
        /\ q.pc = "user"
        /\ q.tx = req[r].tx
        /\ q.by = req[r].by
        /\ q.status = req[r].status
        /\ q.sub = req[r].sub
    BY <1>1 DEF Request
  <1>3. /\ req' = [req EXCEPT ![r] = q]
        /\ UNCHANGED <<expired, payment, current, told, faults>>
    BY DEF LinkSubscription, LinkSubscriptionFails
  <1>4. told' \in [Txs -> SUBSET Outcomes]
    BY <1>3 DEF IInv, TypeOK
  <1>5. q.status = "completed" /\ q.sub \in Subs
    BY <1>1, <1>2 DEF RequestOK
  <1> HIDE DEF q
  <1>6. CASE LinkSubscription(r)
    BY <1>1, <1>2, <1>3, <1>4, <1>5, <1>6, WriteStep DEF LinkSubscription
  <1>7. CASE LinkSubscriptionFails(r)
    <2>1. RequestOK(q)
      BY <1>1, <1>2 DEF RequestOK
    <2>2. UNCHANGED <<tx, paid, movers, faults>>
      BY <1>7 DEF LinkSubscriptionFails
    <2> QED
      BY <1>2, <1>3, <1>4, <2>1, <2>2, RequestStep
  <1> QED
    BY <1>6, <1>7

LEMMA ContinueStep ==
    ASSUME IInv, NEW r \in Requests, Continue(r)
    PROVE  IInv'
  <1>1. CASE PaymeCreateChecked(r)
    BY <1>1, CreateCheckedStep
  <1>2. CASE UpdateRow(r)
    BY <1>2, UpdateRowStep
  <1>3. CASE UpdateRowFails(r) \/ Abandon(r)
    <2>1. /\ req' = [req EXCEPT ![r] = Idle]
          /\ UNCHANGED <<tx, expired, payment, current, paid, movers, faults>>
      BY <1>3 DEF UpdateRowFails, Abandon, Answer
    <2>2. Answer(r) \/ UNCHANGED told
      BY <1>3 DEF UpdateRowFails, Abandon
    <2>3. told' \in [Txs -> SUBSET Outcomes]
      BY <2>2, AnswerType DEF IInv, TypeOK
    <2> QED
      BY <2>1, <2>3, IdleStep
  <1>4. CASE \E s \in Subs : InsertSubscription(r, s)
    BY <1>4, InsertStep
  <1>5. CASE InsertSubscriptionFails(r) \/ UpdateSubscriptionStatusFails(r)
    BY <1>5, AnswerType, IdleStep
    DEF InsertSubscriptionFails, UpdateSubscriptionStatusFails
  <1>6. CASE LinkSubscription(r) \/ LinkSubscriptionFails(r)
    BY <1>6, LinkStep
  <1>7. CASE UpdateSubscriptionStatus(r)
    <2>1. told' \in [Txs -> SUBSET Outcomes]
      BY <1>7, AnswerType DEF UpdateSubscriptionStatus
    <2> QED
      BY <1>7, <2>1, UserStep
  <1> QED
    BY <1>1, <1>2, <1>3, <1>4, <1>5, <1>6, <1>7 DEF Continue

-----------------------------------------------------------------------------

LEMMA InitIInv == Init => IInv
  <1> SUFFICES ASSUME Init PROVE IInv
    OBVIOUS
  <1>1. NoRow \in Row /\ Idle \in Request
    BY DEF NoRow, Row, Idle, Request
  <1>2. TypeOK
    BY <1>1 DEF Init, TypeOK
  <1>3. \A r \in Requests : RequestOK(req[r])
    BY DEF Init, RequestOK, Idle
  <1> QED
    BY <1>2, <1>3, NoneAssumption
    DEF Init, IInv, RowsOK, NoRow, GrantedOnlyIfPaid, Granted, LinksConsistent

LEMMA NextIInv == IInv /\ [Next]_vars => IInv'
  <1> SUFFICES ASSUME IInv, [Next]_vars PROVE IInv'
    OBVIOUS
  <1>1. CASE \E t \in Txs : (\E u \in Users : InitiatePayment(t, u)) \/ Expire(t)
    BY <1>1, InitiateStep, ExpireStep
  <1>2. CASE \E r \in Requests :
                PaymeCall(r) \/ ClickCall(r) \/ WebhookCall(r) \/ Continue(r)
    BY <1>2, PaymeStep, ClickStep, WebhookStep, ContinueStep
  <1>3. CASE UNCHANGED vars
    BY <1>3 DEF vars, IInv, TypeOK, RowsOK, RequestOK, GrantedOnlyIfPaid,
                Granted, LinksConsistent
  <1> QED
    BY <1>1, <1>2, <1>3 DEF Next

\* The invariant holds in every reachable state of every interleaving of the
\* webhook handlers.
LEMMA Invariance == Spec => []IInv
  BY InitIInv, NextIInv, PTL DEF Spec

\* Type correctness: in particular no row is ever written as failed or
\* refunded, the two statuses of the table that no handler produces.
THEOREM TypeCorrect == Spec => []TypeOK
  <1>1. IInv => TypeOK
    BY DEF IInv
  <1> QED
    BY <1>1, Invariance, PTL

\* Under any interleaving of any number of requests, with calls failing and
\* requests cut anywhere, no subscription exists whose payment was not stored
\* as completed first.
THEOREM NoUnpaidSubscription == Spec => []GrantedOnlyIfPaid
  <1>1. IInv => GrantedOnlyIfPaid
    BY DEF IInv
  <1> QED
    BY <1>1, Invariance, PTL

\* ... and rows, subscriptions and users never point at somebody else's
\* payment.
THEOREM LinksAlwaysConsistent == Spec => []LinksConsistent
  <1>1. IInv => LinksConsistent
    BY DEF IInv
  <1> QED
    BY <1>1, Invariance, PTL

\* Taking a request only reads the database.
LEMMA CallsOnlyRead ==
    ASSUME NEW r \in Requests, PaymeCall(r) \/ ClickCall(r) \/ WebhookCall(r)
    PROVE  UNCHANGED <<tx, expired, payment, current, paid, movers, faults>>
  <1>1. CASE PaymeCall(r)
    BY <1>1 DEF PaymeCall, PaymeCreateTransaction, PaymePerformTransaction,
                PaymeCancelTransaction, PaymeCheckTransaction, Report, Decide
  <1>2. CASE ClickCall(r)
    BY <1>2 DEF ClickCall, ClickPrepare, ClickComplete, ClickCancels, Report, Decide
  <1>3. CASE WebhookCall(r)
    BY <1>3 DEF WebhookCall, XaznaWebhook, UzumWebhook, StatusWebhook, Decide
  <1> QED
    BY <1>1, <1>2, <1>3

\* The only later calls that write the transactions table are the two UPDATEs.
LEMMA ContinueWrites ==
    ASSUME NEW r \in Requests, Continue(r)
    PROVE  \/ /\ req[r].pc \in {"update", "link"}
              /\ Write(r, req[r].sub)
           \/ tx' = tx
  <1>1. CASE UpdateRow(r) \/ LinkSubscription(r)
    BY <1>1 DEF UpdateRow, LinkSubscription
  <1>2. CASE PaymeCreateChecked(r)
    BY <1>2 DEF PaymeCreateChecked, Decide
  <1>3. CASE ~(UpdateRow(r) \/ LinkSubscription(r) \/ PaymeCreateChecked(r))
    BY <1>3 DEF Continue, UpdateRowFails, InsertSubscription,
          InsertSubscriptionFails, LinkSubscriptionFails,
          UpdateSubscriptionStatus, UpdateSubscriptionStatusFails, Abandon
  <1> QED
    BY <1>1, <1>2, <1>3

\* No interleaving of full-row writes makes a row pending again once it has
\* left that state: no copy ever holds "pending" when it is written.
THEOREM NeverPendingTwice == Spec => NeverPendingAgain
  <1> DEFINE A == \A t \in Txs : tx[t].status \notin {"absent", "pending"} =>
                                    tx'[t].status # "pending"
  <1>1. IInv /\ Next => A
    <2> SUFFICES ASSUME IInv, Next, NEW t \in Txs,
                        tx[t].status \notin {"absent", "pending"}
                 PROVE  tx'[t].status # "pending"
      OBVIOUS
    <2>1. CASE \E t2 \in Txs, u \in Users : InitiatePayment(t2, u)
      BY <2>1 DEF InitiatePayment, Exists, IInv, TypeOK
    <2>2. CASE \E r \in Requests :
                  /\ req[r].pc \in {"update", "link"}
                  /\ Write(r, req[r].sub)
      <3>1. PICK r \in Requests : /\ req[r].pc \in {"update", "link"}
                                  /\ Write(r, req[r].sub)
        BY <2>2
      <3>2. req[r].status # "pending" /\ req[r].tx \in Txs
        BY <3>1 DEF IInv, RequestOK
      <3> QED
        BY <3>1, <3>2 DEF Write, IInv, TypeOK, Row
    <2>3. CASE tx' = tx
      BY <2>3
    <2>4. CASE \E t2 \in Txs : Expire(t2)
      BY <2>4 DEF Expire
    <2> QED
      BY <2>1, <2>2, <2>3, <2>4, CallsOnlyRead, ContinueWrites DEF Next
  <1>2. IInv /\ [Next]_vars => [A]_vars
    BY <1>1
  <1> QED
    BY <1>2, Invariance, PTL DEF Spec, NeverPendingAgain
-----------------------------------------------------------------------------
(* What a step can be, told from the state it begins in.  Every theorem    *)
(* below has one case for each of these kinds.                             *)

Activating(q) == q.pc \in {"insert", "link", "user"}

\* What the handler of a gateway may decide about a row it finds.
Decision(by, t, status, activates) ==
    /\ tx[t].status # "absent"
    /\ activates => status = "completed"
    /\ status = "completed" /\ ~activates => tx[t].status = "completed"
    /\ by = "payme" =>
          \/ status = "processing" /\ tx[t].status = "pending" /\ t \notin expired
          \/ status = "completed" /\ tx[t].status = "processing"
          \/ status = "cancelled" /\ tx[t].status = "processing"
    /\ by = "click" =>
          \/ status = "processing" /\ tx[t].status = "pending"
          \/ status = "completed" /\ tx[t].status = "processing"
          \/ status = "cancelled"
    /\ by \in {"xazna", "uzum"} /\ status = "processing" =>
          tx[t].status \in {"pending", "processing"}

Opens == \E t \in Txs, u \in Users : InitiatePayment(t, u)

Ages == \E t \in Txs : Expire(t)

\* An answer without a write tells what the row shows, or that Click's error
\* met a row that could not be read.
Reports ==
    \E t \in Txs, by \in {"payme", "click"}, status \in Statuses \cup {"absent"} :
        /\ Report(by, t, status)
        /\ \/ status = tx[t].status
           \/ faults /\ Exists(t) /\ by = "click" /\ status = "cancelled"

Waits(r) ==
    \E t \in Txs, e \in ExtIds :
        /\ Ready(r)
        /\ Exists(t)
        /\ req' = [req EXCEPT ![r] = [Idle EXCEPT !.pc = "byId", !.by = "payme",
                                                  !.tx = t, !.ext = e]]
        /\ UNCHANGED <<tx, expired, payment, current, paid, movers, told, faults>>

\* Click's error keeps the id of the row it cancels.
Decides(r) ==
    \E by \in PaymentMethods, t \in Txs,
       status \in {"processing", "completed", "cancelled"},
       ext \in ExtIds \cup {None}, activates \in BOOLEAN :
        /\ req[r].pc \in {"idle", "byId"}
        /\ Decision(by, t, status, activates)
        /\ by = "click" /\ status = "cancelled" => ext = tx[t].ext
        /\ Decide(r, by, t, status, ext, activates)

\* A COMPLETE with an error whose UPDATE fails is answered nevertheless.
ErrorIgnored(r) ==
    /\ req[r].pc = "update" /\ req[r].by = "click" /\ req[r].status = "cancelled"
    /\ faults \/ ~ExtFree(req[r].tx, req[r].ext)

\* The request ends, with an answer or without; after the row has been written
\* only a fault can end it early.
GivesUp(r) ==
    /\ req' = [req EXCEPT ![r] = Idle]
    /\ UNCHANGED <<tx, expired, payment, current, paid, movers, faults>>
    /\ \/ UNCHANGED told
       \/ (Activating(req[r]) \/ ErrorIgnored(r)) /\ Answer(r)
    /\ ~faults => req[r].pc \in {"byId", "update"}

\* What rows and requests remember of the past.
HistoryOK ==
    /\ \A t \in Txs : tx[t].status = "absent" => movers[t] = {} /\ told[t] = {}
    /\ \A t \in Txs : tx[t].status = "completed" => t \in paid
    /\ \A t \in Txs : tx[t].status = "pending" => tx[t].ext = None
    /\ \A t, t2 \in Txs : t # t2 /\ tx[t].ext # None => tx[t2].ext # tx[t].ext
    /\ \A r \in Requests :
          req[r].pc = "update" /\ req[r].status = "completed" /\ ~req[r].activates
              => req[r].tx \in paid

HInv == IInv /\ HistoryOK

\* A row that has stored an id exists and has left the pending state.
LEMMA FoundIsNotPending ==
    ASSUME HInv, NEW t \in Txs, NEW e \in ExtIds, FoundByExt(t, e)
    PROVE  tx[t].status \notin {"absent", "pending"}
  BY NoneAssumption, FoundExists DEF HInv, HistoryOK, FoundByExt

LEMMA PaymeKinds ==
    ASSUME HInv, NEW r \in Requests, PaymeCall(r)
    PROVE  Reports \/ Waits(r) \/ Decides(r)
  <1> PICK t \in Txs, e \in ExtIds :
             \/ PaymeCreateTransaction(r, t, e)
             \/ PaymePerformTransaction(r, t, e)
             \/ PaymeCancelTransaction(r, t, e)
             \/ PaymeCheckTransaction(r, t, e)
    BY DEF PaymeCall
  <1>0. ASSUME NEW t2 \in Txs, Report("payme", t2, tx[t2].status) PROVE Reports
    <2>1. tx[t2].status \in Statuses \cup {"absent"}
      BY DEF HInv, IInv, TypeOK, Row
    <2> QED
      BY <1>0, <2>1 DEF Reports
  <1>1. CASE PaymeCreateTransaction(r, t, e)
    BY <1>0, <1>1 DEF PaymeCreateTransaction, Waits
  <1>2. CASE PaymePerformTransaction(r, t, e)
    <2>1. CASE tx[t].status = "completed" /\ Report("payme", t, "completed")
      BY <1>0, <2>1
    <2>2. CASE /\ tx[t].status = "processing"
               /\ Decide(r, "payme", t, "completed", e, TRUE)
      <3>1. Decision("payme", t, "completed", TRUE) /\ req[r].pc = "idle"
        BY <1>2, <2>2 DEF PaymePerformTransaction, Ready, Decision
      <3> QED
        BY <2>2, <3>1 DEF Decides, PaymentMethods
    <2> QED
      BY <1>2, <2>1, <2>2 DEF PaymePerformTransaction
  <1>3. CASE PaymeCancelTransaction(r, t, e)
    <2>1. CASE tx[t].status = "cancelled" /\ Report("payme", t, "cancelled")
      BY <1>0, <2>1
    <2>2. CASE /\ tx[t].status \notin {"cancelled", "completed"}
               /\ Decide(r, "payme", t, "cancelled", e, FALSE)
      <3>1. tx[t].status \notin {"absent", "pending"}
        BY <1>3, FoundIsNotPending DEF PaymeCancelTransaction
      <3>2. tx[t].status = "processing"
        BY <2>2, <3>1 DEF HInv, IInv, TypeOK, Row, Statuses
      <3>3. Decision("payme", t, "cancelled", FALSE) /\ req[r].pc = "idle"
        BY <1>3, <3>2 DEF PaymeCancelTransaction, Ready, Decision
      <3> QED
        BY <2>2, <3>3 DEF Decides, PaymentMethods
    <2> QED
      BY <1>3, <2>1, <2>2 DEF PaymeCancelTransaction
  <1>4. CASE PaymeCheckTransaction(r, t, e)
    BY <1>0, <1>4 DEF PaymeCheckTransaction
  <1> QED
    BY <1>1, <1>2, <1>3, <1>4

LEMMA ClickKinds ==
    ASSUME HInv, NEW r \in Requests, ClickCall(r)
    PROVE  Reports \/ Decides(r)
  <1>0. ASSUME NEW t \in Txs, Report("click", t, tx[t].status) PROVE Reports
    <2>1. tx[t].status \in Statuses \cup {"absent"}
      BY DEF HInv, IInv, TypeOK, Row
    <2> QED
      BY <1>0, <2>1 DEF Reports
  <1>1. ASSUME NEW t \in Txs, NEW e \in ExtIds, ClickPrepare(r, t, e)
        PROVE  Reports \/ Decides(r)
    <2>1. CASE tx[t].status = "cancelled" /\ Report("click", t, "cancelled")
      BY <1>0, <2>1
    <2>2. CASE /\ tx[t].status = "pending"
               /\ Decide(r, "click", t, "processing", e, FALSE)
      <3>1. Decision("click", t, "processing", FALSE) /\ req[r].pc = "idle"
        BY <1>1, <2>2 DEF ClickPrepare, Ready, Decision
      <3> QED
        BY <2>2, <3>1 DEF Decides, PaymentMethods
    <2> QED
      BY <1>1, <2>1, <2>2 DEF ClickPrepare
  <1>2. ASSUME NEW t \in Txs, NEW error \in BOOLEAN, ClickComplete(r, t, error)
        PROVE  Reports \/ Decides(r)
    <2>1. req[r].pc = "idle"
      BY <1>2 DEF ClickComplete, Ready
    <2>2. tx[t].ext \in ExtIds \cup {None}
      BY DEF HInv, IInv, TypeOK, Row
    <2>3. CASE Report("click", t, tx[t].status)
      BY <1>0, <2>3
    <2>4. CASE Exists(t) /\ faults /\ Report("click", t, "cancelled")
      BY <2>4 DEF Reports, Statuses
    <2>5. CASE Exists(t) /\ Decide(r, "click", t, "cancelled", tx[t].ext, FALSE)
      <3>1. Decision("click", t, "cancelled", FALSE)
        BY <2>5 DEF Decision, Exists
      <3> QED
        BY <2>1, <2>2, <2>5, <3>1 DEF Decides, PaymentMethods
    <2>6. CASE /\ tx[t].status = "processing"
               /\ Decide(r, "click", t, "completed", tx[t].ext, TRUE)
      <3>1. Decision("click", t, "completed", TRUE)
        BY <2>6 DEF Decision
      <3> QED
        BY <2>1, <2>2, <2>6, <3>1 DEF Decides, PaymentMethods
    <2> QED
      BY <1>2, <2>3, <2>4, <2>5, <2>6 DEF ClickComplete, ClickCancels
  <1> QED
    BY <1>1, <1>2 DEF ClickCall

LEMMA WebhookKinds ==
    ASSUME HInv, NEW r \in Requests, WebhookCall(r)
    PROVE  Decides(r)
  <1> PICK t \in Txs, e \in ExtIds, event \in Events :
             XaznaWebhook(r, t, e, event) \/ UzumWebhook(r, t, e, event)
    BY DEF WebhookCall
  <1> DEFINE st == StatusAfter(event, tx[t].status)
             completes == event = "completed" /\ tx[t].status # "completed"
  <1>1. PICK by \in {"xazna", "uzum"} : StatusWebhook(r, by, t, e, event)
    BY DEF XaznaWebhook, UzumWebhook
  <1>2. tx[t].status \in Statuses
    BY <1>1 DEF StatusWebhook, Exists, HInv, IInv, TypeOK, Row
  <1>3. /\ st \in {"processing", "completed", "cancelled"}
        /\ completes => st = "completed"
    BY <1>2, StatusAfterType
  <1>4. /\ st = "completed" /\ ~completes => tx[t].status = "completed"
        /\ st = "processing" => tx[t].status \in {"pending", "processing"}
    BY <1>2 DEF StatusAfter, Events, Statuses
  <1>5. Decide(r, by, t, st, e, completes) /\ req[r].pc = "idle"
    BY <1>1 DEF StatusWebhook, Ready
  <1>6. completes \in BOOLEAN
    OBVIOUS
  <1> HIDE DEF st, completes
  <1>7. Decision(by, t, st, completes)
    BY <1>1, <1>2, <1>3, <1>4 DEF Decision, Statuses
  <1> QED
    BY <1>3, <1>5, <1>6, <1>7 DEF Decides, PaymentMethods

LEMMA ContinueKinds ==
    ASSUME HInv, NEW r \in Requests, Continue(r)
    PROVE  \/ Decides(r) \/ GivesUp(r) \/ UpdateRow(r)
           \/ \E s \in Subs : InsertSubscription(r, s)
           \/ LinkSubscription(r) \/ LinkSubscriptionFails(r)
           \/ UpdateSubscriptionStatus(r)
  <1>1. CASE PaymeCreateChecked(r)
    <2> DEFINE t == req[r].tx
    <2>1. t \in Txs /\ req[r].ext \in ExtIds \cup {None} /\ req[r].pc = "byId"
      BY <1>1 DEF PaymeCreateChecked, HInv, IInv, TypeOK, RequestOK, Request
    <2>2. CASE /\ tx[t].status = "pending" /\ t \notin expired
               /\ Decide(r, "payme", t, "processing", req[r].ext, FALSE)
      <3>1. Decision("payme", t, "processing", FALSE)
        BY <2>1, <2>2 DEF Decision
      <3> QED
        BY <2>1, <2>2, <3>1 DEF Decides, PaymentMethods
    <2>3. CASE /\ req' = [req EXCEPT ![r] = Idle]
               /\ UNCHANGED <<tx, expired, payment, current, paid, movers, told, faults>>
      BY <2>1, <2>3 DEF GivesUp
    <2> QED
      BY <1>1, <2>2, <2>3 DEF PaymeCreateChecked
  <1>2. CASE UpdateRowFails(r) \/ Abandon(r)
    BY <1>2 DEF UpdateRowFails, Abandon, GivesUp, ErrorIgnored, Answer
  <1>3. CASE InsertSubscriptionFails(r) \/ UpdateSubscriptionStatusFails(r)
    BY <1>3 DEF InsertSubscriptionFails, UpdateSubscriptionStatusFails, GivesUp,
                Answer, Activating
  <1> QED
    BY <1>1, <1>2, <1>3 DEF Continue

RequestKinds(r) ==
    \/ Waits(r) \/ Decides(r) \/ GivesUp(r) \/ UpdateRow(r)
    \/ \E s \in Subs : InsertSubscription(r, s)
    \/ LinkSubscription(r) \/ LinkSubscriptionFails(r)
    \/ UpdateSubscriptionStatus(r)

LEMMA StepKinds ==
    ASSUME HInv, Next
    PROVE  Opens \/ Ages \/ Reports \/ \E r \in Requests : RequestKinds(r)
  <1>1. CASE \E t \in Txs : (\E u \in Users : InitiatePayment(t, u)) \/ Expire(t)
    BY <1>1 DEF Opens, Ages
  <1>2. ASSUME NEW r \in Requests,
               PaymeCall(r) \/ ClickCall(r) \/ WebhookCall(r) \/ Continue(r)
        PROVE  Reports \/ RequestKinds(r)
    BY <1>2, PaymeKinds, ClickKinds, WebhookKinds, ContinueKinds DEF RequestKinds
  <1> QED
    BY <1>1, <1>2 DEF Next

-----------------------------------------------------------------------------
(* The history of rows and requests *)

\* What a write does to its row, and that it touches no other.
LEMMA WriteRow ==
    ASSUME IInv, NEW r \in Requests, req[r].pc \in {"update", "link"},
           Write(r, req[r].sub)
    PROVE  /\ req[r].tx \in Txs
           /\ req[r].status \in {"processing", "completed", "cancelled"}
           /\ tx'[req[r].tx].status = req[r].status
           /\ tx'[req[r].tx].ext = req[r].ext
           /\ tx'[req[r].tx].sub = req[r].sub
           /\ tx'[req[r].tx].user = tx[req[r].tx].user
           /\ \A t \in Txs \ {req[r].tx} : tx'[t] = tx[t]
           /\ paid \subseteq paid'
           /\ paid' \subseteq paid \cup {req[r].tx}
           /\ req[r].status = "completed" => req[r].tx \in paid'
           /\ paid' # paid => req[r].status = "completed"
           /\ movers' = [movers EXCEPT ![req[r].tx] = @ \cup {req[r].by}]
           /\ ExtFree(req[r].tx, req[r].ext)
           /\ req[r].by \in PaymentMethods
  <1>1. /\ req[r].tx \in Txs
        /\ req[r].status \in {"processing", "completed", "cancelled"}
        /\ req[r].by \in PaymentMethods
    BY DEF IInv, TypeOK, RequestOK
  <1>2. tx \in [Txs -> Row]
    BY DEF IInv, TypeOK
  <1> QED
    BY <1>1, <1>2 DEF Write, Row

\* The new row of a checkout is pending and unknown to its gateway.
LEMMA OpensRow ==
    ASSUME IInv, NEW t \in Txs, NEW u \in Users, InitiatePayment(t, u)
    PROVE  /\ tx[t].status = "absent" /\ t \notin paid
           /\ tx'[t].status = "pending" /\ tx'[t].ext = None /\ tx'[t].sub = None
           /\ tx'[t].user = u
           /\ \A t2 \in Txs \ {t} : tx'[t2] = tx[t2]
           /\ UNCHANGED <<expired, payment, current, req, paid, movers, told, faults>>
  BY DEF InitiatePayment, Exists, NoRow, IInv, TypeOK, RowsOK

\* The request of a decision.
LEMMA DecidesRequest ==
    ASSUME IInv, NEW r \in Requests, NEW by \in PaymentMethods, NEW t \in Txs,
           NEW status \in {"processing", "completed", "cancelled"},
           NEW ext \in ExtIds \cup {None}, NEW activates \in BOOLEAN,
           Decide(r, by, t, status, ext, activates)
    PROVE  /\ req'[r].pc = "update" /\ req'[r].by = by /\ req'[r].tx = t
           /\ req'[r].status = status /\ req'[r].ext = ext
           /\ req'[r].sub = tx[t].sub /\ req'[r].activates = activates
           /\ UNCHANGED <<tx, expired, payment, current, paid, movers, told, faults>>
  BY DEF Decide, IInv, TypeOK

\* The columns of a request that its later steps leave alone.
Kept(r) == /\ req'[r].by = req[r].by
           /\ req'[r].tx = req[r].tx
           /\ req'[r].status = req[r].status
           /\ req'[r].ext = req[r].ext

\* What the other steps of a request do to it.
LEMMA RequestMoves ==
    ASSUME IInv, NEW r \in Requests
    PROVE  /\ GivesUp(r) => req'[r].pc = "idle"
           /\ UpdateRow(r) =>
                 \/ req'[r].pc = "idle"
                 \/ req'[r].pc = "insert" /\ Kept(r) /\ req'[r].sub = req[r].sub
           /\ \A s \in Subs : InsertSubscription(r, s) =>
                 req'[r].pc = "link" /\ Kept(r) /\ req'[r].sub = s
           /\ LinkSubscription(r) =>
                 req'[r].pc = "user" /\ Kept(r) /\ req'[r].sub = req[r].sub
           /\ LinkSubscriptionFails(r) =>
                 req'[r].pc = "user" /\ Kept(r) /\ req'[r].sub = req[r].sub
           /\ UpdateSubscriptionStatus(r) => req'[r].pc = "idle"
  <1>1. req \in [Requests -> Request] /\ req[r] \in Request
    BY DEF IInv, TypeOK
  <1>2. /\ GivesUp(r) => req'[r].pc = "idle"
        /\ UpdateSubscriptionStatus(r) => req'[r].pc = "idle"
    BY <1>1 DEF GivesUp, Answer, UpdateSubscriptionStatus, Idle
  <1>3. UpdateRow(r) =>
           \/ req'[r].pc = "idle"
           \/ req'[r].pc = "insert" /\ Kept(r) /\ req'[r].sub = req[r].sub
    BY <1>1 DEF UpdateRow, Answer, Idle, Kept, Request
  <1>4. \A s \in Subs : InsertSubscription(r, s) =>
           req'[r].pc = "link" /\ Kept(r) /\ req'[r].sub = s
    BY <1>1 DEF InsertSubscription, Kept, Request
  <1>5. /\ LinkSubscription(r) =>
              req'[r].pc = "user" /\ Kept(r) /\ req'[r].sub = req[r].sub
        /\ LinkSubscriptionFails(r) =>
              req'[r].pc = "user" /\ Kept(r) /\ req'[r].sub = req[r].sub
    BY <1>1 DEF LinkSubscription, LinkSubscriptionFails, Kept, Request
  <1> QED
    BY <1>2, <1>3, <1>4, <1>5

\* The step of a request leaves the other requests as they are.
LEMMA OthersWait ==
    ASSUME IInv, NEW r \in Requests, RequestKinds(r)
    PROVE  \A r2 \in Requests \ {r} : req'[r2] = req[r2]
  <1>1. req \in [Requests -> Request]
    BY DEF IInv, TypeOK
  <1>2. CASE Waits(r) \/ GivesUp(r) \/ UpdateRow(r) \/ UpdateSubscriptionStatus(r)
    BY <1>1, <1>2 DEF Waits, GivesUp, UpdateRow, UpdateSubscriptionStatus, Answer
  <1>3. CASE LinkSubscription(r) \/ LinkSubscriptionFails(r)
    BY <1>1, <1>3 DEF LinkSubscription, LinkSubscriptionFails
  <1>4. CASE \E s \in Subs : InsertSubscription(r, s)
    BY <1>1, <1>4 DEF InsertSubscription
  <1>5. CASE Decides(r)
    BY <1>1, <1>5 DEF Decides, Decide
  <1> QED
    BY <1>2, <1>3, <1>4, <1>5 DEF RequestKinds

\* No step of a request changes the age of a row or whether calls fail.
LEMMA RequestFrame ==
    ASSUME NEW r \in Requests, RequestKinds(r)
    PROVE  UNCHANGED <<expired, faults>>
  <1>1. CASE Waits(r) \/ GivesUp(r)
    BY <1>1 DEF Waits, GivesUp
  <1>2. CASE Decides(r)
    BY <1>2 DEF Decides, Decide
  <1>3. CASE ~(Waits(r) \/ GivesUp(r) \/ Decides(r))
    BY <1>3 DEF RequestKinds, UpdateRow, InsertSubscription, LinkSubscription,
                LinkSubscriptionFails, UpdateSubscriptionStatus
  <1> QED
    BY <1>1, <1>2, <1>3

\* A copy with a link, or of a completed row, is of a row that was paid before.
LEMMA LinkedIsPaid ==
    ASSUME HInv, NEW r \in Requests, req[r].pc = "update", req[r].status = "completed",
           ~req[r].activates \/ req[r].sub # None
    PROVE  req[r].tx \in paid
  <1>1. CASE ~req[r].activates
    BY <1>1 DEF HInv, HistoryOK
  <1>2. CASE req[r].sub # None
    <2>1. req[r].tx \in Txs /\ payment[req[r].sub] = req[r].tx /\ req[r].sub \in Subs
      BY <1>2 DEF HInv, IInv, TypeOK, RequestOK, Request
    <2> QED
      BY <2>1 DEF HInv, IInv, GrantedOnlyIfPaid, Granted
  <1> QED
    BY <1>1, <1>2

\* No row changes and the history stays as it is.
LEMMA HistoryFrame ==
    ASSUME HistoryOK, UNCHANGED <<tx, paid, movers>>,
           \A t \in Txs : tx[t].status = "absent" => told'[t] = told[t],
           \A r \in Requests :
              \/ req'[r] = req[r]
              \/ req'[r].pc # "update"
              \/ req'[r].status = "completed" /\ ~req'[r].activates =>
                       req'[r].tx \in paid
    PROVE  HistoryOK'
  BY DEF HistoryOK

\* A request that answers has a row.
LEMMA AnswerHasRow ==
    ASSUME IInv, NEW r \in Requests, Answer(r), req[r].pc # "idle"
    PROVE  /\ req[r].tx \in Txs /\ tx[req[r].tx].status # "absent"
           /\ \A t \in Txs \ {req[r].tx} : told'[t] = told[t]
           /\ told'[req[r].tx] =
                 told[req[r].tx] \cup OutcomeOf(req[r].by, req[r].status)
  <1>1. req[r].tx \in Txs /\ tx[req[r].tx].status # "absent"
    BY DEF IInv, RequestOK
  <1>2. told \in [Txs -> SUBSET Outcomes]
    BY DEF IInv, TypeOK
  <1> QED
    BY <1>1, <1>2 DEF Answer

LEMMA HistoryWrite ==
    ASSUME HInv, NEW r \in Requests, UpdateRow(r) \/ LinkSubscription(r)
    PROVE  HistoryOK'
  <1> DEFINE t == req[r].tx
  <1>1. req[r].pc \in {"update", "link"} /\ Write(r, req[r].sub)
    BY DEF UpdateRow, LinkSubscription
  <1>2. /\ IInv /\ HistoryOK /\ req \in [Requests -> Request]
        /\ movers \in [Txs -> SUBSET PaymentMethods]
        /\ told \in [Txs -> SUBSET Outcomes]
    BY DEF HInv, IInv, TypeOK
  <1>3. req'[r].pc \in {"idle", "insert", "user"}
    BY <1>2, RequestMoves
  <1>4. \A r2 \in Requests \ {r} : req'[r2] = req[r2]
    BY <1>2, OthersWait DEF RequestKinds
  <1>5. /\ t \in Txs /\ req[r].status \in {"processing", "completed", "cancelled"}
        /\ tx'[t].status = req[r].status /\ tx'[t].ext = req[r].ext
        /\ \A t2 \in Txs \ {t} : tx'[t2] = tx[t2] /\ movers'[t2] = movers[t2]
        /\ paid \subseteq paid'
        /\ req[r].status = "completed" => t \in paid'
        /\ ExtFree(t, req[r].ext)
    BY <1>1, <1>2, WriteRow
  <1>6. \A t2 \in Txs \ {t} : told'[t2] = told[t2]
    BY <1>1, <1>2, AnswerHasRow DEF UpdateRow, LinkSubscription
  <1> HIDE DEF t
  <1>7. (\A t2 \in Txs : tx[t2].status = "absent" => movers[t2] = {} /\ told[t2] = {})'
    BY <1>2, <1>5, <1>6 DEF HistoryOK
  <1>8. (\A t2 \in Txs : tx[t2].status = "completed" => t2 \in paid)'
    BY <1>2, <1>5 DEF HistoryOK
  <1>9. (\A t2 \in Txs : tx[t2].status = "pending" => tx[t2].ext = None)'
    BY <1>2, <1>5 DEF HistoryOK
  <1>10. (\A t1, t2 \in Txs : t1 # t2 /\ tx[t1].ext # None => tx[t2].ext # tx[t1].ext)'
    BY <1>2, <1>5 DEF HistoryOK, ExtFree
  <1>11. (\A r2 \in Requests :
            req[r2].pc = "update" /\ req[r2].status = "completed" /\ ~req[r2].activates
              => req[r2].tx \in paid)'
    BY <1>2, <1>3, <1>4, <1>5 DEF HistoryOK
  <1> QED
    BY <1>7, <1>8, <1>9, <1>10, <1>11 DEF HistoryOK

LEMMA HistoryRequest ==
    ASSUME HInv, NEW r \in Requests, RequestKinds(r)
    PROVE  HistoryOK'
  <1>1. IInv /\ HistoryOK /\ req \in [Requests -> Request]
    BY DEF HInv, IInv, TypeOK
  <1>2. \A r2 \in Requests \ {r} : req'[r2] = req[r2]
    BY <1>1, OthersWait
  <1>3. CASE Waits(r)
    <2>1. UNCHANGED <<tx, paid, movers, told>> /\ req'[r].pc = "byId"
      BY <1>1, <1>3 DEF Waits, Idle
    <2> QED
      BY <1>1, <1>2, <2>1, HistoryFrame
  <1>4. CASE Decides(r)
    <2>1. PICK by \in PaymentMethods, t \in Txs,
               status \in {"processing", "completed", "cancelled"},
               ext \in ExtIds \cup {None}, activates \in BOOLEAN :
             /\ Decision(by, t, status, activates)
             /\ Decide(r, by, t, status, ext, activates)
      BY <1>4 DEF Decides
    <2>2. /\ UNCHANGED <<tx, paid, movers, told>>
          /\ req'[r].pc = "update" /\ req'[r].status = status
          /\ req'[r].activates = activates /\ req'[r].tx = t
      BY <1>1, <2>1, DecidesRequest
    <2>3. status = "completed" /\ ~activates => t \in paid
      BY <1>1, <2>1 DEF Decision, HistoryOK
    <2> QED
      BY <1>1, <1>2, <2>2, <2>3, HistoryFrame
  <1>5. CASE UpdateRow(r) \/ LinkSubscription(r)
    BY <1>5, HistoryWrite
  <1>6. CASE \/ GivesUp(r) \/ LinkSubscriptionFails(r) \/ UpdateSubscriptionStatus(r)
             \/ \E s \in Subs : InsertSubscription(r, s)
    <2>1. req'[r].pc \in {"idle", "link", "user"}
      BY <1>1, <1>6, RequestMoves
    <2>2. UNCHANGED <<tx, paid, movers>>
      BY <1>6 DEF GivesUp, LinkSubscriptionFails, UpdateSubscriptionStatus,
                  InsertSubscription
    <2>3. UNCHANGED told \/ (Answer(r) /\ req[r].pc # "idle")
      <3>1. CASE GivesUp(r)
        BY <3>1 DEF GivesUp, Activating, ErrorIgnored
      <3>2. CASE ~GivesUp(r)
        BY <1>6, <3>2 DEF LinkSubscriptionFails, UpdateSubscriptionStatus,
                          InsertSubscription
      <3> QED
        BY <3>1, <3>2
    <2>4. \A t \in Txs : tx[t].status = "absent" => told'[t] = told[t]
      BY <1>1, <2>3, AnswerHasRow
    <2> QED
      BY <1>1, <1>2, <2>1, <2>2, <2>4, HistoryFrame
  <1> QED
    BY <1>3, <1>4, <1>5, <1>6 DEF RequestKinds

\* An answer without a write is about a row that exists.
LEMMA ReportTold ==
    ASSUME IInv, Reports
    PROVE  \A t \in Txs : tx[t].status = "absent" => told'[t] = told[t]
  <1>1. PICK t \in Txs, by \in {"payme", "click"},
             status \in Statuses \cup {"absent"} :
           /\ Report(by, t, status)
           /\ status = tx[t].status \/ Exists(t)
    BY DEF Reports
  <1>2. told \in [Txs -> SUBSET Outcomes]
    BY DEF IInv, TypeOK
  <1>3. tx[t].status = "absent" => OutcomeOf(by, status) = {}
    BY <1>1 DEF OutcomeOf, Exists
  <1> QED
    BY <1>1, <1>2, <1>3 DEF Report

LEMMA HistoryNext == HInv /\ [Next]_vars => HInv'
  <1> SUFFICES ASSUME HInv, [Next]_vars PROVE HistoryOK'
    BY NextIInv DEF HInv
  <1>1. HistoryOK /\ IInv
    BY DEF HInv
  <1>2. CASE Opens
    <2>1. PICK t \in Txs, u \in Users : InitiatePayment(t, u)
      BY <1>2 DEF Opens
    <2> QED
      BY <1>1, <2>1, OpensRow DEF HistoryOK
  <1>3. CASE Ages \/ Reports \/ UNCHANGED vars
    <2>1. UNCHANGED <<tx, paid, movers, req>>
      BY <1>3 DEF Ages, Reports, Expire, Report, vars
    <2>2. \A t \in Txs : tx[t].status = "absent" => told'[t] = told[t]
      BY <1>1, <1>3, ReportTold DEF Ages, Expire, vars
    <2> QED
      BY <1>1, <2>1, <2>2, HistoryFrame
  <1>4. CASE \E r \in Requests : RequestKinds(r)
    BY <1>4, HistoryRequest
  <1> QED
    BY <1>2, <1>3, <1>4, StepKinds

LEMMA HistoryInit == Init => HInv
  BY InitIInv DEF HInv, Init, HistoryOK, NoRow, Idle

LEMMA History == Spec => []HInv
  BY HistoryInit, HistoryNext, PTL DEF Spec

-----------------------------------------------------------------------------
(* Entitlement: between the UPDATE that completes a row and the user's new  *)
(* subscription there is always a request that will not stop early.         *)

EntitledOK ==
    ~faults => \A t \in paid :
        \/ current[tx[t].user] # None
        \/ \E r \in Requests : req[r].tx = t /\ Activating(req[r])

EInv == HInv /\ EntitledOK

\* No activation is lost, and every row that becomes paid gets one.
LEMMA EntitledFrame ==
    ASSUME EntitledOK, UNCHANGED faults,
           \A t \in paid : tx'[t].user = tx[t].user,
           \A t \in paid : current[tx[t].user] # None => current'[tx[t].user] # None,
           \A r \in Requests : Activating(req[r]) /\ req[r].tx \in paid =>
              \/ Activating(req'[r]) /\ req'[r].tx = req[r].tx
              \/ current'[tx[req[r].tx].user] # None,
           \A t \in paid' \ paid :
              \E r \in Requests : req'[r].tx = t /\ Activating(req'[r])
    PROVE  EntitledOK'
  <1> SUFFICES ASSUME ~faults, NEW t \in paid'
               PROVE  \/ current'[tx'[t].user] # None
                      \/ \E r \in Requests : req'[r].tx = t /\ Activating(req'[r])
    BY DEF EntitledOK, Activating
  <1>1. CASE t \in paid
    BY <1>1 DEF EntitledOK
  <1>2. CASE t \notin paid
    BY <1>2
  <1> QED
    BY <1>1, <1>2

LEMMA EntitledRequest ==
    ASSUME EInv, ~faults, NEW r \in Requests, RequestKinds(r)
    PROVE  EntitledOK'
  <1>1. EntitledOK /\ HInv /\ IInv /\ tx \in [Txs -> Row] /\ paid \in SUBSET Txs
    BY DEF EInv, HInv, IInv, TypeOK
  <1>2. \A r2 \in Requests \ {r} : req'[r2] = req[r2]
    BY <1>1, OthersWait
  <1>3. CASE Waits(r) \/ Decides(r) \/ GivesUp(r)
    <2>1. UNCHANGED <<tx, current, paid, faults>>
      BY <1>3 DEF Waits, Decides, Decide, GivesUp
    <2>2. req[r].pc \in {"idle", "byId", "update"}
      BY <1>3 DEF Waits, Ready, Decides, GivesUp
    <2> QED
      BY <1>1, <1>2, <2>1, <2>2, EntitledFrame DEF Activating
  <1>4. CASE UpdateRow(r)
    <2>1. req[r].pc = "update" /\ Write(r, req[r].sub) /\ UNCHANGED <<current, faults>>
      BY <1>4 DEF UpdateRow
    <2>2. \A t \in paid : tx'[t].user = tx[t].user
      BY <1>1, <2>1, WriteRow
    <2>3. ASSUME NEW t \in paid' \ paid
          PROVE  req'[r].tx = t /\ req'[r].pc = "insert"
      <3>1. t = req[r].tx /\ req[r].status = "completed"
        BY <1>1, <2>1, WriteRow
      <3>2. req[r].activates /\ req[r].sub = None
        BY <1>1, <2>1, <2>3, <3>1, LinkedIsPaid
      <3> QED
        BY <1>1, <1>4, <3>1, <3>2 DEF UpdateRow, IInv, TypeOK, Request
    <2> QED
      BY <1>1, <1>2, <2>1, <2>2, <2>3, EntitledFrame DEF Activating
  <1>5. CASE \E s \in Subs : InsertSubscription(r, s)
    <2>1. UNCHANGED <<tx, current, paid, faults>>
      BY <1>5 DEF InsertSubscription
    <2>2. req'[r].pc = "link" /\ req'[r].tx = req[r].tx
      BY <1>1, <1>5, RequestMoves DEF Kept
    <2> QED
      BY <1>1, <1>2, <2>1, <2>2, EntitledFrame DEF Activating
  <1>6. CASE LinkSubscription(r) \/ LinkSubscriptionFails(r)
    <2>1. req'[r].pc = "user" /\ req'[r].tx = req[r].tx /\ UNCHANGED <<current, faults>>
      BY <1>1, <1>6, RequestMoves DEF Kept, LinkSubscription, LinkSubscriptionFails
    <2>2. CASE LinkSubscription(r)
      <3>1. req[r].pc = "link" /\ Write(r, req[r].sub)
        BY <2>2 DEF LinkSubscription
      <3>2. \A t \in paid : tx'[t].user = tx[t].user
        BY <1>1, <3>1, WriteRow
      <3>3. paid' \subseteq paid
        BY <1>1, <3>1, WriteRow DEF IInv, RequestOK
      <3> QED
        BY <1>1, <1>2, <2>1, <3>2, <3>3, EntitledFrame DEF Activating
    <2>3. CASE LinkSubscriptionFails(r)
      <3>1. UNCHANGED <<tx, paid>>
        BY <2>3 DEF LinkSubscriptionFails
      <3> QED
        BY <1>1, <1>2, <2>1, <3>1, EntitledFrame DEF Activating
    <2> QED
      BY <1>6, <2>2, <2>3
  <1>7. CASE UpdateSubscriptionStatus(r)
    <2>1. /\ UNCHANGED <<tx, paid, faults>>
          /\ current' = [current EXCEPT ![tx[req[r].tx].user] = req[r].sub]
      BY <1>7 DEF UpdateSubscriptionStatus
    <2>2. /\ req[r].sub # None /\ req[r].tx \in Txs
          /\ tx[req[r].tx].user \in Users
      BY <1>1, <1>7, NoneAssumption
      DEF UpdateSubscriptionStatus, IInv, RequestOK, RowsOK
    <2>3. current \in [Users -> Subs \cup {None}]
      BY <1>1 DEF IInv, TypeOK
    <2>4. current'[tx[req[r].tx].user] # None
      BY <2>1, <2>2, <2>3
    <2>5. \A t \in paid : current[tx[t].user] # None => current'[tx[t].user] # None
      BY <1>1, <2>1, <2>2, <2>3 DEF IInv, RowsOK
    <2> QED
      BY <1>1, <1>2, <2>1, <2>4, <2>5, EntitledFrame DEF Activating
  <1> QED
    BY <1>3, <1>4, <1>5, <1>6, <1>7 DEF RequestKinds

LEMMA EntitledNext == EInv /\ [Next]_vars => EInv'
  <1> SUFFICES ASSUME EInv, [Next]_vars PROVE EntitledOK'
    BY HistoryNext DEF EInv
  <1>1. EntitledOK /\ HInv /\ IInv
    BY DEF EInv, HInv
  <1>2. CASE Opens
    <2>1. PICK t \in Txs, u \in Users : InitiatePayment(t, u)
      BY <1>2 DEF Opens
    <2>2. \A t2 \in paid : tx'[t2] = tx[t2]
      BY <1>1, <2>1, OpensRow DEF IInv, TypeOK
    <2> QED
      BY <1>1, <2>1, <2>2, OpensRow, EntitledFrame
  <1>3. CASE Ages \/ Reports \/ UNCHANGED vars
    <2>1. UNCHANGED <<tx, paid, req, current, faults>>
      BY <1>3 DEF Ages, Reports, Expire, Report, vars
    <2> QED
      BY <1>1, <2>1, EntitledFrame
  <1>4. CASE \E r \in Requests : RequestKinds(r)
    <2>1. UNCHANGED faults
      BY <1>4, RequestFrame
    <2>2. CASE faults
      BY <2>1, <2>2 DEF EntitledOK
    <2> QED
      BY <1>4, <2>2, EntitledRequest
  <1> QED
    BY <1>1, <1>2, <1>3, <1>4, StepKinds

\* As long as no call fails, whoever completed a payment has a current
\* subscription once all requests have been answered, however many requests
\* for however many payments of the same user have interleaved.
THEOREM PayersEntitled == Spec => []EntitledWhenQuiet
  <1>1. Init => EInv
    BY HistoryInit DEF EInv, Init, EntitledOK
  <1>2. EInv => EntitledWhenQuiet
    BY DEF EInv, EntitledOK, EntitledWhenQuiet, Activating
  <1> QED
    BY <1>1, <1>2, EntitledNext, PTL DEF Spec

-----------------------------------------------------------------------------
(* Expired checkouts *)

\* A request that is at work on a dead checkout still waits for its second
\* query, which will refuse the row.
LEMMA DeadRequest ==
    ASSUME IInv, NEW t \in Txs, Dead(t), NEW r \in Requests, RequestKinds(r),
           req'[r].tx = t => req'[r].by = "payme"
    PROVE  Dead(t)'
  <1>1. tx \in [Txs -> Row] /\ req \in [Requests -> Request]
    BY DEF IInv, TypeOK
  <1>2. \A r2 \in Requests \ {r} : req'[r2] = req[r2]
    BY OthersWait
  <1>3. req[r].tx = t => req[r].pc = "byId"
    BY DEF Dead
  <1>4. UNCHANGED expired
    BY RequestFrame
  <1>5. tx'[t] = tx[t]
    <2>1. CASE UpdateRow(r) \/ LinkSubscription(r)
      <3>1. req[r].pc \in {"update", "link"} /\ Write(r, req[r].sub)
        BY <2>1 DEF UpdateRow, LinkSubscription
      <3> QED
        BY <1>3, <3>1, WriteRow
    <2>2. CASE ~(UpdateRow(r) \/ LinkSubscription(r))
      BY <2>2 DEF RequestKinds, Waits, Decides, Decide, GivesUp, InsertSubscription,
              LinkSubscriptionFails, UpdateSubscriptionStatus
    <2> QED
      BY <2>1, <2>2
  <1>6. req'[r].tx = t => req'[r].pc = "byId"
    <2>1. CASE Waits(r)
      BY <1>1, <2>1 DEF Waits, Idle
    <2>2. CASE Decides(r)
      <3>1. PICK by \in PaymentMethods, t2 \in Txs,
                 status \in {"processing", "completed", "cancelled"},
                 ext \in ExtIds \cup {None}, activates \in BOOLEAN :
               /\ Decision(by, t2, status, activates)
               /\ Decide(r, by, t2, status, ext, activates)
        BY <2>2 DEF Decides
      <3>2. req'[r].tx = t2 /\ req'[r].by = by
        BY <3>1, DecidesRequest
      <3>3. by = "payme" => t2 # t
        BY <3>1 DEF Decision, Dead
      <3> QED
        BY <3>2, <3>3
    <2>3. CASE GivesUp(r) \/ UpdateSubscriptionStatus(r)
      BY <1>1, <2>3, NoneAssumption DEF GivesUp, UpdateSubscriptionStatus, Answer, Idle
    <2>4. CASE UpdateRow(r)
      <3>1. req[r].tx # t
        BY <1>3, <2>4 DEF UpdateRow
      <3>2. CASE req' = [req EXCEPT ![r] = Idle]
        BY <1>1, <3>2, NoneAssumption DEF Idle
      <3>3. CASE req' = [req EXCEPT ![r].pc = "insert"]
        BY <1>1, <3>1, <3>3 DEF Request
      <3> QED
        BY <2>4, <3>2, <3>3 DEF UpdateRow, Answer
    <2>5. CASE \/ LinkSubscription(r) \/ LinkSubscriptionFails(r)
               \/ \E s \in Subs : InsertSubscription(r, s)
      <3>1. req[r].pc \in {"insert", "link"}
        BY <2>5 DEF LinkSubscription, LinkSubscriptionFails, InsertSubscription
      <3>2. req'[r].tx = req[r].tx
        BY <2>5, RequestMoves DEF Kept
      <3> QED
        BY <1>3, <3>1, <3>2
    <2> QED
      BY <2>1, <2>2, <2>3, <2>4, <2>5 DEF RequestKinds
  <1> QED
    BY <1>2, <1>4, <1>5, <1>6 DEF Dead

\* No call of Payme revives a checkout that nobody started to pay within
\* twelve hours; a call of another gateway, which looks at no age, may.
THEOREM ExpiredStaysDead == Spec => PaymeExpiryFinal
  <1> DEFINE A == \A t \in Txs :
                 Dead(t) /\ (\A r \in Requests : req'[r].tx = t => req'[r].by = "payme")
                 => Dead(t)'
  <1>1. HInv /\ [Next]_vars => A
    <2> SUFFICES ASSUME HInv, [Next]_vars, NEW t \in Txs, Dead(t),
                        \A r \in Requests : req'[r].tx = t => req'[r].by = "payme"
                 PROVE  Dead(t)'
      OBVIOUS
    <2>1. IInv
      BY DEF HInv
    <2>2. CASE Opens
      <3>1. PICK t2 \in Txs, u \in Users : InitiatePayment(t2, u)
        BY <2>2 DEF Opens
      <3>2. t2 # t
        BY <2>1, <3>1, OpensRow DEF Dead
      <3> QED
        BY <2>1, <3>1, <3>2, OpensRow DEF Dead
    <2>3. CASE Ages \/ Reports \/ UNCHANGED vars
      BY <2>3 DEF Ages, Reports, Expire, Report, vars, Dead
    <2>4. CASE \E r \in Requests : RequestKinds(r)
      BY <2>1, <2>4, DeadRequest
    <2> QED
      BY <2>2, <2>3, <2>4, StepKinds
  <1>2. HInv /\ [Next]_vars => [A]_vars
    BY <1>1
  <1> QED
    BY <1>2, History, PTL DEF Spec, PaymeExpiryFinal

-----------------------------------------------------------------------------
(* One request at a time.  A request that has decided finds, when it writes,  *)
(* the row it decided about; so nobody is told what does not stand, and the  *)
(* service keeps the contract.                                               *)

OneAtATime == \A q, r \in Requests : q = r

\* No bank has written the row: only Payme and Click have, which change it as
\* its status allows.
Gated(t) == movers[t] \subseteq {"payme", "click"}

\* What Payme and Click were told is what the row shows, with the gateways that
\* have moved it as AnswersStand demands.
Performed(t) == <<"payme", "performed">> \in told[t] /\ movers[t] \subseteq {"payme"}

Cancelled(t) ==
    /\ \/ <<"payme", "cancelled">> \in told[t]
       \/ <<"click", "cancelled">> \in told[t] /\ ~faults
    /\ Gated(t)

ToldOK ==
    \A t \in Txs : /\ Performed(t) => tx[t].status = "completed"
                   /\ Cancelled(t) => tx[t].status = "cancelled"

UnpaidOK ==
    \A t \in Txs : Gated(t) /\ tx[t].status \in {"pending", "processing"} =>
                       t \notin paid

GrantsOK == \A t \in Txs : IsFiniteSet(Granted(t))

\* The row is still as the decision of the gateway to write the status found
\* it.
Due(by, t, status) ==
    /\ by = "payme" =>
          \/ status = "processing" /\ tx[t].status = "pending"
          \/ status \in {"completed", "cancelled"} /\ tx[t].status = "processing"
    /\ by = "click" =>
          \/ status = "processing" /\ tx[t].status = "pending"
          \/ status = "completed" /\ tx[t].status = "processing"
          \/ status = "cancelled"
    /\ by \in {"xazna", "uzum"} /\ status = "processing" =>
          tx[t].status \in {"pending", "processing"}

\* The copy of a request agrees with the tables.
CopyOK(q) ==
    /\ q.pc = "update" => Due(q.by, q.tx, q.status)
    /\ q.pc = "update" /\ q.by = "click" /\ q.status = "cancelled" =>
          q.ext = tx[q.tx].ext
    /\ Activating(q) => tx[q.tx].status = "completed" /\ q.by \in movers[q.tx]
    /\ q.pc = "insert" /\ Gated(q.tx) => \A s \in Subs : payment[s] # q.tx

SerialOK == ToldOK /\ UnpaidOK /\ GrantsOK /\ \A r \in Requests : CopyOK(req[r])

SInv == HInv /\ SerialOK

\* Telling a gateway what the row shows, or Click under faults anything.
LEMMA ToldWhatIsShown ==
    ASSUME IInv, ToldOK, NEW t \in Txs, UNCHANGED <<tx, movers, faults>>,
           NEW by, NEW status, status = tx[t].status \/ (faults /\ by = "click"),
           told' = [told EXCEPT ![t] = @ \cup OutcomeOf(by, status)]
    PROVE  ToldOK'
  <1>1. told \in [Txs -> SUBSET Outcomes]
    BY DEF IInv, TypeOK
  <1> SUFFICES ASSUME NEW t2 \in Txs
               PROVE  (/\ Performed(t2) => tx[t2].status = "completed"
                       /\ Cancelled(t2) => tx[t2].status = "cancelled")'
    BY DEF ToldOK
  <1>2. CASE told'[t2] = told[t2]
    BY <1>2 DEF ToldOK, Performed, Cancelled, Gated
  <1>3. CASE t2 = t /\ told'[t] = told[t] \cup OutcomeOf(by, status)
    <2>1. <<"payme", "performed">> \in OutcomeOf(by, status) =>
             by = "payme" /\ status = "completed"
      BY OutcomeType
    <2>2. \A g : <<g, "cancelled">> \in OutcomeOf(by, status) =>
             g = by /\ status = "cancelled"
      BY OutcomeType
    <2>3. CASE status = tx[t].status
      BY <1>3, <2>1, <2>2, <2>3 DEF ToldOK, Performed, Cancelled, Gated
    <2>4. CASE faults /\ by = "click"
      BY <1>3, <2>1, <2>2, <2>4 DEF ToldOK, Performed, Cancelled, Gated
    <2> QED
      BY <2>3, <2>4
  <1> QED
    BY <1>1, <1>2, <1>3

\* A step that leaves the rows and the subscriptions alone.
LEMMA SerialFrame ==
    ASSUME OneAtATime, SerialOK, ToldOK', UNCHANGED <<tx, payment, paid, movers>>,
           NEW r \in Requests,
           \/ req'[r].pc \in {"idle", "byId"}
           \/ /\ req'[r].pc = "update" /\ Due(req'[r].by, req'[r].tx, req'[r].status)
              /\ req'[r].by = "click" /\ req'[r].status = "cancelled" =>
                    req'[r].ext = tx[req'[r].tx].ext
           \/ /\ req'[r].pc \in {"link", "user"}
              /\ tx[req'[r].tx].status = "completed"
              /\ req'[r].by \in movers[req'[r].tx]
    PROVE  SerialOK'
  <1>1. UnpaidOK' /\ GrantsOK'
    BY DEF SerialOK, UnpaidOK, GrantsOK, Gated, Granted
  <1>2. CopyOK(req[r])'
    BY DEF CopyOK, Due, Activating, Gated
  <1>3. \A r2 \in Requests : r2 = r
    BY DEF OneAtATime
  <1> QED
    BY <1>1, <1>2, <1>3 DEF SerialOK

\* Where the UPDATE is due, no earlier answer says otherwise.
LEMMA NothingTold ==
    ASSUME ToldOK, NEW t \in Txs, NEW by, NEW status, Due(by, t, status)
    PROVE  /\ by = "payme" => ~Performed(t) /\ ~Cancelled(t)
           /\ by = "click" => ~Cancelled(t) \/ status = "cancelled"
  BY DEF ToldOK, Due

LEMMA SerialUpdate ==
    ASSUME OneAtATime, SInv, NEW r \in Requests, UpdateRow(r)
    PROVE  SerialOK'
  <1>0. PICK t, by, st : t = req[r].tx /\ by = req[r].by /\ st = req[r].status
    OBVIOUS
  <1>1. /\ HInv /\ IInv /\ SerialOK
        /\ req \in [Requests -> Request] /\ told \in [Txs -> SUBSET Outcomes]
        /\ movers \in [Txs -> SUBSET PaymentMethods]
    BY DEF SInv, HInv, IInv, TypeOK
  <1>2. /\ req[r].pc = "update" /\ Write(r, req[r].sub)
        /\ UNCHANGED <<payment, faults>>
    BY DEF UpdateRow
  <1>3. /\ t \in Txs /\ Due(by, t, st) /\ tx[t].status # "absent"
        /\ st \in {"processing", "completed", "cancelled"}
        /\ req[r].activates => st = "completed"
    BY <1>0, <1>1, <1>2 DEF SerialOK, CopyOK, IInv, RequestOK
  <1>4. /\ tx'[t].status = st
        /\ \A t2 \in Txs \ {t} : tx'[t2] = tx[t2]
        /\ paid' \subseteq paid \cup {t}
        /\ paid' # paid => st = "completed"
        /\ movers' = [movers EXCEPT ![t] = @ \cup {by}]
        /\ by \in PaymentMethods
    BY <1>0, <1>1, <1>2, WriteRow
  <1>5. /\ movers'[t] = movers[t] \cup {by}
        /\ \A t2 \in Txs \ {t} : movers'[t2] = movers[t2]
    BY <1>1, <1>3, <1>4
  <1>6. \/ told' = told
        \/ /\ told'[t] = told[t] \cup OutcomeOf(by, st)
           /\ \A t2 \in Txs \ {t} : told'[t2] = told[t2]
    BY <1>0, <1>1, <1>3 DEF UpdateRow, Answer
  <1>7. GrantsOK'
    BY <1>1, <1>2 DEF SerialOK, GrantsOK, Granted
  <1>8. /\ by = "payme" => ~Performed(t) /\ ~Cancelled(t)
        /\ by = "click" => ~Cancelled(t) \/ st = "cancelled"
    BY <1>1, <1>3, NothingTold DEF SerialOK
  <1>9. /\ \A g, o : <<g, o>> \in OutcomeOf(by, st) =>
              /\ g = by
              /\ o = "performed" => st = "completed"
              /\ o = "cancelled" => st = "cancelled"
    BY OutcomeType
  <1>10. \A s \in Subs : payment[s] = t => t \in paid
    BY <1>1, <1>3 DEF IInv, GrantedOnlyIfPaid, Granted
  <1>11. Activating(req'[r]) => /\ req[r].activates /\ req'[r].pc = "insert"
                                /\ req'[r].tx = t /\ req'[r].by = by
    BY <1>0, <1>1, RequestMoves DEF UpdateRow, Answer, Kept, Idle, Activating
  <1>12. req'[r].pc \in {"idle", "insert"}
    BY <1>1, RequestMoves
  <1>13. ToldOK'
    <2> SUFFICES ASSUME NEW t2 \in Txs
                 PROVE  (/\ Performed(t2) => tx[t2].status = "completed"
                         /\ Cancelled(t2) => tx[t2].status = "cancelled")'
      BY DEF ToldOK
    <2>1. CASE t2 # t
      BY <1>1, <1>2, <1>4, <1>5, <1>6, <2>1
      DEF SerialOK, ToldOK, Performed, Cancelled, Gated
    <2>2. CASE t2 = t
      <3>1. Performed(t2)' => tx'[t2].status = "completed"
        BY <1>4, <1>5, <1>6, <1>8, <1>9, <2>2 DEF Performed
      <3>2. Cancelled(t2)' => tx'[t2].status = "cancelled"
        BY <1>2, <1>4, <1>5, <1>6, <1>8, <1>9, <2>2, <1>3
        DEF Cancelled, Gated
      <3> QED
        BY <3>1, <3>2
    <2> QED
      BY <2>1, <2>2
  <1>14. (Gated(t))' => Gated(t) /\ by \in {"payme", "click"}
    BY <1>5 DEF Gated
  <1>15. UnpaidOK'
    <2>1. (Gated(t))' /\ st = "processing" => t \notin paid'
      BY <1>1, <1>3, <1>4, <1>14 DEF SerialOK, UnpaidOK, Due
    <2> QED
      BY <1>1, <1>3, <1>4, <1>5, <2>1 DEF SerialOK, UnpaidOK, Gated
  <1>16. CopyOK(req[r])'
    <2>1. CASE req'[r].pc = "idle"
      BY <2>1 DEF CopyOK, Activating
    <2>2. CASE req'[r].pc = "insert"
      <3>1. /\ req[r].activates /\ req'[r].tx = t /\ req'[r].by = by
            /\ st = "completed" /\ tx'[t].status = "completed" /\ by \in movers'[t]
        BY <1>3, <1>4, <1>5, <1>11, <2>2 DEF Activating
      <3>2. (Gated(t))' => t \notin paid
        BY <1>1, <1>3, <1>14, <3>1 DEF SerialOK, UnpaidOK, Due
      <3>3. (Gated(t))' => \A s \in Subs : payment'[s] # t
        BY <1>2, <1>10, <3>2
      <3> QED
        BY <2>2, <3>1, <3>3 DEF CopyOK, Activating, Gated
    <2> QED
      BY <1>12, <2>1, <2>2
  <1>17. \A r2 \in Requests : r2 = r
    BY DEF OneAtATime
  <1> QED
    BY <1>7, <1>13, <1>15, <1>16, <1>17 DEF SerialOK

LEMMA SerialLink ==
    ASSUME OneAtATime, SInv, NEW r \in Requests, LinkSubscription(r)
    PROVE  SerialOK' /\ movers' = movers
  <1> DEFINE t == req[r].tx
  <1>1. HInv /\ IInv /\ SerialOK /\ movers \in [Txs -> SUBSET PaymentMethods]
    BY DEF SInv, HInv, IInv, TypeOK
  <1>2. /\ req[r].pc = "link" /\ Write(r, req[r].sub)
        /\ UNCHANGED <<payment, told, faults>>
    BY DEF LinkSubscription
  <1>3. /\ t \in Txs /\ tx[t].status = "completed" /\ req[r].status = "completed"
        /\ t \in paid /\ req[r].by \in movers[t]
    BY <1>1, <1>2 DEF SerialOK, CopyOK, Activating, IInv, RequestOK
  <1>4. /\ tx'[t].status = "completed"
        /\ \A t2 \in Txs \ {t} : tx'[t2] = tx[t2]
        /\ paid' = paid
        /\ movers' = [movers EXCEPT ![t] = @ \cup {req[r].by}]
    BY <1>1, <1>2, <1>3, WriteRow
  <1>5. movers' = movers
    <2>1. movers[t] \cup {req[r].by} = movers[t]
      BY <1>3
    <2> QED
      BY <1>1, <1>3, <1>4, <2>1
  <1>6. ToldOK' /\ UnpaidOK' /\ GrantsOK'
    BY <1>1, <1>2, <1>3, <1>4, <1>5
    DEF SerialOK, ToldOK, Performed, Cancelled, UnpaidOK, GrantsOK, Granted, Gated
  <1>7. req'[r].pc = "user" /\ req'[r].tx = t /\ req'[r].by = req[r].by
    BY <1>1, RequestMoves DEF Kept
  <1>8. CopyOK(req[r])'
    BY <1>3, <1>4, <1>5, <1>7 DEF CopyOK, Activating
  <1>9. \A r2 \in Requests : r2 = r
    BY DEF OneAtATime
  <1> QED
    BY <1>5, <1>6, <1>8, <1>9 DEF SerialOK

LEMMA SerialInsert ==
    ASSUME OneAtATime, SInv, NEW r \in Requests, NEW s \in Subs,
           InsertSubscription(r, s)
    PROVE  SerialOK'
  <1>1. HInv /\ IInv /\ SerialOK /\ payment \in [Subs -> Txs \cup {None}]
    BY DEF SInv, HInv, IInv, TypeOK
  <1>2. req[r].pc = "insert" /\ UNCHANGED <<tx, paid, movers, told, faults>>
    BY DEF InsertSubscription
  <1>3. ToldOK' /\ UnpaidOK'
    BY <1>1, <1>2 DEF SerialOK, ToldOK, Performed, Cancelled, UnpaidOK, Gated
  <1>4. req'[r].pc = "link" /\ req'[r].tx = req[r].tx /\ req'[r].by = req[r].by
    BY <1>1, RequestMoves DEF Kept
  <1>5. CopyOK(req[r])'
    BY <1>1, <1>2, <1>4 DEF SerialOK, CopyOK, Activating
  <1>6. \A r2 \in Requests : r2 = r
    BY DEF OneAtATime
  <1>7. ASSUME NEW t \in Txs PROVE IsFiniteSet(Granted(t))'
    <2>1. IsFiniteSet(Granted(t)) /\ IsFiniteSet(Granted(t) \cup {s})
      BY <1>1, FS_AddElement DEF SerialOK, GrantsOK
    <2>2. Granted(t)' \in {Granted(t), Granted(t) \cup {s}}
      <3>1. payment' = [payment EXCEPT ![s] = req[r].tx] /\ payment[s] = None
        BY DEF InsertSubscription
      <3>2. CASE t = req[r].tx
        <4>1. Granted(t)' = Granted(t) \cup {s}
          BY <1>1, <3>1, <3>2 DEF Granted
        <4> QED
          BY <4>1
      <3>3. CASE t # req[r].tx
        <4>1. Granted(t)' = Granted(t)
          BY <1>1, <3>1, <3>3, NoneAssumption DEF Granted
        <4> QED
          BY <4>1
      <3> QED
        BY <3>2, <3>3
    <2> QED
      BY <2>1, <2>2
  <1> QED
    BY <1>3, <1>5, <1>6, <1>7 DEF SerialOK, GrantsOK

\* An answer after the row has been written says that it is completed.
LEMMA AnswerShown ==
    ASSUME SInv, NEW r \in Requests, Activating(req[r]), Answer(r),
           UNCHANGED <<tx, movers, faults>>
    PROVE  ToldOK'
  <1>1. /\ IInv /\ ToldOK /\ req[r].tx \in Txs
        /\ req[r].status = "completed" /\ tx[req[r].tx].status = "completed"
    BY DEF SInv, HInv, SerialOK, CopyOK, Activating, IInv, RequestOK
  <1>2. told' = [told EXCEPT ![req[r].tx] =
                              @ \cup OutcomeOf(req[r].by, tx[req[r].tx].status)]
    BY <1>1 DEF Answer
  <1> QED
    BY <1>1, <1>2, ToldWhatIsShown

\* Click is answered although its UPDATE has failed: only a fault can make it
\* fail, since the copy holds the id that the row itself holds.
LEMMA ErrorShown ==
    ASSUME SInv, NEW r \in Requests, ErrorIgnored(r), Answer(r),
           UNCHANGED <<tx, movers, faults>>
    PROVE  ToldOK'
  <1>1. /\ IInv /\ ToldOK /\ HistoryOK /\ req[r].tx \in Txs
        /\ req[r].by = "click" /\ req[r].ext = tx[req[r].tx].ext
    BY DEF SInv, HInv, SerialOK, CopyOK, ErrorIgnored, IInv, RequestOK
  <1>2. ExtFree(req[r].tx, req[r].ext)
    BY <1>1 DEF HistoryOK, ExtFree
  <1>3. faults
    BY <1>2 DEF ErrorIgnored
  <1>4. told' = [told EXCEPT ![req[r].tx] = @ \cup OutcomeOf(req[r].by, req[r].status)]
    BY DEF Answer
  <1> QED
    BY <1>1, <1>3, <1>4, ToldWhatIsShown

LEMMA SerialRequest ==
    ASSUME OneAtATime, SInv, NEW r \in Requests, RequestKinds(r)
    PROVE  SerialOK'
  <1>1. HInv /\ IInv /\ SerialOK /\ req \in [Requests -> Request]
    BY DEF SInv, HInv, IInv, TypeOK
  <1>2. ASSUME UNCHANGED <<tx, movers, told, faults>> PROVE ToldOK'
    BY <1>1, <1>2 DEF SerialOK, ToldOK, Performed, Cancelled, Gated
  <1>3. CASE Waits(r)
    <2>1. UNCHANGED <<tx, payment, paid, movers, told, faults>> /\ req'[r].pc = "byId"
      BY <1>1, <1>3 DEF Waits, Idle
    <2> QED
      BY <1>1, <1>2, <2>1, SerialFrame
  <1>4. CASE Decides(r)
    <2>1. PICK by \in PaymentMethods, t \in Txs,
               status \in {"processing", "completed", "cancelled"},
               ext \in ExtIds \cup {None}, activates \in BOOLEAN :
             /\ Decision(by, t, status, activates)
             /\ by = "click" /\ status = "cancelled" => ext = tx[t].ext
             /\ Decide(r, by, t, status, ext, activates)
      BY <1>4 DEF Decides
    <2>2. /\ req'[r].pc = "update" /\ req'[r].by = by /\ req'[r].tx = t
          /\ req'[r].status = status /\ req'[r].ext = ext
          /\ UNCHANGED <<tx, payment, paid, movers, told, faults>>
      BY <1>1, <2>1, DecidesRequest
    <2>3. Due(by, t, status)
      BY <2>1 DEF Decision, Due
    <2> QED
      BY <1>1, <1>2, <2>1, <2>2, <2>3, SerialFrame
  <1>5. CASE GivesUp(r)
    <2>1. UNCHANGED <<tx, payment, paid, movers, faults>> /\ req'[r].pc = "idle"
      BY <1>1, <1>5, RequestMoves DEF GivesUp
    <2>2. ToldOK'
      BY <1>2, <1>5, <2>1, AnswerShown, ErrorShown DEF GivesUp
    <2> QED
      BY <1>1, <2>1, <2>2, SerialFrame
  <1>6. CASE UpdateRow(r)
    BY <1>6, SerialUpdate
  <1>7. CASE \E s \in Subs : InsertSubscription(r, s)
    BY <1>7, SerialInsert
  <1>8. CASE LinkSubscription(r)
    BY <1>8, SerialLink
  <1>9. CASE LinkSubscriptionFails(r)
    <2>1. /\ UNCHANGED <<tx, payment, paid, movers, told, faults>>
          /\ req[r].pc = "link" /\ req'[r].pc = "user"
          /\ req'[r].tx = req[r].tx /\ req'[r].by = req[r].by
      BY <1>1, <1>9, RequestMoves DEF Kept, LinkSubscriptionFails
    <2>2. tx[req[r].tx].status = "completed" /\ req[r].by \in movers[req[r].tx]
      BY <1>1, <2>1 DEF SerialOK, CopyOK, Activating
    <2> QED
      BY <1>1, <1>2, <2>1, <2>2, SerialFrame
  <1>10. CASE UpdateSubscriptionStatus(r)
    <2>1. /\ UNCHANGED <<tx, payment, paid, movers, faults>> /\ req'[r].pc = "idle"
          /\ Answer(r) /\ Activating(req[r])
      BY <1>1, <1>10, RequestMoves DEF UpdateSubscriptionStatus, Activating
    <2>2. ToldOK'
      BY <2>1, AnswerShown
    <2> QED
      BY <1>1, <2>1, <2>2, SerialFrame
  <1> QED
    BY <1>3, <1>4, <1>5, <1>6, <1>7, <1>8, <1>9, <1>10 DEF RequestKinds

LEMMA SerialNext == OneAtATime /\ SInv /\ [Next]_vars => SInv'
  <1> SUFFICES ASSUME OneAtATime, SInv, [Next]_vars PROVE SerialOK'
    BY HistoryNext DEF SInv
  <1>1. HInv /\ IInv /\ SerialOK
    BY DEF SInv, HInv
  <1>2. CASE Opens
    <2>1. PICK t \in Txs, u \in Users : InitiatePayment(t, u)
      BY <1>2 DEF Opens
    <2>2. /\ t \notin paid /\ tx[t].status = "absent" /\ tx'[t].status = "pending"
          /\ \A t2 \in Txs \ {t} : tx'[t2] = tx[t2]
          /\ UNCHANGED <<payment, req, paid, movers, told, faults>>
          /\ told[t] = {}
      BY <1>1, <2>1, OpensRow DEF HistoryOK, HInv
    <2>3. ToldOK' /\ UnpaidOK' /\ GrantsOK'
      BY <1>1, <2>2 DEF SerialOK, ToldOK, Performed, Cancelled, UnpaidOK, GrantsOK,
                        Granted, Gated
    <2>4. ASSUME NEW r \in Requests PROVE CopyOK(req[r])'
      <3>1. req[r].pc # "idle" => req[r].tx \in Txs \ {t}
        BY <1>1, <2>2 DEF IInv, RequestOK
      <3>2. CopyOK(req[r])
        BY <1>1 DEF SerialOK
      <3> QED
        BY <2>2, <3>1, <3>2 DEF CopyOK, Due, Activating, Gated
    <2> QED
      BY <2>3, <2>4 DEF SerialOK
  <1>3. CASE Ages \/ UNCHANGED vars
    <2>1. UNCHANGED <<tx, paid, req, payment, movers, told, faults>>
      BY <1>3 DEF Ages, Expire, vars
    <2> QED
      BY <1>1, <2>1 DEF SerialOK, ToldOK, Performed, Cancelled, UnpaidOK, GrantsOK,
                        Granted, CopyOK, Due, Activating, Gated
  <1>4. CASE Reports
    <2>1. PICK t \in Txs, by \in {"payme", "click"},
               status \in Statuses \cup {"absent"} :
             /\ Report(by, t, status)
             /\ status = tx[t].status \/ (faults /\ by = "click")
      BY <1>4 DEF Reports
    <2>2. UNCHANGED <<tx, paid, req, payment, movers, faults>>
      BY <2>1 DEF Report
    <2>3. ToldOK'
      BY <1>1, <2>1, <2>2, ToldWhatIsShown DEF Report, SerialOK
    <2> QED
      BY <1>1, <2>2, <2>3 DEF SerialOK, UnpaidOK, GrantsOK, Granted, CopyOK, Due,
                              Activating, Gated
  <1>5. CASE \E r \in Requests : RequestKinds(r)
    BY <1>5, SerialRequest
  <1> QED
    BY <1>1, <1>2, <1>3, <1>4, <1>5, StepKinds

LEMMA SerialInit == Init => SInv
  <1> SUFFICES ASSUME Init PROVE SerialOK
    BY HistoryInit DEF SInv
  <1>1. \A t \in Txs : Granted(t) = {}
    BY NoneAssumption DEF Init, Granted
  <1>2. GrantsOK
    BY <1>1, FS_EmptySet DEF GrantsOK
  <1>3. \A r \in Requests : CopyOK(req[r])
    BY DEF Init, CopyOK, Activating, Idle
  <1> QED
    BY <1>2, <1>3 DEF Init, SerialOK, ToldOK, Performed, Cancelled, UnpaidOK, NoRow

\* As long as requests follow one another, with any of them cut or failing
\* anywhere, what Payme and Click were told stays true for good, unless another
\* gateway's call reaches the row.
THEOREM AnswersStandAlone ==
    ASSUME OneAtATime
    PROVE  Spec => []AnswersStand
  <1>1. SInv => AnswersStand
    BY DEF SInv, SerialOK, ToldOK, Performed, Cancelled, Gated, AnswersStand
  <1>2. SInv /\ [Next]_vars => SInv'
    BY SerialNext
  <1> QED
    BY <1>1, <1>2, SerialInit, PTL DEF Spec

-----------------------------------------------------------------------------
(* The refinement of PaymentContract: checkout opens, the UPDATE holds,      *)
(* confirms or voids, the INSERT grants, and every other step stutters.      *)

LEMMA StatesOfStatuses ==
    /\ StateOf("absent") = "none" /\ StateOf("pending") = "open"
    /\ StateOf("processing") = "held"
    /\ StateOf("completed") = "paid" /\ StateOf("cancelled") = "void"
  BY DEF StateOf

\* The moves of the contract, gateway by gateway.
LEMMA MovesOfGateways ==
    /\ Contract!Moves("payme") = {<<"open", "held">>, <<"held", "paid">>, <<"held", "void">>}
    /\ Contract!Moves("click") = {<<"open", "held">>, <<"held", "paid">>}
                                    \cup Contract!Opened \X {"void"}
    /\ \A g \in {"xazna", "uzum"} :
          Contract!Moves(g) = {"open", "held"} \X {"held"}
                                 \cup Contract!Opened \X {"paid", "void"}
  BY DEF Contract!Moves, Contract!Banks

\* A write that is due is a move that the contract allows its gateway.
LEMMA DueIsAllowed ==
    ASSUME NEW t \in Txs, tx[t].status \in Statuses, NEW by \in PaymentMethods,
           NEW status \in {"processing", "completed", "cancelled"}, Due(by, t, status)
    PROVE  /\ StateOf(status) \in Contract!Opened
           /\ <<StateOf(tx[t].status), StateOf(status)>> \in Contract!Moves(by)
  <1>0. PICK from, to : from = StateOf(tx[t].status) /\ to = StateOf(status)
    OBVIOUS
  <1>1. to \in {"held", "paid", "void"} /\ to \in Contract!Opened
    BY <1>0, StatesOfStatuses DEF Contract!Opened
  <1>2. from \in Contract!Opened
    BY <1>0, StatesOfStatuses DEF Contract!Opened, Statuses
  <1>3. CASE by = "payme"
    <2>1. \/ from = "open" /\ to = "held"
          \/ from = "held" /\ to = "paid"
          \/ from = "held" /\ to = "void"
      BY <1>0, <1>3, StatesOfStatuses DEF Due
    <2>2. <<from, to>> \in Contract!Moves("payme")
      BY <2>1, MovesOfGateways
    <2> QED
      BY <1>0, <1>1, <1>3, <2>2
  <1>4. CASE by = "click"
    <2>1. \/ from = "open" /\ to = "held"
          \/ from = "held" /\ to = "paid"
          \/ to = "void"
      BY <1>0, <1>4, StatesOfStatuses DEF Due
    <2>2. <<from, to>> \in Contract!Moves("click")
      BY <1>2, <2>1, MovesOfGateways
    <2> QED
      BY <1>0, <1>1, <1>4, <2>2
  <1>5. CASE by \in {"xazna", "uzum"}
    <2>1. to = "held" => from \in {"open", "held"}
      BY <1>0, <1>5, StatesOfStatuses DEF Due
    <2>2. <<from, to>> \in Contract!Moves(by)
      BY <1>1, <1>2, <1>5, <2>1, MovesOfGateways
    <2> QED
      BY <1>0, <1>1, <2>2
  <1> QED
    BY <1>1, <1>3, <1>4, <1>5 DEF PaymentMethods

\* Steps that leave rows, their history and subscriptions alone stutter.
LEMMA ContractStutters ==
    ASSUME UNCHANGED <<tx, payment, movers>>
    PROVE  UNCHANGED Contract!cvars
  BY DEF Contract!cvars, Granted

LEMMA ContractOpen ==
    ASSUME HInv, NEW t \in Txs, NEW u \in Users, InitiatePayment(t, u)
    PROVE  Contract!Open(t)
  <1>1. /\ tx[t].status = "absent" /\ tx'[t].status = "pending"
        /\ \A t2 \in Txs \ {t} : tx'[t2] = tx[t2]
        /\ UNCHANGED <<payment, movers>>
    BY OpensRow DEF HInv
  <1> QED
    BY <1>1, StatesOfStatuses DEF Contract!Open, Granted

LEMMA ContractUpdate ==
    ASSUME SInv, NEW r \in Requests, UpdateRow(r)
    PROVE  \E t \in Txs, g \in {"payme", "click"} \cup Contract!Banks :
              Contract!Move(g, t)
  <1>0. PICK t, by, st : t = req[r].tx /\ by = req[r].by /\ st = req[r].status
    OBVIOUS
  <1>1. IInv /\ SerialOK
    BY DEF SInv, HInv
  <1>2. req[r].pc = "update" /\ Write(r, req[r].sub) /\ UNCHANGED payment
    BY DEF UpdateRow
  <1>3. /\ t \in Txs /\ Due(by, t, st) /\ tx[t].status \in Statuses
        /\ st \in {"processing", "completed", "cancelled"}
    BY <1>0, <1>1, <1>2 DEF SerialOK, CopyOK, IInv, TypeOK, Row, RequestOK
  <1>4. /\ tx'[t].status = st
        /\ \A t2 \in Txs \ {t} : tx'[t2] = tx[t2]
        /\ movers' = [movers EXCEPT ![t] = @ \cup {by}]
        /\ by \in PaymentMethods
    BY <1>0, <1>1, <1>2, WriteRow
  <1>5. /\ StateOf(st) \in Contract!Opened
        /\ <<StateOf(tx[t].status), StateOf(st)>> \in Contract!Moves(by)
    BY <1>3, <1>4, DueIsAllowed
  <1>6. Contract!Move(by, t)
    <2>1. [t2 \in Txs |-> StateOf(tx'[t2].status)] =
             [[t2 \in Txs |-> StateOf(tx[t2].status)] EXCEPT ![t] = StateOf(st)]
      BY <1>3, <1>4
    <2> QED
      BY <1>2, <1>3, <1>4, <1>5, <2>1 DEF Contract!Move, Granted
  <1> QED
    BY <1>3, <1>4, <1>6 DEF PaymentMethods, Contract!Banks

LEMMA ContractGrant ==
    ASSUME SInv, NEW r \in Requests, NEW s \in Subs, InsertSubscription(r, s)
    PROVE  \E t \in Txs : Contract!Grant(t)
  <1>1. /\ IInv /\ HistoryOK /\ SerialOK
        /\ payment \in [Subs -> Txs \cup {None}]
        /\ movers \in [Txs -> SUBSET PaymentMethods]
    BY DEF SInv, HInv, IInv, TypeOK
  <1> PICK t \in Txs : t = req[r].tx
    BY <1>1 DEF InsertSubscription, IInv, RequestOK
  <1>2. req[r].pc = "insert" /\ payment[s] = None /\ UNCHANGED <<tx, movers>>
        /\ payment' = [payment EXCEPT ![s] = t]
    BY DEF InsertSubscription
  <1>3. /\ tx[t].status = "completed"
        /\ Gated(t) => \A s2 \in Subs : payment[s2] # t
        /\ IsFiniteSet(Granted(t))
    BY <1>1, <1>2 DEF SerialOK, GrantsOK, CopyOK, Activating, IInv, RequestOK
  <1>4. s \notin Granted(t) /\ Granted(t)' = Granted(t) \cup {s}
    BY <1>1, <1>2, NoneAssumption DEF Granted
  <1>5. Cardinality(Granted(t)') = Cardinality(Granted(t)) + 1
    BY <1>3, <1>4, FS_AddElement
  <1>6. \A t2 \in Txs \ {t} : Granted(t2)' = Granted(t2)
    BY <1>1, <1>2, NoneAssumption DEF Granted
  <1>7. \/ Cardinality(Granted(t)) = 0
        \/ movers[t] \cap Contract!Banks # {}
    <2>1. CASE Gated(t)
      <3>1. Granted(t) = {}
        BY <1>3, <2>1 DEF Granted
      <3> QED
        BY <3>1, FS_EmptySet
    <2>2. CASE ~Gated(t)
      BY <1>1, <2>2 DEF Gated, PaymentMethods, Contract!Banks
    <2> QED
      BY <2>1, <2>2
  <1>8. \A t2 \in Txs \ {t} : Cardinality(Granted(t2)') = Cardinality(Granted(t2))
    BY <1>6
  <1>9. Contract!Grant(t)
    BY <1>2, <1>3, <1>5, <1>7, <1>8, StatesOfStatuses DEF Contract!Grant
  <1> QED
    BY <1>9

LEMMA ContractNext ==
    ASSUME OneAtATime, SInv, [Next]_vars
    PROVE  [Contract!CNext]_Contract!cvars
  <1>1. HInv
    BY DEF SInv
  <1>2. CASE Opens
    BY <1>1, <1>2, ContractOpen DEF Opens, Contract!CNext
  <1>3. CASE Ages \/ Reports \/ UNCHANGED vars
    <2>1. UNCHANGED <<tx, payment, movers>>
      BY <1>3 DEF Ages, Reports, Expire, Report, vars
    <2> QED
      BY <2>1, ContractStutters
  <1>4. ASSUME NEW r \in Requests, RequestKinds(r)
        PROVE  [Contract!CNext]_Contract!cvars
    <2>1. CASE UpdateRow(r)
      BY <2>1, ContractUpdate DEF Contract!CNext
    <2>2. CASE \E s \in Subs : InsertSubscription(r, s)
      BY <2>2, ContractGrant DEF Contract!CNext
    <2>3. CASE LinkSubscription(r)
      <3>1. /\ IInv /\ req[r].pc = "link" /\ Write(r, req[r].sub)
            /\ UNCHANGED payment /\ movers' = movers
        BY <2>3, SerialLink DEF LinkSubscription, SInv, HInv
      <3>2. req[r].tx \in Txs /\ tx[req[r].tx].status = req[r].status
        BY <3>1 DEF SInv, SerialOK, CopyOK, Activating, IInv, RequestOK
      <3>3. \A t \in Txs : tx'[t].status = tx[t].status
        BY <3>1, <3>2, WriteRow
      <3> QED
        BY <3>1, <3>3 DEF Contract!cvars, Granted
    <2>4. CASE ~(UpdateRow(r) \/ LinkSubscription(r)
                   \/ \E s \in Subs : InsertSubscription(r, s))
      <3>1. UNCHANGED <<tx, payment, movers>>
        BY <1>4, <2>4 DEF RequestKinds, Waits, Decides, Decide, GivesUp,
             LinkSubscriptionFails, UpdateSubscriptionStatus
      <3> QED
        BY <3>1, ContractStutters
    <2> QED
      BY <2>1, <2>2, <2>3, <2>4
  <1> QED
    BY <1>1, <1>2, <1>3, <1>4, StepKinds

LEMMA ContractInit == Init => Contract!CInit
  <1> SUFFICES ASSUME Init PROVE Contract!CInit
    OBVIOUS
  <1>1. \A t \in Txs : Granted(t) = {}
    BY NoneAssumption DEF Init, Granted
  <1>2. \A t \in Txs : Cardinality(Granted(t)) = 0
    BY <1>1, FS_EmptySet
  <1> QED
    BY <1>2, StatesOfStatuses DEF Init, NoRow, Contract!CInit

\* As long as requests follow one another the service keeps the contract of
\* PaymentContract, for every number of checkouts and whichever gateway calls
\* for which of them: each moves a checkout only as its kind may, and a second
\* subscription is granted only for a checkout that a bank has moved.
THEOREM ContractKept ==
    ASSUME OneAtATime
    PROVE  Spec => ImplementsContract
  <1>1. SInv /\ [Next]_vars => SInv'
    BY SerialNext
  <1>2. SInv /\ [Next]_vars => [Contract!CNext]_Contract!cvars
    BY ContractNext
  <1> QED
    BY <1>1, <1>2, SerialInit, ContractInit, PTL
    DEF Spec, ImplementsContract, Contract!CSpec
=============================================================================
