----------------------------- MODULE Subscriptions -----------------------------
(***************************************************************************)
(* The life of a subscription: activated by a payment, cancelled by its    *)
(* user, moved to the grace period and expired by the daily cleanup worker *)
(* (internal/worker/subscription_cleanup.go), granted or revoked by an     *)
(* administrator.                                                          *)
(*                                                                         *)
(* What a user may do is decided from the users row, which repeats the     *)
(* state of the subscriptions table; every operation writes first one and  *)
(* then the other, without a database transaction.  The worker reads the   *)
(* rows to change at the start of each phase and writes each row back from *)
(* that copy, and so does a cancellation, so the two may overwrite each    *)
(* other.  One database call is one step.                                  *)
(*                                                                         *)
(* Time is counted in days.  The worker runs at midnight, at the beginning *)
(* of a day; a request does not outlive the day it began in (one that      *)
(* straddles midnight is one that comes before the worker's first query).  *)
(***************************************************************************)
EXTENDS Naturals, FiniteSets

CONSTANTS
    Users,         \* user ids
    Subs,          \* subscription ids; bounds how many are ever created
    Granted,       \* the id an admin's grant writes, which no row has
    None,          \* SQL NULL
    Term,          \* SUBSCRIPTION_DURATION_DAYS
    Horizon,       \* bound: the last day
    AdminUntil     \* bound: the last day on which an administrator acts

ASSUME TermAssumption == Term \in Nat /\ Horizon \in Nat /\ AdminUntil \in Nat
ASSUME NoneAssumption ==
    /\ None \notin Users \cup Subs \cup Nat
    /\ Granted \notin Subs

AnnouncedGrace == 3  \* the worker's argument of StartGracePeriod
EnforcedGrace  == 7  \* the interval in the query of FindExpiredGracePeriod

VARIABLES
    today,      \* the current day
    due,        \* the run of the worker scheduled for today is still to come
    sub,        \* the subscriptions table
    user,       \* the subscription columns of the users table
    owed,       \* rows inserted by an activation still to update its user
    job,        \* the worker
    cancel,     \* the cancellation request on each subscription
    reverted,   \* history: rows a cancellation wrote back over a change of the worker
    mixed,      \* history: users who renewed early, or whom an administrator touched
    failed      \* history: a write or a query has failed, or a run was missed or cut

vars == <<today, due, sub, user, owed, job, cancel, reverted, mixed, failed>>

Row == [user : Users \cup {None},
        status : {"absent", "active", "grace_period", "expired"},
        end : Nat \cup {None}, grace : Nat \cup {None}, cancelled : BOOLEAN]

NoRow == [user |-> None, status |-> "absent", end |-> None, grace |-> None,
          cancelled |-> FALSE]

UserRow == [status : {"none", "active", "grace_period", "expired", "cancelled"},
            sub : Subs \cup {Granted, None}, expires : Nat \cup {None}]

\* A copy of a row, as the worker holds it in its list.
Copy == [id : Subs, row : Row]

\* cur: the subscription whose row is written and whose user is still to be.
Job == [phase : {"idle", "grace", "expire"}, todo : SUBSET Copy,
        cur : Subs \cup {None}]

JobIdle == [phase |-> "idle", todo |-> {}, cur |-> None]

CancelRequest == [pc : {"idle", "found", "read"}, row : Row]
NoCancel == [pc |-> "idle", row |-> NoRow]

TypeOK ==
    /\ today \in Nat
    /\ due \in BOOLEAN
    /\ sub \in [Subs -> Row]
    /\ user \in [Users -> UserRow]
    /\ owed \in SUBSET Subs
    /\ job \in Job
    /\ cancel \in [Subs -> CancelRequest]
    /\ reverted \in SUBSET Subs
    /\ mixed \in SUBSET Users
    /\ failed \in BOOLEAN

Init ==
    /\ today = 0
    /\ due = FALSE
    /\ sub = [s \in Subs |-> NoRow]
    /\ user = [u \in Users |-> [status |-> "none", sub |-> None,
                                expires |-> None]]
    /\ owed = {}
    /\ job = JobIdle
    /\ cancel = [s \in Subs |-> NoCancel]
    /\ reverted = {}
    /\ mixed = {}
    /\ failed = FALSE

\* The decision of the middleware RequireActiveSubscription.
HasAccess(u) == user[u].status \in {"active", "grace_period"}

Quiet == /\ job.phase = "idle"
         /\ owed = {}
         /\ \A s \in Subs : cancel[s].pc = "idle"

-----------------------------------------------------------------------------
(* Time *)

\* Midnight.  Without faults the run of the day that ends has taken place.
NextDay ==
    /\ today < Horizon
    /\ Quiet
    /\ failed' = (failed \/ due)
    /\ today' = today + 1
    /\ due' = TRUE
    /\ UNCHANGED <<sub, user, owed, job, cancel, reverted, mixed>>

-----------------------------------------------------------------------------
(* Activation by a completed payment *)

UpdateSubscriptionStatus(u, status, s, expires) ==
    user' = [user EXCEPT ![u] = [status |-> status, sub |-> s,
                                 expires |-> expires]]

\* The row of the subscription is inserted first.
Activate(u, s) ==
    /\ sub[s].status = "absent"
    /\ mixed' = IF HasAccess(u) \/ \E s2 \in owed : sub[s2].user = u
                   THEN mixed \cup {u} ELSE mixed
    /\ sub' = [sub EXCEPT ![s] = [NoRow EXCEPT !.user = u, !.status = "active",
                                               !.end = today + Term]]
    /\ owed' = owed \cup {s}
    /\ UNCHANGED <<today, due, user, job, cancel, reverted, failed>>

\* Mutant: the user waits for a confirmation.
ActivateUserPending(s) ==
    /\ s \in owed
    /\ UpdateSubscriptionStatus(sub[s].user, "pending", s, sub[s].end)
    /\ owed' = owed \ {s}
    /\ UNCHANGED <<today, due, sub, job, cancel, reverted, mixed, failed>>

\* Then the user, from the activation's own variables: the row may already
\* have been changed by somebody else, but neither its user nor its end.
ActivateUser(s) ==
    /\ s \in owed
    /\ UpdateSubscriptionStatus(sub[s].user, "active", s, sub[s].end)
    /\ owed' = owed \ {s}
    /\ UNCHANGED <<today, due, sub, job, cancel, reverted, mixed, failed>>

\* The update fails, or the activation is cut: nobody tries again.
ActivateUserFails(s) ==
    /\ failed' = TRUE
    /\ s \in owed
    /\ owed' = owed \ {s}
    /\ UNCHANGED <<today, due, sub, user, job, cancel, reverted, mixed>>

-----------------------------------------------------------------------------
(* Cancellation by the user *)

\* Bound: one cancellation of a row, and one at a time.
MayCancel(s) == ~sub[s].cancelled /\ \A s2 \in Subs : cancel[s2].pc = "idle"

\* FindActive: one of the user's active rows, for its id.
CancelFind(s) ==
    /\ MayCancel(s)
    /\ sub[s].status = "active"
    /\ cancel' = [cancel EXCEPT ![s].pc = "found"]
    /\ UNCHANGED <<today, due, sub, user, owed, job, reverted, mixed, failed>>

\* FindByID: the row as it is by now.
CancelRead(s) ==
    /\ cancel[s].pc = "found"
    /\ cancel' = [cancel EXCEPT ![s] = [pc |-> "read", row |-> sub[s]]]
    /\ UNCHANGED <<today, due, sub, user, owed, job, reverted, mixed, failed>>

\* Update writes every column from the copy.
CancelWrite(s) ==
    /\ cancel[s].pc = "read"
    /\ sub' = [sub EXCEPT ![s] = [cancel[s].row EXCEPT !.cancelled = TRUE]]
    /\ cancel' = [cancel EXCEPT ![s] = NoCancel]
    /\ reverted' = IF sub[s] = cancel[s].row THEN reverted ELSE reverted \cup {s}
    /\ UNCHANGED <<today, due, user, owed, job, mixed, failed>>

CancelFails(s) ==
    /\ failed' = TRUE
    /\ cancel[s].pc # "idle"
    /\ cancel' = [cancel EXCEPT ![s] = NoCancel]
    /\ UNCHANGED <<today, due, sub, user, owed, job, reverted, mixed>>

-----------------------------------------------------------------------------
(* The cleanup worker *)

Copies(S) == {[id |-> s, row |-> sub[s]] : s \in S}

\* Mutant: the end date is compared inclusively.
TermOverInclusive(s) == sub[s].status = "active" /\ sub[s].end <= today

\* Mutant: the query does not look at the status.
TermOverAnyStatus(s) == sub[s].status # "absent" /\ sub[s].end < today

TermOver(s) == sub[s].status = "active" /\ sub[s].end < today

\* Mutant: the grace period lasts as long as it was announced.
GraceMayBeOverAnnounced(s) ==
    sub[s].status = "grace_period" /\ sub[s].grace + AnnouncedGrace <= today

\* Both midnights are a little after 00:00, so on the seventh day the query
\* may or may not find the row; on the eighth it does.
GraceMayBeOver(s) ==
    sub[s].status = "grace_period" /\ sub[s].grace + EnforcedGrace <= today
GraceIsOver(s) ==
    sub[s].status = "grace_period" /\ sub[s].grace + EnforcedGrace < today

FindExpired ==
    /\ due
    /\ job.phase = "idle"
    /\ job' = [JobIdle EXCEPT !.phase = "grace",
                              !.todo = Copies({s \in Subs : TermOver(s)})]
    /\ due' = FALSE
    /\ UNCHANGED <<today, sub, user, owed, cancel, reverted, mixed, failed>>

\* The query fails: the worker goes on with the second phase.
FindExpiredFails ==
    /\ failed' = TRUE
    /\ due
    /\ job.phase = "idle"
    /\ job' = [JobIdle EXCEPT !.phase = "grace"]
    /\ due' = FALSE
    /\ UNCHANGED <<today, sub, user, owed, cancel, reverted, mixed>>

FindExpiredGracePeriod ==
    /\ job.phase = "grace" /\ job.todo = {} /\ job.cur = None
    /\ \E S \in SUBSET {s \in Subs : GraceMayBeOver(s)} :
          /\ {s \in Subs : GraceIsOver(s)} \subseteq S
          /\ job' = [JobIdle EXCEPT !.phase = "expire", !.todo = Copies(S)]
    /\ UNCHANGED <<today, due, sub, user, owed, cancel, reverted, mixed, failed>>

RunEnds ==
    /\ job.phase = "expire" /\ job.todo = {} /\ job.cur = None
    /\ job' = JobIdle
    /\ UNCHANGED <<today, due, sub, user, owed, cancel, reverted, mixed, failed>>

\* The lists are ordered by end_date and by grace_period_started.
FirstInLine(c) ==
    /\ c \in job.todo
    /\ job.cur = None
    /\ \A d \in job.todo : IF job.phase = "grace"
                             THEN c.row.end <= d.row.end
                             ELSE c.row.grace <= d.row.grace

\* Mutant: the loop ends after the first subscription.
StartGracePeriodOnce(c) ==
    /\ job.phase = "grace"
    /\ FirstInLine(c)
    /\ sub' = [sub EXCEPT ![c.id] = [c.row EXCEPT !.status = "grace_period",
                                                  !.grace = today]]
    /\ job' = [job EXCEPT !.todo = {}, !.cur = c.id]
    /\ UNCHANGED <<today, due, user, owed, cancel, reverted, mixed, failed>>

\* StartGracePeriod writes the row back from the copy...
StartGracePeriod(c) ==
    /\ job.phase = "grace"
    /\ FirstInLine(c)
    /\ sub' = [sub EXCEPT ![c.id] = [c.row EXCEPT !.status = "grace_period",
                                                  !.grace = today]]
    /\ job' = [job EXCEPT !.todo = @ \ {c}, !.cur = c.id]
    /\ UNCHANGED <<today, due, user, owed, cancel, reverted, mixed, failed>>

\* ...and then announces a grace period to its user.
StartGracePeriodUser ==
    /\ job.phase = "grace" /\ job.cur # None
    /\ UpdateSubscriptionStatus(sub[job.cur].user, "grace_period", job.cur,
                                today + AnnouncedGrace)
    /\ job' = [job EXCEPT !.cur = None]
    /\ UNCHANGED <<today, due, sub, owed, cancel, reverted, mixed, failed>>

MarkExpired(c) ==
    /\ job.phase = "expire"
    /\ FirstInLine(c)
    /\ sub' = [sub EXCEPT ![c.id] = [c.row EXCEPT !.status = "expired"]]
    /\ job' = [job EXCEPT !.todo = @ \ {c}, !.cur = c.id]
    /\ UNCHANGED <<today, due, user, owed, cancel, reverted, mixed, failed>>

\* Mutant: only the row of the subscription is written.
MarkExpiredNoUser ==
    /\ job.phase = "expire" /\ job.cur # None
    /\ job' = [job EXCEPT !.cur = None]
    /\ UNCHANGED <<today, due, sub, user, owed, cancel, reverted, mixed, failed>>

MarkExpiredUser ==
    /\ job.phase = "expire" /\ job.cur # None
    /\ UpdateSubscriptionStatus(sub[job.cur].user, "expired", None, None)
    /\ job' = [job EXCEPT !.cur = None]
    /\ UNCHANGED <<today, due, sub, owed, cancel, reverted, mixed, failed>>

\* A write fails: the worker logs it and goes on with the next subscription.
\* When the row could not be written, its user is not written either.
WriteFails ==
    /\ failed' = TRUE
    /\ \/ \E c \in job.todo :
             FirstInLine(c) /\ job' = [job EXCEPT !.todo = @ \ {c}]
       \/ job.cur # None /\ job' = [job EXCEPT !.cur = None]
    /\ UNCHANGED <<today, due, sub, user, owed, cancel, reverted, mixed>>

\* The server stops during the run, or its five minutes are over.
RunCut ==
    /\ failed' = TRUE
    /\ job.phase # "idle"
    /\ job' = JobIdle
    /\ UNCHANGED <<today, due, sub, user, owed, cancel, reverted, mixed>>

-----------------------------------------------------------------------------
(* Administration: only the user's columns are written *)

\* Bound: an administrator deals with a user once, and early.
MayAdminister(u) == u \notin mixed /\ today <= AdminUntil

GrantSubscription(u) ==
    /\ MayAdminister(u)
    /\ UpdateSubscriptionStatus(u, "active", Granted, today + Term)
    /\ mixed' = mixed \cup {u}
    /\ UNCHANGED <<today, due, sub, owed, job, cancel, reverted, failed>>

RevokeSubscription(u) ==
    /\ MayAdminister(u)
    /\ UpdateSubscriptionStatus(u, "cancelled", None, None)
    /\ mixed' = mixed \cup {u}
    /\ UNCHANGED <<today, due, sub, owed, job, cancel, reverted, failed>>

-----------------------------------------------------------------------------

UserStep ==
    \E s \in Subs :
        \/ \E u \in Users : Activate(u, s)
        \/ ActivateUser(s) \/ ActivateUserFails(s)
        \/ CancelFind(s) \/ CancelRead(s) \/ CancelWrite(s) \/ CancelFails(s)

WorkerStep ==
    \/ FindExpired \/ FindExpiredFails
    \/ \E c \in job.todo : StartGracePeriod(c) \/ MarkExpired(c)
    \/ StartGracePeriodUser
    \/ FindExpiredGracePeriod
    \/ MarkExpiredUser
    \/ WriteFails \/ RunCut \/ RunEnds

AdminStep == \E u \in Users : GrantSubscription(u) \/ RevokeSubscription(u)

\* The horizon is the only end of the model.
Done == today = Horizon /\ Quiet /\ ~due /\ UNCHANGED vars

Next == NextDay \/ UserStep \/ WorkerStep \/ AdminStep \/ Done

Spec == Init /\ [][Next]_vars

-----------------------------------------------------------------------------
(* Properties *)

Exists(s) == sub[s].status # "absent"
Owner(s) == sub[s].user

\* Nobody loses a subscription before the paid term and seven full days of
\* grace have passed, whatever fails and whatever overwrites what.
GraceServed ==
    \A s \in Subs : sub[s].status = "expired" =>
        /\ sub[s].grace # None
        /\ sub[s].end < sub[s].grace
        /\ sub[s].grace + EnforcedGrace <= today

\* An expired row is never written back to life, although a cancellation and
\* the worker both write rows from copies they read earlier.
ExpiredIsFinal ==
    [][\A s \in Subs : sub[s].status = "expired" =>
                           sub'[s].status = "expired"]_vars

PaidTerm(s) == Exists(s) /\ today <= sub[s].end /\ s \notin owed

\* During the paid term of a user who did not renew early and was left alone by
\* administrators, the user row shows that subscription as active and its true
\* end, also while the worker and cancellations are at work.
PaidTermHonoured ==
    ~failed => \A s \in Subs : PaidTerm(s) /\ Owner(s) \notin mixed =>
        /\ sub[s].status = "active"
        /\ user[Owner(s)] = [status |-> "active", sub |-> s,
                             expires |-> sub[s].end]

\* When nothing is in progress, the users row of such a user gives access
\* exactly if there is an active or grace-period row.
AccessMatchesRows ==
    ~failed /\ Quiet => \A u \in Users \ mixed :
        HasAccess(u) <=> \E s \in Subs :
            Owner(s) = u /\ sub[s].status \in {"active", "grace_period"}

\* Once the run of the day is over no row has been forgotten, unless a
\* cancellation wrote it back: none is active past its end, none in grace for
\* more than seven days.
TermsEnforcedDaily ==
    ~failed /\ Quiet /\ ~due => \A s \in Subs \ reverted :
        /\ sub[s].status = "active" => today <= sub[s].end
        /\ sub[s].status = "grace_period" =>
               today <= sub[s].grace + EnforcedGrace

\* "StartGracePeriod moves a subscription to grace period": it leaves a user
\* alone who has another subscription in its paid term.
RenewalHonoured ==
    [][~failed /\ StartGracePeriodUser =>
           \A s \in Subs : PaidTerm(s) => Owner(s) # Owner(job.cur)]_vars
=============================================================================
