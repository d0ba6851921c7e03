-------------------------- MODULE SubscriptionsProofs --------------------------
(***************************************************************************)
(* The safety properties of Subscriptions for every number of users and    *)
(* subscriptions, every term and every horizon.                            *)
(*                                                                         *)
(* GraceServed and ExpiredIsFinal depend on copies: the worker and the     *)
(* cancellations write back rows they read earlier in the day. The         *)
(* invariant says that rows and copies are plausible (RowOK), that a row   *)
(* with a cancellation at work, or in the list of the first phase, is      *)
(* Fresh - active, or moved to the grace period today - and that the rows  *)
(* in the list of the second phase are not, so that nobody else can write  *)
(* them.                                                                   *)
(*                                                                         *)
(* The other three also need what the worker has still to do: DayOK says   *)
(* where every late row is waiting, and UserOK that a user holds one       *)
(* subscription, which the users row follows (FullInv).                    *)
(***************************************************************************)
EXTENDS Subscriptions, TLAPS

\* Grace begins after the end, and a row expires a full grace period later.
RowOK(row) ==
    /\ row.status # "absent" => row.end \in Nat
    /\ row.status \in {"grace_period", "expired"} =>
          row.grace \in Nat /\ row.end < row.grace /\ row.grace <= today
    /\ row.status = "expired" => row.grace + EnforcedGrace <= today

RowsOK == \A s \in Subs : RowOK(sub[s])

Fresh(row) ==
    \/ row.status = "active"
    \/ row.status = "grace_period" /\ row.grace = today

CancelOK ==
    \A s \in Subs :
        /\ cancel[s].pc # "idle" => Fresh(sub[s])
        /\ cancel[s].pc = "read" => Fresh(cancel[s].row) /\ RowOK(cancel[s].row)

\* A copy in the list of the first phase, and one in that of the second.
GraceCopyOK(c) ==
    /\ c.row.status = "active"
    /\ c.row.end \in Nat /\ c.row.end < today
    /\ Fresh(sub[c.id])

ExpireCopyOK(c) ==
    /\ c.row = sub[c.id]
    /\ sub[c.id].status = "grace_period"
    /\ sub[c.id].grace + EnforcedGrace <= today

JobOK ==
    /\ job.phase = "idle" => job.todo = {}
    /\ job.phase = "grace" => \A c \in job.todo : GraceCopyOK(c)
    /\ job.phase = "expire" => \A c \in job.todo : ExpireCopyOK(c)

IInv == TypeOK /\ RowsOK /\ CancelOK /\ JobOK

-----------------------------------------------------------------------------
(* The type invariant *)

LEMMA NothingType == NoRow \in Row /\ NoCancel \in CancelRequest /\ JobIdle \in Job
  <1>1. NoRow \in Row
    BY DEF NoRow, Row
  <1>2. NoCancel \in CancelRequest
    BY <1>1 DEF NoCancel, CancelRequest
  <1>3. JobIdle \in Job
    BY DEF JobIdle, Job
  <1> QED
    BY <1>1, <1>2, <1>3

LEMMA TypeInit == Init => TypeOK
  <1> SUFFICES ASSUME Init PROVE TypeOK
    OBVIOUS
  <1>1. sub \in [Subs -> Row] /\ cancel \in [Subs -> CancelRequest] /\ job \in Job
    BY NothingType DEF Init
  <1>2. user \in [Users -> UserRow]
    BY DEF Init, UserRow
  <1> QED
    BY <1>1, <1>2 DEF Init, TypeOK

\* Whatever is written into the columns of a user is of their type.
LEMMA UserType ==
    ASSUME TypeOK, NEW u, NEW expires \in Nat \cup {None},
           NEW s \in Subs \cup {Granted, None},
           NEW status \in {"none", "active", "grace_period", "expired", "cancelled"},
           UpdateSubscriptionStatus(u, status, s, expires)
    PROVE  user' \in [Users -> UserRow]
  BY DEF UpdateSubscriptionStatus, TypeOK, UserRow

LEMMA TypeUser ==
    ASSUME TypeOK, UserStep PROVE TypeOK'
  <1> USE DEF TypeOK
  <1>1. PICK s \in Subs :
           \/ \E u \in Users : Activate(u, s)
           \/ ActivateUser(s) \/ ActivateUserFails(s)
           \/ CancelFind(s) \/ CancelRead(s) \/ CancelWrite(s) \/ CancelFails(s)
    BY DEF UserStep
  <1>2. ASSUME NEW u \in Users, Activate(u, s) PROVE TypeOK'
    <2>1. sub' \in [Subs -> Row]
      <3>1. today + Term \in Nat
        BY TermAssumption
      <3>2. [NoRow EXCEPT !.user = u, !.status = "active", !.end = today + Term]
               \in Row
        BY <3>1 DEF NoRow, Row
      <3> QED
        BY <1>2, <3>2 DEF Activate
    <2>2. mixed' \in SUBSET Users
      BY <1>2 DEF Activate
    <2> QED
      BY <1>2, <2>1, <2>2 DEF Activate
  <1>3. CASE ActivateUser(s)
    <2>1. user' \in [Users -> UserRow]
      <3>1. sub[s].end \in Nat \cup {None}
        BY DEF Row
      <3> QED
        BY <1>3, <3>1, UserType DEF ActivateUser
    <2> QED
      BY <1>3, <2>1 DEF ActivateUser
  <1>4. CASE ActivateUserFails(s)
    BY <1>4 DEF ActivateUserFails
  <1>5. CASE CancelFind(s)
    <2>1. cancel' \in [Subs -> CancelRequest]
      BY <1>5 DEF CancelFind, CancelRequest
    <2> QED
      BY <1>5, <2>1 DEF CancelFind
  <1>6. CASE CancelRead(s)
    <2>1. cancel' \in [Subs -> CancelRequest]
      BY <1>6 DEF CancelRead, CancelRequest
    <2> QED
      BY <1>6, <2>1 DEF CancelRead
  <1>7. CASE CancelWrite(s)
    <2>1. sub' \in [Subs -> Row]
      <3>1. cancel[s].row \in Row
        BY DEF CancelRequest
      <3>2. [cancel[s].row EXCEPT !.cancelled = TRUE] \in Row
        BY <3>1 DEF Row
      <3> QED
        BY <1>7, <3>2 DEF CancelWrite
    <2>2. cancel' \in [Subs -> CancelRequest]
      BY <1>7, NothingType DEF CancelWrite
    <2> QED
      BY <1>7, <2>1, <2>2 DEF CancelWrite
  <1>8. CASE CancelFails(s)
    <2>1. cancel' \in [Subs -> CancelRequest]
      BY <1>8, NothingType DEF CancelFails
    <2> QED
      BY <1>8, <2>1 DEF CancelFails
  <1> QED
    BY <1>1, <1>2, <1>3, <1>4, <1>5, <1>6, <1>7, <1>8

\* The copies of rows that exist are copies.
LEMMA CopiesType ==
    ASSUME TypeOK, NEW S \in SUBSET Subs
    PROVE  Copies(S) \in SUBSET Copy
  BY DEF Copies, Copy, TypeOK

LEMMA TypeWorker ==
    ASSUME TypeOK, WorkerStep PROVE TypeOK'
  <1> USE DEF Job
  <1>1. CASE FindExpired
    <2>1. Copies({s \in Subs : TermOver(s)}) \in SUBSET Copy
      BY CopiesType
    <2>2. job' \in Job
      BY <1>1, <2>1 DEF FindExpired, JobIdle
    <2> QED
      BY <1>1, <2>2 DEF FindExpired, TypeOK
  <1>2. CASE FindExpiredFails
    <2>1. job' \in Job
      BY <1>2 DEF FindExpiredFails, JobIdle
    <2> QED
      BY <1>2, <2>1 DEF FindExpiredFails, TypeOK
  <1>3. ASSUME NEW c \in job.todo, StartGracePeriod(c) PROVE TypeOK'
    <2>1. c \in Copy
      BY <1>3 DEF TypeOK
    <2>2. sub' \in [Subs -> Row]
      BY <1>3, <2>1 DEF StartGracePeriod, TypeOK, Copy, Row
    <2>3. job' \in Job
      BY <1>3, <2>1 DEF StartGracePeriod, TypeOK, Copy
    <2> QED
      BY <1>3, <2>2, <2>3 DEF StartGracePeriod, TypeOK
  <1>4. ASSUME NEW c \in job.todo, MarkExpired(c) PROVE TypeOK'
    <2>1. c \in Copy
      BY <1>4 DEF TypeOK
    <2>2. sub' \in [Subs -> Row]
      BY <1>4, <2>1 DEF MarkExpired, TypeOK, Copy, Row
    <2>3. job' \in Job
      BY <1>4, <2>1 DEF MarkExpired, TypeOK, Copy
    <2> QED
      BY <1>4, <2>2, <2>3 DEF MarkExpired, TypeOK
  <1>5. CASE StartGracePeriodUser
    <2>1. job.cur \in Subs /\ today + AnnouncedGrace \in Nat
      BY <1>5 DEF StartGracePeriodUser, TypeOK, AnnouncedGrace
    <2>2. user' \in [Users -> UserRow]
      BY <1>5, <2>1, UserType DEF StartGracePeriodUser
    <2>3. job' \in Job
      BY <1>5 DEF StartGracePeriodUser, TypeOK
    <2> QED
      BY <1>5, <2>2, <2>3 DEF StartGracePeriodUser, TypeOK
  <1>6. CASE FindExpiredGracePeriod
    <2>1. PICK S \in SUBSET {s \in Subs : GraceMayBeOver(s)} :
             job' = [JobIdle EXCEPT !.phase = "expire", !.todo = Copies(S)]
      BY <1>6 DEF FindExpiredGracePeriod
    <2>2. Copies(S) \in SUBSET Copy
      BY CopiesType
    <2>3. job' \in Job
      BY <2>1, <2>2 DEF JobIdle
    <2> QED
      BY <1>6, <2>3 DEF FindExpiredGracePeriod, TypeOK
  <1>7. CASE MarkExpiredUser
    <2>1. user' \in [Users -> UserRow]
      BY <1>7, UserType DEF MarkExpiredUser
    <2>2. job' \in Job
      BY <1>7 DEF MarkExpiredUser, TypeOK
    <2> QED
      BY <1>7, <2>1, <2>2 DEF MarkExpiredUser, TypeOK
  <1>8. CASE WriteFails
    <2>1. job \in Job
      BY DEF TypeOK
    <2>2. [job EXCEPT !.cur = None] \in Job
      BY <2>1
    <2>3. ASSUME NEW c \in job.todo PROVE [job EXCEPT !.todo = job.todo \ {c}] \in Job
      BY <2>1
    <2>4. job' \in Job
      BY <1>8, <2>2, <2>3 DEF WriteFails
    <2> QED
      BY <1>8, <2>4 DEF WriteFails, TypeOK
  <1>9. CASE RunCut \/ RunEnds
    <2>1. job' \in Job
      BY <1>9, NothingType DEF RunCut, RunEnds
    <2> QED
      BY <1>9, <2>1 DEF RunCut, RunEnds, TypeOK
  <1> QED
    BY <1>1, <1>2, <1>3, <1>4, <1>5, <1>6, <1>7, <1>8, <1>9 DEF WorkerStep

LEMMA TypeNext == TypeOK /\ [Next]_vars => TypeOK'
  <1> SUFFICES ASSUME TypeOK, [Next]_vars PROVE TypeOK'
    OBVIOUS
  <1>1. CASE NextDay
    BY <1>1 DEF NextDay, TypeOK
  <1>2. CASE AdminStep
    <2>1. PICK u \in Users : GrantSubscription(u) \/ RevokeSubscription(u)
      BY <1>2 DEF AdminStep
    <2>2. today + Term \in Nat
      BY TermAssumption DEF TypeOK
    <2>3. user' \in [Users -> UserRow]
      BY <2>1, <2>2, UserType DEF GrantSubscription, RevokeSubscription
    <2> QED
      BY <2>1, <2>3 DEF GrantSubscription, RevokeSubscription, TypeOK
  <1>3. CASE Done \/ UNCHANGED vars
    BY <1>3 DEF Done, vars, TypeOK
  <1> QED
    BY <1>1, <1>2, <1>3, TypeUser, TypeWorker DEF Next

-----------------------------------------------------------------------------
(* The copies *)

LEMMA IInit == Init => IInv
  <1>1. Init => RowsOK /\ CancelOK /\ JobOK
    BY DEF Init, RowsOK, RowOK, NoRow, CancelOK, NoCancel, JobOK, JobIdle
  <1> QED
    BY <1>1, TypeInit DEF IInv

\* What leaves the day, the rows and the copies alone keeps the invariant.
LEMMA CopiesFrame ==
    ASSUME IInv, TypeOK', UNCHANGED <<today, sub, cancel, job>>
    PROVE  IInv'
  BY DEF IInv, RowsOK, RowOK, CancelOK, Fresh, JobOK, GraceCopyOK, ExpireCopyOK

\* Midnight finds no copies, and what is late stays late.
LEMMA NextDayStep ==
    ASSUME IInv, TypeOK', NextDay
    PROVE  IInv'
  <1>1. today \in Nat /\ today' = today + 1 /\ UNCHANGED <<sub, cancel, job>>
    BY DEF NextDay, IInv, TypeOK
  <1>2. RowsOK'
    BY <1>1 DEF IInv, RowsOK, RowOK, EnforcedGrace
  <1>3. CancelOK'
    BY <1>1 DEF NextDay, Quiet, CancelOK
  <1>4. JobOK'
    BY <1>1 DEF NextDay, Quiet, IInv, JobOK
  <1> QED
    BY <1>2, <1>3, <1>4 DEF IInv

\* The row of an activation was absent, so there is no copy of it.
LEMMA ActivateStep ==
    ASSUME IInv, TypeOK', NEW s \in Subs, NEW u \in Users, Activate(u, s)
    PROVE  IInv'
  <1>1. /\ sub[s].status = "absent"
        /\ sub' = [sub EXCEPT ![s] = [NoRow EXCEPT !.user = u, !.status = "active",
                                                   !.end = today + Term]]
        /\ UNCHANGED <<today, cancel, job>>
    BY DEF Activate
  <1>2. today + Term \in Nat
    BY TermAssumption DEF IInv, TypeOK
  <1>3. /\ sub'[s].status = "active" /\ sub'[s].end \in Nat
        /\ \A r \in Subs \ {s} : sub'[r] = sub[r]
    BY <1>1, <1>2 DEF IInv, TypeOK, NoRow
  <1>4. RowsOK'
    BY <1>1, <1>3 DEF IInv, RowsOK, RowOK
  <1>5. CancelOK'
    BY <1>1, <1>3 DEF IInv, CancelOK, Fresh, RowOK
  <1>6. JobOK'
    <2>1. \A c \in job.todo : c.id \in Subs
      BY DEF IInv, TypeOK, Job, Copy
    <2> QED
      BY <1>1, <1>3, <2>1 DEF IInv, JobOK, GraceCopyOK, ExpireCopyOK, Fresh
  <1> QED
    BY <1>4, <1>5, <1>6 DEF IInv

\* A cancellation that begins finds an active row, and reads it still fresh.
LEMMA CancelBeginStep ==
    ASSUME IInv, TypeOK', NEW s \in Subs,
           CancelFind(s) \/ CancelRead(s) \/ CancelFails(s)
    PROVE  IInv'
  <1>1. UNCHANGED <<today, sub, job>>
    BY DEF CancelFind, CancelRead, CancelFails
  <1>2. CancelOK'
    <2>1. CASE CancelFind(s)
      BY <2>1 DEF CancelFind, IInv, TypeOK, CancelRequest, CancelOK, Fresh, RowOK
    <2>2. CASE CancelRead(s)
      BY <2>2 DEF CancelRead, IInv, TypeOK, CancelOK, RowsOK, Fresh, RowOK
    <2>3. CASE CancelFails(s)
      BY <2>3 DEF CancelFails, NoCancel, IInv, TypeOK, CancelOK, Fresh, RowOK
    <2> QED
      BY <2>1, <2>2, <2>3
  <1> QED
    BY <1>1, <1>2 DEF IInv, RowsOK, RowOK, JobOK, GraceCopyOK, ExpireCopyOK, Fresh

\* The copy a cancellation writes back is fresh, and so is the row it replaces,
\* which is therefore in no list of the second phase.
LEMMA CancelWriteStep ==
    ASSUME IInv, TypeOK', NEW s \in Subs, CancelWrite(s)
    PROVE  IInv' /\ sub[s].status # "expired"
  <1>1. /\ cancel[s].pc = "read"
        /\ sub' = [sub EXCEPT ![s] = [cancel[s].row EXCEPT !.cancelled = TRUE]]
        /\ cancel' = [cancel EXCEPT ![s] = NoCancel]
        /\ UNCHANGED <<today, job>>
    BY DEF CancelWrite
  <1>2. Fresh(sub[s]) /\ Fresh(cancel[s].row) /\ RowOK(cancel[s].row)
    BY <1>1 DEF IInv, CancelOK
  <1>3. /\ sub'[s].status = cancel[s].row.status /\ sub'[s].end = cancel[s].row.end
        /\ sub'[s].grace = cancel[s].row.grace
        /\ \A r \in Subs \ {s} : sub'[r] = sub[r]
    BY <1>1 DEF IInv, TypeOK, CancelRequest, Row
  <1>4. Fresh(sub[s])'
    BY <1>1, <1>2, <1>3 DEF Fresh
  <1>5. RowsOK'
    BY <1>1, <1>2, <1>3 DEF IInv, RowsOK, RowOK
  <1>6. CancelOK'
    BY <1>1, <1>3, <1>4 DEF IInv, TypeOK, CancelOK, NoCancel, Fresh, RowOK
  <1>7. JobOK'
    <2>1. \A c \in job.todo : c.id \in Subs
      BY DEF IInv, TypeOK, Job, Copy
    <2>2. ASSUME NEW c \in job.todo, GraceCopyOK(c) PROVE GraceCopyOK(c)'
      BY <1>1, <1>3, <1>4, <2>1, <2>2 DEF GraceCopyOK, Fresh
    <2>3. ASSUME NEW c \in job.todo, ExpireCopyOK(c) PROVE ExpireCopyOK(c)'
      <3>1. c.id # s
        BY <1>2, <2>3 DEF ExpireCopyOK, Fresh, EnforcedGrace, IInv, TypeOK
      <3> QED
        BY <1>1, <1>3, <2>1, <2>3, <3>1 DEF ExpireCopyOK
    <2> QED
      BY <1>1, <2>2, <2>3 DEF IInv, JobOK
  <1> QED
    BY <1>2, <1>5, <1>6, <1>7 DEF IInv, Fresh

-----------------------------------------------------------------------------
(* The worker *)

\* The lists are copied from the rows as they are.
LEMMA FindStep ==
    ASSUME IInv, TypeOK', FindExpired \/ FindExpiredFails \/ FindExpiredGracePeriod
    PROVE  IInv'
  <1>1. UNCHANGED <<today, sub, cancel>>
    BY DEF FindExpired, FindExpiredFails, FindExpiredGracePeriod
  <1>2. JobOK'
    <2>1. CASE FindExpired
      <3>1. \A c \in Copies({s \in Subs : TermOver(s)}) : GraceCopyOK(c)
        BY DEF Copies, TermOver, GraceCopyOK, Fresh, IInv, RowsOK, RowOK
      <3>2. /\ job'.phase = "grace"
            /\ job'.todo = Copies({s \in Subs : TermOver(s)})
        BY <2>1 DEF FindExpired, JobIdle
      <3> QED
        BY <1>1, <3>1, <3>2 DEF JobOK, GraceCopyOK, Fresh
    <2>2. CASE FindExpiredFails
      BY <2>2 DEF FindExpiredFails, JobIdle, JobOK
    <2>3. CASE FindExpiredGracePeriod
      <3>1. PICK S \in SUBSET {s \in Subs : GraceMayBeOver(s)} :
               job' = [JobIdle EXCEPT !.phase = "expire", !.todo = Copies(S)]
        BY <2>3 DEF FindExpiredGracePeriod
      <3>2. \A c \in Copies(S) : ExpireCopyOK(c)
        BY DEF Copies, GraceMayBeOver, ExpireCopyOK
      <3>3. job'.phase = "expire" /\ job'.todo = Copies(S)
        BY <3>1 DEF JobIdle
      <3> QED
        BY <1>1, <3>2, <3>3 DEF JobOK, ExpireCopyOK
    <2> QED
      BY <2>1, <2>2, <2>3
  <1> QED
    BY <1>1, <1>2 DEF IInv, RowsOK, RowOK, CancelOK, Fresh

\* The row the first phase writes has its grace period begin today.
LEMMA StartGracePeriodStep ==
    ASSUME IInv, TypeOK', NEW c \in job.todo, StartGracePeriod(c)
    PROVE  IInv' /\ sub[c.id].status # "expired"
  <1>1. /\ job.phase = "grace"
        /\ sub' = [sub EXCEPT ![c.id] = [c.row EXCEPT !.status = "grace_period",
                                                      !.grace = today]]
        /\ job' = [job EXCEPT !.todo = job.todo \ {c}, !.cur = c.id]
        /\ UNCHANGED <<today, cancel>>
    BY DEF StartGracePeriod
  <1>2. /\ job \in Job /\ c \in Copy /\ c.id \in Subs /\ c.row \in Row
        /\ \A d \in job.todo : d.id \in Subs
        /\ today \in Nat /\ sub \in [Subs -> Row]
    BY DEF IInv, TypeOK, Job, Copy
  <1>3. GraceCopyOK(c)
    BY <1>1 DEF IInv, JobOK
  <1>4. /\ sub'[c.id].status = "grace_period" /\ sub'[c.id].grace = today
        /\ sub'[c.id].end = c.row.end
        /\ \A r \in Subs \ {c.id} : sub'[r] = sub[r]
    BY <1>1, <1>2 DEF Row
  <1>5. RowsOK'
    BY <1>1, <1>2, <1>3, <1>4 DEF IInv, RowsOK, RowOK, GraceCopyOK
  <1>6. CancelOK'
    BY <1>1, <1>4 DEF IInv, CancelOK, Fresh, RowOK
  <1>7. JobOK'
    <2>1. job'.phase = "grace" /\ job'.todo \subseteq job.todo
      BY <1>1, <1>2 DEF Job
    <2>2. \A d \in job.todo : GraceCopyOK(d)
      BY <1>1 DEF IInv, JobOK
    <2>3. \A d \in job.todo : Fresh(sub[d.id])'
      BY <1>1, <1>2, <1>4, <2>2 DEF GraceCopyOK, Fresh
    <2> QED
      BY <1>1, <2>1, <2>2, <2>3 DEF JobOK, GraceCopyOK
  <1>8. sub[c.id].status # "expired"
    BY <1>3 DEF GraceCopyOK, Fresh
  <1> QED
    BY <1>5, <1>6, <1>7, <1>8 DEF IInv

\* The row the second phase writes has been in grace long enough, and is not
\* one a cancellation is at work on.
LEMMA MarkExpiredStep ==
    ASSUME IInv, TypeOK', NEW c \in job.todo, MarkExpired(c)
    PROVE  IInv' /\ sub'[c.id].status = "expired"
  <1>1. /\ job.phase = "expire"
        /\ sub' = [sub EXCEPT ![c.id] = [c.row EXCEPT !.status = "expired"]]
        /\ job' = [job EXCEPT !.todo = job.todo \ {c}, !.cur = c.id]
        /\ UNCHANGED <<today, cancel>>
    BY DEF MarkExpired
  <1>2. /\ job \in Job /\ c.id \in Subs /\ c.row \in Row
        /\ \A d \in job.todo : d \in Copy
        /\ today \in Nat /\ sub \in [Subs -> Row]
    BY DEF IInv, TypeOK, Job, Copy
  <1>3. \A d \in job.todo : ExpireCopyOK(d)
    BY <1>1 DEF IInv, JobOK
  <1>4. /\ sub'[c.id].status = "expired" /\ sub'[c.id].grace = c.row.grace
        /\ sub'[c.id].end = c.row.end
        /\ \A r \in Subs \ {c.id} : sub'[r] = sub[r]
    BY <1>1, <1>2 DEF Row
  <1>5. RowsOK'
    BY <1>1, <1>2, <1>3, <1>4 DEF IInv, RowsOK, RowOK, ExpireCopyOK
  <1>6. CancelOK'
    <2>1. ~Fresh(sub[c.id])
      BY <1>2, <1>3 DEF ExpireCopyOK, Fresh, EnforcedGrace, IInv, RowsOK, RowOK
    <2>2. cancel[c.id].pc = "idle"
      BY <1>2, <2>1 DEF IInv, CancelOK
    <2> QED
      BY <1>1, <1>4, <2>2 DEF IInv, CancelOK, Fresh, RowOK
  <1>7. JobOK'
    <2>1. job'.phase = "expire" /\ job'.todo = job.todo \ {c}
      BY <1>1, <1>2 DEF Job
    <2>2. ASSUME NEW d \in job.todo \ {c} PROVE d.id # c.id
      BY <1>2, <1>3 DEF ExpireCopyOK, Copy
    <2>3. \A d \in job.todo \ {c} : ExpireCopyOK(d)'
      BY <1>1, <1>2, <1>3, <1>4, <2>2 DEF ExpireCopyOK, Copy
    <2> QED
      BY <2>1, <2>3 DEF JobOK
  <1> QED
    BY <1>4, <1>5, <1>6, <1>7 DEF IInv

\* What only takes from a list keeps what is left of it.
LEMMA JobShrinks ==
    ASSUME IInv, TypeOK', UNCHANGED <<today, sub, cancel>>,
           \/ job' = JobIdle
           \/ job'.phase = job.phase /\ job'.todo \subseteq job.todo
    PROVE  IInv'
  BY DEF IInv, RowsOK, RowOK, CancelOK, Fresh, JobOK, JobIdle, GraceCopyOK,
         ExpireCopyOK

-----------------------------------------------------------------------------
(* The theorems *)

\* One step keeps the invariant and leaves no expired row alive.
LEMMA INext ==
    ASSUME IInv, [Next]_vars
    PROVE  /\ IInv'
           /\ \A s \in Subs : sub[s].status = "expired" =>
                                   sub'[s].status = "expired"
  <1> DEFINE Final == \A s \in Subs : sub[s].status = "expired" =>
                                          sub'[s].status = "expired"
  <1> USE DEF IInv
  <1>1. TypeOK'
    BY TypeNext
  <1>2. UNCHANGED sub => Final
    OBVIOUS
  <1>3. CASE NextDay
    BY <1>1, <1>2, <1>3, NextDayStep DEF NextDay
  <1>4. CASE AdminStep
    <2>1. UNCHANGED <<today, sub, cancel, job>>
      BY <1>4 DEF AdminStep, GrantSubscription, RevokeSubscription
    <2> QED
      BY <1>1, <1>2, <2>1, CopiesFrame
  <1>5. CASE Done \/ UNCHANGED vars
    <2>1. UNCHANGED <<today, sub, cancel, job>>
      BY <1>5 DEF Done, vars
    <2> QED
      BY <1>1, <1>2, <2>1, CopiesFrame
  <1>6. CASE UserStep
    <2>1. PICK s \in Subs :
             \/ \E u \in Users : Activate(u, s)
             \/ ActivateUser(s) \/ ActivateUserFails(s)
             \/ CancelFind(s) \/ CancelRead(s) \/ CancelWrite(s) \/ CancelFails(s)
      BY <1>6 DEF UserStep
    <2>2. ASSUME NEW u \in Users, Activate(u, s) PROVE IInv' /\ Final
      <3>1. IInv'
        BY <1>1, <2>2, ActivateStep
      <3>2. sub[s].status = "absent" /\ \A r \in Subs \ {s} : sub'[r] = sub[r]
        BY <2>2 DEF Activate, TypeOK
      <3> QED
        BY <3>1, <3>2
    <2>3. CASE ActivateUser(s) \/ ActivateUserFails(s)
      <3>1. UNCHANGED <<today, sub, cancel, job>>
        BY <2>3 DEF ActivateUser, ActivateUserFails
      <3> QED
        BY <1>1, <1>2, <3>1, CopiesFrame
    <2>4. CASE CancelFind(s) \/ CancelRead(s) \/ CancelFails(s)
      <3>1. UNCHANGED sub
        BY <2>4 DEF CancelFind, CancelRead, CancelFails
      <3> QED
        BY <1>1, <1>2, <2>4, <3>1, CancelBeginStep
    <2>5. CASE CancelWrite(s)
      <3>1. IInv' /\ sub[s].status # "expired"
        BY <1>1, <2>5, CancelWriteStep
      <3>2. \A r \in Subs \ {s} : sub'[r] = sub[r]
        BY <2>5 DEF CancelWrite, TypeOK
      <3> QED
        BY <3>1, <3>2
    <2> QED
      BY <2>1, <2>2, <2>3, <2>4, <2>5
  <1>7. CASE WorkerStep
    <2>1. CASE FindExpired \/ FindExpiredFails \/ FindExpiredGracePeriod
      <3>1. UNCHANGED sub
        BY <2>1 DEF FindExpired, FindExpiredFails, FindExpiredGracePeriod
      <3> QED
        BY <1>1, <1>2, <2>1, <3>1, FindStep
    <2>2. ASSUME NEW c \in job.todo, StartGracePeriod(c) PROVE IInv' /\ Final
      <3>1. IInv' /\ sub[c.id].status # "expired"
        BY <1>1, <2>2, StartGracePeriodStep
      <3>2. \A r \in Subs \ {c.id} : sub'[r] = sub[r]
        BY <2>2 DEF StartGracePeriod, TypeOK
      <3> QED
        BY <3>1, <3>2
    <2>3. ASSUME NEW c \in job.todo, MarkExpired(c) PROVE IInv' /\ Final
      <3>1. IInv' /\ sub'[c.id].status = "expired"
        BY <1>1, <2>3, MarkExpiredStep
      <3>2. \A r \in Subs \ {c.id} : sub'[r] = sub[r]
        BY <2>3 DEF MarkExpired, TypeOK
      <3> QED
        BY <3>1, <3>2
    <2>4. CASE StartGracePeriodUser \/ MarkExpiredUser
      <3>1. UNCHANGED <<today, sub, cancel>> /\ job' = [job EXCEPT !.cur = None]
        BY <2>4 DEF StartGracePeriodUser, MarkExpiredUser
      <3>2. job'.phase = job.phase /\ job'.todo = job.todo
        BY <3>1 DEF TypeOK, Job
      <3> QED
        BY <1>1, <1>2, <3>1, <3>2, JobShrinks
    <2>5. CASE WriteFails
      <3>1. UNCHANGED <<today, sub, cancel>>
        BY <2>5 DEF WriteFails
      <3>2. job'.phase = job.phase /\ job'.todo \subseteq job.todo
        BY <2>5 DEF WriteFails, TypeOK, Job
      <3> QED
        BY <1>1, <1>2, <3>1, <3>2, JobShrinks
    <2>6. CASE RunCut \/ RunEnds
      <3>1. UNCHANGED <<today, sub, cancel>> /\ job' = JobIdle
        BY <2>6 DEF RunCut, RunEnds
      <3> QED
        BY <1>1, <1>2, <3>1, JobShrinks
    <2> QED
      BY <1>7, <2>1, <2>2, <2>3, <2>4, <2>5, <2>6 DEF WorkerStep
  <1> QED
    BY <1>3, <1>4, <1>5, <1>6, <1>7 DEF Next

LEMMA Invariance == Spec => []IInv
  BY IInit, INext, PTL DEF Spec

\* The variables keep their types.
THEOREM SubscriptionsTypeCorrect == Spec => []TypeOK
  <1>1. IInv => TypeOK
    BY DEF IInv
  <1> QED
    BY <1>1, Invariance, PTL

\* No subscription expires before its paid term and a full grace period are
\* over, however the worker, cancellations, administrators and failures
\* interleave.
THEOREM GraceAlwaysServed == Spec => []GraceServed
  <1>1. IInv => GraceServed
    BY NoneAssumption DEF IInv, RowsOK, RowOK, GraceServed
  <1> QED
    BY <1>1, Invariance, PTL

\* No copy held by the worker or a cancellation brings an expired row back.
THEOREM ExpiredStaysExpired == Spec => ExpiredIsFinal
  <1>1. IInv /\ [Next]_vars =>
           [\A s \in Subs : sub[s].status = "expired" =>
                                sub'[s].status = "expired"]_vars
    BY INext
  <1> QED
    BY <1>1, Invariance, PTL DEF Spec, ExpiredIsFinal

-----------------------------------------------------------------------------
(* Copies and the rows they were read from                                 *)
(*                                                                         *)
(* Owner and end of a row never change, so that every copy has them right; *)
(* the row of an activation still at work is within its term; and the      *)
(* subscription whose user the worker has still to write is late, or       *)
(* expired.                                                                *)

Same(row, s) == row.user = sub[s].user /\ row.end = sub[s].end

SameOK ==
    /\ \A s \in Subs : Exists(s) => Owner(s) \in Users
    /\ \A s \in Subs : cancel[s].pc = "read" => Same(cancel[s].row, s)
    /\ \A c \in job.todo : Same(c.row, c.id)

OwedOK == \A s \in owed : sub[s].status = "active" /\ today <= sub[s].end

CurOK ==
    job.cur # None =>
        \/ job.phase = "grace" /\ Fresh(sub[job.cur]) /\ sub[job.cur].end < today
        \/ job.phase = "expire" /\ sub[job.cur].status = "expired"

CopyInv == IInv /\ SameOK /\ OwedOK /\ CurOK

\* How a row is written: inserted, or written back by a cancellation or by the
\* worker, which leaves its owner and its end as they are.
LEMMA InsertedRow ==
    ASSUME CopyInv, NEW s \in Subs, NEW u \in Users, Activate(u, s)
    PROVE  /\ sub[s].status = "absent" /\ s # job.cur
           /\ sub'[s].status = "active" /\ sub'[s].user = u
           /\ today <= sub'[s].end /\ sub'[s].end \in Nat
           /\ \A r \in Subs \ {s} : sub'[r] = sub[r]
           /\ owed' = owed \cup {s}
           /\ UNCHANGED <<today, due, user, job, cancel, reverted, failed>>
  <1>1. today + Term \in Nat /\ today <= today + Term /\ today \in Nat
    BY TermAssumption DEF CopyInv, IInv, TypeOK
  <1>2. sub[s].status = "absent"
    BY DEF Activate
  <1>3. s # job.cur
    BY <1>2, NoneAssumption DEF CopyInv, CurOK, Fresh
  <1> QED
    BY <1>1, <1>2, <1>3 DEF Activate, CopyInv, IInv, TypeOK, NoRow

LEMMA CancelledRow ==
    ASSUME CopyInv, NEW s \in Subs, CancelWrite(s)
    PROVE  /\ Fresh(sub[s]) /\ Fresh(sub'[s])
           /\ sub'[s].user = sub[s].user /\ sub'[s].end = sub[s].end
           /\ s \notin reverted' => /\ sub'[s].status = sub[s].status
                                    /\ sub'[s].grace = sub[s].grace
           /\ reverted \subseteq reverted'
           /\ \A r \in Subs \ {s} : sub'[r] = sub[r]
           /\ cancel' = [cancel EXCEPT ![s] = NoCancel]
           /\ UNCHANGED <<today, due, user, owed, job, mixed, failed>>
  <1>1. /\ cancel[s].pc = "read"
        /\ sub' = [sub EXCEPT ![s] = [cancel[s].row EXCEPT !.cancelled = TRUE]]
        /\ cancel' = [cancel EXCEPT ![s] = NoCancel]
        /\ reverted' = IF sub[s] = cancel[s].row THEN reverted ELSE reverted \cup {s}
        /\ UNCHANGED <<today, due, user, owed, job, mixed, failed>>
    BY DEF CancelWrite
  <1>2. /\ sub \in [Subs -> Row] /\ cancel[s].row \in Row
        /\ Fresh(sub[s]) /\ Fresh(cancel[s].row) /\ Same(cancel[s].row, s)
    BY <1>1 DEF CopyInv, IInv, CancelOK, SameOK, TypeOK, CancelRequest
  <1>3. /\ sub'[s].status = cancel[s].row.status /\ sub'[s].user = cancel[s].row.user
        /\ sub'[s].end = cancel[s].row.end /\ sub'[s].grace = cancel[s].row.grace
        /\ \A r \in Subs \ {s} : sub'[r] = sub[r]
    BY <1>1, <1>2 DEF Row
  <1>4. Fresh(sub'[s])
    BY <1>1, <1>2, <1>3 DEF Fresh
  <1> QED
    BY <1>1, <1>2, <1>3, <1>4 DEF Same

LEMMA GraceRow ==
    ASSUME CopyInv, NEW c \in job.todo, StartGracePeriod(c)
    PROVE  /\ job.phase = "grace" /\ job.cur = None
           /\ c.id \in Subs /\ Fresh(sub[c.id]) /\ sub[c.id].end < today
           /\ sub'[c.id].status = "grace_period" /\ sub'[c.id].grace = today
           /\ sub'[c.id].user = sub[c.id].user /\ sub'[c.id].end = sub[c.id].end
           /\ \A r \in Subs \ {c.id} : sub'[r] = sub[r]
           /\ job'.phase = "grace" /\ job'.todo = job.todo \ {c} /\ job'.cur = c.id
           /\ UNCHANGED <<today, due, user, owed, cancel, reverted, mixed, failed>>
  <1>1. /\ job.phase = "grace" /\ job.cur = None
        /\ sub' = [sub EXCEPT ![c.id] = [c.row EXCEPT !.status = "grace_period",
                                                      !.grace = today]]
        /\ job' = [job EXCEPT !.todo = job.todo \ {c}, !.cur = c.id]
        /\ UNCHANGED <<today, due, user, owed, cancel, reverted, mixed, failed>>
    BY DEF StartGracePeriod, FirstInLine
  <1>2. /\ job \in Job /\ c.id \in Subs /\ c.row \in Row /\ sub \in [Subs -> Row]
        /\ GraceCopyOK(c) /\ Same(c.row, c.id)
    BY <1>1 DEF CopyInv, IInv, TypeOK, Job, Copy, JobOK, SameOK
  <1>3. job'.phase = "grace" /\ job'.todo = job.todo \ {c} /\ job'.cur = c.id
    BY <1>1, <1>2 DEF Job
  <1> QED
    BY <1>1, <1>2, <1>3 DEF Row, GraceCopyOK, Same

LEMMA ExpiredRow ==
    ASSUME CopyInv, NEW c \in job.todo, MarkExpired(c)
    PROVE  /\ job.phase = "expire" /\ job.cur = None
           /\ c.id \in Subs /\ sub[c.id].status = "grace_period"
           /\ sub'[c.id].status = "expired"
           /\ sub'[c.id].user = sub[c.id].user /\ sub'[c.id].end = sub[c.id].end
           /\ \A r \in Subs \ {c.id} : sub'[r] = sub[r]
           /\ job'.phase = "expire" /\ job'.todo = job.todo \ {c} /\ job'.cur = c.id
           /\ UNCHANGED <<today, due, user, owed, cancel, reverted, mixed, failed>>
  <1>1. /\ job.phase = "expire" /\ job.cur = None
        /\ sub' = [sub EXCEPT ![c.id] = [c.row EXCEPT !.status = "expired"]]
        /\ job' = [job EXCEPT !.todo = job.todo \ {c}, !.cur = c.id]
        /\ UNCHANGED <<today, due, user, owed, cancel, reverted, mixed, failed>>
    BY DEF MarkExpired, FirstInLine
  <1>2. /\ job \in Job /\ c.id \in Subs /\ c.row \in Row /\ sub \in [Subs -> Row]
        /\ ExpireCopyOK(c)
    BY <1>1 DEF CopyInv, IInv, TypeOK, Job, Copy, JobOK
  <1>3. job'.phase = "expire" /\ job'.todo = job.todo \ {c} /\ job'.cur = c.id
    BY <1>1, <1>2 DEF Job
  <1> QED
    BY <1>1, <1>2, <1>3 DEF Row, ExpireCopyOK

\* Taking a list: the worker has nobody to write yet.
LEMMA ListsExpired ==
    ASSUME CopyInv, FindExpired
    PROVE  /\ job.phase = "idle" /\ job.cur = None
           /\ job'.phase = "grace" /\ job'.cur = None
           /\ \A s \in Subs : TermOver(s) => \E c \in job'.todo : c.id = s
           /\ \A c \in job'.todo : c.id \in Subs /\ Same(c.row, c.id)
           /\ UNCHANGED <<today, sub, user, owed, cancel, reverted, mixed, failed>>
  <1>1. /\ job.phase = "idle"
        /\ job' = [JobIdle EXCEPT !.phase = "grace",
                                  !.todo = Copies({s \in Subs : TermOver(s)})]
        /\ UNCHANGED <<today, sub, user, owed, cancel, reverted, mixed, failed>>
    BY DEF FindExpired
  <1>2. job.cur = None
    BY <1>1 DEF CopyInv, CurOK
  <1>3. /\ job'.phase = "grace" /\ job'.cur = None
        /\ job'.todo = {[id |-> s, row |-> sub[s]] : s \in {t \in Subs : TermOver(t)}}
    BY <1>1 DEF JobIdle, Copies
  <1>4. ASSUME NEW s \in Subs, TermOver(s) PROVE \E c \in job'.todo : c.id = s
    <2>1. [id |-> s, row |-> sub[s]] \in job'.todo
      BY <1>3, <1>4
    <2> QED
      BY <2>1
  <1>5. \A c \in job'.todo : c.id \in Subs /\ Same(c.row, c.id)
    BY <1>3 DEF Same
  <1> QED
    BY <1>1, <1>2, <1>3, <1>4, <1>5

LEMMA ListsNothing ==
    ASSUME CopyInv, FindExpiredFails
    PROVE  /\ failed' /\ job'.phase = "grace" /\ job'.todo = {} /\ job'.cur = None
           /\ UNCHANGED <<today, sub, user, owed, cancel, reverted, mixed>>
  BY DEF FindExpiredFails, JobIdle

LEMMA ListsGrace ==
    ASSUME CopyInv, FindExpiredGracePeriod
    PROVE  /\ job.phase = "grace" /\ job.cur = None /\ job.todo = {}
           /\ job'.phase = "expire" /\ job'.cur = None
           /\ \A s \in Subs : GraceIsOver(s) => \E c \in job'.todo : c.id = s
           /\ \A c \in job'.todo : c.id \in Subs /\ Same(c.row, c.id)
           /\ UNCHANGED <<today, due, sub, user, owed, cancel, reverted, mixed, failed>>
  <1>1. /\ job.phase = "grace" /\ job.cur = None /\ job.todo = {}
        /\ UNCHANGED <<today, due, sub, user, owed, cancel, reverted, mixed, failed>>
    BY DEF FindExpiredGracePeriod
  <1>2. PICK S \in SUBSET {s \in Subs : GraceMayBeOver(s)} :
           /\ {s \in Subs : GraceIsOver(s)} \subseteq S
           /\ job' = [JobIdle EXCEPT !.phase = "expire", !.todo = Copies(S)]
    BY DEF FindExpiredGracePeriod
  <1>3. /\ job'.phase = "expire" /\ job'.cur = None
        /\ job'.todo = {[id |-> s, row |-> sub[s]] : s \in S}
    BY <1>2 DEF JobIdle, Copies
  <1>4. ASSUME NEW s \in Subs, GraceIsOver(s) PROVE \E c \in job'.todo : c.id = s
    <2>1. [id |-> s, row |-> sub[s]] \in job'.todo
      BY <1>2, <1>3, <1>4
    <2> QED
      BY <2>1
  <1>5. \A c \in job'.todo : c.id \in Subs /\ Same(c.row, c.id)
    BY <1>3 DEF Same
  <1> QED
    BY <1>1, <1>3, <1>4, <1>5

\* No copy is of a row whose activation is still at work.
LEMMA ListedNotOwed ==
    ASSUME CopyInv
    PROVE  /\ \A c \in job.todo : c.id \notin owed
           /\ job.cur # None => job.cur \notin owed
  <1>1. \A s \in owed : sub[s].status = "active" /\ today <= sub[s].end
                        /\ sub[s].end \in Nat
    BY DEF CopyInv, OwedOK, IInv, RowsOK, RowOK, TypeOK
  <1>2. today \in Nat
    BY DEF CopyInv, IInv, TypeOK
  <1>3. ASSUME NEW c \in job.todo PROVE c.id \notin owed
    <2>1. job.phase \in {"idle", "grace", "expire"}
      BY DEF CopyInv, IInv, TypeOK, Job
    <2>2. CASE job.phase = "grace"
      BY <1>1, <1>2, <1>3, <2>2 DEF CopyInv, IInv, JobOK, GraceCopyOK, SameOK, Same
    <2>3. CASE job.phase = "expire"
      BY <1>1, <1>3, <2>3 DEF CopyInv, IInv, JobOK, ExpireCopyOK
    <2> QED
      BY <1>3, <2>1, <2>2, <2>3 DEF CopyInv, IInv, JobOK
  <1>4. job.cur # None => job.cur \notin owed
    BY <1>1, <1>2 DEF CopyInv, CurOK
  <1> QED
    BY <1>3, <1>4

LEMMA CopyInit == Init => CopyInv
  BY IInit DEF CopyInv, Init, SameOK, Exists, NoRow, NoCancel, JobIdle, OwedOK, CurOK

\* A step that writes no row.
LEMMA CopyFrame ==
    ASSUME CopyInv, UNCHANGED <<today, sub>>, owed' \subseteq owed,
           job'.cur = None \/ UNCHANGED <<job>>,
           \A s \in Subs : cancel'[s].pc = "read" =>
              cancel'[s] = cancel[s] \/ Same(cancel'[s].row, s),
           \A c \in job'.todo : c \in job.todo \/ Same(c.row, c.id)
    PROVE  SameOK' /\ OwedOK' /\ CurOK'
  <1>1. SameOK'
    BY DEF CopyInv, SameOK, Exists, Owner, Same
  <1>2. OwedOK'
    BY DEF CopyInv, OwedOK
  <1>3. CurOK'
    BY DEF CopyInv, CurOK, Fresh
  <1> QED
    BY <1>1, <1>2, <1>3

\* A step that writes a row back.
LEMMA WriteBackFrame ==
    ASSUME CopyInv, NEW s \in Subs, Exists(s),
           sub'[s].user = sub[s].user, sub'[s].end = sub[s].end,
           \A r \in Subs \ {s} : sub'[r] = sub[r],
           UNCHANGED <<today, owed>>,
           \A r \in Subs : cancel'[r].pc = "read" => cancel'[r] = cancel[r],
           job'.todo \subseteq job.todo,
           s \in owed => sub'[s].status = sub[s].status,
           CurOK'
    PROVE  SameOK' /\ OwedOK' /\ CurOK'
  <1>1. \A c \in job.todo : c.id \in Subs
    BY DEF CopyInv, IInv, TypeOK, Job, Copy
  <1>2. SameOK'
    BY <1>1 DEF CopyInv, SameOK, Exists, Owner, Same
  <1>3. OwedOK'
    BY DEF CopyInv, OwedOK, IInv, TypeOK
  <1> QED
    BY <1>2, <1>3

LEMMA CopyUser ==
    ASSUME CopyInv, UserStep PROVE SameOK' /\ OwedOK' /\ CurOK'
  <1>1. PICK s \in Subs :
           \/ \E u \in Users : Activate(u, s)
           \/ ActivateUser(s) \/ ActivateUserFails(s)
           \/ CancelFind(s) \/ CancelRead(s) \/ CancelWrite(s) \/ CancelFails(s)
    BY DEF UserStep
  <1>2. ASSUME NEW u \in Users, Activate(u, s) PROVE SameOK' /\ OwedOK' /\ CurOK'
    <2>1. /\ sub[s].status = "absent" /\ s # job.cur
          /\ sub'[s].status = "active" /\ sub'[s].user = u
          /\ today <= sub'[s].end /\ sub'[s].end \in Nat
          /\ \A r \in Subs \ {s} : sub'[r] = sub[r]
          /\ owed' = owed \cup {s}
          /\ UNCHANGED <<today, due, user, job, cancel, reverted, failed>>
      BY <1>2, InsertedRow
    <2>2. \A r \in Subs : cancel[r].pc = "read" => r # s
      BY <2>1 DEF CopyInv, IInv, CancelOK, Fresh
    <2>3. \A c \in job.todo : c.id \in Subs \ {s}
      BY <2>1 DEF CopyInv, IInv, TypeOK, Job, Copy, JobOK, GraceCopyOK, ExpireCopyOK, Fresh
    <2>4. job.cur # None => job.cur \in Subs
      BY DEF CopyInv, IInv, TypeOK, Job
    <2>5. SameOK'
      BY <2>1, <2>2, <2>3 DEF CopyInv, SameOK, Exists, Owner, Same
    <2>6. OwedOK'
      BY <2>1 DEF CopyInv, OwedOK, IInv, TypeOK
    <2>7. CurOK'
      BY <2>1, <2>4 DEF CopyInv, CurOK, Fresh
    <2> QED
      BY <2>5, <2>6, <2>7
  <1>3. CASE ActivateUser(s) \/ ActivateUserFails(s)
    BY <1>3, CopyFrame DEF ActivateUser, ActivateUserFails
  <1>4. CASE CancelFind(s)
    BY <1>4, CopyFrame DEF CancelFind, CopyInv, IInv, TypeOK, CancelRequest
  <1>5. CASE CancelRead(s)
    BY <1>5, CopyFrame DEF CancelRead, CopyInv, IInv, TypeOK, Same
  <1>6. CASE CancelFails(s)
    BY <1>6, CopyFrame DEF CancelFails, CopyInv, IInv, TypeOK, NoCancel
  <1>7. CASE CancelWrite(s)
    <2>1. /\ Fresh(sub[s]) /\ Fresh(sub'[s])
          /\ sub'[s].user = sub[s].user /\ sub'[s].end = sub[s].end
          /\ \A r \in Subs \ {s} : sub'[r] = sub[r]
          /\ cancel' = [cancel EXCEPT ![s] = NoCancel]
          /\ UNCHANGED <<today, owed, job>>
      BY <1>7, CancelledRow
    <2>2. \A r \in Subs : cancel'[r].pc = "read" => cancel'[r] = cancel[r]
      BY <2>1 DEF CopyInv, IInv, TypeOK, NoCancel
    <2>3. s \in owed => sub'[s].status = sub[s].status
      <3>1. SUFFICES ASSUME s \in owed PROVE sub'[s].status = "active"
        BY DEF CopyInv, OwedOK
      <3>2. today <= sub'[s].end /\ sub'[s].end \in Nat /\ today \in Nat
        BY <2>1, <3>1 DEF CopyInv, OwedOK, IInv, RowsOK, RowOK, TypeOK, Fresh
      <3>3. IInv'
        BY <1>7, CancelWriteStep, TypeNext DEF CopyInv, IInv, Next, UserStep
      <3> QED
        BY <2>1, <3>2, <3>3 DEF IInv, RowsOK, RowOK, Fresh
    <2>4. CurOK'
      <3>1. job.cur = s => job.phase = "grace" /\ sub[s].end < today
        BY <2>1, NoneAssumption DEF CopyInv, CurOK, Fresh, IInv, TypeOK, Row
      <3>2. job.cur # None => job.cur \in Subs
        BY DEF CopyInv, IInv, TypeOK, Job
      <3> QED
        BY <2>1, <3>1, <3>2 DEF CopyInv, CurOK, Fresh
    <2>5. Exists(s)
      BY <2>1 DEF Fresh, Exists
    <2> QED
      BY <2>1, <2>2, <2>3, <2>4, <2>5, WriteBackFrame
  <1> QED
    BY <1>1, <1>2, <1>3, <1>4, <1>5, <1>6, <1>7

LEMMA CopyWorker ==
    ASSUME CopyInv, WorkerStep PROVE SameOK' /\ OwedOK' /\ CurOK'
  <1>1. CASE FindExpired
    BY <1>1, ListsExpired, CopyFrame
  <1>2. CASE FindExpiredFails
    BY <1>2, ListsNothing, CopyFrame
  <1>3. CASE FindExpiredGracePeriod
    BY <1>3, ListsGrace, CopyFrame
  <1>4. ASSUME NEW c \in job.todo, StartGracePeriod(c) PROVE SameOK' /\ OwedOK' /\ CurOK'
    <2>1. CurOK'
      BY <1>4, GraceRow DEF CurOK, Fresh
    <2>2. Exists(c.id) /\ c.id \notin owed
      BY <1>4, GraceRow, ListedNotOwed DEF Fresh, Exists
    <2> QED
      BY <1>4, <2>1, <2>2, GraceRow, WriteBackFrame
  <1>5. ASSUME NEW c \in job.todo, MarkExpired(c) PROVE SameOK' /\ OwedOK' /\ CurOK'
    <2>1. CurOK'
      BY <1>5, ExpiredRow DEF CurOK
    <2>2. Exists(c.id) /\ c.id \notin owed
      BY <1>5, ExpiredRow, ListedNotOwed DEF Exists
    <2> QED
      BY <1>5, <2>1, <2>2, ExpiredRow, WriteBackFrame
  <1>6. CASE StartGracePeriodUser \/ MarkExpiredUser
    <2>1. UNCHANGED <<today, sub, owed, cancel>> /\ job' = [job EXCEPT !.cur = None]
      BY <1>6 DEF StartGracePeriodUser, MarkExpiredUser
    <2>2. job'.cur = None /\ job'.todo = job.todo
      BY <2>1 DEF CopyInv, IInv, TypeOK, Job
    <2> QED
      BY <2>1, <2>2, CopyFrame
  <1>7. CASE WriteFails
    <2>1. UNCHANGED <<today, sub, owed, cancel>>
      BY <1>7 DEF WriteFails
    <2>2. job'.cur = None /\ job'.todo \subseteq job.todo
      BY <1>7 DEF WriteFails, FirstInLine, CopyInv, IInv, TypeOK, Job
    <2> QED
      BY <2>1, <2>2, CopyFrame
  <1>8. CASE RunCut \/ RunEnds
    <2>1. UNCHANGED <<today, sub, owed, cancel>> /\ job'.cur = None /\ job'.todo = {}
      BY <1>8 DEF RunCut, RunEnds, JobIdle
    <2> QED
      BY <2>1, CopyFrame
  <1> QED
    BY <1>1, <1>2, <1>3, <1>4, <1>5, <1>6, <1>7, <1>8 DEF WorkerStep

LEMMA CopyNext == CopyInv /\ [Next]_vars => CopyInv'
  <1> SUFFICES ASSUME CopyInv, [Next]_vars PROVE SameOK' /\ OwedOK' /\ CurOK'
    BY INext DEF CopyInv
  <1>1. CASE NextDay
    <2>1. /\ UNCHANGED <<sub, cancel, job>> /\ owed' = {}
          /\ job.cur = None /\ job.todo = {} /\ \A s \in Subs : cancel[s].pc = "idle"
      BY <1>1 DEF NextDay, Quiet, CopyInv, CurOK, IInv, JobOK
    <2> QED
      BY <2>1 DEF CopyInv, SameOK, Exists, Owner, Same, OwedOK, CurOK
  <1>2. CASE AdminStep \/ Done \/ UNCHANGED vars
    <2>1. UNCHANGED <<today, sub, owed, cancel, job>>
      BY <1>2 DEF AdminStep, GrantSubscription, RevokeSubscription, Done, vars
    <2> QED
      BY <2>1, CopyFrame
  <1> QED
    BY <1>1, <1>2, CopyUser, CopyWorker DEF Next

-----------------------------------------------------------------------------
(* Nothing is late, unless the worker has it in its list or has still to    *)
(* look for it.                                                             *)

Listed(s) == \E c \in job.todo : c.id = s
ToCome == due /\ job.phase = "idle"

DayOK ==
    \A s \in Subs \ reverted :
        /\ TermOver(s) => ToCome \/ (job.phase = "grace" /\ Listed(s))
        /\ GraceIsOver(s) =>
              ToCome \/ job.phase = "grace" \/ (job.phase = "expire" /\ Listed(s))

\* The worker stays in its phase and no row becomes late.
LEMMA DayFrame ==
    ASSUME DayOK, UNCHANGED <<today, due>>, reverted \subseteq reverted',
           job'.phase = job.phase, job'.todo = job.todo,
           \A s \in Subs \ reverted' :
              sub'[s] = sub[s] \/ ((~TermOver(s))' /\ (~GraceIsOver(s))')
    PROVE  DayOK'
  BY DEF DayOK, Listed, ToCome, TermOver, GraceIsOver

LEMMA DayUser ==
    ASSUME CopyInv, DayOK, UserStep PROVE DayOK'
  <1>1. PICK s \in Subs :
           \/ \E u \in Users : Activate(u, s)
           \/ ActivateUser(s) \/ ActivateUserFails(s)
           \/ CancelFind(s) \/ CancelRead(s) \/ CancelWrite(s) \/ CancelFails(s)
    BY DEF UserStep
  <1>2. ASSUME NEW u \in Users, Activate(u, s) PROVE DayOK'
    <2>1. /\ sub'[s].status = "active" /\ today <= sub'[s].end /\ sub'[s].end \in Nat
          /\ \A r \in Subs \ {s} : sub'[r] = sub[r]
          /\ UNCHANGED <<today, due, job, reverted>>
      BY <1>2, InsertedRow
    <2>2. (~TermOver(s))' /\ (~GraceIsOver(s))'
      BY <2>1 DEF TermOver, GraceIsOver, CopyInv, IInv, TypeOK
    <2> QED
      BY <2>1, <2>2, DayFrame
  <1>3. CASE CancelWrite(s)
    <2>1. /\ s \notin reverted' => /\ sub'[s].status = sub[s].status
                                   /\ sub'[s].grace = sub[s].grace
          /\ sub'[s].end = sub[s].end
          /\ reverted \subseteq reverted'
          /\ \A r \in Subs \ {s} : sub'[r] = sub[r]
          /\ UNCHANGED <<today, due, job>>
      BY <1>3, CancelledRow
    <2> QED
      BY <2>1 DEF DayOK, Listed, ToCome, TermOver, GraceIsOver
  <1>4. CASE \/ ActivateUser(s) \/ ActivateUserFails(s)
             \/ CancelFind(s) \/ CancelRead(s) \/ CancelFails(s)
    <2>1. UNCHANGED <<today, due, sub, job, reverted>>
      BY <1>4 DEF ActivateUser, ActivateUserFails, CancelFind, CancelRead, CancelFails
    <2> QED
      BY <2>1, DayFrame
  <1> QED
    BY <1>1, <1>2, <1>3, <1>4

\* A query that finds every late row begins each phase; a failure is recorded.
LEMMA DayWorker ==
    ASSUME CopyInv, DayOK, WorkerStep, ~failed' PROVE DayOK'
  <1>1. CASE FindExpired
    <2>1. /\ job'.phase = "grace"
          /\ \A s \in Subs : TermOver(s) => \E c \in job'.todo : c.id = s
          /\ UNCHANGED <<today, sub, reverted>>
      BY <1>1, ListsExpired
    <2> QED
      BY <2>1 DEF DayOK, Listed, TermOver, GraceIsOver
  <1>2. CASE FindExpiredGracePeriod
    <2>1. /\ job.phase = "grace" /\ job.todo = {} /\ job'.phase = "expire"
          /\ \A s \in Subs : GraceIsOver(s) => \E c \in job'.todo : c.id = s
          /\ UNCHANGED <<today, due, sub, reverted>>
      BY <1>2, ListsGrace
    <2> QED
      BY <2>1 DEF DayOK, Listed, ToCome, TermOver, GraceIsOver
  <1>3. ASSUME NEW c \in job.todo, StartGracePeriod(c) PROVE DayOK'
    <2>1. /\ job.phase = "grace" /\ c.id \in Subs
          /\ sub'[c.id].status = "grace_period" /\ sub'[c.id].grace = today
          /\ \A r \in Subs \ {c.id} : sub'[r] = sub[r]
          /\ job'.phase = "grace" /\ job'.todo = job.todo \ {c}
          /\ UNCHANGED <<today, due, reverted>>
      BY <1>3, GraceRow
    <2>2. (~TermOver(c.id))'
      BY <2>1 DEF TermOver
    <2> QED
      BY <2>1, <2>2 DEF DayOK, Listed, ToCome, TermOver, GraceIsOver
  <1>4. ASSUME NEW c \in job.todo, MarkExpired(c) PROVE DayOK'
    <2>1. /\ job.phase = "expire" /\ c.id \in Subs /\ sub'[c.id].status = "expired"
          /\ \A r \in Subs \ {c.id} : sub'[r] = sub[r]
          /\ job'.phase = "expire" /\ job'.todo = job.todo \ {c}
          /\ UNCHANGED <<today, due, reverted>>
      BY <1>4, ExpiredRow
    <2> QED
      BY <2>1 DEF DayOK, Listed, ToCome, TermOver, GraceIsOver
  <1>5. CASE StartGracePeriodUser \/ MarkExpiredUser
    <2>1. /\ UNCHANGED <<today, due, sub, reverted>>
          /\ job' = [job EXCEPT !.cur = None]
      BY <1>5 DEF StartGracePeriodUser, MarkExpiredUser
    <2>2. job'.phase = job.phase /\ job'.todo = job.todo
      BY <2>1 DEF CopyInv, IInv, TypeOK, Job
    <2> QED
      BY <2>1, <2>2, DayFrame
  <1>6. CASE RunEnds
    <2>1. /\ job.phase = "expire" /\ job.todo = {} /\ job'.phase = "idle"
          /\ UNCHANGED <<today, due, sub, reverted>>
      BY <1>6 DEF RunEnds, JobIdle
    <2> QED
      BY <2>1 DEF DayOK, Listed, ToCome, TermOver, GraceIsOver
  <1>7. ~(FindExpiredFails \/ WriteFails \/ RunCut)
    BY DEF FindExpiredFails, WriteFails, RunCut
  <1> QED
    BY <1>1, <1>2, <1>3, <1>4, <1>5, <1>6, <1>7 DEF WorkerStep

LEMMA DayNext ==
    ASSUME CopyInv, DayOK, [Next]_vars, ~failed' PROVE DayOK'
  <1>1. CASE NextDay
    <2>1. due' /\ job'.phase = "idle"
      BY <1>1 DEF NextDay, Quiet
    <2> QED
      BY <2>1 DEF DayOK, ToCome
  <1>2. CASE AdminStep \/ Done \/ UNCHANGED vars
    <2>1. UNCHANGED <<today, due, sub, job, reverted>>
      BY <1>2 DEF AdminStep, GrantSubscription, RevokeSubscription, Done, vars
    <2> QED
      BY <2>1, DayFrame
  <1> QED
    BY <1>1, <1>2, DayUser, DayWorker DEF Next

-----------------------------------------------------------------------------
(* The users row of a user who did not renew early and was left alone by    *)
(* administrators: it follows the one subscription the user holds.          *)

Live(s) == sub[s].status \in {"active", "grace_period"}

\* A row just expired is held until its user has been written as well.
Holds(u, s) == Owner(s) = u /\ (Live(s) \/ s = job.cur)

OneHeld(u) == \A r, s \in Subs : Holds(u, r) /\ Holds(u, s) => r = s

AccessOK(u) == HasAccess(u) <=> \E s \in Subs \ owed : Holds(u, s)

TermOK(u) ==
    \A s \in Subs : Owner(s) = u /\ PaidTerm(s) =>
        user[u] = [status |-> "active", sub |-> s, expires |-> sub[s].end]

UserOK(u) == OneHeld(u) /\ AccessOK(u) /\ TermOK(u)

\* A row in its paid term is active: grace begins after the end.
LEMMA PaidTermActive ==
    ASSUME CopyInv, NEW s \in Subs, Exists(s), today <= sub[s].end
    PROVE  sub[s].status = "active"
  BY DEF CopyInv, IInv, RowsOK, RowOK, TypeOK, Row, Exists

\* A step that leaves a user alone and what the user holds.
LEMMA UserFrame ==
    ASSUME NEW u \in Users, UserOK(u), user'[u] = user[u], UNCHANGED owed,
           \A s \in Subs : Holds(u, s)' <=> Holds(u, s),
           \A s \in Subs : (Owner(s) = u /\ PaidTerm(s))' =>
              Owner(s) = u /\ PaidTerm(s) /\ sub'[s].end = sub[s].end
    PROVE  UserOK(u)'
  BY DEF UserOK, OneHeld, AccessOK, HasAccess, TermOK

\* No row and no user is written and the worker's current row stays.
LEMMA UserStutter ==
    ASSUME NEW u \in Users, UserOK(u), UNCHANGED <<today, sub, user, owed>>,
           job'.cur = job.cur
    PROVE  UserOK(u)'
  <1>1. \A s \in Subs : Holds(u, s)' <=> Holds(u, s)
    BY DEF Holds, Owner, Live
  <1> QED
    BY <1>1, UserFrame DEF Owner, PaidTerm, Exists

\* A row is written back, live before and held after.
LEMMA UserWriteBack ==
    ASSUME NEW u \in Users, UserOK(u), NEW s \in Subs, Live(s),
           Live(s)' \/ s = job'.cur,
           sub'[s].user = sub[s].user, sub'[s].end = sub[s].end,
           \A r \in Subs \ {s} : sub'[r] = sub[r],
           job'.cur = job.cur \/ (job.cur = None /\ job'.cur = s),
           UNCHANGED <<today, user, owed>>
    PROVE  UserOK(u)'
  <1>1. \A r \in Subs : Holds(u, r)' <=> Holds(u, r)
    BY NoneAssumption DEF Holds, Owner, Live
  <1>2. \A r \in Subs : (Owner(r) = u /\ PaidTerm(r))' =>
           Owner(r) = u /\ PaidTerm(r) /\ sub'[r].end = sub[r].end
    BY DEF Owner, PaidTerm, Exists, Live
  <1> QED
    BY <1>1, <1>2, UserFrame

LEMMA UserActivates ==
    ASSUME CopyInv, NEW u \in Users, UserOK(u), u \notin mixed',
           NEW v \in Users, NEW s \in Subs, Activate(v, s)
    PROVE  UserOK(u)'
  <1>1. /\ sub[s].status = "absent" /\ s # job.cur
        /\ sub'[s].status = "active" /\ sub'[s].user = v
        /\ \A r \in Subs \ {s} : sub'[r] = sub[r]
        /\ owed' = owed \cup {s}
        /\ UNCHANGED <<today, due, user, job, cancel, reverted, failed>>
    BY InsertedRow
  <1>2. \A r \in Subs \ {s} : Holds(u, r)' <=> Holds(u, r)
    BY <1>1 DEF Holds, Owner, Live
  <1>3. ~Holds(u, s)
    BY <1>1 DEF Holds, Live
  <1>4. Holds(u, s)' <=> v = u
    BY <1>1 DEF Holds, Owner, Live
  <1>5. v = u => \A r \in Subs : ~Holds(u, r)
    <2>1. SUFFICES ASSUME v = u PROVE \A r \in Subs : ~Holds(u, r)
      OBVIOUS
    <2>2. ~HasAccess(u) /\ \A r \in owed : Owner(r) # u
      BY <2>1 DEF Activate, Owner
    <2> QED
      BY <2>2 DEF UserOK, AccessOK, Holds
  <1>6. OneHeld(u)'
    BY <1>2, <1>4, <1>5 DEF UserOK, OneHeld
  <1>7. AccessOK(u)'
    BY <1>1, <1>2, <1>3, <1>4 DEF UserOK, AccessOK, HasAccess
  <1>8. TermOK(u)'
    BY <1>1 DEF UserOK, TermOK, PaidTerm, Owner, Exists
  <1> QED
    BY <1>6, <1>7, <1>8 DEF UserOK

LEMMA UserActivated ==
    ASSUME CopyInv, NEW u \in Users, UserOK(u), NEW s \in Subs, ActivateUser(s)
    PROVE  UserOK(u)'
  <1>1. /\ s \in owed /\ sub[s].status = "active" /\ sub[s].user \in Users
        /\ user' = [user EXCEPT ![sub[s].user] =
                       [status |-> "active", sub |-> s, expires |-> sub[s].end]]
        /\ owed' = owed \ {s}
        /\ UNCHANGED <<today, sub, job>>
    BY DEF ActivateUser, UpdateSubscriptionStatus, CopyInv, OwedOK, SameOK, Exists, Owner
  <1>2. user \in [Users -> UserRow]
    BY DEF CopyInv, IInv, TypeOK
  <1>3. \A r \in Subs : Holds(u, r)' <=> Holds(u, r)
    BY <1>1 DEF Holds, Owner, Live
  <1>4. OneHeld(u)'
    BY <1>3 DEF UserOK, OneHeld
  <1>5. CASE sub[s].user # u
    <2>1. user'[u] = user[u] /\ \A r \in Subs : Holds(u, r) => r # s
      BY <1>1, <1>2, <1>5 DEF Holds, Owner
    <2>2. AccessOK(u)'
      BY <1>1, <1>3, <2>1 DEF UserOK, AccessOK, HasAccess
    <2>3. TermOK(u)'
      BY <1>1, <1>5, <2>1 DEF UserOK, TermOK, PaidTerm, Owner, Exists
    <2> QED
      BY <1>4, <2>2, <2>3 DEF UserOK
  <1>6. CASE sub[s].user = u
    <2>1. user'[u] = [status |-> "active", sub |-> s, expires |-> sub[s].end]
      BY <1>1, <1>2, <1>6
    <2>2. Holds(u, s)
      BY <1>1, <1>6 DEF Holds, Owner, Live
    <2>3. AccessOK(u)'
      BY <1>1, <1>3, <2>1, <2>2 DEF AccessOK, HasAccess
    <2>4. TermOK(u)'
      <3>1. ASSUME NEW r \in Subs, (Owner(r) = u /\ PaidTerm(r))' PROVE r = s
        <4>1. Owner(r) = u /\ Exists(r) /\ today <= sub[r].end
          BY <1>1, <3>1 DEF Owner, PaidTerm, Exists
        <4>2. Holds(u, r)
          BY <4>1, PaidTermActive DEF Holds, Live
        <4> QED
          BY <2>2, <4>2 DEF UserOK, OneHeld
      <3> QED
        BY <1>1, <2>1, <3>1 DEF TermOK
    <2> QED
      BY <1>4, <2>3, <2>4 DEF UserOK
  <1> QED
    BY <1>5, <1>6

\* The worker writes the user of its current row, the only one the user holds.
LEMMA UserFollows ==
    ASSUME CopyInv, NEW u \in Users, UserOK(u), StartGracePeriodUser \/ MarkExpiredUser
    PROVE  UserOK(u)'
  <1> DEFINE s == job.cur
  <1>1. /\ s \in Subs /\ s \notin owed
        /\ UNCHANGED <<today, sub, owed>> /\ job'.cur = None
    BY ListedNotOwed
    DEF StartGracePeriodUser, MarkExpiredUser, CopyInv, IInv, TypeOK, Job
  <1>2. /\ sub[s].status \in {"active", "grace_period", "expired"}
        /\ StartGracePeriodUser => sub[s].status \in {"active", "grace_period"}
        /\ MarkExpiredUser => sub[s].status = "expired"
        /\ sub[s].user \in Users
    BY <1>1, NoneAssumption
    DEF StartGracePeriodUser, MarkExpiredUser, CopyInv, CurOK, Fresh, SameOK, Exists, Owner
  <1>3. sub[s].end < today /\ today \in Nat /\ sub[s].end \in Nat
    BY <1>1, <1>2 DEF CopyInv, CurOK, StartGracePeriodUser, MarkExpiredUser, IInv,
       RowsOK, RowOK, TypeOK, EnforcedGrace
  <1>4. user \in [Users -> UserRow]
    BY DEF CopyInv, IInv, TypeOK
  <1>5. \A v \in Users : v # sub[s].user => user'[v] = user[v]
    BY <1>4 DEF StartGracePeriodUser, MarkExpiredUser, UpdateSubscriptionStatus
  <1>6. /\ StartGracePeriodUser => user'[sub[s].user].status = "grace_period"
        /\ MarkExpiredUser => user'[sub[s].user].status = "expired"
    BY <1>2, <1>4 DEF StartGracePeriodUser, MarkExpiredUser, UpdateSubscriptionStatus
  <1>7. s # None /\ None \notin Subs
    BY <1>1, NoneAssumption
  <1>8. \A r \in Subs : Holds(u, r)' <=> Owner(r) = u /\ Live(r)
    BY <1>1, <1>7 DEF Holds, Owner, Live
  <1> HIDE DEF s
  <1>9. s = job.cur
    BY DEF s
  <1>10. OneHeld(u)'
    BY <1>8 DEF UserOK, OneHeld, Holds
  <1>11. CASE sub[s].user # u
    <2>1. \A r \in Subs : Holds(u, r)' <=> Holds(u, r)
      BY <1>8, <1>9, <1>11 DEF Holds, Owner
    <2>2. user'[u] = user[u]
      BY <1>5, <1>11
    <2> QED
      BY <1>1, <2>1, <2>2, UserFrame DEF Owner, PaidTerm, Exists
  <1>12. CASE sub[s].user = u
    <2>1. Holds(u, s)
      BY <1>9, <1>12 DEF Holds, Owner
    <2>2. \A r \in Subs : Holds(u, r) => r = s
      BY <1>1, <2>1 DEF UserOK, OneHeld
    <2>3. AccessOK(u)'
      <3>1. CASE StartGracePeriodUser
        BY <1>1, <1>2, <1>6, <1>8, <1>12, <3>1 DEF AccessOK, HasAccess, Live, Owner
      <3>2. CASE MarkExpiredUser
        <4>1. \A r \in Subs : ~(Owner(r) = u /\ Live(r))
          BY <1>2, <2>2, <3>2 DEF Holds, Live
        <4> QED
          BY <1>6, <1>8, <1>12, <3>2, <4>1 DEF AccessOK, HasAccess
      <3> QED
        BY <3>1, <3>2
    <2>4. TermOK(u)'
      <3>1. ASSUME NEW r \in Subs, (Owner(r) = u /\ PaidTerm(r))' PROVE FALSE
        <4>1. Owner(r) = u /\ Exists(r) /\ today <= sub[r].end
          BY <1>1, <3>1 DEF Owner, PaidTerm, Exists
        <4>2. Holds(u, r)
          BY <4>1, PaidTermActive DEF Holds, Live
        <4>3. r = s
          BY <2>2, <4>2
        <4> QED
          BY <1>3, <4>1, <4>3
      <3> QED
        BY <3>1 DEF TermOK
    <2> QED
      BY <1>10, <2>3, <2>4 DEF UserOK
  <1> QED
    BY <1>11, <1>12

LEMMA UserNext ==
    ASSUME CopyInv, [Next]_vars, ~failed', NEW u \in Users, u \notin mixed', UserOK(u)
    PROVE  UserOK(u)'
  <1>1. CASE NextDay
    <2>1. /\ today' = today + 1 /\ UNCHANGED <<sub, user, owed, job>>
          /\ today \in Nat
      BY <1>1 DEF NextDay, CopyInv, IInv, TypeOK
    <2>2. \A s \in Subs : Holds(u, s)' <=> Holds(u, s)
      BY <2>1 DEF Holds, Owner, Live
    <2>3. \A s \in Subs : PaidTerm(s)' => PaidTerm(s)
      BY <2>1 DEF PaidTerm, Exists, CopyInv, IInv, RowsOK, RowOK
    <2> QED
      BY <2>1, <2>2, <2>3, UserFrame DEF Owner
  <1>2. CASE Done \/ UNCHANGED vars
    BY <1>2, UserStutter DEF Done, vars
  <1>3. CASE AdminStep
    <2>1. PICK v \in Users : GrantSubscription(v) \/ RevokeSubscription(v)
      BY <1>3 DEF AdminStep
    <2>2. v # u /\ UNCHANGED <<today, sub, owed, job>>
      BY <2>1 DEF GrantSubscription, RevokeSubscription
    <2>3. user'[u] = user[u]
      BY <2>1, <2>2 DEF GrantSubscription, RevokeSubscription,
         UpdateSubscriptionStatus, CopyInv, IInv, TypeOK
    <2>4. \A s \in Subs : Holds(u, s)' <=> Holds(u, s)
      BY <2>2 DEF Holds, Owner, Live
    <2> QED
      BY <2>2, <2>3, <2>4, UserFrame DEF Owner, PaidTerm, Exists
  <1>4. CASE UserStep
    <2>1. PICK s \in Subs :
             \/ \E v \in Users : Activate(v, s)
             \/ ActivateUser(s) \/ ActivateUserFails(s)
             \/ CancelFind(s) \/ CancelRead(s) \/ CancelWrite(s) \/ CancelFails(s)
      BY <1>4 DEF UserStep
    <2>2. CASE \E v \in Users : Activate(v, s)
      BY <2>2, UserActivates
    <2>3. CASE ActivateUser(s)
      BY <2>3, UserActivated
    <2>4. CASE CancelFind(s) \/ CancelRead(s)
      BY <2>4, UserStutter DEF CancelFind, CancelRead
    <2>5. CASE CancelWrite(s)
      BY <2>5, CancelledRow, UserWriteBack DEF Live, Fresh
    <2>6. ~(ActivateUserFails(s) \/ CancelFails(s))
      BY DEF ActivateUserFails, CancelFails
    <2> QED
      BY <2>1, <2>2, <2>3, <2>4, <2>5, <2>6
  <1>5. CASE WorkerStep
    <2>1. CASE FindExpired
      BY <2>1, ListsExpired, UserStutter
    <2>2. CASE FindExpiredGracePeriod
      BY <2>2, ListsGrace, UserStutter
    <2>3. ASSUME NEW c \in job.todo, StartGracePeriod(c) PROVE UserOK(u)'
      BY <2>3, GraceRow, UserWriteBack DEF Live, Fresh
    <2>4. ASSUME NEW c \in job.todo, MarkExpired(c) PROVE UserOK(u)'
      BY <2>4, ExpiredRow, UserWriteBack DEF Live
    <2>5. CASE StartGracePeriodUser \/ MarkExpiredUser
      BY <2>5, UserFollows
    <2>6. CASE RunEnds
      BY <2>6, UserStutter DEF RunEnds, JobIdle
    <2>7. ~(FindExpiredFails \/ WriteFails \/ RunCut)
      BY DEF FindExpiredFails, WriteFails, RunCut
    <2> QED
      BY <1>5, <2>1, <2>2, <2>3, <2>4, <2>5, <2>6, <2>7 DEF WorkerStep
  <1> QED
    BY <1>1, <1>2, <1>3, <1>4, <1>5 DEF Next

-----------------------------------------------------------------------------
(* The theorems about days and users *)

\* failed and mixed only grow: what held of the day, and of a user, before a
\* step is needed only as long as nothing failed and the user is not mixed.
FullInv ==
    /\ CopyInv
    /\ ~failed => DayOK /\ \A u \in Users \ mixed : UserOK(u)

LEMMA FullInit == Init => FullInv
  <1> SUFFICES ASSUME Init PROVE FullInv
    OBVIOUS
  <1>1. CopyInv
    BY CopyInit
  <1>2. DayOK
    BY DEF Init, DayOK, TermOver, GraceIsOver, NoRow
  <1>3. ASSUME NEW u \in Users PROVE UserOK(u)
    <2>1. \A s \in Subs : ~Holds(u, s) /\ ~Exists(s)
      BY NoneAssumption DEF Init, NoRow, JobIdle, Holds, Live, Exists
    <2> QED
      BY <2>1 DEF Init, UserOK, OneHeld, AccessOK, HasAccess, TermOK, PaidTerm
  <1> QED
    BY <1>1, <1>2, <1>3 DEF FullInv

LEMMA MixedGrows ==
    ASSUME [Next]_vars
    PROVE  mixed \subseteq mixed'
  <1>1. CASE NextDay \/ Done \/ UNCHANGED vars
    BY <1>1 DEF NextDay, Done, vars
  <1>2. CASE AdminStep
    BY <1>2 DEF AdminStep, GrantSubscription, RevokeSubscription
  <1>3. CASE UserStep
    BY <1>3 DEF UserStep, Activate, ActivateUser, ActivateUserFails, CancelFind,
                CancelRead, CancelWrite, CancelFails
  <1>4. CASE WorkerStep
    BY <1>4 DEF WorkerStep, FindExpired, FindExpiredFails, StartGracePeriod, MarkExpired,
                StartGracePeriodUser, FindExpiredGracePeriod, MarkExpiredUser,
                WriteFails, RunCut, RunEnds
  <1> QED
    BY <1>1, <1>2, <1>3, <1>4 DEF Next

LEMMA FailedStays ==
    ASSUME [Next]_vars, failed
    PROVE  failed'
  <1>1. CASE UNCHANGED failed
    BY <1>1
  <1>2. CASE failed' = (failed \/ due)
    BY <1>2
  <1>3. CASE failed' = TRUE
    BY <1>3
  <1>4. CASE NextDay
    BY <1>2, <1>4 DEF NextDay
  <1>5. CASE Done \/ UNCHANGED vars \/ AdminStep
    BY <1>1, <1>5 DEF Done, vars, AdminStep, GrantSubscription, RevokeSubscription
  <1>6. CASE UserStep
    BY <1>1, <1>3, <1>6 DEF UserStep, Activate, ActivateUser, ActivateUserFails,
                CancelFind, CancelRead, CancelWrite, CancelFails
  <1>7. CASE WorkerStep
    BY <1>1, <1>3, <1>7 DEF WorkerStep, FindExpired, FindExpiredFails, StartGracePeriod,
                MarkExpired, StartGracePeriodUser, FindExpiredGracePeriod,
                MarkExpiredUser, WriteFails, RunCut, RunEnds
  <1> QED
    BY <1>4, <1>5, <1>6, <1>7 DEF Next

LEMMA FullNext == FullInv /\ [Next]_vars => FullInv'
  <1> SUFFICES ASSUME FullInv, [Next]_vars PROVE FullInv'
    OBVIOUS
  <1>1. CopyInv'
    BY CopyNext DEF FullInv
  <1>2. ASSUME ~failed' PROVE DayOK' /\ \A u \in Users \ mixed' : UserOK(u)'
    <2>1. CopyInv /\ DayOK /\ \A u \in Users \ mixed' : UserOK(u)
      BY <1>2, FailedStays, MixedGrows DEF FullInv
    <2> QED
      BY <1>2, <2>1, DayNext, UserNext
  <1> QED
    BY <1>1, <1>2 DEF FullInv

LEMMA FullInvariance == Spec => []FullInv
  BY FullInit, FullNext, PTL DEF Spec

\* Once the run of the day is over nothing is late, unless a cancellation
\* wrote the row back: for any number of rows, every row that was late when the
\* run began has been moved on by it.
THEOREM TermsAlwaysEnforced == Spec => []TermsEnforcedDaily
  <1>1. FullInv => TermsEnforcedDaily
    BY DEF FullInv, DayOK, TermsEnforcedDaily, Quiet, ToCome, TermOver, GraceIsOver,
           CopyInv, IInv, RowsOK, RowOK, TypeOK, EnforcedGrace
  <1> QED
    BY <1>1, FullInvariance, PTL

\* For a user who did not renew early and was left alone by administrators the
\* users row and the subscriptions table agree about access whenever nothing
\* is in progress, for every number of subscriptions in sequence.
THEOREM AccessAlwaysMatches == Spec => []AccessMatchesRows
  <1>1. FullInv => AccessMatchesRows
    <2> SUFFICES ASSUME FullInv, ~failed, Quiet, NEW u \in Users \ mixed
                 PROVE  HasAccess(u) <=> \E s \in Subs :
                            Owner(s) = u /\ sub[s].status \in {"active", "grace_period"}
      BY DEF AccessMatchesRows
    <2>1. job.cur = None /\ owed = {} /\ AccessOK(u)
      BY DEF FullInv, UserOK, Quiet, CopyInv, CurOK
    <2> QED
      BY <2>1, NoneAssumption DEF AccessOK, Holds, Live
  <1> QED
    BY <1>1, FullInvariance, PTL

\* ... and during the paid term the users row shows that subscription, active,
\* with its true end, also while the worker and cancellations are at work.
THEOREM PaidTermAlwaysHonoured == Spec => []PaidTermHonoured
  <1>1. FullInv => PaidTermHonoured
    <2> SUFFICES ASSUME FullInv, ~failed, NEW s \in Subs, PaidTerm(s),
                        Owner(s) \notin mixed
                 PROVE  /\ sub[s].status = "active"
                        /\ user[Owner(s)] = [status |-> "active", sub |-> s,
                                             expires |-> sub[s].end]
      BY DEF PaidTermHonoured
    <2>1. CopyInv /\ Exists(s) /\ today <= sub[s].end
      BY DEF FullInv, PaidTerm
    <2>2. Owner(s) \in Users
      BY <2>1 DEF CopyInv, SameOK
    <2>3. TermOK(Owner(s))
      BY <2>2 DEF FullInv, UserOK
    <2> QED
      BY <2>1, <2>3, PaidTermActive DEF TermOK
  <1> QED
    BY <1>1, FullInvariance, PTL
=============================================================================
