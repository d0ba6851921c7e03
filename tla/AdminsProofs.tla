------------------------------ MODULE AdminsProofs ------------------------------
(***************************************************************************)
(* PermissionsFollowRole, AccessEnds, LastWordCounts and LogTellsTruth for *)
(* every number of administrators and requests, lifetimes and times, of    *)
(* Admins alone and of the Console; that the Console implements the        *)
(* catalogue of Games; and SlugLeadsToOne of that catalogue.               *)
(*                                                                         *)
(* What makes them inductive is what the requests carry: the copy an       *)
(* update is about to write has the permissions of its role (CarriesRow)   *)
(* and differs from the row only where the form says so, unless updates    *)
(* overlapped (CopyFresh); a request that is about to make tokens looked   *)
(* at the flag before the account was deactivated (CarriesTokens).         *)
(***************************************************************************)
EXTENDS Console, FiniteSetTheorems, TLAPS

\* The row a request carries is one, and has the permissions of its role.
CarriesRow(t) ==
    /\ t.row # None => t.row.permissions = t.row.role
    /\ t.pc = "ready" /\ t.kind \in {"create", "update"} => t.row \in Admin
    /\ t.pc = "ready" /\ t.kind = "create" => t.row.active
    /\ t.pc = "ready" /\ t.kind = "update" => t.id \in Stored /\ t.asks \in Form

\* It differs from the account in what the form says and in nothing else, unless
\* updates of the account overlapped.
CopyFresh(t) ==
    t.pc = "ready" /\ t.kind = "update" /\ t.id \notin mixed =>
        /\ t.row.role = IF t.asks.role = None THEN admins[t.id].role ELSE t.asks.role
        /\ t.row.active = IF t.asks.active = None THEN admins[t.id].active
                          ELSE t.asks.active

\* Tokens are made for an account that was active when it was looked at.
CarriesTokens(t) ==
    /\ t.pc = "checked" \/ t.kind = "login" => t.actor \in Ids
    /\ t.pc = "checked" =>
         /\ t.kind \in {"login", "refresh"} /\ t.at <= now
         /\ left[t.actor] # None => t.at <= left[t.actor]

Fits(t) == CarriesRow(t) /\ CopyFresh(t) /\ CarriesTokens(t)

\* Something was asked for every account, and an account is inactive since some
\* time.
RowsOK ==
    \A a \in Ids :
        /\ asked[a] # None <=> admins[a] # None
        /\ left[a] # None <=> admins[a] # None /\ ~admins[a].active

VouchedBefore == \A a \in Ids : vouched[a] # None => vouched[a] <= now

IInv ==
    /\ TypeOK
    /\ \A r \in Reqs : Fits(task[r])
    /\ RowsOK /\ VouchedBefore
    /\ PermissionsFollowRole /\ LastWordCounts /\ AccessEnds

-----------------------------------------------------------------------------
(* The log *)

Due == {r \in Reqs : task[r].pc = "log"}

LEMMA DueFinite == IsFiniteSet(Due) /\ Cardinality(Due) \in Nat
  BY ReqsAssumption, FS_Subset, FS_CardinalityType DEF Due

LEMMA DueFiniteNext == (IsFiniteSet(Due) /\ Cardinality(Due) \in Nat)'
  BY ReqsAssumption, FS_Subset, FS_CardinalityType DEF Due

\* A request that is not logged, before or after, changes nothing.
LEMMA LogQuiet ==
    ASSUME LogTellsTruth, Due' = Due, UNCHANGED <<logged, done, failed>>
    PROVE  LogTellsTruth'
  BY DEF LogTellsTruth, Due

\* An operation carried out is due, and counted.
LEMMA LogCarried ==
    ASSUME TypeOK, LogTellsTruth, NEW r \in Reqs, r \notin Due, Due' = Due \cup {r},
           done' = done + 1, UNCHANGED <<logged, failed>>
    PROVE  LogTellsTruth'
  <1>1. Cardinality(Due)' = Cardinality(Due) + 1
    BY DueFinite, FS_AddElement
  <1>2. logged + Cardinality(Due) <= done /\ (~failed => logged + Cardinality(Due) = done)
    BY DEF LogTellsTruth, Due
  <1>3. /\ logged' + Cardinality(Due)' <= done'
        /\ ~failed' => logged' + Cardinality(Due)' = done'
    BY <1>1, <1>2, DueFinite DEF TypeOK
  <1> QED
    BY <1>3 DEF LogTellsTruth, Due

\* An entry is written, or lost.
LEMMA LogWritten ==
    ASSUME TypeOK, LogTellsTruth, NEW r \in Reqs, r \in Due, Due' = Due \ {r}, done' = done,
           \/ logged' = logged + 1 /\ failed' = failed
           \/ logged' = logged /\ failed'
    PROVE  LogTellsTruth'
  <1>1. Cardinality(Due)' = Cardinality(Due) - 1
    BY DueFinite, FS_RemoveElement
  <1>2. logged + Cardinality(Due) <= done /\ (~failed => logged + Cardinality(Due) = done)
    BY DEF LogTellsTruth, Due
  <1>3. /\ logged' + Cardinality(Due)' <= done'
        /\ ~failed' => logged' + Cardinality(Due)' = done'
    BY <1>1, <1>2, DueFinite DEF TypeOK
  <1> QED
    BY <1>3 DEF LogTellsTruth, Due

-----------------------------------------------------------------------------
(* Steps that write no account *)

LEMMA IInit == Init => IInv /\ LogTellsTruth
  <1> SUFFICES ASSUME Init PROVE IInv /\ LogTellsTruth
    OBVIOUS
  <1>1. PICK a \in Ids, email \in Emails :
           /\ admins = [i \in Ids |-> IF i = a THEN Seeded(email) ELSE None]
           /\ asked = [i \in Ids |-> IF i = a THEN [role |-> "superadmin", active |-> TRUE]
                                     ELSE None]
    BY DEF Init
  <1>2. Seeded(email) \in Admin
    BY DEF Seeded, Admin, Roles
  <1>3. [role |-> "superadmin", active |-> TRUE] \in Asked
    BY DEF Asked, Roles
  <1>4. Idle \in Task
    BY BoundAssumption DEF Idle, Task, Optional
  <1>5. TypeOK
    <2>1. admins \in [Ids -> Optional(Admin)] /\ asked \in [Ids -> Optional(Asked)]
      BY <1>1, <1>2, <1>3 DEF Optional
    <2>2. now \in 0 .. MaxTime /\ task \in [Reqs -> Task] /\ mixed \subseteq Ids
      BY <1>4, BoundAssumption DEF Init
    <2>3. /\ issued \in [Ids -> Optional(0 .. MaxTime)]
          /\ left \in [Ids -> Optional(0 .. MaxTime)]
          /\ vouched \in [Ids -> Optional(0 .. MaxTime)]
      BY DEF Init, Optional
    <2> QED
      BY <2>1, <2>2, <2>3 DEF Init, TypeOK
  <1>6. \A r \in Reqs : Fits(task[r])
    BY DEF Init, Fits, CarriesRow, CopyFresh, CarriesTokens, Idle
  <1>7. RowsOK /\ VouchedBefore /\ PermissionsFollowRole /\ LastWordCounts /\ AccessEnds
    <2>1. RowsOK
      BY <1>1, <1>2, <1>3, NoneAssumption DEF Init, RowsOK, Seeded
    <2>2. VouchedBefore /\ AccessEnds
      BY DEF Init, VouchedBefore, AccessEnds
    <2>3. PermissionsFollowRole /\ LastWordCounts
      BY <1>1, NoneAssumption DEF Init, PermissionsFollowRole, LastWordCounts, Stored, Seeded
    <2> QED
      BY <2>1, <2>2, <2>3
  <1>8. LogTellsTruth
    <2>1. Due = {}
      BY DEF Init, Idle, Due
    <2>2. Cardinality(Due) = 0
      BY <2>1, FS_EmptySet
    <2>3. logged = 0 /\ done = 0
      BY DEF Init
    <2> QED
      BY <2>2, <2>3 DEF LogTellsTruth, Due
  <1> QED
    BY <1>5, <1>6, <1>7, <1>8 DEF IInv

\* A request goes on, and no account changes.
LEMMA TokenStep ==
    ASSUME IInv, NEW r \in Reqs, NEW t \in Task, Fits(t),
           task' = [task EXCEPT ![r] = t], logged' \in Nat, done' \in Nat,
           failed' \in BOOLEAN,
           issued' \in [Ids -> Optional(0 .. MaxTime)],
           vouched' \in [Ids -> Optional(0 .. MaxTime)],
           \A a \in Ids : vouched'[a] # None =>
               vouched'[a] <= now /\ (left[a] # None => vouched'[a] <= left[a]),
           UNCHANGED <<admins, now, asked, left, mixed>>
    PROVE  IInv'
  <1>1. TypeOK'
    BY DEF IInv, TypeOK
  <1>2. ASSUME NEW q \in Reqs PROVE Fits(task[q])'
    <2>1. task'[q] = t \/ task'[q] = task[q]
      BY DEF IInv, TypeOK
    <2>2. Fits(task[q])
      BY DEF IInv
    <2> QED
      BY <2>1, <2>2 DEF Fits, CarriesRow, CopyFresh, CarriesTokens, Stored
  <1>3. (RowsOK /\ PermissionsFollowRole /\ LastWordCounts)'
    BY DEF IInv, RowsOK, PermissionsFollowRole, LastWordCounts, Stored
  <1>4. (VouchedBefore /\ AccessEnds)'
    BY DEF VouchedBefore, AccessEnds
  <1> QED
    BY <1>1, <1>2, <1>3, <1>4 DEF IInv

\* ... and nobody gets tokens.
LEMMA TaskStep ==
    ASSUME IInv, NEW r \in Reqs, NEW t \in Task, Fits(t),
           task' = [task EXCEPT ![r] = t], logged' \in Nat, done' \in Nat,
           failed' \in BOOLEAN,
           UNCHANGED <<admins, now, issued, asked, left, vouched, mixed>>
    PROVE  IInv'
  <1>1. /\ issued' \in [Ids -> Optional(0 .. MaxTime)]
        /\ vouched' \in [Ids -> Optional(0 .. MaxTime)]
        /\ \A a \in Ids : vouched'[a] # None =>
             vouched'[a] <= now /\ (left[a] # None => vouched'[a] <= left[a])
    BY DEF IInv, TypeOK, VouchedBefore, AccessEnds
  <1> QED
    BY <1>1, TokenStep

LEMMA IdleFits == Idle \in Task /\ Fits(Idle)
  BY BoundAssumption DEF Idle, Task, Optional, Fits, CarriesRow, CopyFresh, CarriesTokens

\* The later of two moments is one of them.
LEMMA LaterOne ==
    ASSUME NEW old \in Optional(0 .. MaxTime), NEW at \in 0 .. MaxTime
    PROVE  Later(old, at) \in {old, at} /\ Later(old, at) \in Optional(0 .. MaxTime)
  BY DEF Later, Optional

LEMMA Received ==
    ASSUME IInv, NEW a \in Ids, NEW at \in 0 .. MaxTime, Receive(a, at)
    PROVE  issued' \in [Ids -> Optional(0 .. MaxTime)]
  <1>1. Later(issued[a], at) \in Optional(0 .. MaxTime)
    BY LaterOne DEF IInv, TypeOK
  <1> QED
    BY <1>1 DEF Receive, IInv, TypeOK

\* An operation is carried out: the task has only its entry to write.
LEMMA CarriedTask ==
    ASSUME IInv, NEW r \in Reqs, Carried(r, Idle)
    PROVE  \E u \in Task : /\ u.pc = "log" /\ Fits(u)
                           /\ task' = [task EXCEPT ![r] = u]
                           /\ done' \in Nat
  <1>1. PICK u : u = [Idle EXCEPT !.pc = "log"]
    OBVIOUS
  <1>2. u \in Task /\ u.pc = "log" /\ u.row = None /\ u.kind = "none"
    BY <1>1, BoundAssumption DEF Idle, Task, Optional
  <1>3. Fits(u)
    BY <1>2 DEF Fits, CarriesRow, CopyFresh, CarriesTokens
  <1>4. task' = [task EXCEPT ![r] = u] /\ done' \in Nat
    BY <1>1 DEF Carried, IInv, TypeOK
  <1> QED
    BY <1>2, <1>3, <1>4

\* The account is active when it is looked at.
LEMMA CheckedStep ==
    ASSUME IInv, NEW r \in Reqs, Login(r) \/ RefreshToken(r) \/ RefreshTokenAsUser(r)
    PROVE  IInv'
  <1>1. PICK a \in Ids, kind \in {"login", "refresh"} : Active(a) /\ Checked(r, kind, a)
    BY DEF Login, RefreshToken, RefreshTokenAsUser
  <1>2. PICK t : t = [Idle EXCEPT !.pc = "checked", !.kind = kind, !.actor = a, !.at = now]
    OBVIOUS
  <1>3. /\ t \in Task /\ t.pc = "checked" /\ t.kind = kind /\ t.actor = a /\ t.at = now
        /\ t.row = None
    BY <1>2 DEF Idle, Task, Optional, IInv, TypeOK
  <1>4. left[a] = None
    BY <1>1 DEF IInv, RowsOK, Active
  <1>5. Fits(t)
    BY <1>3, <1>4 DEF Fits, CarriesRow, CopyFresh, CarriesTokens, IInv, TypeOK
  <1> QED
    BY <1>1, <1>2, <1>3, <1>5, TaskStep DEF Checked, IInv, TypeOK

\* A pair that is made rests on that look.
LEMMA TokensStep ==
    ASSUME IInv, NEW r \in Reqs, GenerateAdminTokens(r)
    PROVE  IInv'
  <1>1. PICK t : t = task[r]
    OBVIOUS
  <1>2. PICK a : a = t.actor
    OBVIOUS
  <1>3. /\ t \in Task /\ t.pc = "checked" /\ a \in Ids /\ t.at \in 0 .. MaxTime
        /\ t.kind \in {"login", "refresh"} /\ t.at <= now
        /\ left[a] # None => t.at <= left[a]
        /\ now \in 0 .. MaxTime
    BY <1>1, <1>2 DEF GenerateAdminTokens, IInv, TypeOK, Fits, CarriesTokens, Task
  <1>4. vouched[a] \in Optional(0 .. MaxTime)
    BY <1>3 DEF IInv, TypeOK
  <1>5. PICK v : v = IF Active(a) THEN vouched[a] ELSE Later(vouched[a], t.at)
    OBVIOUS
  <1>6. v \in {vouched[a], t.at} /\ v \in Optional(0 .. MaxTime)
    BY <1>3, <1>4, <1>5, LaterOne
  <1>7. vouched' = [vouched EXCEPT ![a] = v]
    BY <1>1, <1>2, <1>5 DEF GenerateAdminTokens, IInv, TypeOK
  <1>8. /\ vouched' \in [Ids -> Optional(0 .. MaxTime)]
        /\ \A b \in Ids : vouched'[b] # None =>
             vouched'[b] <= now /\ (left[b] # None => vouched'[b] <= left[b])
    BY <1>3, <1>6, <1>7 DEF IInv, TypeOK, VouchedBefore, AccessEnds
  <1>9. UNCHANGED <<admins, now, logged, asked, left, mixed, failed>>
    BY DEF GenerateAdminTokens
  <1>10. CASE t.kind = "login"
    <2>1. PICK u : u = [t EXCEPT !.at = now, !.pc = "log"]
      OBVIOUS
    <2>2. /\ u \in Task /\ u.pc = "log" /\ u.kind = "login" /\ u.row = t.row
          /\ u.actor = a
      BY <1>2, <1>3, <1>10, <2>1 DEF Task
    <2>3. Fits(u)
      BY <1>1, <1>3, <2>2 DEF Fits, CarriesRow, CopyFresh, CarriesTokens, IInv
    <2>4. task' = [task EXCEPT ![r] = u] /\ done' \in Nat /\ issued' = issued
      BY <1>1, <1>10, <2>1 DEF GenerateAdminTokens, Carried, IInv, TypeOK
    <2> QED
      BY <1>8, <1>9, <2>2, <2>3, <2>4, TokenStep DEF IInv, TypeOK
  <1>11. CASE t.kind # "login"
    <2>1. Receive(a, now) /\ task' = [task EXCEPT ![r] = Idle] /\ done' = done
      BY <1>1, <1>2, <1>11 DEF GenerateAdminTokens, Finish
    <2>2. issued' \in [Ids -> Optional(0 .. MaxTime)]
      BY <1>3, <2>1, Received
    <2> QED
      BY <1>8, <1>9, <2>1, <2>2, IdleFits, TokenStep DEF IInv, TypeOK
  <1> QED
    BY <1>10, <1>11

LEMMA LogoutStep ==
    ASSUME IInv, NEW r \in Reqs, Logout(r)
    PROVE  IInv'
  BY CarriedTask, TaskStep DEF Logout, IInv, TypeOK

LEMMA BeginStep ==
    ASSUME IInv, NEW r \in Reqs, BeginCreateAdmin(r) \/ BeginUpdateAdmin(r)
    PROVE  IInv'
  <1>1. PICK kind \in {"create", "update"} :
           task' = [task EXCEPT ![r] = [Idle EXCEPT !.pc = "admitted", !.kind = kind]]
    BY DEF BeginCreateAdmin, BeginUpdateAdmin, Admit
  <1>2. UNCHANGED <<admins, now, issued, logged, done, asked, left, vouched, mixed, failed>>
    BY DEF BeginCreateAdmin, BeginUpdateAdmin, Admit
  <1> DEFINE t == [Idle EXCEPT !.pc = "admitted", !.kind = kind]
  <1>3. t \in Task
    BY IdleFits DEF Task, Optional
  <1>4. Fits(t)
    BY DEF Idle, Fits, CarriesRow, CopyFresh, CarriesTokens
  <1>5. task' = [task EXCEPT ![r] = t]
    BY <1>1
  <1> HIDE DEF t
  <1> QED
    BY <1>2, <1>3, <1>4, <1>5, TaskStep DEF IInv, TypeOK

LEMMA CheckEmailStep ==
    ASSUME IInv, NEW r \in Reqs, CheckEmail(r)
    PROVE  IInv'
  <1>1. PICK email \in Emails, role \in Roles :
           task' = [task EXCEPT ![r].pc = "ready",
                        ![r].row = [email |-> email, role |-> role,
                                    permissions |-> role, active |-> TRUE]]
    BY DEF CheckEmail
  <1> DEFINE row == [email |-> email, role |-> role, permissions |-> role, active |-> TRUE]
             t == [task[r] EXCEPT !.pc = "ready", !.row = row]
  <1>2. row \in Admin /\ row.permissions = row.role /\ row.active
    BY DEF Admin
  <1>3. task[r] \in Task /\ task[r].kind = "create"
    BY DEF IInv, TypeOK, CheckEmail
  <1>6. task' = [task EXCEPT ![r] = t]
    BY <1>1 DEF IInv, TypeOK
  <1> HIDE DEF row
  <1>4. t \in Task
    BY <1>2, <1>3 DEF Task, Optional
  <1>5. Fits(t)
    BY <1>2, <1>3 DEF Task, Fits, CarriesRow, CopyFresh, CarriesTokens
  <1> HIDE DEF t
  <1> QED
    BY <1>4, <1>5, <1>6, TaskStep DEF CheckEmail, IInv, TypeOK

LEMMA FindByIDStep ==
    ASSUME IInv, NEW r \in Reqs, FindByID(r)
    PROVE  IInv'
  <1>1. PICK a \in Stored, asks \in Form :
           task' = [task EXCEPT ![r].pc = "ready", ![r].id = a, ![r].asks = asks,
                                ![r].row = Changed(admins[a], asks)]
    BY DEF FindByID, Form
  <1> DEFINE row == Changed(admins[a], asks)
             t == [task[r] EXCEPT !.pc = "ready", !.id = a, !.asks = asks, !.row = row]
  <1>2. a \in Ids /\ admins[a] \in Admin /\ admins[a].permissions = admins[a].role
    BY DEF IInv, TypeOK, Stored, Optional, PermissionsFollowRole
  <1>3. /\ row \in Admin
        /\ row.permissions = row.role
        /\ row.role = IF asks.role = None THEN admins[a].role ELSE asks.role
        /\ row.active = IF asks.active = None THEN admins[a].active ELSE asks.active
    BY <1>2 DEF Changed, Admin, Form, Optional
  <1>4. task[r] \in Task /\ task[r].kind = "update"
    BY DEF IInv, TypeOK, FindByID
  <1>5. task' = [task EXCEPT ![r] = t]
    BY <1>1 DEF IInv, TypeOK
  <1> HIDE DEF row
  <1>6. t \in Task
    BY <1>2, <1>3, <1>4 DEF Task, Optional
  <1>7. Fits(t)
    BY <1>2, <1>3, <1>4 DEF Task, Fits, CarriesRow, CopyFresh, CarriesTokens
  <1> HIDE DEF t
  <1> QED
    BY <1>5, <1>6, <1>7, TaskStep DEF FindByID, IInv, TypeOK

\* A request that is refused or cut ends.
LEMMA FinishStep ==
    ASSUME IInv, NEW r \in Reqs, Refused(r) \/ CutBeforeLog(r)
    PROVE  IInv'
  <1>1. /\ task' = [task EXCEPT ![r] = Idle]
        /\ UNCHANGED <<admins, now, issued, logged, done, asked, left, vouched, mixed>>
        /\ failed' \in BOOLEAN
    BY DEF Refused, CutBeforeLog, Finish, IInv, TypeOK
  <1> QED
    BY <1>1, IdleFits, TaskStep DEF IInv, TypeOK

\* The request that has written its entry, or failed to, answers.
LEMMA AnswerStep ==
    ASSUME IInv, NEW r \in Reqs, LogAdminAction(r) \/ LogAdminActionFails(r)
    PROVE  IInv'
  <1>1. /\ task' = [task EXCEPT ![r] = Idle]
        /\ UNCHANGED <<admins, now, done, asked, left, vouched, mixed>>
        /\ failed' \in BOOLEAN /\ logged' \in Nat
    <2>1. CASE LogAdminAction(r)
      BY <2>1 DEF LogAdminAction, Answer, Finish, IInv, TypeOK
    <2>2. CASE LogAdminActionFails(r)
      BY <2>2 DEF LogAdminActionFails, Answer, Finish, IInv, TypeOK
    <2> QED
      BY <2>1, <2>2
  <1>2. issued' \in [Ids -> Optional(0 .. MaxTime)]
    <2>1. CASE issued' = issued
      BY <2>1 DEF IInv, TypeOK
    <2>2. CASE task[r].kind = "login" /\ Receive(task[r].actor, task[r].at)
      <3>1. task[r].actor \in Ids /\ task[r].at \in 0 .. MaxTime
        BY <2>2 DEF IInv, TypeOK, Task, Fits, CarriesTokens
      <3> QED
        BY <2>2, <3>1, Received
    <2> QED
      BY <2>1, <2>2 DEF LogAdminAction, LogAdminActionFails, Answer
  <1>3. \A a \in Ids : vouched'[a] # None =>
           vouched'[a] <= now /\ (left[a] # None => vouched'[a] <= left[a])
    BY <1>1 DEF IInv, VouchedBefore, AccessEnds
  <1>4. vouched' \in [Ids -> Optional(0 .. MaxTime)]
    BY <1>1 DEF IInv, TypeOK
  <1> QED
    BY <1>1, <1>2, <1>3, <1>4, IdleFits, TokenStep DEF IInv, TypeOK

LEMMA TickStep ==
    ASSUME IInv, Tick
    PROVE  IInv'
  <1>1. /\ now' = now + 1 /\ now' \in 0 .. MaxTime
        /\ UNCHANGED <<admins, issued, task, logged, done, asked, left, vouched, mixed, failed>>
    BY BoundAssumption DEF Tick, IInv, TypeOK
  <1>2. TypeOK'
    BY <1>1 DEF IInv, TypeOK
  <1>3. ASSUME NEW q \in Reqs PROVE Fits(task[q])'
    <2>1. Fits(task[q]) /\ task[q] \in Task
      BY DEF IInv, TypeOK
    <2>2. task[q].at \in 0 .. MaxTime
      BY <2>1 DEF Task
    <2> QED
      BY <1>1, <2>1, <2>2 DEF Fits, CarriesRow, CopyFresh, CarriesTokens, Stored, IInv, TypeOK
  <1>4. VouchedBefore'
    BY <1>1 DEF IInv, TypeOK, VouchedBefore, Optional
  <1>5. (RowsOK /\ PermissionsFollowRole /\ LastWordCounts /\ AccessEnds)'
    BY <1>1 DEF IInv, RowsOK, PermissionsFollowRole, LastWordCounts, AccessEnds, Stored
  <1> QED
    BY <1>2, <1>3, <1>4, <1>5 DEF IInv

-----------------------------------------------------------------------------
(* Steps that write an account *)

LEMMA CreateStep ==
    ASSUME IInv, NEW r \in Reqs, Create(r)
    PROVE  IInv'
  <1> DEFINE row == task[r].row
             t == task[r]
             said == [role |-> row.role, active |-> row.active]
  <1>1. PICK a \in Ids \ Stored :
           /\ admins' = [admins EXCEPT ![a] = row]
           /\ asked' = [asked EXCEPT ![a] = said]
    BY DEF Create
  <1>2. UNCHANGED <<now, issued, logged, left, vouched, mixed, failed>>
    BY DEF Create
  <1>3. t \in Task /\ t.kind = "create" /\ t.pc = "ready"
    BY DEF Create, IInv, TypeOK
  <1>4. row \in Admin /\ row # None /\ row.permissions = row.role /\ row.active
    BY <1>3, NoneAssumption DEF IInv, Fits, CarriesRow
  <1>5. said \in Asked /\ said.role = row.role /\ said.active = row.active
    BY <1>4 DEF Admin, Asked
  <1>14. said # None
    BY <1>5, NoneAssumption
  <1>7. PICK u \in Task : Fits(u) /\ task' = [task EXCEPT ![r] = u] /\ done' \in Nat
    BY CarriedTask DEF Create
  <1>8. admins[a] = None /\ left[a] = None
    BY <1>1 DEF Stored, IInv, RowsOK
  <1> HIDE DEF said
  <1>9. TypeOK'
    BY <1>1, <1>2, <1>4, <1>5, <1>7 DEF IInv, TypeOK, Optional
  <1>10. ASSUME NEW q \in Reqs PROVE Fits(task[q])'
    <2>1. /\ task'[q] = u \/ task'[q] = task[q]
          /\ Fits(u) /\ Fits(task[q])
      BY <1>7 DEF IInv, TypeOK
    <2>2. \A b \in Stored : b \in Stored' /\ admins'[b] = admins[b]
      BY <1>1, <1>8 DEF Stored, IInv, TypeOK
    <2> QED
      BY <1>2, <2>1, <2>2 DEF Fits, CarriesRow, CopyFresh, CarriesTokens
  <1> HIDE DEF row, t
  <1>11. RowsOK'
    <2> SUFFICES ASSUME NEW b \in Ids
                 PROVE  /\ asked'[b] # None <=> admins'[b] # None
                        /\ left'[b] # None <=> admins'[b] # None /\ ~admins'[b].active
      BY DEF RowsOK
    <2>1. CASE b # a
      BY <1>1, <1>2, <2>1 DEF IInv, TypeOK, RowsOK
    <2>2. CASE b = a
      <3>1. admins'[b] = row /\ asked'[b] = said /\ left'[b] = None
        BY <1>1, <1>2, <1>8, <2>2 DEF IInv, TypeOK
      <3> QED
        BY <1>4, <1>5, <1>14, <3>1
    <2> QED
      BY <2>1, <2>2
  <1>12. (PermissionsFollowRole /\ LastWordCounts)'
    <2> SUFFICES ASSUME NEW b \in Stored'
                 PROVE  /\ admins'[b].permissions = admins'[b].role
                        /\ b \notin mixed' => /\ admins'[b].role = asked'[b].role
                                              /\ admins'[b].active = asked'[b].active
      BY DEF PermissionsFollowRole, LastWordCounts
    <2>1. CASE b # a
      BY <1>1, <1>2, <2>1 DEF IInv, TypeOK, PermissionsFollowRole, LastWordCounts, Stored
    <2>2. CASE b = a
      <3>1. admins'[b] = row /\ asked'[b] = said
        BY <1>1, <2>2 DEF IInv, TypeOK
      <3> QED
        BY <1>4, <1>5, <3>1
    <2> QED
      BY <2>1, <2>2
  <1>13. (VouchedBefore /\ AccessEnds)'
    BY <1>2 DEF IInv, VouchedBefore, AccessEnds
  <1> QED
    BY <1>9, <1>10, <1>11, <1>12, <1>13 DEF IInv

\* The request's own task is over, and every other one that is about to write the
\* account overlaps with it.
LEMMA UpdateStep ==
    ASSUME IInv, NEW r \in Reqs, Update(r)
    PROVE  IInv'
  <1> DEFINE row == task[r].row
             t == task[r]
             a == task[r].id
             asks == task[r].asks
             said == AskedBy(asked[a], asks)
             when == IF row.active THEN None ELSE IF admins[a].active THEN now ELSE left[a]
  <1>1. t \in Task /\ t.kind = "update" /\ t.pc = "ready"
    BY DEF Update, IInv, TypeOK
  <1>2. /\ row \in Admin /\ row # None /\ row.permissions = row.role
        /\ a \in Ids /\ admins[a] \in Admin /\ admins[a] # None /\ asks \in Form
    BY <1>1, NoneAssumption DEF IInv, TypeOK, Fits, CarriesRow, Stored, Optional
  <1>3. /\ a \notin mixed => row.role = IF asks.role = None THEN admins[a].role ELSE asks.role
        /\ a \notin mixed => row.active = IF asks.active = None THEN admins[a].active
                                          ELSE asks.active
    BY <1>1 DEF IInv, Fits, CopyFresh
  <1>4. asked[a] \in Asked
    BY <1>2 DEF IInv, RowsOK, TypeOK, Optional
  <1>5. said \in Asked /\ said # None
    <2>1. asks.role \in Optional(Roles) /\ asks.active \in Optional(BOOLEAN)
      BY <1>2 DEF Form
    <2>2. said.role \in Roles /\ said.active \in BOOLEAN
      BY <1>4, <2>1 DEF AskedBy, Asked, Optional
    <2>3. said \in Asked
      BY <2>2 DEF Asked, AskedBy
    <2> QED
      BY <2>3, NoneAssumption
  <1>6. /\ admins' = [admins EXCEPT ![a] = row]
        /\ left' = [left EXCEPT ![a] = when]
        /\ UNCHANGED <<now, issued, logged, vouched, failed>>
    BY DEF Update, Written
  <1>7. asked' = [asked EXCEPT ![a] = said]
    BY <1>2, <1>4 DEF Update, AskedBy, IInv, TypeOK
  <1>8. mixed' \subseteq Ids /\ mixed \subseteq mixed'
    BY <1>2 DEF Update, IInv, TypeOK
  <1>9. \A q \in Reqs \ {r} : task[q].pc = "ready" /\ task[q].id = a => a \in mixed'
    BY DEF Update, Overlapped
  <1>11. PICK u \in Task : /\ u.pc = "log" /\ Fits(u)
                           /\ task' = [task EXCEPT ![r] = u] /\ done' \in Nat
    BY CarriedTask DEF Update
  <1>12. when \in Optional(0 .. MaxTime) /\ (when # None <=> ~row.active)
    <2>1. left[a] \in Optional(0 .. MaxTime) /\ (left[a] # None <=> ~admins[a].active)
      BY <1>2 DEF IInv, TypeOK, RowsOK
    <2>2. now \in 0 .. MaxTime /\ now # None
      BY NoneAssumption DEF IInv, TypeOK
    <2> QED
      BY <2>1, <2>2 DEF Optional
  <1> HIDE DEF said
  <1>13. ASSUME NEW q \in Reqs PROVE Fits(task[q])'
    <2>1. CASE q = r
      <3>1. task'[q] = u
        BY <1>11, <2>1 DEF IInv, TypeOK
      <3> QED
        BY <1>11, <3>1 DEF Fits, CarriesRow, CopyFresh, CarriesTokens
    <2>2. CASE q # r
      <3>1. task'[q] = task[q] /\ Fits(task[q]) /\ task[q] \in Task
        BY <1>11, <2>2 DEF IInv, TypeOK
      <3>2. CarriesRow(task[q])'
        BY <1>2, <1>6, <3>1 DEF Fits, CarriesRow, Stored, IInv, TypeOK
      <3>3. CopyFresh(task[q])'
        BY <1>6, <1>8, <1>9, <2>2, <3>1 DEF Fits, CarriesRow, CopyFresh, Stored, IInv, TypeOK
      <3>4. CarriesTokens(task[q])'
        <4> SUFFICES ASSUME task[q].pc = "checked", left'[task[q].actor] # None
                     PROVE  task[q].at <= left'[task[q].actor]
          BY <1>6, <3>1 DEF Fits, CarriesTokens
        <4>1. /\ task[q].actor \in Ids /\ task[q].at <= now
              /\ left[task[q].actor] # None => task[q].at <= left[task[q].actor]
          BY <3>1 DEF Fits, CarriesTokens
        <4>2. left'[task[q].actor] \in {left[task[q].actor], now, None}
          BY <1>6, <4>1 DEF IInv, TypeOK
        <4> QED
          BY <4>1, <4>2
      <3> QED
        BY <3>2, <3>3, <3>4 DEF Fits
    <2> QED
      BY <2>1, <2>2
  <1> HIDE DEF row, t, a, asks, when
  <1>14. TypeOK'
    BY <1>2, <1>5, <1>6, <1>7, <1>8, <1>11, <1>12 DEF IInv, TypeOK, Optional
  <1>15. RowsOK'
    <2> SUFFICES ASSUME NEW b \in Ids
                 PROVE  /\ asked'[b] # None <=> admins'[b] # None
                        /\ left'[b] # None <=> admins'[b] # None /\ ~admins'[b].active
      BY DEF RowsOK
    <2>1. CASE b # a
      BY <1>6, <1>7, <2>1 DEF IInv, TypeOK, RowsOK
    <2>2. CASE b = a
      <3>1. admins'[b] = row /\ asked'[b] = said /\ left'[b] = when
        BY <1>6, <1>7, <2>2 DEF IInv, TypeOK
      <3> QED
        BY <1>2, <1>5, <1>12, <3>1
    <2> QED
      BY <2>1, <2>2
  <1>16. (PermissionsFollowRole /\ LastWordCounts)'
    <2> SUFFICES ASSUME NEW b \in Stored'
                 PROVE  /\ admins'[b].permissions = admins'[b].role
                        /\ b \notin mixed' => /\ admins'[b].role = asked'[b].role
                                              /\ admins'[b].active = asked'[b].active
      BY DEF PermissionsFollowRole, LastWordCounts
    <2>1. CASE b # a
      BY <1>6, <1>7, <1>8, <2>1
         DEF IInv, TypeOK, PermissionsFollowRole, LastWordCounts, Stored
    <2>2. CASE b = a
      <3>1. admins'[b] = row /\ asked'[b] = said
        BY <1>6, <1>7, <2>2 DEF IInv, TypeOK, Stored
      <3>2. a \notin mixed => admins[a].role = asked[a].role /\ admins[a].active = asked[a].active
        BY <1>2 DEF IInv, LastWordCounts, Stored
      <3> QED
        BY <1>2, <1>3, <1>8, <2>2, <3>1, <3>2 DEF said, AskedBy
    <2> QED
      BY <2>1, <2>2
  <1>17. (VouchedBefore /\ AccessEnds)'
    <2>1. VouchedBefore'
      BY <1>6 DEF IInv, VouchedBefore
    <2>2. ASSUME NEW b \in Ids, left'[b] # None, vouched'[b] # None
          PROVE  vouched'[b] <= left'[b]
      <3>1. CASE b # a
        BY <1>6, <2>2, <3>1 DEF IInv, TypeOK, AccessEnds
      <3>2. CASE b = a
        <4>1. left'[b] = when
          BY <1>6, <3>2 DEF IInv, TypeOK
        <4> QED
          BY <1>6, <2>2, <3>2, <4>1 DEF when, IInv, VouchedBefore, AccessEnds, a
      <3> QED
        BY <3>1, <3>2
    <2> QED
      BY <2>1, <2>2 DEF AccessEnds
  <1> QED
    BY <1>13, <1>14, <1>15, <1>16, <1>17 DEF IInv

-----------------------------------------------------------------------------
(* All steps *)

LEMMA INext == IInv /\ [Next]_vars => IInv'
  <1> SUFFICES ASSUME IInv, [Next]_vars PROVE IInv'
    OBVIOUS
  <1>1. CASE UNCHANGED vars
    BY <1>1 DEF vars, IInv, TypeOK, Fits, CarriesRow, CopyFresh, CarriesTokens, RowsOK,
                VouchedBefore, PermissionsFollowRole, LastWordCounts, AccessEnds, Stored
  <1>2. ASSUME NEW r \in Reqs, Login(r) \/ RefreshToken(r) \/ RefreshTokenAsUser(r)
        PROVE  IInv'
    BY <1>2, CheckedStep
  <1>3. ASSUME NEW r \in Reqs, GenerateAdminTokens(r) \/ Logout(r) PROVE IInv'
    BY <1>3, TokensStep, LogoutStep
  <1>4. ASSUME NEW r \in Reqs, BeginCreateAdmin(r) \/ BeginUpdateAdmin(r) PROVE IInv'
    BY <1>4, BeginStep
  <1>5. ASSUME NEW r \in Reqs, CheckEmail(r) \/ FindByID(r) PROVE IInv'
    BY <1>5, CheckEmailStep, FindByIDStep
  <1>6. ASSUME NEW r \in Reqs, Create(r) \/ Update(r) PROVE IInv'
    BY <1>6, CreateStep, UpdateStep
  <1>7. ASSUME NEW r \in Reqs, LogAdminAction(r) \/ LogAdminActionFails(r) PROVE IInv'
    BY <1>7, AnswerStep
  <1>8. ASSUME NEW r \in Reqs, CutBeforeLog(r) \/ Refused(r) PROVE IInv'
    BY <1>8, FinishStep
  <1>9. CASE Tick
    BY <1>9, TickStep
  <1> QED
    BY <1>1, <1>2, <1>3, <1>4, <1>5, <1>6, <1>7, <1>8, <1>9 DEF Next

\* The task of one request changes; it is due or not afterwards.
LEMMA DueStep ==
    ASSUME TypeOK, NEW r \in Reqs, NEW t, task' = [task EXCEPT ![r] = t]
    PROVE  /\ t.pc = "log" => Due' = Due \cup {r}
           /\ t.pc # "log" => Due' = Due \ {r}
  BY DEF TypeOK, Due

LEMMA LogCarriedStep ==
    ASSUME TypeOK, LogTellsTruth, NEW r \in Reqs, r \notin Due, NEW t \in Task, Carried(r, t),
           UNCHANGED <<logged, failed>>
    PROVE  LogTellsTruth'
  <1>1. PICK u : u = [t EXCEPT !.pc = "log"]
    OBVIOUS
  <1>2. task' = [task EXCEPT ![r] = u] /\ done' = done + 1
    BY <1>1 DEF Carried
  <1>3. u.pc = "log"
    BY <1>1 DEF Task
  <1> QED
    BY <1>2, <1>3, DueStep, LogCarried

LEMMA LogNext == TypeOK /\ LogTellsTruth /\ [Next]_vars => LogTellsTruth'
  <1> SUFFICES ASSUME TypeOK, LogTellsTruth, [Next]_vars PROVE LogTellsTruth'
    OBVIOUS
  <1>1. CASE UNCHANGED <<task, logged, done, failed>>
    BY <1>1, LogQuiet DEF Due
  <1>2. CASE Tick
    BY <1>1, <1>2 DEF Tick
  <1>3. ASSUME NEW r \in Reqs, GenerateAdminTokens(r), task[r].kind = "login"
        PROVE  LogTellsTruth'
    <2>1. PICK t : t = [task[r] EXCEPT !.at = now]
      OBVIOUS
    <2>2. t \in Task
      BY <2>1 DEF TypeOK, Task
    <2>3. r \notin Due /\ UNCHANGED <<logged, failed>> /\ Carried(r, t)
      BY <1>3, <2>1 DEF GenerateAdminTokens, Due
    <2> QED
      BY <2>2, <2>3, LogCarriedStep
  <1>7. ASSUME NEW r \in Reqs, Logout(r) PROVE LogTellsTruth'
    <2>1. r \notin Due /\ UNCHANGED <<logged, failed>>
      BY <1>7 DEF Logout, Idle, Due
    <2> QED
      BY <1>7, <2>1, IdleFits, LogCarriedStep DEF Logout
  <1>4. ASSUME NEW r \in Reqs, Create(r) \/ Update(r) PROVE LogTellsTruth'
    <2>1. r \notin Due /\ UNCHANGED <<logged, failed>> /\ Carried(r, Idle)
      BY <1>4 DEF Create, Update, Due
    <2> QED
      BY <2>1, IdleFits, LogCarriedStep
  <1>5. ASSUME NEW r \in Reqs,
               LogAdminAction(r) \/ LogAdminActionFails(r) \/ CutBeforeLog(r)
        PROVE  LogTellsTruth'
    <2>1. r \in Due /\ task' = [task EXCEPT ![r] = Idle] /\ done' = done
      BY <1>5 DEF LogAdminAction, LogAdminActionFails, CutBeforeLog, Answer, Finish, Due
    <2>2. Idle.pc # "log"
      BY DEF Idle
    <2>4. Due' = Due \ {r}
      BY <2>1, <2>2, DueStep
    <2>3. \/ logged' = logged + 1 /\ failed' = failed
          \/ logged' = logged /\ failed'
      BY <1>5 DEF LogAdminAction, LogAdminActionFails, CutBeforeLog
    <2> QED
      BY <2>1, <2>3, <2>4, LogWritten
  <1>6. ASSUME NEW r \in Reqs,
               \/ BeginCreateAdmin(r) \/ BeginUpdateAdmin(r)
               \/ CheckEmail(r) \/ FindByID(r) \/ Refused(r)
               \/ Login(r) \/ RefreshToken(r) \/ RefreshTokenAsUser(r)
               \/ GenerateAdminTokens(r) /\ task[r].kind # "login"
        PROVE  LogTellsTruth'
    <2>1. /\ task[r].pc # "log" /\ task'[r].pc # "log"
          /\ \A q \in Reqs \ {r} : task'[q] = task[q]
          /\ UNCHANGED <<logged, done, failed>>
      <3>1. CASE BeginCreateAdmin(r) \/ BeginUpdateAdmin(r)
        <4>1. task[r] = Idle /\ UNCHANGED <<logged, done, failed>>
          BY <3>1 DEF BeginCreateAdmin, BeginUpdateAdmin, Admit
        <4>2. PICK kind : task' = [task EXCEPT ![r] = [Idle EXCEPT !.pc = "admitted",
                                                         !.kind = kind]]
          BY <3>1 DEF BeginCreateAdmin, BeginUpdateAdmin, Admit
        <4> QED
          BY <4>1, <4>2 DEF Idle, TypeOK
      <3>2. CASE CheckEmail(r)
        BY <3>2 DEF CheckEmail, TypeOK, Task
      <3>3. CASE FindByID(r)
        BY <3>3 DEF FindByID, TypeOK, Task
      <3>4. CASE Refused(r)
        BY <3>4 DEF Refused, Finish, Idle, TypeOK
      <3>5. CASE Login(r) \/ RefreshToken(r) \/ RefreshTokenAsUser(r)
        <4>1. PICK a, kind : Checked(r, kind, a)
          BY <3>5 DEF Login, RefreshToken, RefreshTokenAsUser
        <4>2. task[r] = Idle /\ UNCHANGED <<logged, done, failed>>
          BY <4>1 DEF Checked
        <4>3. task' = [task EXCEPT ![r] = [Idle EXCEPT !.pc = "checked", !.kind = kind,
                                                       !.actor = a, !.at = now]]
          BY <4>1 DEF Checked
        <4> QED
          BY <4>2, <4>3 DEF Idle, TypeOK
      <3>6. CASE GenerateAdminTokens(r) /\ task[r].kind # "login"
        BY <3>6 DEF GenerateAdminTokens, Finish, Idle, TypeOK
      <3> QED
        BY <1>6, <3>1, <3>2, <3>3, <3>4, <3>5, <3>6
    <2>2. Due' = Due
      BY <2>1 DEF Due
    <2> QED
      BY <2>1, <2>2, LogQuiet
  <1> QED
    BY <1>1, <1>2, <1>3, <1>4, <1>5, <1>6, <1>7 DEF Next, vars

-----------------------------------------------------------------------------
(* Theorems *)

\* The inductive invariant holds in every reachable state of Admins.
THEOREM Invariance == Spec => []IInv
  BY IInit, INext, PTL DEF Spec

\* Variables keep their types.
THEOREM TypeCorrect == Spec => []TypeOK
  <1>1. IInv => TypeOK
    BY DEF IInv
  <1> QED
    BY <1>1, Invariance, PTL

\* Whoever has a role has its permissions and no others, whatever rows are written
\* back from old copies.
THEOREM PermissionsAlwaysFollowRole == Spec => []PermissionsFollowRole
  <1>1. IInv => PermissionsFollowRole
    BY DEF IInv
  <1> QED
    BY <1>1, Invariance, PTL

\* No pair of tokens rests on a look at an account that is later than its deactivation.
THEOREM AccessAlwaysEnds == Spec => []AccessEnds
  <1>1. IInv => AccessEnds
    BY DEF IInv
  <1> QED
    BY <1>1, Invariance, PTL

\* An account is as it was last asked to be, unless updates of it overlapped.
THEOREM LastWordAlwaysCounts == Spec => []LastWordCounts
  <1>1. IInv => LastWordCounts
    BY DEF IInv
  <1> QED
    BY <1>1, Invariance, PTL

\* The log and the operations differ only by the entries that were lost.
THEOREM LogAlwaysTellsTruth == Spec => []LogTellsTruth
  <1>1. IInv => TypeOK
    BY DEF IInv
  <1>2. Init => LogTellsTruth
    BY IInit
  <1> QED
    BY <1>1, <1>2, LogNext, Invariance, PTL DEF Spec

-----------------------------------------------------------------------------
(* The Console *)

\* A request about games writes no account.
LEMMA GamesStep ==
    ASSUME IInv, NEW r \in Reqs, BeginManageGames(r) \/ ReadGame(r) \/ WriteGame(r)
    PROVE  IInv'
  <1>1. CASE BeginManageGames(r)
    <2>1. task' = [task EXCEPT ![r] = [Idle EXCEPT !.pc = "admitted", !.kind = "games"]]
      BY <1>1 DEF BeginManageGames, Admit
    <2>2. UNCHANGED <<admins, now, issued, logged, done, asked, left, vouched, mixed, failed>>
      BY <1>1 DEF BeginManageGames, Admit
    <2> DEFINE t == [Idle EXCEPT !.pc = "admitted", !.kind = "games"]
    <2>3. t \in Task
      BY IdleFits DEF Task, Optional
    <2>4. Fits(t)
      BY DEF Idle, Fits, CarriesRow, CopyFresh, CarriesTokens
    <2>5. task' = [task EXCEPT ![r] = t]
      BY <2>1
    <2> HIDE DEF t
    <2> QED
      BY <2>2, <2>3, <2>4, <2>5, TaskStep DEF IInv, TypeOK
  <1>2. CASE ReadGame(r)
    <2> DEFINE t == [task[r] EXCEPT !.pc = "ready"]
    <2>1. task[r] \in Task /\ Fits(task[r]) /\ task[r].kind = "games"
      BY <1>2 DEF IInv, TypeOK, ReadGame
    <2>2. t \in Task /\ Fits(t)
      BY <2>1 DEF Task, Fits, CarriesRow, CopyFresh, CarriesTokens
    <2>3. task' = [task EXCEPT ![r] = t]
      BY <1>2 DEF ReadGame, IInv, TypeOK
    <2> HIDE DEF t
    <2> QED
      BY <1>2, <2>2, <2>3, TaskStep DEF ReadGame, IInv, TypeOK
  <1>3. CASE WriteGame(r)
    BY <1>3, CarriedTask, TaskStep DEF WriteGame, IInv, TypeOK
  <1> QED
    BY <1>1, <1>2, <1>3

LEMMA GamesLogStep ==
    ASSUME TypeOK, LogTellsTruth, NEW r \in Reqs,
           BeginManageGames(r) \/ ReadGame(r) \/ WriteGame(r)
    PROVE  LogTellsTruth'
  <1>1. CASE WriteGame(r)
    BY <1>1, IdleFits, LogCarriedStep DEF WriteGame, Due
  <1>2. CASE BeginManageGames(r) \/ ReadGame(r)
    <2>1. /\ task[r].pc # "log" /\ task'[r].pc # "log"
          /\ \A q \in Reqs \ {r} : task'[q] = task[q]
          /\ UNCHANGED <<logged, done, failed>>
      <3>1. CASE BeginManageGames(r)
        <4>1. task[r] = Idle /\ UNCHANGED <<logged, done, failed>>
          BY <3>1 DEF BeginManageGames, Admit
        <4>2. task' = [task EXCEPT ![r] = [Idle EXCEPT !.pc = "admitted", !.kind = "games"]]
          BY <3>1 DEF BeginManageGames, Admit
        <4> QED
          BY <4>1, <4>2 DEF Idle, TypeOK
      <3>2. CASE ReadGame(r)
        BY <3>2 DEF ReadGame, TypeOK, Task
      <3> QED
        BY <1>2, <3>1, <3>2
    <2>2. Due' = Due
      BY <2>1 DEF Due
    <2> QED
      BY <2>1, <2>2, LogQuiet
  <1> QED
    BY <1>1, <1>2

\* Every other step of the Console is one of Admins.
LEMMA ConsoleStep ==
    [ConsoleNext]_consoleVars =>
        \/ [Next]_vars
        \/ \E r \in Reqs : BeginManageGames(r) \/ ReadGame(r) \/ WriteGame(r)
  BY DEF ConsoleNext, AccountStep, GameRefused, consoleVars, vars, Next

\* ... and of Console, whose requests about games are tasks like the others.
THEOREM ConsoleInvariance == ConsoleSpec => [](IInv /\ LogTellsTruth)
  <1>1. ConsoleInit => IInv /\ LogTellsTruth
    BY IInit DEF ConsoleInit
  <1>2. IInv /\ LogTellsTruth /\ [ConsoleNext]_consoleVars => (IInv /\ LogTellsTruth)'
    <2>1. IInv => TypeOK
      BY DEF IInv
    <2> QED
      BY <2>1, ConsoleStep, INext, LogNext, GamesStep, GamesLogStep
  <1> QED
    BY <1>1, <1>2, PTL DEF ConsoleSpec

\* The four properties hold of administrators who manage games as well.
THEOREM ConsoleAccountable ==
    ConsoleSpec => [](PermissionsFollowRole /\ AccessEnds /\ LastWordCounts /\ LogTellsTruth)
  <1>1. IInv => PermissionsFollowRole /\ AccessEnds /\ LastWordCounts
    BY DEF IInv
  <1> QED
    BY <1>1, ConsoleInvariance, PTL

\* Whatever the middleware and the log add, the games change as Games says.
THEOREM CatalogueImplemented == ConsoleSpec => Catalogue!Spec
  <1>1. ConsoleInit => Catalogue!Init
    BY DEF ConsoleInit
  <1>2. [ConsoleNext]_consoleVars => [Catalogue!Next]_Catalogue!vars
    BY DEF ConsoleNext, AccountStep, BeginManageGames, ReadGame, WriteGame, GameRefused,
           consoleVars, catalogueVars, Catalogue!Next, Catalogue!vars
  <1> QED
    BY <1>1, <1>2, PTL DEF ConsoleSpec, Catalogue!Spec

-----------------------------------------------------------------------------
(* The catalogue, whatever the two functions make of a name.  The          *)
(* handler's own check guards nothing: its lookup may fail unnoticed, and  *)
(* the table may have changed when the row is written.  The argument is    *)
(* the one of the UNIQUE index, and needs only what a request may carry    *)
(* (FormsOK).                                                              *)

\* A request at work carries a row, and an update one of the stored games.
FormsOK ==
    \A r \in Reqs :
        /\ form[r].kind # "none" => form[r].copy \in Catalogue!Game
        /\ form[r].kind = "update" => form[r].id \in GameIds

CatalogueInv == Catalogue!TypeOK /\ FormsOK /\ Catalogue!SlugLeadsToOne

-----------------------------------------------------------------------------

LEMMA CatalogueInit == Catalogue!Init => CatalogueInv
  <1> SUFFICES ASSUME Catalogue!Init PROVE CatalogueInv
    OBVIOUS
  <1>1. Catalogue!TypeOK
    BY DEF Catalogue!Init, Catalogue!TypeOK, Catalogue!Idle
  <1>2. FormsOK
    BY DEF Catalogue!Init, FormsOK, Catalogue!Idle
  <1>3. Catalogue!SlugLeadsToOne
    BY DEF Catalogue!Init, Catalogue!SlugLeadsToOne, Catalogue!FindBySlug, Catalogue!Stored
  <1> QED
    BY <1>1, <1>2, <1>3 DEF CatalogueInv

\* The row an update writes has a slug, possibly the empty one.
LEMMA CompletedGame ==
    ASSUME NEW game \in Catalogue!Game
    PROVE  Catalogue!Completed(game) \in Catalogue!Game
  BY SlugAssumption DEF Catalogue!Completed, Catalogue!Game

\* A request that ends leaves the others as they were.
LEMMA FormFinished ==
    ASSUME Catalogue!TypeOK, FormsOK, NEW r \in Reqs, Catalogue!Finish(r)
    PROVE  /\ FormsOK'
           /\ form' \in [Reqs -> [kind : {"none", "create", "update"},
                                 id : GameIds \cup {None}, copy : Catalogue!Game \cup {None}]]
  <1>1. form' = [form EXCEPT ![r] = Catalogue!Idle]
    BY DEF Catalogue!Finish
  <1> QED
    BY <1>1 DEF Catalogue!TypeOK, FormsOK, Catalogue!Idle

\* A row that clashes with no other one may be written.
LEMMA GameWritten ==
    ASSUME CatalogueInv, NEW r \in Reqs, NEW id \in GameIds, NEW game \in Catalogue!Game,
           \A g \in Catalogue!Stored \ {id} : games[g].slug # game.slug,
           games' = [games EXCEPT ![id] = game], Catalogue!Finish(r)
    PROVE  CatalogueInv'
  <1>1. FormsOK' /\ Catalogue!TypeOK'
    BY FormFinished DEF CatalogueInv, Catalogue!TypeOK
  <1>2. Catalogue!SlugLeadsToOne'
    <2> SUFFICES ASSUME NEW slug \in Slugs \cup {Empty},
                        NEW g \in Catalogue!FindBySlug(slug)', NEW h \in Catalogue!FindBySlug(slug)'
                 PROVE  g = h
      BY DEF Catalogue!SlugLeadsToOne
    <2>1. /\ g \in GameIds /\ games'[g] # None /\ games'[g].slug = slug
          /\ h \in GameIds /\ games'[h] # None /\ games'[h].slug = slug
      BY DEF Catalogue!FindBySlug, Catalogue!Stored
    <2>2. \A k \in GameIds : games'[k] = IF k = id THEN game ELSE games[k]
      BY DEF CatalogueInv, Catalogue!TypeOK
    <2>3. CASE g # id /\ h # id
      BY <2>1, <2>2, <2>3 DEF CatalogueInv, Catalogue!SlugLeadsToOne, Catalogue!FindBySlug,
                              Catalogue!Stored
    <2>4. CASE g = id /\ h # id
      BY <2>1, <2>2, <2>4 DEF Catalogue!Stored
    <2>5. CASE g # id /\ h = id
      BY <2>1, <2>2, <2>5 DEF Catalogue!Stored
    <2> QED
      BY <2>3, <2>4, <2>5
  <1> QED
    BY <1>1, <1>2 DEF CatalogueInv

LEMMA GameInserted ==
    ASSUME CatalogueInv, NEW r \in Reqs, Catalogue!Insert(r)
    PROVE  CatalogueInv'
  <1>1. PICK id \in GameIds \ Catalogue!Stored : games' = [games EXCEPT ![id] = form[r].copy]
    BY DEF Catalogue!Insert
  <1>2. form[r].copy \in Catalogue!Game
    BY DEF Catalogue!Insert, CatalogueInv, FormsOK
  <1>3. \A g \in Catalogue!Stored \ {id} : games[g].slug # form[r].copy.slug
    BY DEF Catalogue!Insert, Catalogue!Clash, Catalogue!Stored
  <1> QED
    BY <1>1, <1>2, <1>3, GameWritten DEF Catalogue!Insert

LEMMA GameUpdated ==
    ASSUME CatalogueInv, NEW r \in Reqs, Catalogue!Update(r)
    PROVE  CatalogueInv'
  <1> DEFINE game == Catalogue!Completed(form[r].copy)
  <1>1. form[r].id \in GameIds /\ form[r].copy \in Catalogue!Game
    BY DEF Catalogue!Update, CatalogueInv, FormsOK
  <1>2. game \in Catalogue!Game
    BY <1>1, CompletedGame
  <1>3. \A g \in Catalogue!Stored \ {form[r].id} : games[g].slug # game.slug
    BY DEF Catalogue!Update, Catalogue!Clash
  <1>4. games' = [games EXCEPT ![form[r].id] = game] /\ Catalogue!Finish(r)
    BY DEF Catalogue!Update
  <1> HIDE DEF game
  <1> QED
    BY <1>1, <1>2, <1>3, <1>4, GameWritten

\* A request that begins writes nothing yet.
LEMMA FormRead ==
    ASSUME CatalogueInv, NEW r \in Reqs,
           Catalogue!CreateGame(r) \/ Catalogue!UpdateGame(r) \/ Catalogue!DeleteGame(r)
    PROVE  CatalogueInv'
  <1>1. games' = games
    BY DEF Catalogue!CreateGame, Catalogue!UpdateGame, Catalogue!DeleteGame
  <1>2. PICK q \in [kind : {"create", "update"}, id : GameIds \cup {None}, copy : Catalogue!Game] :
           /\ q.kind = "update" => q.id \in GameIds
           /\ form' = [form EXCEPT ![r] = q]
    <2>1. CASE Catalogue!CreateGame(r)
      BY <2>1, SlugAssumption DEF Catalogue!CreateGame, Catalogue!Game
    <2>2. CASE Catalogue!UpdateGame(r)
      BY <2>2 DEF Catalogue!UpdateGame, Catalogue!Game, Catalogue!Stored
    <2>3. CASE Catalogue!DeleteGame(r)
      <3>1. PICK g \in Catalogue!Stored :
               form' = [form EXCEPT ![r] =
                         [kind |-> "update", id |-> g,
                          copy |-> [games[g] EXCEPT !.active = FALSE]]]
        BY <2>3 DEF Catalogue!DeleteGame
      <3>2. g \in GameIds /\ games[g] \in Catalogue!Game
        BY DEF Catalogue!Stored, CatalogueInv, Catalogue!TypeOK
      <3>3. [games[g] EXCEPT !.active = FALSE] \in Catalogue!Game
        BY <3>2 DEF Catalogue!Game
      <3> QED
        BY <3>1, <3>2, <3>3
    <2> QED
      BY <2>1, <2>2, <2>3
  <1>3. Catalogue!TypeOK' /\ FormsOK'
    BY <1>1, <1>2 DEF CatalogueInv, Catalogue!TypeOK, FormsOK
  <1>4. Catalogue!SlugLeadsToOne'
    BY <1>1 DEF CatalogueInv, Catalogue!SlugLeadsToOne, Catalogue!FindBySlug, Catalogue!Stored
  <1> QED
    BY <1>3, <1>4 DEF CatalogueInv

LEMMA FormRefused ==
    ASSUME CatalogueInv, NEW r \in Reqs, Catalogue!Refused(r)
    PROVE  CatalogueInv'
  <1>1. Catalogue!TypeOK' /\ FormsOK'
    BY FormFinished DEF Catalogue!Refused, CatalogueInv, Catalogue!TypeOK
  <1>2. Catalogue!SlugLeadsToOne'
    BY DEF Catalogue!Refused, CatalogueInv, Catalogue!SlugLeadsToOne, Catalogue!FindBySlug,
           Catalogue!Stored
  <1> QED
    BY <1>1, <1>2 DEF CatalogueInv

-----------------------------------------------------------------------------

LEMMA CatalogueNext == CatalogueInv /\ [Catalogue!Next]_Catalogue!vars => CatalogueInv'
  <1> SUFFICES ASSUME CatalogueInv, [Catalogue!Next]_Catalogue!vars PROVE CatalogueInv'
    OBVIOUS
  <1>1. CASE Catalogue!Next
    BY <1>1, GameInserted, GameUpdated, FormRead, FormRefused DEF Catalogue!Next
  <1>2. CASE UNCHANGED Catalogue!vars
    BY <1>2 DEF Catalogue!vars, CatalogueInv, Catalogue!TypeOK, FormsOK,
                Catalogue!SlugLeadsToOne, Catalogue!FindBySlug, Catalogue!Stored
  <1> QED
    BY <1>1, <1>2

\* The invariant of the catalogue holds in every reachable state of Games.
THEOREM CatalogueInvariance == Catalogue!Spec => []CatalogueInv
  BY CatalogueInit, CatalogueNext, PTL DEF Catalogue!Spec

\* Requests carry and the table holds only games of the right shape.
THEOREM GamesTypeCorrect == ConsoleSpec => []Catalogue!TypeOK
  <1>1. CatalogueInv => Catalogue!TypeOK
    BY DEF CatalogueInv
  <1> QED
    BY <1>1, CatalogueImplemented, CatalogueInvariance, PTL

\* However administrators overlap and whatever slugs are derived from names, the
\* empty one included, a public path leads to at most one game.
THEOREM SlugAlwaysUnique == ConsoleSpec => []SlugLeadsToOne
  <1>1. CatalogueInv => SlugLeadsToOne
    BY DEF CatalogueInv, SlugLeadsToOne
  <1> QED
    BY <1>1, CatalogueImplemented, CatalogueInvariance, PTL
=============================================================================
