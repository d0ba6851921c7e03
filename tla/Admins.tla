--------------------------------- MODULE Admins ---------------------------------
(***************************************************************************)
(* The administrators' accounts, their tokens and their log                *)
(* (handler/admin_handler.go, middleware/auth.go, pkg/jwt,                 *)
(* repository/postgres/admin_repo.go and admin_log_repo.go).               *)
(*                                                                         *)
(* A pair of tokens is valid for a fixed time after it was made and is     *)
(* stored nowhere, so all that takes access away is the flag is_active,    *)
(* which every request reads from the row.  An administrator renews the    *)
(* newest pair received, which outlives the older ones: `issued` keeps     *)
(* when that one was made.  A sign-in or a renewal looks at the flag       *)
(* first and makes the pair later, after the password has been checked.    *)
(*                                                                         *)
(* A super administrator creates accounts and updates them.  The role is   *)
(* looked at in the row the middleware read; the row to be updated is read *)
(* later, changed, and written back with all its columns.  Every change is *)
(* logged by one more INSERT whose failure is ignored.                     *)
(*                                                                         *)
(* Names, passwords and the time of the last login decide nothing and are  *)
(* left out.  The column permissions is shown as the role whose list it    *)
(* holds.                                                                  *)
(***************************************************************************)
EXTENDS Naturals, FiniteSets

CONSTANTS
    Reqs,         \* requests of administrators that may be in progress
    Ids,          \* identifiers of accounts
    Emails,       \* their addresses
    AccessLife,   \* how long an access token is valid
    RefreshLife,  \* how long a refresh token is valid
    MaxTime,      \* bound on the time
    MaxDone,      \* bound on the operations that are logged
    None

ASSUME BoundAssumption ==
    AccessLife \in Nat /\ RefreshLife \in Nat /\ MaxTime \in Nat /\ MaxDone \in Nat
ASSUME ReqsAssumption == IsFiniteSet(Reqs)

VARIABLES
    admins,  \* the table admins
    now,     \* the time
    issued,  \* when the newest tokens of each administrator were made
    task,    \* the requests
    logged,  \* the entries of admin_logs
    done,    \* history: the operations carried out
    asked,   \* history: what was last asked for each account
    left,    \* history: when each account was last deactivated
    vouched, \* history: when the flag was last read for a pair made when it was off
    mixed,   \* history: the accounts that overlapping updates wrote
    failed   \* history: an entry was never written

vars == <<admins, now, issued, task, logged, done, asked, left, vouched, mixed, failed>>

Roles == {"superadmin", "moderator", "support"}

RolePermissions ==
    [superadmin |-> {"manage_users", "manage_posts", "manage_admins", "view_kyc",
                     "approve_kyc", "view_logs", "view_stats", "manage_games",
                     "manage_subscriptions", "manage_reports"},
     moderator |-> {"manage_users", "manage_posts", "view_kyc", "approve_kyc",
                    "view_logs", "view_stats", "manage_reports"},
     support |-> {"view_kyc", "view_stats"}]

Admin == [email : Emails, role : Roles, permissions : Roles, active : BOOLEAN]

HasPermission(admin, permission) ==
    admin.role = "superadmin" \/ permission \in RolePermissions[admin.permissions]

IsSuperAdmin(admin) == admin.role = "superadmin"

Asked == [role : Roles, active : BOOLEAN]

\* A part of a form that may be missing.
Optional(S) == S \cup {None}

Form == [role : Optional(Roles), active : Optional(BOOLEAN)]

ASSUME NoneAssumption ==
    None \notin Ids \cup Nat \cup Roles \cup BOOLEAN \cup Admin \cup Asked \cup Form

Idle == [pc |-> "idle", kind |-> "none", actor |-> None, id |-> None, row |-> None,
         asks |-> None, at |-> 0]

Task == [pc : {"idle", "checked", "admitted", "ready", "log"},
         kind : {"none", "login", "refresh", "create", "update", "games"},
         actor : Optional(Ids), id : Optional(Ids), row : Optional(Admin),
         asks : Optional(Form),
         at : 0 .. MaxTime]

TypeOK ==
    /\ admins \in [Ids -> Optional(Admin)]
    /\ now \in 0 .. MaxTime
    /\ issued \in [Ids -> Optional(0 .. MaxTime)]
    /\ task \in [Reqs -> Task]
    /\ logged \in Nat /\ done \in Nat
    /\ asked \in [Ids -> Optional(Asked)]
    /\ left \in [Ids -> Optional(0 .. MaxTime)]
    /\ vouched \in [Ids -> Optional(0 .. MaxTime)]
    /\ mixed \subseteq Ids
    /\ failed \in BOOLEAN

Stored == {a \in Ids : admins[a] # None}

FindByEmail(email) == {a \in Stored : admins[a].email = email}

Seeded(email) == [email |-> email, role |-> "superadmin", permissions |-> "superadmin",
                  active |-> TRUE]

\* The seed has inserted the first super administrator.
Init ==
    /\ \E a \in Ids, email \in Emails :
          /\ admins = [i \in Ids |-> IF i = a THEN Seeded(email) ELSE None]
          /\ asked = [i \in Ids |-> IF i = a THEN [role |-> "superadmin", active |-> TRUE]
                                    ELSE None]
    /\ now = 0
    /\ issued = [a \in Ids |-> None]
    /\ task = [r \in Reqs |-> Idle]
    /\ logged = 0 /\ done = 0
    /\ left = [a \in Ids |-> None]
    /\ vouched = [a \in Ids |-> None]
    /\ mixed = {}
    /\ failed = FALSE

-----------------------------------------------------------------------------
(* Tokens *)

\* A token is valid until its lifetime is over.
Valid(a, life) == issued[a] # None /\ now < issued[a] + life

Active(a) == admins[a] # None /\ admins[a].active

\* The later of two moments, the first of which may not have come.
Later(old, at) == IF old = None \/ old < at THEN at ELSE old

\* Tokens made at some time reach the administrator.
Receive(a, at) == issued' = [issued EXCEPT ![a] = Later(@, at)]

\* Bound on the operations.
Room == done < MaxDone

\* The operation is carried out; its entry in the log is the next statement.
Carried(r, next) ==
    /\ Room
    /\ done' = done + 1
    /\ task' = [task EXCEPT ![r] = [next EXCEPT !.pc = "log"]]

Finish(r) == task' = [task EXCEPT ![r] = Idle]

\* The flag has been read; the password and the tokens come next.
Checked(r, kind, a) ==
    /\ task[r] = Idle
    /\ task' = [task EXCEPT ![r] = [Idle EXCEPT !.pc = "checked", !.kind = kind,
                                                !.actor = a, !.at = now]]
    /\ UNCHANGED <<admins, now, issued, logged, done, asked, left, vouched, mixed, failed>>

\* The row is found by its address.
Login(r) == \E a \in Ids : Active(a) /\ Checked(r, "login", a)

\* Mutant: the row is not looked at again.
RefreshTokenBlindly(r) ==
    \E a \in Stored : Valid(a, RefreshLife) /\ Checked(r, "refresh", a)

\* The old pair stays valid.
RefreshToken(r) ==
    \E a \in Ids : Valid(a, RefreshLife) /\ Active(a) /\ Checked(r, "refresh", a)

\* The users' route renews the tokens of administrators too.
RefreshTokenAsUser(r) == RefreshToken(r)

\* The row is not read again.  The log knows of a login, whose answer is still to
\* come, and nothing of a renewal.
GenerateAdminTokens(r) ==
    LET a == task[r].actor IN
    /\ task[r].pc = "checked"
    /\ vouched' = [vouched EXCEPT ![a] = IF Active(a) THEN @ ELSE Later(@, task[r].at)]
    /\ IF task[r].kind = "login"
       THEN Carried(r, [task[r] EXCEPT !.at = now]) /\ UNCHANGED issued
       ELSE Receive(a, now) /\ Finish(r) /\ UNCHANGED done
    /\ UNCHANGED <<admins, now, logged, asked, left, mixed, failed>>

\* The middleware: a valid access token of an account that is active.
AuthenticateAdmin(a) == Valid(a, AccessLife) /\ Active(a)

\* The handler's own test is made on the row the middleware read.
Admit(r, kind, allowed) ==
    /\ task[r] = Idle
    /\ \E a \in allowed : AuthenticateAdmin(a)
    /\ task' = [task EXCEPT ![r] = [Idle EXCEPT !.pc = "admitted", !.kind = kind]]
    /\ UNCHANGED <<admins, now, issued, logged, done, asked, left, vouched, mixed, failed>>

\* Nothing but the log remembers a logout.
Logout(r) ==
    /\ task[r] = Idle
    /\ \E a \in Ids : AuthenticateAdmin(a)
    /\ Carried(r, Idle)
    /\ UNCHANGED <<admins, now, issued, logged, asked, left, vouched, mixed, failed>>

-----------------------------------------------------------------------------
(* Accounts *)

SuperAdmins == {a \in Stored : IsSuperAdmin(admins[a])}

BeginCreateAdmin(r) == Admit(r, "create", SuperAdmins)

\* An address found taken is refused, but the lookup may fail, which the handler
\* ignores: any address may pass.
CheckEmail(r) ==
    /\ task[r].pc = "admitted" /\ task[r].kind = "create"
    /\ \E email \in Emails, role \in Roles :
          task' = [task EXCEPT ![r].pc = "ready",
                     ![r].row = [email |-> email, role |-> role,
                                 permissions |-> role, active |-> TRUE]]
    /\ UNCHANGED <<admins, now, issued, logged, done, asked, left, vouched, mixed, failed>>

\* The table refuses a second row with the address.
Create(r) ==
    LET row == task[r].row IN
    /\ task[r].pc = "ready" /\ task[r].kind = "create"
    /\ FindByEmail(row.email) = {}
    /\ \E a \in Ids \ Stored :
          /\ admins' = [admins EXCEPT ![a] = row]
          /\ asked' = [asked EXCEPT ![a] = [role |-> row.role, active |-> row.active]]
    /\ Carried(r, Idle)
    /\ UNCHANGED <<now, issued, logged, left, vouched, mixed, failed>>

BeginUpdateAdmin(r) == Admit(r, "update", SuperAdmins)

\* Mutant: a new role keeps the permissions of the old one.
ChangedRoleOnly(row, asks) ==
    [row EXCEPT !.role = IF asks.role = None THEN @ ELSE asks.role,
                !.active = IF asks.active = None THEN @ ELSE asks.active]

\* What the form leaves out stays as it was read.
Changed(row, asks) ==
    [row EXCEPT !.role = IF asks.role = None THEN @ ELSE asks.role,
                !.permissions = IF asks.role = None THEN @ ELSE asks.role,
                !.active = IF asks.active = None THEN @ ELSE asks.active]

FindByID(r) ==
    /\ task[r].pc = "admitted" /\ task[r].kind = "update"
    /\ \E a \in Stored, role \in Optional(Roles), active \in Optional(BOOLEAN) :
          LET asks == [role |-> role, active |-> active] IN
          task' = [task EXCEPT ![r].pc = "ready", ![r].id = a, ![r].asks = asks,
                               ![r].row = Changed(admins[a], asks)]
    /\ UNCHANGED <<admins, now, issued, logged, done, asked, left, vouched, mixed, failed>>

\* Mutant: is_active is missing from the columns.
WrittenWithoutActive(old, row) == [row EXCEPT !.active = old.active]

\* Every column but those of the last login.
Written(old, row) == row

AskedBy(old, asks) ==
    [role   |-> IF asks.role = None THEN old.role ELSE asks.role,
     active |-> IF asks.active = None THEN old.active ELSE asks.active]

\* Others are about to write the account back as it was.
Overlapped(r, a) ==
    \E q \in Reqs \ {r} : task[q].pc = "ready" /\ task[q].id = a

Update(r) ==
    LET a == task[r].id
        row == Written(admins[a], task[r].row) IN
    /\ task[r].pc = "ready" /\ task[r].kind = "update"
    /\ admins' = [admins EXCEPT ![a] = row]
    /\ asked' = [asked EXCEPT ![a] = AskedBy(@, task[r].asks)]
    /\ left' = [left EXCEPT ![a] = IF row.active THEN None
                                   ELSE IF admins[a].active THEN now ELSE @]
    /\ mixed' = IF Overlapped(r, a) THEN mixed \cup {a} ELSE mixed
    /\ Carried(r, Idle)
    /\ UNCHANGED <<now, issued, logged, vouched, failed>>

-----------------------------------------------------------------------------
(* The end of a request *)

\* The answer to a login carries the tokens.
Answer(r) ==
    /\ Finish(r)
    /\ IF task[r].kind = "login" THEN Receive(task[r].actor, task[r].at)
       ELSE UNCHANGED issued

LogAdminAction(r) ==
    /\ task[r].pc = "log"
    /\ logged' = logged + 1
    /\ Answer(r)
    /\ UNCHANGED <<admins, now, done, asked, left, vouched, mixed, failed>>

\* The INSERT fails, which the answer does not tell.
LogAdminActionFails(r) ==
    /\ task[r].pc = "log"
    /\ failed' = TRUE
    /\ Answer(r)
    /\ UNCHANGED <<admins, now, logged, done, asked, left, vouched, mixed>>

\* Mutant: after the error the handler goes on instead of returning.
RefusedGoesOn(r) ==
    /\ task[r].pc \in {"admitted", "ready"}
    /\ task' = [task EXCEPT ![r].pc = "log", ![r].row = None]
    /\ UNCHANGED <<admins, now, issued, logged, done, asked, left, vouched, mixed, failed>>

\* The password, the form or the table refuses the operation, a statement fails, or
\* the request is cut.
Refused(r) ==
    /\ task[r].pc \in {"checked", "admitted", "ready"}
    /\ Finish(r)
    /\ UNCHANGED <<admins, now, issued, logged, done, asked, left, vouched, mixed, failed>>

\* The program stops: the operation is done, but neither the log nor the
\* administrator learns of it.
CutBeforeLog(r) ==
    /\ task[r].pc = "log"
    /\ failed' = TRUE
    /\ Finish(r)
    /\ UNCHANGED <<admins, now, issued, logged, done, asked, left, vouched, mixed>>

Tick ==
    /\ now < MaxTime
    /\ now' = now + 1
    /\ UNCHANGED <<admins, issued, task, logged, done, asked, left, vouched, mixed, failed>>

Next ==
    \/ \E r \in Reqs :
          \/ Login(r) \/ RefreshToken(r) \/ RefreshTokenAsUser(r)
          \/ GenerateAdminTokens(r) \/ Logout(r)
          \/ BeginCreateAdmin(r) \/ CheckEmail(r) \/ Create(r)
          \/ BeginUpdateAdmin(r) \/ FindByID(r) \/ Update(r)
          \/ LogAdminAction(r) \/ LogAdminActionFails(r) \/ CutBeforeLog(r)
          \/ Refused(r)
    \/ Tick

Spec == Init /\ [][Next]_vars

-----------------------------------------------------------------------------
(* Properties *)

\* Whoever has a role has the permissions of that role and no others, although
\* rows are written back from copies that others may have overtaken.
PermissionsFollowRole == \A a \in Stored : admins[a].permissions = admins[a].role

\* Deactivation ends access, with nothing stored about tokens: a pair that is made
\* after it rests on a look at the row from before it.  So only a sign-in or a renewal
\* that was in progress can make one, and an account reactivated a refresh lifetime
\* after the last of them has to sign in again.
AccessEnds ==
    \A a \in Ids : left[a] # None /\ vouched[a] # None => vouched[a] <= left[a]

\* An account is as it was last asked to be: an update that leaves the role or
\* the activity out does not bring back an earlier one, unless it overlapped
\* with another update of the account.
LastWordCounts ==
    \A a \in Stored \ mixed :
        /\ admins[a].role = asked[a].role
        /\ admins[a].active = asked[a].active

\* The log holds an entry for every operation carried out and for no other,
\* except where the entry itself was lost.
LogTellsTruth ==
    LET due == Cardinality({r \in Reqs : task[r].pc = "log"}) IN
    /\ logged + due <= done
    /\ ~failed => logged + due = done
=============================================================================
