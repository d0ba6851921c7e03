-------------------------------- MODULE Identity --------------------------------
(***************************************************************************)
(* From an identity to an account: signing in with Google or Apple,        *)
(* registering and logging in with a password (service/auth_service.go     *)
(* over repository/postgres/user_repo.go).                                 *)
(*                                                                         *)
(* An account is looked for by the provider's identifier, then by the      *)
(* address, and created when neither finds one.  A lookup that fails       *)
(* counts as one that found nothing.  No transaction spans the queries,    *)
(* and linking a provider, noting the last login, editing the profile and  *)
(* moderating all write the whole row back from a copy.                    *)
(***************************************************************************)
EXTENDS Providers

CONSTANTS
    Reqs,  \* requests that may be in progress
    Ids    \* identifiers of accounts, each used once

VARIABLES
    users,   \* the table users, Null where there is no row
    gone,    \* the accounts that were deleted
    req,     \* the requests
    entered  \* history: the accounts each identity was given tokens for

vars == <<users, gone, req, entered>>

Idle == [pc |-> "idle", who |-> Null, id |-> Null, copy |-> Null]

TypeOK ==
    /\ users \in [Ids -> Account \cup {Null}]
    /\ gone \subseteq Ids
    /\ req \in [Reqs -> [pc : {"idle", "key", "email", "password", "check", "create",
                               "link", "login", "tokens", "edit"},
                         who : Identities \cup {Null}, id : Ids \cup {Null},
                         copy : Account \cup {Null}]]
    /\ entered \in [Identities -> SUBSET Ids]

Init ==
    /\ users = [a \in Ids |-> Null]
    /\ gone = {}
    /\ req = [r \in Reqs |-> Idle]
    /\ entered = [i \in Identities |-> {}]

-----------------------------------------------------------------------------
(* The table *)

Stored == {a \in Ids : users[a] # Null}

FindByKey(i) == {a \in Stored : users[a].keys[Provider[i]] = i}

FindByEmail(email) == {a \in Stored : users[a].email = email}

\* The address and both provider columns are unique.
Unique(row, others) ==
    \A b \in others :
        /\ users[b].email # row.email
        /\ \A k \in {"google", "apple"} :
              row.keys[k] # Null => users[b].keys[k] # row.keys[k]

\* UPDATE ... WHERE id = $1, from the request's copy.
Update(a, row) ==
    /\ a \in Stored
    /\ Unique(row, Stored \ {a})
    /\ users' = [users EXCEPT ![a] = row]

WithKey(row, i) == [row EXCEPT !.keys = [@ EXCEPT ![Provider[i]] = i]]

NewAccount(i) ==
    [email |-> EmailOf[i], blocked |-> FALSE,
     keys |-> [k \in Keys |-> IF k = Provider[i] THEN i ELSE Null]]

-----------------------------------------------------------------------------
(* Requests *)

Goto(r, pc) == req' = [req EXCEPT ![r].pc = pc]

\* The row that was found goes along with the request.
GotoWith(r, pc, a, row) ==
    req' = [req EXCEPT ![r].pc = pc, ![r].id = a, ![r].copy = row]

Finish(r) == req' = [req EXCEPT ![r] = Idle]

Begin(r, i, pc) ==
    /\ req[r].pc = "idle"
    /\ req' = [req EXCEPT ![r] = [Idle EXCEPT !.pc = pc, !.who = i]]
    /\ UNCHANGED <<users, gone, entered>>

\* The provider vouches for the identity.
GoogleAuth(r, i) == Provider[i] = "google" /\ Begin(r, i, "key")

AppleAuth(r, i) == Provider[i] = "apple" /\ Begin(r, i, "key")

Register(r, i) == Provider[i] = "password" /\ Begin(r, i, "check")

Login(r, i) == Provider[i] = "password" /\ Begin(r, i, "password")

\* Mutant: an empty address is looked for as well.
FindByProviderIDThenAnyEmail(r) ==
    LET i == req[r].who IN
    /\ req[r].pc = "key"
    /\ \/ \E a \in FindByKey(i) : ~users[a].blocked /\ GotoWith(r, "login", a, users[a])
       \/ Goto(r, "email")
    /\ UNCHANGED <<users, gone, entered>>

\* Step 1.  A blocked account ends the request (RequestFails).
FindByProviderID(r) ==
    LET i == req[r].who IN
    /\ req[r].pc = "key"
    /\ \/ \E a \in FindByKey(i) : ~users[a].blocked /\ GotoWith(r, "login", a, users[a])
       \/ Goto(r, IF EmailOf[i] = NoEmail THEN "create" ELSE "email")
    /\ UNCHANGED <<users, gone, entered>>

\* Step 2.
FindByAddress(r) ==
    LET i == req[r].who IN
    /\ req[r].pc = "email"
    /\ \/ \E a \in FindByEmail(EmailOf[i]) :
             ~users[a].blocked /\ GotoWith(r, "link", a, WithKey(users[a], i))
       \/ Goto(r, "create")
    /\ UNCHANGED <<users, gone, entered>>

\* One query, and the password is right.
FindByPassword(r) ==
    LET i == req[r].who IN
    /\ req[r].pc = "password"
    /\ \E a \in FindByEmail(EmailOf[i]) \cap FindByKey(i) :
          ~users[a].blocked /\ GotoWith(r, "login", a, users[a])
    /\ UNCHANGED <<users, gone, entered>>

\* An address that is taken ends a registration (RequestFails).
CheckAddress(r) ==
    /\ req[r].pc = "check"
    /\ Goto(r, "create")
    /\ UNCHANGED <<users, gone, entered>>

LinkProvider(r) ==
    /\ req[r].pc = "link"
    /\ Update(req[r].id, req[r].copy)
    /\ Goto(r, "login")
    /\ UNCHANGED <<gone, entered>>

\* Mutant: a conflict with a row that exists is taken for success.
CreateAnyway(r) ==
    LET i == req[r].who IN
    /\ req[r].pc = "create"
    /\ \E a \in Ids \ (Stored \cup gone) :
          /\ users' = [users EXCEPT ![a] = NewAccount(i)]
          /\ GotoWith(r, IF Provider[i] = "password" THEN "tokens" ELSE "login", a,
                      NewAccount(i))
    /\ UNCHANGED <<gone, entered>>

\* Step 3, and the end of a registration, which notes no login.
Create(r) ==
    LET i == req[r].who IN
    /\ req[r].pc = "create"
    /\ Unique(NewAccount(i), Stored)
    /\ \E a \in Ids \ (Stored \cup gone) :
          /\ users' = [users EXCEPT ![a] = NewAccount(i)]
          /\ GotoWith(r, IF Provider[i] = "password" THEN "tokens" ELSE "login", a,
                      NewAccount(i))
    /\ UNCHANGED <<gone, entered>>

\* The last login is noted, or not: an error is only written to the log.
UpdateLastLogin(r) ==
    /\ req[r].pc = "login"
    /\ Update(req[r].id, req[r].copy) \/ UNCHANGED users
    /\ Goto(r, "tokens")
    /\ UNCHANGED <<gone, entered>>

\* The tokens name the account, whether it is still there or not.
GenerateUserTokens(r) ==
    /\ req[r].pc = "tokens"
    /\ entered' = [entered EXCEPT ![req[r].who] = @ \cup {req[r].id}]
    /\ Finish(r)
    /\ UNCHANGED <<users, gone>>

\* The request is refused or cut, or a statement fails that is not a lookup.
RequestFails(r) ==
    /\ req[r].pc # "idle"
    /\ Finish(r)
    /\ UNCHANGED <<users, gone, entered>>

-----------------------------------------------------------------------------
(* Everybody else who writes the row *)

\* The profile is edited, or an administrator changes the status.
ReadUser(r) ==
    /\ req[r].pc = "idle"
    /\ \E a \in Stored, blocked \in BOOLEAN :
          GotoWith(r, "edit", a, [users[a] EXCEPT !.blocked = blocked])
    /\ UNCHANGED <<users, gone, entered>>

UpdateUser(r) ==
    /\ req[r].pc = "edit"
    /\ Update(req[r].id, req[r].copy)
    /\ Finish(r)
    /\ UNCHANGED <<gone, entered>>

DeleteAccount(a) ==
    /\ a \in Stored
    /\ users' = [users EXCEPT ![a] = Null]
    /\ gone' = gone \cup {a}
    /\ UNCHANGED <<req, entered>>

-----------------------------------------------------------------------------

Continue(r) ==
    \/ FindByProviderID(r) \/ FindByAddress(r) \/ FindByPassword(r) \/ CheckAddress(r)
    \/ LinkProvider(r) \/ Create(r)
    \/ UpdateLastLogin(r) \/ GenerateUserTokens(r) \/ RequestFails(r)
    \/ UpdateUser(r)

SignInRequest(r) ==
    \E i \in Identities :
        GoogleAuth(r, i) \/ AppleAuth(r, i) \/ Register(r, i) \/ Login(r, i)

Next ==
    \/ \E r \in Reqs : SignInRequest(r) \/ Continue(r) \/ ReadUser(r)
    \/ \E a \in Ids : DeleteAccount(a)

Spec == Init /\ [][Next]_vars

-----------------------------------------------------------------------------
(* Properties *)

\* Two identities enter one account only if they have the same address, however
\* their first sign-ins overlap and whatever fails.  In particular two people
\* whose address Apple keeps to itself never share one.
NoStrangers ==
    \A i, j \in Identities :
        i # j /\ entered[i] \cap entered[j] # {} =>
            EmailOf[i] = EmailOf[j] /\ EmailOf[i] # NoEmail

\* The accounts signing in may lead to.
WaysIn(i) ==
    CASE Provider[i] = "password" -> FindByKey(i) \cap FindByEmail(EmailOf[i])
      [] EmailOf[i] = NoEmail     -> FindByKey(i)
      [] OTHER                    -> FindByKey(i) \cup FindByEmail(EmailOf[i])

\* Whoever has signed in finds the same account again, and no second one, until
\* it is deleted: neither a race of two first sign-ins nor a stale copy that is
\* written back leaves a person outside, or with two accounts.
OneHome ==
    \A i \in Identities : \A a \in entered[i] \cap Stored : WaysIn(i) = {a}
=============================================================================
