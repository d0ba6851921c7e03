----------------------------- MODULE IdentityProofs -----------------------------
(***************************************************************************)
(* NoStrangers and OneHome for every number of identities and requests.    *)
(*                                                                         *)
(* Every account has an owner: the identity it was created for.  No        *)
(* variable holds the owner, and a deleted row tells nothing any more, so  *)
(* the invariant says that owners can be chosen such that everything that  *)
(* is stored, copied or was handed out agrees with them (Consistent).      *)
(* The choice changes in Create alone.  An identity fits an owner when     *)
(* both have the same address, and is the owner itself when there is no    *)
(* address or the way in is a password; so the address, the password and   *)
(* the key of an account without address stay as they were created,        *)
(* whichever copies are written back in whichever order.                   *)
(*                                                                         *)
(* The uniqueness of provider keys is not needed; that of addresses is.    *)
(*                                                                         *)
(* Then the limiter of SignIn, for every limit and window: what passed     *)
(* less than a window ago is counted in the key, which lives long enough   *)
(* (RecentOK), and without failures the counter stands for the last        *)
(* requests, none of which paused (StreakOK).                              *)
(***************************************************************************)
EXTENDS SignIn, Integers, Sequences, FiniteSets, FiniteSetTheorems, TLAPS

Known == Stored \cup gone

Fits(i, o) ==
    /\ EmailOf[i] = EmailOf[o]
    /\ EmailOf[i] = NoEmail \/ Provider[i] = "password" => i = o

\* A row as it may be, once or still, for an account of the owner.
Held(row, o) ==
    /\ row \in Account
    /\ row.email = EmailOf[o]
    /\ row.keys["password"] = IF Provider[o] = "password" THEN o ELSE Null
    /\ EmailOf[o] = NoEmail => row.keys["apple"] = o
    /\ \A k \in Keys : row.keys[k] # Null => Provider[row.keys[k]] = k /\ Fits(row.keys[k], o)

\* What a request works for, and has in its hands.
ReqFits(t, owner) ==
    /\ t.pc \notin {"idle", "edit"} => t.who \in Identities
    /\ t.pc = "email" => EmailOf[t.who] # NoEmail
    /\ t.pc \in {"key", "email", "link"} => Provider[t.who] # "password"
    /\ t.pc \in {"link", "login", "edit"} => t.id \in Known /\ Held(t.copy, owner[t.id])
    /\ t.pc \in {"link", "login", "tokens"} => t.id \in Known /\ Fits(t.who, owner[t.id])

EnteredFits(owner) ==
    \A i \in Identities : \A a \in entered[i] : a \in Known /\ Fits(i, owner[a])

UniqueEmails == \A a, b \in Stored : users[a].email = users[b].email => a = b

\* Whoever is stored or was has an owner.
Owners(owner) ==
    /\ owner \in [Ids -> Identities \cup {Null}]
    /\ \A a \in Known : owner[a] \in Identities

Consistent(owner) ==
    /\ Owners(owner)
    /\ \A a \in Stored : Held(users[a], owner[a])
    /\ \A r \in Reqs : ReqFits(req[r], owner)
    /\ EnteredFits(owner)

Good(owner) == TypeOK /\ UniqueEmails /\ Consistent(owner)

IInv == \E owner : Good(owner)

Request == [pc : {"idle", "key", "email", "password", "check", "create",
                  "link", "login", "tokens", "edit"},
            who : Identities \cup {Null}, id : Ids \cup {Null},
            copy : Account \cup {Null}]

-----------------------------------------------------------------------------
(* The two properties follow *)

LEMMA StrangersKeptOut == IInv => NoStrangers
  <1> SUFFICES ASSUME IInv, NEW i \in Identities, NEW j \in Identities, i # j,
                      NEW a \in entered[i] \cap entered[j]
               PROVE  EmailOf[i] = EmailOf[j] /\ EmailOf[i] # NoEmail
    BY DEF NoStrangers
  <1>1. PICK owner : EnteredFits(owner)
    BY DEF IInv, Good, Consistent
  <1>2. Fits(i, owner[a]) /\ Fits(j, owner[a])
    BY <1>1 DEF EnteredFits
  <1> QED
    BY <1>2 DEF Fits

LEMMA EverybodyHasOneHome == IInv => OneHome
  <1> SUFFICES ASSUME IInv, NEW i \in Identities, NEW a \in entered[i] \cap Stored
               PROVE  WaysIn(i) = {a}
    BY DEF OneHome
  <1>1. PICK owner : Good(owner)
    BY DEF IInv
  <1>2. Fits(i, owner[a]) /\ Held(users[a], owner[a])
    BY <1>1 DEF Good, Consistent, EnteredFits
  <1>3. users[a].email = EmailOf[i] /\ a \in FindByEmail(EmailOf[i])
    BY <1>2 DEF Fits, Held, FindByEmail
  <1>4. ASSUME NEW b \in FindByEmail(EmailOf[i]) PROVE b = a
    BY <1>1, <1>3 DEF FindByEmail, Good, UniqueEmails
  <1>5. ASSUME NEW b \in FindByKey(i) PROVE b \in FindByEmail(EmailOf[i])
    <2>1. b \in Stored /\ users[b].keys[Provider[i]] = i /\ Held(users[b], owner[b])
      BY <1>1 DEF FindByKey, Good, Consistent
    <2>2. Provider[i] \in Keys /\ i # Null
      BY ProviderAssumption, NullAssumption
    <2>3. Fits(i, owner[b]) /\ users[b].email = EmailOf[owner[b]]
      BY <2>1, <2>2 DEF Held
    <2> QED
      BY <2>1, <2>3 DEF Fits, FindByEmail
  <1>6. EmailOf[i] = NoEmail \/ Provider[i] = "password" => a \in FindByKey(i)
    BY <1>2, ProviderAssumption DEF Fits, Held, FindByKey
  <1>7. CASE Provider[i] = "password"
    <2>1. WaysIn(i) = FindByKey(i) \cap FindByEmail(EmailOf[i])
      BY <1>7, ProviderAssumption DEF WaysIn
    <2> QED
      BY <1>3, <1>4, <1>6, <1>7, <2>1
  <1>8. CASE Provider[i] # "password" /\ EmailOf[i] = NoEmail
    BY <1>4, <1>5, <1>6, <1>8 DEF WaysIn
  <1>9. CASE Provider[i] # "password" /\ EmailOf[i] # NoEmail
    BY <1>3, <1>4, <1>5, <1>9 DEF WaysIn
  <1> QED
    BY <1>7, <1>8, <1>9

-----------------------------------------------------------------------------
(* Rows *)

LEMMA NewAccountHeld ==
    ASSUME NEW i \in Identities
    PROVE  NewAccount(i) \in Account /\ Held(NewAccount(i), i)
  <1>1. Provider[i] \in Keys /\ EmailOf[i] \in Emails \cup {NoEmail} /\ i # Null
    BY ProviderAssumption, NullAssumption
  <1> DEFINE keys == [k \in Keys |-> IF k = Provider[i] THEN i ELSE Null]
  <1>2. NewAccount(i) = [email |-> EmailOf[i], blocked |-> FALSE, keys |-> keys]
    BY DEF NewAccount
  <1>3. NewAccount(i) \in Account
    BY <1>1, <1>2 DEF Account
  <1>4. NewAccount(i).email = EmailOf[i] /\ NewAccount(i).keys = keys
    BY <1>2
  <1>5. "password" \in Keys /\ "apple" \in Keys
    BY DEF Keys
  <1>6. Fits(i, i)
    BY DEF Fits
  <1> QED
    BY <1>1, <1>3, <1>4, <1>5, <1>6, ProviderAssumption DEF Held

\* A provider is linked to an account with the same address.
LEMMA LinkedHeld ==
    ASSUME NEW i \in Identities, NEW o \in Identities, NEW row, Held(row, o),
           Provider[i] # "password", Fits(i, o)
    PROVE  WithKey(row, i) \in Account /\ Held(WithKey(row, i), o)
  <1>1. Provider[i] \in Keys /\ row.keys \in [Keys -> Identities \cup {Null}] /\ row \in Account
    BY ProviderAssumption DEF Held, Account
  <1> DEFINE keys == [row.keys EXCEPT ![Provider[i]] = i]
  <1>2. WithKey(row, i) = [row EXCEPT !.keys = keys]
    BY <1>1 DEF WithKey, Account
  <1>3. keys \in [Keys -> Identities \cup {Null}]
    BY <1>1
  <1>4. \A k \in Keys : keys[k] = IF k = Provider[i] THEN i ELSE row.keys[k]
    BY <1>1
  <1>5. "password" \in Keys /\ "apple" \in Keys
    BY DEF Keys
  <1> HIDE DEF keys
  <1>6. /\ WithKey(row, i) \in Account
        /\ WithKey(row, i).email = row.email
        /\ WithKey(row, i).keys = keys
    BY <1>1, <1>2, <1>3 DEF Account
  <1>7. keys["password"] = row.keys["password"]
    BY <1>4, <1>5
  <1>8. EmailOf[o] = NoEmail => keys["apple"] = o
    BY <1>4, <1>5 DEF Held, Fits
  <1>9. \A k \in Keys : keys[k] # Null => Provider[keys[k]] = k /\ Fits(keys[k], o)
    BY <1>4 DEF Held
  <1> QED
    BY <1>6, <1>7, <1>8, <1>9 DEF Held

-----------------------------------------------------------------------------
(* Steps of a request *)

LEMMA KnownIds == TypeOK => Known \subseteq Ids
  BY DEF TypeOK, Known, Stored

\* What a request has in its hands stays right while nobody becomes unknown.
LEMMA FitsKept ==
    ASSUME NEW owner, NEW t, ReqFits(t, owner), Known \subseteq Known'
    PROVE  ReqFits(t, owner)'
  BY DEF ReqFits, Held, Fits

LEMMA RequestsFit ==
    ASSUME NEW owner, Good(owner), NEW r \in Reqs, NEW t \in Request, ReqFits(t, owner),
           req' = [req EXCEPT ![r] = t], Known \subseteq Known'
    PROVE  req' \in [Reqs -> Request] /\ \A q \in Reqs : ReqFits(req[q], owner)'
  <1>1. req \in [Reqs -> Request] /\ \A q \in Reqs : ReqFits(req[q], owner)
    BY DEF Good, TypeOK, Request, Consistent
  <1>2. \A q \in Reqs : req'[q] = t \/ req'[q] = req[q]
    BY <1>1
  <1>3. ReqFits(t, owner)'
    BY FitsKept
  <1>4. ASSUME NEW q \in Reqs PROVE ReqFits(req[q], owner)'
    <2>1. CASE req'[q] = t
      BY <1>3, <2>1 DEF ReqFits
    <2>2. CASE req'[q] = req[q]
      BY <1>1, <2>2 DEF ReqFits, Held, Fits
    <2> QED
      BY <1>2, <2>1, <2>2
  <1> QED
    BY <1>1, <1>4

LEMMA RequestStep ==
    ASSUME NEW owner, Good(owner), NEW r \in Reqs, NEW t \in Request, ReqFits(t, owner),
           req' = [req EXCEPT ![r] = t], UNCHANGED <<users, gone, entered>>
    PROVE  Good(owner)'
  <1>1. Known' = Known /\ Stored' = Stored
    BY DEF Known, Stored
  <1>2. req' \in [Reqs -> Request] /\ \A q \in Reqs : ReqFits(req[q], owner)'
    BY <1>1, RequestsFit
  <1>3. TypeOK'
    BY <1>2 DEF Good, TypeOK, Request
  <1>4. UniqueEmails'
    BY <1>1 DEF Good, UniqueEmails
  <1>5. Owners(owner)' /\ EnteredFits(owner)' /\ \A a \in Stored' : Held(users[a], owner[a])'
    BY <1>1 DEF Good, Consistent, Owners, EnteredFits, Held, Fits
  <1> QED
    BY <1>2, <1>3, <1>4, <1>5 DEF Good, Consistent

\* A row is written back that the account may have.
LEMMA WriteStep ==
    ASSUME NEW owner, Good(owner), NEW r \in Reqs, NEW t \in Request, ReqFits(t, owner),
           req' = [req EXCEPT ![r] = t],
           NEW a, NEW row, Held(row, owner[a]), Update(a, row), UNCHANGED <<gone, entered>>
    PROVE  Good(owner)'
  <1>1. a \in Stored /\ a \in Ids /\ row \in Account /\ row # Null
    BY NullAssumption DEF Update, Stored, Held
  <1>2. /\ users' = [users EXCEPT ![a] = row] /\ users \in [Ids -> Account \cup {Null}]
        /\ \A b \in Stored \ {a} : users[b].email # row.email
    BY DEF Update, Unique, Good, TypeOK
  <1>3. Stored' = Stored /\ Known' = Known
    BY <1>1, <1>2 DEF Stored, Known
  <1>4. \A b \in Stored : users'[b] = IF b = a THEN row ELSE users[b]
    BY <1>1, <1>2 DEF Stored
  <1>5. req' \in [Reqs -> Request] /\ \A q \in Reqs : ReqFits(req[q], owner)'
    BY <1>3, RequestsFit
  <1>6. TypeOK'
    BY <1>1, <1>2, <1>5 DEF Good, TypeOK, Request
  <1>7. UniqueEmails'
    BY <1>2, <1>3, <1>4 DEF Good, UniqueEmails
  <1>8. \A b \in Stored' : Held(users[b], owner[b])'
    BY <1>3, <1>4 DEF Good, Consistent, Held, Fits
  <1>9. Owners(owner)' /\ EnteredFits(owner)'
    BY <1>3 DEF Good, Consistent, Owners, EnteredFits, Fits
  <1> QED
    BY <1>5, <1>6, <1>7, <1>8, <1>9 DEF Good, Consistent

\* Goto keeps what the request has in its hands.
LEMMA GotoRequest ==
    ASSUME TypeOK, NEW r \in Reqs, NEW pc \in {"idle", "key", "email", "password", "check",
                                              "create", "link", "login", "tokens", "edit"},
           Goto(r, pc)
    PROVE  /\ [req[r] EXCEPT !.pc = pc] \in Request
           /\ req' = [req EXCEPT ![r] = [req[r] EXCEPT !.pc = pc]]
  BY DEF TypeOK, Request, Goto

LEMMA IdleRequest ==
    ASSUME NEW owner
    PROVE  Idle \in Request /\ ReqFits(Idle, owner)
  BY DEF Idle, Request, ReqFits

LEMMA FinishStep ==
    ASSUME NEW owner, Good(owner), NEW r \in Reqs, RequestFails(r)
    PROVE  Good(owner)'
  BY IdleRequest, RequestStep DEF RequestFails, Finish

LEMMA BeginStep ==
    ASSUME NEW owner, Good(owner), NEW r \in Reqs, SignInRequest(r)
    PROVE  Good(owner)'
  <1>1. PICK i \in Identities, pc \in {"key", "check", "password"} :
           /\ pc = "key" => Provider[i] # "password"
           /\ req' = [req EXCEPT ![r] = [Idle EXCEPT !.pc = pc, !.who = i]]
           /\ UNCHANGED <<users, gone, entered>>
    BY DEF SignInRequest, GoogleAuth, AppleAuth, Register, Login, Begin
  <1> DEFINE t == [Idle EXCEPT !.pc = pc, !.who = i]
  <1>2. t \in Request
    BY DEF Idle, Request
  <1>3. ReqFits(t, owner)
    BY <1>1 DEF Idle, ReqFits
  <1>4. req' = [req EXCEPT ![r] = t]
    BY <1>1
  <1> HIDE DEF t
  <1> QED
    BY <1>1, <1>2, <1>3, <1>4, RequestStep

\* A row that was found goes along.
LEMMA GotoWithRequest ==
    ASSUME TypeOK, NEW r \in Reqs, NEW pc \in {"link", "login", "tokens", "edit"},
           NEW a \in Ids, NEW row \in Account, GotoWith(r, pc, a, row)
    PROVE  \E t \in Request :
              /\ t.pc = pc /\ t.who = req[r].who /\ t.id = a /\ t.copy = row
              /\ req' = [req EXCEPT ![r] = t]
  <1> DEFINE t == [req[r] EXCEPT !.pc = pc, !.id = a, !.copy = row]
  <1>1. req[r] \in Request
    BY DEF TypeOK, Request
  <1>2. /\ t \in Request
        /\ t.pc = pc /\ t.who = req[r].who /\ t.id = a /\ t.copy = row
    BY <1>1 DEF Request
  <1>3. req' = [req EXCEPT ![r] = t]
    BY DEF GotoWith, TypeOK
  <1> QED
    BY <1>2, <1>3

\* What is stored is known, and held for its owner.
LEMMA StoredHeld ==
    ASSUME NEW owner, Good(owner), NEW a \in Stored
    PROVE  a \in Ids /\ a \in Known /\ owner[a] \in Identities /\ users[a] \in Account
           /\ Held(users[a], owner[a])
  BY DEF Good, Consistent, Owners, Stored, Known, Held

\* The identity whose key a row holds fits its owner.
LEMMA KeyFits ==
    ASSUME NEW owner, Good(owner), NEW i \in Identities, NEW a \in FindByKey(i)
    PROVE  a \in Stored /\ Fits(i, owner[a])
  <1>1. a \in Stored /\ users[a].keys[Provider[i]] = i
    BY DEF FindByKey
  <1>2. Provider[i] \in Keys /\ i # Null
    BY ProviderAssumption, NullAssumption
  <1> QED
    BY <1>1, <1>2, StoredHeld DEF Held

LEMMA FindByProviderIDStep ==
    ASSUME NEW owner, Good(owner), NEW r \in Reqs, FindByProviderID(r)
    PROVE  Good(owner)'
  <1> DEFINE i == req[r].who
  <1>1. /\ req[r].pc = "key" /\ req[r] \in Request /\ ReqFits(req[r], owner)
        /\ UNCHANGED <<users, gone, entered>>
    BY DEF FindByProviderID, Good, TypeOK, Request, Consistent
  <1>2. i \in Identities /\ Provider[i] # "password"
    BY <1>1 DEF ReqFits
  <1>3. ASSUME NEW a \in FindByKey(i), GotoWith(r, "login", a, users[a]) PROVE Good(owner)'
    <2>1. /\ a \in Ids /\ a \in Known /\ users[a] \in Account
          /\ Held(users[a], owner[a]) /\ Fits(i, owner[a])
      BY <1>2, <1>3, KeyFits, StoredHeld
    <2>2. PICK t \in Request :
             /\ t.pc = "login" /\ t.who = i /\ t.id = a /\ t.copy = users[a]
             /\ req' = [req EXCEPT ![r] = t]
      BY <1>3, <2>1, GotoWithRequest DEF Good
    <2>3. ReqFits(t, owner)
      BY <1>2, <2>1, <2>2 DEF ReqFits
    <2> QED
      BY <1>1, <2>2, <2>3, RequestStep
  <1>4. ASSUME NEW pc \in {"create", "email"}, Goto(r, pc), pc = "email" => EmailOf[i] # NoEmail
        PROVE  Good(owner)'
    <2> DEFINE t == [req[r] EXCEPT !.pc = pc]
    <2>1. t \in Request /\ req' = [req EXCEPT ![r] = t]
      BY <1>4, GotoRequest DEF Good
    <2>2. t.pc = pc /\ t.who = i
      BY <1>1 DEF Request
    <2> HIDE DEF t, i
    <2>3. ReqFits(t, owner)
      BY <1>2, <1>4, <2>2 DEF ReqFits
    <2> QED
      BY <1>1, <2>1, <2>3, RequestStep
  <1>5. \/ \E a \in FindByKey(i) : GotoWith(r, "login", a, users[a])
        \/ Goto(r, IF EmailOf[i] = NoEmail THEN "create" ELSE "email")
    BY DEF FindByProviderID
  <1> QED
    BY <1>3, <1>4, <1>5

LEMMA FindByAddressStep ==
    ASSUME NEW owner, Good(owner), NEW r \in Reqs, FindByAddress(r)
    PROVE  Good(owner)'
  <1> DEFINE i == req[r].who
  <1>1. /\ req[r].pc = "email" /\ req[r] \in Request /\ ReqFits(req[r], owner)
        /\ UNCHANGED <<users, gone, entered>>
    BY DEF FindByAddress, Good, TypeOK, Request, Consistent
  <1>2. i \in Identities /\ Provider[i] # "password" /\ EmailOf[i] # NoEmail
    BY <1>1 DEF ReqFits
  <1>3. ASSUME NEW a \in FindByEmail(EmailOf[i]), GotoWith(r, "link", a, WithKey(users[a], i))
        PROVE  Good(owner)'
    <2>1. a \in Stored /\ users[a].email = EmailOf[i]
      BY <1>3 DEF FindByEmail
    <2>2. /\ a \in Ids /\ a \in Known /\ owner[a] \in Identities
          /\ Held(users[a], owner[a]) /\ Fits(i, owner[a])
      BY <1>2, <2>1, StoredHeld DEF Held, Fits
    <2>3. WithKey(users[a], i) \in Account /\ Held(WithKey(users[a], i), owner[a])
      BY <1>2, <2>2, LinkedHeld
    <2>4. PICK t \in Request :
             /\ t.pc = "link" /\ t.who = i /\ t.id = a /\ t.copy = WithKey(users[a], i)
             /\ req' = [req EXCEPT ![r] = t]
      BY <1>3, <2>2, <2>3, GotoWithRequest DEF Good
    <2>5. ReqFits(t, owner)
      BY <1>2, <2>2, <2>3, <2>4 DEF ReqFits
    <2> QED
      BY <1>1, <2>4, <2>5, RequestStep
  <1>4. CASE Goto(r, "create")
    <2> DEFINE t == [req[r] EXCEPT !.pc = "create"]
    <2>1. t \in Request /\ req' = [req EXCEPT ![r] = t]
      BY <1>4, GotoRequest DEF Good
    <2>2. t.pc = "create" /\ t.who = i
      BY <1>1 DEF Request
    <2> HIDE DEF t, i
    <2>3. ReqFits(t, owner)
      BY <1>2, <2>2 DEF ReqFits
    <2> QED
      BY <1>1, <2>1, <2>3, RequestStep
  <1> QED
    BY <1>3, <1>4 DEF FindByAddress

LEMMA FindByPasswordStep ==
    ASSUME NEW owner, Good(owner), NEW r \in Reqs, FindByPassword(r)
    PROVE  Good(owner)'
  <1> DEFINE i == req[r].who
  <1>1. /\ req[r].pc = "password" /\ ReqFits(req[r], owner) /\ UNCHANGED <<users, gone, entered>>
    BY DEF FindByPassword, Good, Consistent
  <1>2. i \in Identities
    BY <1>1 DEF ReqFits
  <1>3. PICK a \in FindByKey(i) : GotoWith(r, "login", a, users[a])
    BY DEF FindByPassword
  <1>4. /\ a \in Ids /\ a \in Known /\ users[a] \in Account
        /\ Held(users[a], owner[a]) /\ Fits(i, owner[a])
    BY <1>2, <1>3, KeyFits, StoredHeld
  <1>5. PICK t \in Request :
           /\ t.pc = "login" /\ t.who = i /\ t.id = a /\ t.copy = users[a]
           /\ req' = [req EXCEPT ![r] = t]
    BY <1>3, <1>4, GotoWithRequest DEF Good
  <1>6. ReqFits(t, owner)
    BY <1>2, <1>4, <1>5 DEF ReqFits
  <1> QED
    BY <1>1, <1>5, <1>6, RequestStep

LEMMA CheckAddressStep ==
    ASSUME NEW owner, Good(owner), NEW r \in Reqs, CheckAddress(r)
    PROVE  Good(owner)'
  <1> DEFINE t == [req[r] EXCEPT !.pc = "create"]
  <1>1. /\ req[r].pc = "check" /\ req[r] \in Request /\ ReqFits(req[r], owner)
        /\ UNCHANGED <<users, gone, entered>>
    BY DEF CheckAddress, Good, TypeOK, Request, Consistent
  <1>2. t \in Request /\ req' = [req EXCEPT ![r] = t]
    BY GotoRequest DEF Good, CheckAddress
  <1>3. t.pc = "create" /\ t.who = req[r].who
    BY <1>1 DEF Request
  <1> HIDE DEF t
  <1>4. ReqFits(t, owner)
    BY <1>1, <1>3 DEF ReqFits
  <1> QED
    BY <1>1, <1>2, <1>4, RequestStep

\* The request goes on with what it has in its hands.
LEMMA NextRequest ==
    ASSUME NEW owner, Good(owner), NEW r \in Reqs, NEW pc \in {"login", "tokens"}, Goto(r, pc),
           req[r].pc \in {"link", "login"}
    PROVE  \E t \in Request : ReqFits(t, owner) /\ req' = [req EXCEPT ![r] = t]
  <1> DEFINE t == [req[r] EXCEPT !.pc = pc]
  <1>1. req[r] \in Request /\ ReqFits(req[r], owner)
    BY DEF Good, TypeOK, Request, Consistent
  <1>2. t \in Request /\ req' = [req EXCEPT ![r] = t]
    BY GotoRequest DEF Good
  <1>3. t.pc = pc /\ t.who = req[r].who /\ t.id = req[r].id /\ t.copy = req[r].copy
    BY <1>1 DEF Request
  <1> HIDE DEF t
  <1>4. ReqFits(t, owner)
    BY <1>1, <1>3 DEF ReqFits
  <1> QED
    BY <1>2, <1>4

LEMMA LinkProviderStep ==
    ASSUME NEW owner, Good(owner), NEW r \in Reqs, LinkProvider(r)
    PROVE  Good(owner)'
  <1>1. /\ Update(req[r].id, req[r].copy) /\ Held(req[r].copy, owner[req[r].id])
        /\ UNCHANGED <<gone, entered>>
    BY DEF LinkProvider, Good, Consistent, ReqFits
  <1>2. PICK t \in Request : ReqFits(t, owner) /\ req' = [req EXCEPT ![r] = t]
    BY NextRequest DEF LinkProvider
  <1> QED
    BY <1>1, <1>2, WriteStep

LEMMA UpdateLastLoginStep ==
    ASSUME NEW owner, Good(owner), NEW r \in Reqs, UpdateLastLogin(r)
    PROVE  Good(owner)'
  <1>1. /\ Held(req[r].copy, owner[req[r].id]) /\ UNCHANGED <<gone, entered>>
        /\ Update(req[r].id, req[r].copy) \/ UNCHANGED users
    BY DEF UpdateLastLogin, Good, Consistent, ReqFits
  <1>2. PICK t \in Request : ReqFits(t, owner) /\ req' = [req EXCEPT ![r] = t]
    BY NextRequest DEF UpdateLastLogin
  <1> QED
    BY <1>1, <1>2, WriteStep, RequestStep

\* Tokens are handed out to an identity that fits the owner.
LEMMA GenerateUserTokensStep ==
    ASSUME NEW owner, Good(owner), NEW r \in Reqs, GenerateUserTokens(r)
    PROVE  Good(owner)'
  <1> DEFINE i == req[r].who
             a == req[r].id
  <1>1. i \in Identities /\ a \in Known /\ a \in Ids /\ Fits(i, owner[a])
    BY KnownIds DEF GenerateUserTokens, Good, Consistent, ReqFits
  <1>2. /\ entered' = [entered EXCEPT ![i] = @ \cup {a}]
        /\ req' = [req EXCEPT ![r] = Idle] /\ UNCHANGED <<users, gone>>
    BY DEF GenerateUserTokens, Finish
  <1> HIDE DEF i, a
  <1>3. Known' = Known /\ Stored' = Stored
    BY <1>2 DEF Known, Stored
  <1>4. req' \in [Reqs -> Request] /\ \A q \in Reqs : ReqFits(req[q], owner)'
    BY <1>2, <1>3, IdleRequest, RequestsFit
  <1>5. TypeOK'
    BY <1>1, <1>2, <1>4 DEF Good, TypeOK, Request
  <1>6. EnteredFits(owner)'
    BY <1>1, <1>2, <1>3 DEF Good, TypeOK, Consistent, EnteredFits, Fits
  <1>7. UniqueEmails' /\ Owners(owner)' /\ \A b \in Stored' : Held(users[b], owner[b])'
    BY <1>2, <1>3 DEF Good, UniqueEmails, Consistent, Owners, Held, Fits
  <1> QED
    BY <1>4, <1>5, <1>6, <1>7 DEF Good, Consistent

LEMMA CreateStep ==
    ASSUME NEW owner, Good(owner), NEW r \in Reqs, Create(r)
    PROVE  IInv'
  <1>a. PICK i \in Identities : i = req[r].who
    BY DEF Create, Good, Consistent, ReqFits
  <1>b. PICK row : row = NewAccount(i)
    OBVIOUS
  <1>1. PICK a \in Ids \ (Stored \cup gone), pc \in {"tokens", "login"} :
           users' = [users EXCEPT ![a] = row] /\ GotoWith(r, pc, a, row)
    BY <1>a, <1>b DEF Create
  <1>2. /\ req[r].pc = "create"
        /\ \A b \in Stored : users[b].email # row.email
        /\ UNCHANGED <<gone, entered>>
    BY <1>a, <1>b DEF Create, Unique
  <1>3. row \in Account /\ row # Null /\ Held(row, i)
    BY <1>b, NewAccountHeld, NullAssumption
  <1>4. PICK t \in Request :
           /\ t.pc = pc /\ t.who = i /\ t.id = a /\ t.copy = row
           /\ req' = [req EXCEPT ![r] = t]
    BY <1>1, <1>3, <1>a, GotoWithRequest DEF Good
  <1>c. PICK new : new = [owner EXCEPT ![a] = i]
    OBVIOUS
  <1>5. Stored' = Stored \cup {a} /\ Known' = Known \cup {a} /\ a \notin Known
    BY <1>1, <1>2, <1>3 DEF Stored, Known, Good, TypeOK
  <1>6. /\ new \in [Ids -> Identities \cup {Null}] /\ new[a] = i
        /\ \A b \in Known : new[b] = owner[b]
    BY <1>1, <1>5, <1>c, KnownIds DEF Good, Consistent, Owners
  <1>7. Owners(new)'
    BY <1>2, <1>5, <1>6 DEF Good, Consistent, Owners
  <1>8. EnteredFits(new)'
    BY <1>2, <1>5, <1>6 DEF Good, Consistent, EnteredFits, Fits
  <1>9. \A b \in Stored' : Held(users[b], new[b])'
    <2>1. \A b \in Stored : users'[b] = users[b] /\ new[b] = owner[b]
      BY <1>1, <1>6 DEF Stored, Known
    <2>2. users'[a] = row
      BY <1>1 DEF Good, TypeOK
    <2>3. \A b \in Stored : Held(users[b], owner[b])
      BY DEF Good, Consistent
    <2> QED
      BY <1>3, <1>5, <1>6, <2>1, <2>2, <2>3 DEF Held, Fits
  <1>10. Fits(i, new[a])
    BY <1>6 DEF Fits
  <1>11. req' \in [Reqs -> Request] /\ \A q \in Reqs : ReqFits(req[q], new)'
    <2>1. req \in [Reqs -> Request]
      BY DEF Good, TypeOK, Request
    <2>2. ASSUME NEW q \in Reqs PROVE ReqFits(req[q], new)'
      <3>1. CASE q = r
        <4>1. req'[q] = t
          BY <1>4, <2>1, <3>1
        <4> QED
          BY <1>2, <1>3, <1>4, <1>5, <1>6, <1>10, <4>1 DEF ReqFits, Held, Fits
      <3>2. CASE q # r
        <4>1. req'[q] = req[q] /\ ReqFits(req[q], owner)
          BY <1>4, <2>1, <3>2 DEF Good, Consistent
        <4> QED
          BY <1>5, <1>6, <4>1 DEF ReqFits, Held, Fits
      <3> QED
        BY <3>1, <3>2
    <2> QED
      BY <1>4, <2>1, <2>2
  <1>12. TypeOK'
    BY <1>1, <1>2, <1>3, <1>11 DEF Good, TypeOK, Request
  <1>13. UniqueEmails'
    <2>1. \A b \in Stored : users'[b] = users[b]
      BY <1>1 DEF Stored
    <2>2. users'[a] = row
      BY <1>1 DEF Good, TypeOK
    <2> QED
      BY <1>2, <1>5, <2>1, <2>2 DEF Good, UniqueEmails
  <1>14. Good(new)'
    BY <1>7, <1>8, <1>9, <1>11, <1>12, <1>13 DEF Good, Consistent
  <1> QED
    BY <1>14 DEF IInv

-----------------------------------------------------------------------------
(* Everybody else *)

LEMMA ReadUserStep ==
    ASSUME NEW owner, Good(owner), NEW r \in Reqs, ReadUser(r)
    PROVE  Good(owner)'
  <1>1. PICK a \in Stored, blocked \in BOOLEAN :
           GotoWith(r, "edit", a, [users[a] EXCEPT !.blocked = blocked])
    BY DEF ReadUser
  <1> DEFINE row == [users[a] EXCEPT !.blocked = blocked]
  <1>2. /\ a \in Ids /\ a \in Known /\ users[a] \in Account /\ Held(users[a], owner[a])
    BY StoredHeld
  <1>3. row \in Account /\ row.email = users[a].email /\ row.keys = users[a].keys
    BY <1>2 DEF Account
  <1>4. GotoWith(r, "edit", a, row)
    BY <1>1
  <1> HIDE DEF row
  <1>5. Held(row, owner[a])
    BY <1>2, <1>3 DEF Held
  <1>6. PICK t \in Request :
           t.pc = "edit" /\ t.id = a /\ t.copy = row /\ req' = [req EXCEPT ![r] = t]
    BY <1>2, <1>3, <1>4, GotoWithRequest DEF Good
  <1>7. ReqFits(t, owner)
    BY <1>2, <1>5, <1>6 DEF ReqFits
  <1> QED
    BY <1>6, <1>7, RequestStep DEF ReadUser

LEMMA UpdateUserStep ==
    ASSUME NEW owner, Good(owner), NEW r \in Reqs, UpdateUser(r)
    PROVE  Good(owner)'
  <1>1. /\ Update(req[r].id, req[r].copy) /\ Held(req[r].copy, owner[req[r].id])
        /\ req' = [req EXCEPT ![r] = Idle] /\ UNCHANGED <<gone, entered>>
    BY DEF UpdateUser, Finish, Good, Consistent, ReqFits
  <1> QED
    BY <1>1, IdleRequest, WriteStep

LEMMA DeleteAccountStep ==
    ASSUME NEW owner, Good(owner), NEW a \in Ids, DeleteAccount(a)
    PROVE  Good(owner)'
  <1>1. /\ a \in Stored /\ users' = [users EXCEPT ![a] = Null] /\ gone' = gone \cup {a}
        /\ UNCHANGED <<req, entered>>
    BY DEF DeleteAccount
  <1>2. /\ Stored' = Stored \ {a} /\ Known' = Known
        /\ \A b \in Stored' : users'[b] = users[b]
    BY <1>1 DEF Stored, Known, Good, TypeOK
  <1>3. TypeOK' /\ UniqueEmails'
    BY <1>1, <1>2 DEF Good, TypeOK, UniqueEmails
  <1>4. Owners(owner)' /\ EnteredFits(owner)' /\ \A b \in Stored' : Held(users[b], owner[b])'
    BY <1>1, <1>2 DEF Good, Consistent, Owners, EnteredFits, Held, Fits
  <1>5. \A q \in Reqs : ReqFits(req[q], owner)'
    BY <1>1, <1>2 DEF Good, Consistent, ReqFits, Held, Fits
  <1> QED
    BY <1>3, <1>4, <1>5 DEF Good, Consistent

-----------------------------------------------------------------------------

LEMMA IInit == Init => IInv
  <1> SUFFICES ASSUME Init PROVE IInv
    OBVIOUS
  <1> DEFINE owner == [a \in Ids |-> Null]
  <1>1. Stored = {} /\ Known = {}
    BY DEF Init, Stored, Known
  <1>2. TypeOK
    BY DEF Init, TypeOK, Idle
  <1>3. \A r \in Reqs : ReqFits(req[r], owner)
    BY IdleRequest DEF Init
  <1>4. Good(owner)
    BY <1>1, <1>2, <1>3 DEF Good, UniqueEmails, Consistent, Owners, EnteredFits, Init
  <1> QED
    BY <1>4 DEF IInv

LEMMA INext == IInv /\ [Next]_vars => IInv'
  <1> SUFFICES ASSUME IInv, [Next]_vars PROVE IInv'
    OBVIOUS
  <1>1. PICK owner : Good(owner)
    BY DEF IInv
  <1>2. CASE UNCHANGED vars
    <2>1. Good(owner)'
      BY <1>1, <1>2 DEF vars, Good, TypeOK, UniqueEmails, Consistent, Owners, EnteredFits, ReqFits,
                        Held, Fits, Known, Stored
    <2> QED
      BY <2>1 DEF IInv
  <1>3. ASSUME NEW r \in Reqs, SignInRequest(r) \/ ReadUser(r) PROVE IInv'
    BY <1>1, <1>3, BeginStep, ReadUserStep DEF IInv
  <1>4. ASSUME NEW r \in Reqs, Continue(r) PROVE IInv'
    <2>1. CASE FindByProviderID(r) \/ FindByAddress(r) \/ FindByPassword(r) \/ CheckAddress(r)
      BY <1>1, <2>1, FindByProviderIDStep, FindByAddressStep, FindByPasswordStep, CheckAddressStep
         DEF IInv
    <2>2. CASE LinkProvider(r) \/ UpdateLastLogin(r) \/ GenerateUserTokens(r)
      BY <1>1, <2>2, LinkProviderStep, UpdateLastLoginStep, GenerateUserTokensStep DEF IInv
    <2>3. CASE Create(r)
      BY <1>1, <2>3, CreateStep
    <2>4. CASE RequestFails(r) \/ UpdateUser(r)
      BY <1>1, <2>4, FinishStep, UpdateUserStep DEF IInv
    <2> QED
      BY <1>4, <2>1, <2>2, <2>3, <2>4 DEF Continue
  <1>5. ASSUME NEW a \in Ids, DeleteAccount(a) PROVE IInv'
    BY <1>1, <1>5, DeleteAccountStep DEF IInv
  <1> QED
    BY <1>2, <1>3, <1>4, <1>5 DEF Next

\* Every account that can be found has an owner, in every reachable state.
THEOREM Invariance == Spec => []IInv
  BY IInit, INext, PTL DEF Spec

\* Variables keep their types.
THEOREM TypeCorrect == Spec => []TypeOK
  <1>1. IInv => TypeOK
    BY DEF IInv, Good
  <1> QED
    BY <1>1, Invariance, PTL

\* Strangers never share an account, however their first sign-ins overlap.
THEOREM StrangersNeverMeet == Spec => []NoStrangers
  BY StrangersKeptOut, Invariance, PTL

\* Whoever has signed in finds the same account again, and no other one.
THEOREM OneHomeForGood == Spec => []OneHome
  BY EverybodyHasOneHome, Invariance, PTL

-----------------------------------------------------------------------------
(* Behind the limiter *)

\* The limiter decides when a request begins, and about nothing else.
LEMMA SignInStep == [SignInNext]_signInVars => [Next]_vars
  BY DEF SignInNext, signInVars, Arrive, Admit, Refuse, AdmitUncounted, Inside, Elsewhere,
         Next, vars

\* The routes implement Identity.
THEOREM SignInImplementsIdentity == SignInSpec => Spec
  <1>1. SignInInit => Init
    BY DEF SignInInit
  <1> QED
    BY <1>1, SignInStep, PTL DEF SignInSpec, Spec

\* The limiter meets what it expects: requests that come one after the other.
THEOREM SignInImplementsLimiter == SignInSpec => Limiter!Spec
  <1>1. SignInInit => Limiter!Init
    BY DEF SignInInit
  <1>2. [SignInNext]_signInVars => [Limiter!Next]_Limiter!vars
    BY DEF SignInNext, signInVars, limiterVars, Arrive, Admit, Refuse, AdmitUncounted,
           Inside, Elsewhere, Limiter!Next, Limiter!vars
  <1> QED
    BY <1>1, <1>2, PTL DEF SignInSpec, Limiter!Spec

\* So whoever signs in through the limiter keeps one account, and shares it with
\* nobody.
THEOREM SignInSafe == SignInSpec => [](NoStrangers /\ OneHome)
  BY SignInImplementsIdentity, StrangersNeverMeet, OneHomeForGood, PTL

-----------------------------------------------------------------------------
(* The limiter itself *)

Counted == Limiter!InProgress

\* What the limiter keeps, as far as the rest needs it.
LimiterTypes ==
    /\ now \in Nat /\ count \in Nat /\ expires \in Nat \cup {None}
    /\ counted \in [Reqs -> [at : Nat \cup {None}, value : Nat]]
    /\ \A r \in Counted : counted[r].at \in Nat
    /\ log \in Seq([at : Nat, answer : Limiter!Answers])

\* At most one request is between its two commands, and nothing has happened
\* since its first.
Alone ==
    ~split => \A r \in Counted :
        /\ counted[r].at = now /\ counted[r].value = count /\ count > 0
        /\ \A q \in Counted : q = r

\* The requests that the counter stands for and that were answered.
Settled == IF Counted = {} THEN count ELSE count - 1

\* The requests that passed less than a window ago.
Recent == {i \in DOMAIN log : log[i].answer = "passed" /\ log[i].at + Window > now}

\* They are all counted in the key, which lives until the last of them is a
\* window old.
RecentOK ==
    ~split =>
        /\ \A i \in DOMAIN log : log[i].at <= now
        /\ Cardinality(Recent) <= Settled
        /\ \A i \in Recent : expires # None /\ log[i].at + Window <= expires

\* Without failures the counter stands for the last requests, none of which
\* paused, and the key for the last of all.
StreakOK ==
    ~split /\ ~failed =>
        /\ Settled <= Len(log)
        /\ \A j \in Len(log) - Settled + 2 .. Len(log) : log[j].at - log[j - 1].at < Window
        /\ Settled > 0 => expires = log[Len(log)].at + Window /\ expires > now

LimiterInv ==
    /\ LimiterTypes /\ Alone /\ RecentOK /\ StreakOK
    /\ AtMostLimit /\ RefusedWhenBusy

InWindow(t) ==
    {i \in DOMAIN log : log[i].answer = "passed" /\ log[i].at \in t - Window + 1 .. t}

\* The instance has its own name for the size of a set.
LEMMA SameCardinality == \A S : Limiter!Cardinality(S) = Cardinality(S)
  BY DEF Cardinality, Limiter!Cardinality

LEMMA AtMostLimitDef ==
    AtMostLimit <=> (~split => \A t \in 0 .. MaxTime : Cardinality(InWindow(t)) <= Limit)
  <1>1. \A t : InWindow(t) = {i \in DOMAIN log :
            log[i].answer = "passed" /\ log[i].at \in t - Window + 1 .. t}
    BY DEF InWindow
  <1> QED
    BY <1>1, SameCardinality, Zenon DEF AtMostLimit, Limiter!AtMostLimit

LEMMA AtMostLimitNext ==
    AtMostLimit' <=> (~split' => \A t \in 0 .. MaxTime : Cardinality(InWindow(t)') <= Limit)
  <1>1. \A t : InWindow(t)' = {i \in DOMAIN log' :
            log'[i].answer = "passed" /\ log'[i].at \in t - Window + 1 .. t}
    BY DEF InWindow
  <1> QED
    BY <1>1, SameCardinality, Zenon DEF AtMostLimit, Limiter!AtMostLimit

LEMMA LimiterIdle == \A r \in Reqs : r \in Counted <=> counted[r] # Limiter!Idle
  BY DEF Counted, Limiter!InProgress

\* Sets of entries of the log are finite, in this state and in the next.
LEMMA EntriesFinite ==
    ASSUME LimiterTypes, NEW S, S \subseteq DOMAIN log
    PROVE  IsFiniteSet(S)
  <1>1. Len(log) \in Nat /\ DOMAIN log = 1 .. Len(log)
    BY DEF LimiterTypes
  <1>2. IsFiniteSet(1 .. Len(log))
    BY <1>1, FS_Interval
  <1> QED
    BY <1>1, <1>2, FS_Subset

LEMMA LogTimes ==
    ASSUME LimiterTypes
    PROVE  \A i \in DOMAIN log : log[i].at \in Nat
  <1>1. PICK Entries : Entries = [at : Nat, answer : Limiter!Answers]
    OBVIOUS
  <1>2. log \in Seq(Entries)
    BY <1>1 DEF LimiterTypes
  <1>3. \A i \in DOMAIN log : log[i] \in Entries
    BY <1>2
  <1> QED
    BY <1>1, <1>3

LEMMA LogGrows ==
    ASSUME LimiterTypes, NEW e \in [at : Nat, answer : Limiter!Answers],
           log' = Append(log, e)
    PROVE  /\ log' \in Seq([at : Nat, answer : Limiter!Answers])
           /\ Len(log) \in Nat /\ Len(log') = Len(log) + 1
           /\ DOMAIN log = 1 .. Len(log)
           /\ DOMAIN log' = DOMAIN log \cup {Len(log) + 1} /\ Len(log) + 1 \notin DOMAIN log
           /\ \A i \in DOMAIN log : log'[i] = log[i]
           /\ log'[Len(log) + 1] = e
  BY DEF LimiterTypes

-----------------------------------------------------------------------------
(* A request is counted *)

LEMMA IncrStep ==
    ASSUME LimiterInv, NEW r \in Reqs, Limiter!Incr(r)
    PROVE  LimiterInv'
  <1>1. /\ counted[r] = Limiter!Idle /\ count' = count + 1
        /\ counted' = [counted EXCEPT ![r] = [at |-> now, value |-> count + 1]]
        /\ UNCHANGED <<now, expires, log, failed>>
        /\ split' = (split \/ Counted # {})
    BY DEF Limiter!Incr, Limiter!Intervenes, Counted
  <1>2. now \in Nat /\ count \in Nat /\ now # None /\ None \notin Nat
        /\ counted \in [Reqs -> [at : Nat \cup {None}, value : Nat]]
    BY NoneAssumption DEF LimiterInv, LimiterTypes
  <1>3. counted'[r] = [at |-> now, value |-> count + 1] /\ counted'[r] # Limiter!Idle
        /\ \A q \in Reqs \ {r} : counted'[q] = counted[q]
    <2>1. counted'[r] = [at |-> now, value |-> count + 1]
      BY <1>1, <1>2
    <2>2. counted'[r].at # None /\ Limiter!Idle.at = None
      BY <1>2, <2>1 DEF Limiter!Idle
    <2> QED
      BY <1>1, <1>2, <2>1, <2>2
  <1>4. Counted' = Counted \cup {r} /\ r \notin Counted
    BY <1>1, <1>3 DEF Counted, Limiter!InProgress
  <1>5. LimiterTypes'
    <2>1. counted' \in [Reqs -> [at : Nat \cup {None}, value : Nat]]
      BY <1>1, <1>2
    <2>2. \A q \in Counted' : counted'[q].at \in Nat
      BY <1>2, <1>3, <1>4 DEF LimiterInv, LimiterTypes, Counted, Limiter!InProgress
    <2> QED
      BY <1>1, <1>2, <2>1, <2>2 DEF LimiterInv, LimiterTypes
  <1>6. ~split' => ~split /\ Counted = {} /\ Counted' = {r}
    BY <1>1, <1>4
  <1>7. Alone'
    BY <1>1, <1>2, <1>3, <1>6 DEF Alone
  <1>8. ~split' => Settled' = Settled
    BY <1>1, <1>2, <1>6 DEF Settled
  <1>9. RecentOK' /\ StreakOK'
    <2>1. Recent' = Recent
      BY <1>1 DEF Recent
    <2> QED
      BY <1>1, <1>6, <1>8, <2>1 DEF LimiterInv, RecentOK, StreakOK
  <1>10. AtMostLimit' /\ RefusedWhenBusy'
    BY <1>1, <1>6 DEF LimiterInv, AtMostLimit, Limiter!AtMostLimit,
                      RefusedWhenBusy, Limiter!RefusedWhenBusy
  <1> QED
    BY <1>5, <1>7, <1>9, <1>10 DEF LimiterInv

-----------------------------------------------------------------------------
(* A request is answered *)

\* What the log says of a request that did not pass changes nothing about those
\* that did.
LEMMA NotPassed ==
    ASSUME LimiterTypes, NEW e \in [at : Nat, answer : Limiter!Answers],
           log' = Append(log, e), now' = now, e.answer # "passed"
    PROVE  Recent' = Recent /\ \A t : InWindow(t)' = InWindow(t)
  BY LogGrows DEF Recent, InWindow

\* A request that the limiter asked about leaves; so nobody is in progress unless
\* pipelines were split.
LEMMA LeaveStep ==
    ASSUME LimiterInv, NEW r \in Counted, NEW answer \in Limiter!Answers,
           Limiter!Answered(r, answer), UNCHANGED <<now, count, split>>,
           expires' \in Nat \cup {None}
    PROVE  /\ LimiterTypes' /\ Alone'
           /\ counted[r].at \in Nat
           /\ ~split => /\ Counted = {r} /\ Counted' = {}
                        /\ counted[r].at = now /\ counted[r].value = count /\ count > 0
                        /\ Settled = count - 1 /\ Settled' = count
  <1>1. r \in Reqs /\ counted[r].at \in Nat
        /\ counted \in [Reqs -> [at : Nat \cup {None}, value : Nat]]
    BY DEF LimiterInv, LimiterTypes, Counted, Limiter!InProgress
  <1>2. /\ log' = Append(log, [at |-> counted[r].at, answer |-> answer])
        /\ counted' = [counted EXCEPT ![r] = Limiter!Idle]
    BY DEF Limiter!Answered
  <1>3. Limiter!Idle \in [at : Nat \cup {None}, value : Nat]
    BY DEF Limiter!Idle
  <1>4. Counted' = Counted \ {r} /\ \A q \in Counted' : counted'[q] = counted[q]
    BY <1>1, <1>2 DEF Counted, Limiter!InProgress
  <1>5. LimiterTypes'
    <2>1. counted' \in [Reqs -> [at : Nat \cup {None}, value : Nat]]
      BY <1>1, <1>2, <1>3
    <2>2. \A q \in Counted' : counted'[q].at \in Nat
      BY <1>4 DEF LimiterInv, LimiterTypes
    <2>3. log' \in Seq([at : Nat, answer : Limiter!Answers])
      BY <1>1, <1>2, LogGrows DEF LimiterInv
    <2> QED
      BY <2>1, <2>2, <2>3 DEF LimiterInv, LimiterTypes
  <1>6. ~split => /\ Counted = {r} /\ counted[r].at = now /\ counted[r].value = count /\ count > 0
    BY DEF LimiterInv, Alone
  <1>7. ~split => Counted' = {}
    BY <1>4, <1>6
  <1>8. Alone'
    BY <1>7 DEF Alone
  <1> QED
    BY <1>1, <1>5, <1>6, <1>7, <1>8 DEF Settled

\* The key is renewed while the counter is not zero.
LEMMA RenewedLater ==
    ASSUME LimiterInv
    PROVE  /\ Limiter!Renewed \in Nat \cup {None}
           /\ count > 0 => Limiter!Renewed = now + Window
           /\ now + Window \in Nat /\ now + Window > now /\ now + Window # None
  BY BoundAssumption, NoneAssumption DEF LimiterInv, LimiterTypes, Limiter!Renewed

LEMMA ExpireStep ==
    ASSUME LimiterInv, NEW r \in Reqs, Limiter!Expire(r)
    PROVE  LimiterInv'
  <1>1. /\ r \in Counted /\ expires' = Limiter!Renewed
        /\ Limiter!Answered(r, Limiter!Answer(r))
        /\ UNCHANGED <<now, count, split, failed>>
    BY LimiterIdle DEF Limiter!Expire
  <1>a. PICK answer : answer = Limiter!Answer(r)
    OBVIOUS
  <1> DEFINE e == [at |-> counted[r].at, answer |-> answer]
  <1>2. answer = IF counted[r].value > Limit THEN "refused" ELSE "passed"
    BY <1>a DEF Limiter!Answer
  <1>c. answer \in Limiter!Answers /\ r \in Counted /\ UNCHANGED <<now, count, split>>
    BY <1>1, <1>2 DEF Limiter!Answers
  <1>b. Limiter!Answered(r, answer)
    BY <1>1, <1>a
  <1>3. expires' \in Nat \cup {None}
    BY <1>1, RenewedLater
  <1>4. /\ LimiterTypes' /\ Alone' /\ counted[r].at \in Nat
        /\ ~split => /\ Counted = {r} /\ Counted' = {}
                     /\ counted[r].at = now /\ counted[r].value = count /\ count > 0
                     /\ Settled = count - 1 /\ Settled' = count
    BY <1>b, <1>c, <1>3, LeaveStep
  <1>5. CASE split
    BY <1>1, <1>4, <1>5 DEF LimiterInv, RecentOK, StreakOK, AtMostLimit, Limiter!AtMostLimit,
                            RefusedWhenBusy, Limiter!RefusedWhenBusy
  <1>6. CASE ~split
    <2>a. e \in [at : Nat, answer : Limiter!Answers]
      BY <1>c, <1>4
    <2>b. log' = Append(log, e)
      BY <1>b DEF Limiter!Answered
    <2>2. e.at = now /\ e.answer = answer
      BY <1>4, <1>6
    <2>3. /\ expires' = now + Window /\ now + Window \in Nat /\ now + Window > now
          /\ now + Window # None /\ count \in Nat /\ now \in Nat /\ Limit \in Nat /\ Window \in Nat
          /\ LimiterTypes
      BY <1>1, <1>4, <1>6, RenewedLater, BoundAssumption DEF LimiterInv, LimiterTypes
    <2> DEFINE n == Len(log)
    <2>4. /\ n \in Nat /\ Len(log') = n + 1 /\ DOMAIN log = 1 .. n
          /\ DOMAIN log' = DOMAIN log \cup {n + 1} /\ n + 1 \notin DOMAIN log
          /\ \A i \in DOMAIN log : log'[i] = log[i]
          /\ log'[n + 1].at = now /\ log'[n + 1].answer = answer
      BY <2>a, <2>b, <2>2, <2>3, LogGrows
    <2> HIDE DEF e, n
    <2>5. \A i \in DOMAIN log : log[i].at \in Nat /\ log[i].at <= now
      BY <1>6, <2>3, LogTimes DEF LimiterInv, RecentOK
    <2>6. \A i \in Recent : i \in DOMAIN log
      BY DEF Recent
    <2>7. Recent' = IF answer = "passed" THEN Recent \cup {n + 1} ELSE Recent
      BY <1>1, <2>3, <2>4 DEF Recent
    <2>8. /\ IsFiniteSet(Recent) /\ Cardinality(Recent) \in Nat
          /\ Cardinality(Recent \cup {n + 1}) = Cardinality(Recent) + 1
          /\ Cardinality(Recent) <= count - 1 /\ IsFiniteSet(Recent \cup {n + 1})
      BY <1>4, <1>6, <2>3, <2>4, <2>6, EntriesFinite, FS_AddElement, FS_CardinalityType
         DEF LimiterInv, RecentOK
    <2>9. RecentOK'
      <3>1. \A i \in DOMAIN log' : log'[i].at <= now'
        BY <1>1, <2>3, <2>4, <2>5
      <3>2. Cardinality(Recent') <= Settled'
        BY <1>4, <1>6, <2>3, <2>7, <2>8
      <3>3. \A i \in Recent' : expires' # None /\ log'[i].at + Window <= expires'
        BY <2>3, <2>4, <2>5, <2>6, <2>7
      <3> QED
        BY <3>1, <3>2, <3>3 DEF RecentOK
    <2>10. AtMostLimit'
      <3>1. ASSUME NEW t \in 0 .. MaxTime PROVE Cardinality(InWindow(t)') <= Limit
        <4>1. Cardinality(InWindow(t)) <= Limit
          BY <1>6, AtMostLimitDef DEF LimiterInv
        <4>2. CASE answer # "passed" \/ ~(now \in t - Window + 1 .. t)
          <5>1. InWindow(t)' = InWindow(t)
            BY <2>4, <4>2 DEF InWindow
          <5> QED
            BY <4>1, <5>1
        <4>3. CASE answer = "passed" /\ now \in t - Window + 1 .. t
          <5>1. InWindow(t)' \subseteq Recent \cup {n + 1}
            <6> SUFFICES ASSUME NEW i \in InWindow(t)', i # n + 1 PROVE i \in Recent
              OBVIOUS
            <6>1. i \in DOMAIN log /\ log[i].answer = "passed" /\ log[i].at \in t - Window + 1 .. t
              BY <2>4 DEF InWindow
            <6>2. log[i].at + Window > now
              BY <2>3, <2>5, <4>3, <6>1
            <6> QED
              BY <6>1, <6>2 DEF Recent
          <5>2. Cardinality(InWindow(t)') <= Cardinality(Recent \cup {n + 1})
            BY <2>8, <5>1, FS_Subset
          <5>3. Cardinality(InWindow(t)') \in Nat
            BY <2>8, <5>1, FS_Subset, FS_CardinalityType
          <5>4. count <= Limit
            <6>1. ~(count > Limit)
              BY <1>2, <1>4, <1>6, <4>3
            <6> QED
              BY <2>3, <6>1
          <5> QED
            BY <2>3, <2>8, <5>2, <5>3, <5>4
        <4> QED
          BY <4>2, <4>3
      <3> QED
        BY <3>1, AtMostLimitNext
    <2>11. CASE failed
      BY <1>1, <1>4, <2>9, <2>10, <2>11
         DEF LimiterInv, StreakOK, RefusedWhenBusy, Limiter!RefusedWhenBusy
    <2>12. CASE ~failed
      <3>1. /\ count - 1 <= n
            /\ \A j \in n - (count - 1) + 2 .. n : log[j].at - log[j - 1].at < Window
            /\ count - 1 > 0 => expires = log[n].at + Window /\ expires > now
        BY <1>4, <1>6, <2>12 DEF LimiterInv, StreakOK, n
      <3>2. count \in Nat /\ count > 0
        BY <1>4, <1>6, <2>3
      <3>3. ASSUME NEW j \in n + 1 - count + 2 .. n + 1
            PROVE  log'[j].at - log'[j - 1].at < Window
        <4>1. CASE j = n + 1
          <5>1. count - 1 > 0 /\ n \in DOMAIN log /\ n >= 1
            BY <2>4, <3>1, <3>2, <4>1
          <5>2. log[n].at + Window > now /\ log[n].at \in Nat
            BY <2>5, <3>1, <5>1
          <5>3. log'[j].at = now /\ log'[j - 1] = log[n]
            BY <2>4, <4>1, <5>1
          <5> QED
            BY <2>3, <5>2, <5>3
        <4>2. CASE j # n + 1
          <5>1. j \in n - (count - 1) + 2 .. n /\ j \in 2 .. n
            BY <2>4, <3>1, <3>2, <4>2
          <5>2. log'[j] = log[j] /\ log'[j - 1] = log[j - 1]
            BY <2>4, <5>1
          <5> QED
            BY <3>1, <5>1, <5>2
        <4> QED
          BY <4>1, <4>2
      <3>4. StreakOK'
        <4>1. Settled' = count /\ count <= Len(log')
          BY <1>4, <1>6, <2>4, <3>1, <3>2
        <4>2. expires' = log'[Len(log')].at + Window /\ expires' > now'
          BY <1>1, <2>3, <2>4
        <4>3. \A j \in Len(log') - Settled' + 2 .. Len(log') :
                 log'[j].at - log'[j - 1].at < Window
          BY <2>4, <3>2, <3>3, <4>1
        <4> QED
          BY <4>1, <4>2, <4>3 DEF StreakOK
      <3>5. RefusedWhenBusy'
        <4> SUFFICES ASSUME NEW i \in DOMAIN log', log'[i].answer = "refused"
                     PROVE  /\ i > Limit
                            /\ \A j \in i - Limit + 1 .. i : log'[j].at - log'[j - 1].at < Window
          BY DEF RefusedWhenBusy, Limiter!RefusedWhenBusy
        <4>1. CASE i = n + 1
          <5>1. count > Limit
            BY <1>2, <1>4, <1>6, <2>4, <4>1
          <5>2. i > Limit
            BY <2>3, <2>4, <3>1, <4>1, <5>1
          <5>3. ASSUME NEW j \in i - Limit + 1 .. i PROVE j \in n + 1 - count + 2 .. n + 1
            BY <2>3, <2>4, <4>1, <5>1
          <5> QED
            BY <3>3, <5>2, <5>3
        <4>2. CASE i # n + 1
          <5>1. i \in DOMAIN log /\ log[i].answer = "refused"
            BY <2>4, <4>2
          <5>2. /\ i > Limit
                /\ \A j \in i - Limit + 1 .. i : log[j].at - log[j - 1].at < Window
            BY <1>6, <2>12, <5>1 DEF LimiterInv, RefusedWhenBusy, Limiter!RefusedWhenBusy
          <5>3. ASSUME NEW j \in i - Limit + 1 .. i
                PROVE  log'[j] = log[j] /\ log'[j - 1] = log[j - 1]
            <6>1. n \in Nat /\ Limit \in Nat /\ i \in 1 .. n
              BY <2>3, <2>4, <5>1
            <6>2. j \in 1 .. n /\ j - 1 \in 1 .. n
              BY <5>2, <6>1
            <6> QED
              BY <2>4, <6>2
          <5> QED
            BY <5>2, <5>3
        <4> QED
          BY <4>1, <4>2
      <3> QED
        BY <1>4, <2>9, <2>10, <3>4, <3>5 DEF LimiterInv
    <2> QED
      BY <2>11, <2>12
  <1> QED
    BY <1>5, <1>6

-----------------------------------------------------------------------------
(* Redis fails *)

\* After a failure the streak is over, and what passed before is as it was.
LEMMA FailureStep ==
    ASSUME LimiterInv, NEW e \in [at : Nat, answer : Limiter!Answers],
           log' = Append(log, e), e.answer = "uncounted", failed' = TRUE,
           UNCHANGED <<now, count, split>>,
           ~split => e.at = now /\ Settled' >= Settled /\ Settled \in Nat /\ Settled' \in Nat,
           ~split => expires' = expires \/ expires' = now + Window
    PROVE  RecentOK' /\ StreakOK' /\ AtMostLimit' /\ RefusedWhenBusy'
  <1>1. Recent' = Recent /\ \A t : InWindow(t)' = InWindow(t)
    BY NotPassed DEF LimiterInv
  <1>2. StreakOK' /\ RefusedWhenBusy'
    BY DEF StreakOK, RefusedWhenBusy, Limiter!RefusedWhenBusy
  <1>3. AtMostLimit'
    <2>1. ~split => \A t \in 0 .. MaxTime : Cardinality(InWindow(t)') <= Limit
      BY <1>1, AtMostLimitDef DEF LimiterInv
    <2> QED
      BY <2>1, AtMostLimitNext
  <1>4. RecentOK'
    <2> SUFFICES ASSUME ~split' PROVE RecentOK'
      BY DEF RecentOK
    <2>a. ~split
      OBVIOUS
    <2>1. /\ \A i \in DOMAIN log : log[i].at <= now /\ log[i].at \in Nat
          /\ Cardinality(Recent) <= Settled
          /\ \A i \in Recent : expires # None /\ log[i].at + Window <= expires
          /\ now \in Nat /\ Window \in Nat
      BY <2>a, BoundAssumption, LogTimes DEF LimiterInv, LimiterTypes, RecentOK
    <2>2. /\ DOMAIN log' = DOMAIN log \cup {Len(log) + 1}
          /\ \A i \in DOMAIN log : log'[i] = log[i]
          /\ log'[Len(log) + 1] = e
      BY LogGrows DEF LimiterInv
    <2>3. \A i \in DOMAIN log' : log'[i].at <= now'
      BY <2>a, <2>1, <2>2
    <2>4. Cardinality(Recent') <= Settled'
      <3>1. IsFiniteSet(Recent)
        BY EntriesFinite DEF Recent, LimiterInv
      <3>2. Cardinality(Recent) \in Nat
        BY <3>1, FS_CardinalityType
      <3> QED
        BY <1>1, <2>a, <2>1, <3>2
    <2>5. \A i \in Recent' : expires' # None /\ log'[i].at + Window <= expires'
      <3> SUFFICES ASSUME NEW i \in Recent
                   PROVE  expires' # None /\ log'[i].at + Window <= expires'
        BY <1>1
      <3>1. i \in DOMAIN log /\ log'[i] = log[i]
        BY <2>2 DEF Recent
      <3>2. now + Window # None /\ log[i].at + Window <= now + Window
        BY <2>1, <3>1, NoneAssumption
      <3> QED
        BY <2>a, <2>1, <3>1, <3>2
    <2> QED
      BY <2>3, <2>4, <2>5 DEF RecentOK
  <1> QED
    BY <1>2, <1>3, <1>4

LEMMA PipelineFailsStep ==
    ASSUME LimiterInv, NEW r \in Reqs, Limiter!PipelineFails(r)
    PROVE  LimiterInv'
  <1>1. /\ r \in Counted /\ expires' \in {expires, Limiter!Renewed}
        /\ Limiter!Answered(r, "uncounted")
        /\ failed' = TRUE /\ UNCHANGED <<now, count, split>>
    BY LimiterIdle DEF Limiter!PipelineFails
  <1>2. expires' \in Nat \cup {None} /\ "uncounted" \in Limiter!Answers
    BY <1>1, RenewedLater DEF LimiterInv, LimiterTypes, Limiter!Answers
  <1>3. /\ LimiterTypes' /\ Alone' /\ counted[r].at \in Nat
        /\ ~split => /\ counted[r].at = now /\ count > 0
                     /\ Settled = count - 1 /\ Settled' = count
    BY <1>1, <1>2, LeaveStep
  <1> DEFINE e == [at |-> counted[r].at, answer |-> "uncounted"]
  <1>4. /\ e \in [at : Nat, answer : Limiter!Answers] /\ log' = Append(log, e)
        /\ e.answer = "uncounted" /\ e.at = counted[r].at
    BY <1>1, <1>2, <1>3 DEF Limiter!Answered
  <1> HIDE DEF e
  <1>5. count \in Nat
    BY DEF LimiterInv, LimiterTypes
  <1>6. ~split => e.at = now /\ Settled' >= Settled /\ Settled \in Nat /\ Settled' \in Nat
    BY <1>3, <1>4, <1>5
  <1>7. ~split => expires' = expires \/ expires' = now + Window
    BY <1>1, <1>3, RenewedLater
  <1>8. RecentOK' /\ StreakOK' /\ AtMostLimit' /\ RefusedWhenBusy'
    BY <1>1, <1>4, <1>6, <1>7, FailureStep
  <1> QED
    BY <1>3, <1>8 DEF LimiterInv

LEMMA RedisDownStep ==
    ASSUME LimiterInv, NEW r \in Reqs, Limiter!RedisDown(r)
    PROVE  LimiterInv'
  <1> DEFINE e == [at |-> now, answer |-> "uncounted"]
  <1>1. /\ log' = Append(log, e) /\ failed' = TRUE
        /\ UNCHANGED <<now, count, expires, counted, split>>
    BY DEF Limiter!RedisDown
  <1>2. e \in [at : Nat, answer : Limiter!Answers] /\ e.answer = "uncounted" /\ e.at = now
    BY DEF LimiterInv, LimiterTypes, Limiter!Answers
  <1> HIDE DEF e
  <1>3. Counted' = Counted /\ Settled' = Settled
    BY <1>1 DEF Counted, Limiter!InProgress, Settled
  <1>4. LimiterTypes' /\ Alone'
    <2>1. log' \in Seq([at : Nat, answer : Limiter!Answers])
      BY <1>1, <1>2, LogGrows DEF LimiterInv
    <2> QED
      BY <1>1, <1>3, <2>1 DEF LimiterInv, LimiterTypes, Alone
  <1>5. ~split => Settled \in Nat
    BY DEF LimiterInv, LimiterTypes, Alone, Settled
  <1>6. RecentOK' /\ StreakOK' /\ AtMostLimit' /\ RefusedWhenBusy'
    BY <1>1, <1>2, <1>3, <1>5, FailureStep
  <1> QED
    BY <1>4, <1>6 DEF LimiterInv

-----------------------------------------------------------------------------
(* Time passes *)

LEMMA TickStep ==
    ASSUME LimiterInv, Limiter!Tick
    PROVE  LimiterInv'
  <1>1. /\ now' = now + 1 /\ split' = (split \/ Counted # {})
        /\ IF expires = now + 1 THEN count' = 0 /\ expires' = None
           ELSE UNCHANGED <<count, expires>>
        /\ UNCHANGED <<counted, log, failed>>
    BY DEF Limiter!Tick, Limiter!Intervenes, Counted
  <1>2. /\ Counted' = Counted
        /\ ~split' => ~split /\ Counted = {}
    BY <1>1 DEF Counted, Limiter!InProgress
  <1>3. LimiterTypes' /\ Alone'
    BY <1>1, <1>2 DEF LimiterInv, LimiterTypes, Alone
  <1>4. now \in Nat /\ count \in Nat /\ Window \in Nat /\ LimiterTypes
    BY BoundAssumption DEF LimiterInv, LimiterTypes
  <1>5. ~split' => Settled = count /\ Settled' = count'
    BY <1>2 DEF Settled
  <1>6. \A i \in DOMAIN log : log[i].at \in Nat
    BY <1>4, LogTimes
  <1>7. Recent' \subseteq Recent
    BY <1>1, <1>4, <1>6 DEF Recent
  <1>8. RecentOK'
    <2> SUFFICES ASSUME ~split' PROVE RecentOK'
      BY DEF RecentOK
    <2>1. /\ \A i \in DOMAIN log : log[i].at <= now
          /\ Cardinality(Recent) <= count
          /\ \A i \in Recent : expires # None /\ log[i].at + Window <= expires
      BY <1>2, <1>5 DEF LimiterInv, RecentOK
    <2>2. \A i \in DOMAIN log' : log'[i].at <= now'
      BY <1>1, <1>4, <1>6, <2>1
    <2>3. CASE expires = now + 1
      <3>1. Recent' = {}
        <4> SUFFICES ASSUME NEW i \in Recent' PROVE FALSE
          OBVIOUS
        <4>1. i \in Recent /\ i \in DOMAIN log /\ log[i].at + Window > now + 1
          BY <1>1, <1>7 DEF Recent
        <4> QED
          BY <1>4, <1>6, <2>1, <2>3, <4>1
      <3> QED
        BY <1>1, <1>5, <2>2, <2>3, <3>1, FS_EmptySet DEF RecentOK
    <2>4. CASE expires # now + 1
      <3>1. IsFiniteSet(Recent)
        BY <1>4, EntriesFinite DEF Recent
      <3>2. Cardinality(Recent') <= Cardinality(Recent) /\ IsFiniteSet(Recent')
        BY <1>7, <3>1, FS_Subset
      <3>3. Cardinality(Recent') \in Nat /\ Cardinality(Recent) \in Nat
        BY <3>1, <3>2, FS_CardinalityType
      <3>4. Cardinality(Recent') <= Settled'
        BY <1>1, <1>4, <1>5, <2>1, <2>4, <3>2, <3>3
      <3> QED
        BY <1>1, <1>7, <2>1, <2>2, <2>4, <3>4 DEF RecentOK
    <2> QED
      BY <2>3, <2>4
  <1>9. StreakOK'
    <2> SUFFICES ASSUME ~split', ~failed' PROVE StreakOK'
      BY DEF StreakOK
    <2>1. /\ count <= Len(log) /\ Len(log) \in Nat
          /\ \A j \in Len(log) - count + 2 .. Len(log) : log[j].at - log[j - 1].at < Window
          /\ count > 0 => expires = log[Len(log)].at + Window /\ expires > now
      BY <1>1, <1>2, <1>4, <1>5 DEF LimiterInv, StreakOK, LimiterTypes
    <2>2. CASE expires = now + 1
      BY <1>1, <1>5, <2>1, <2>2 DEF StreakOK
    <2>3. CASE expires # now + 1
      <3>1. count > 0 => expires > now + 1
        <4> SUFFICES ASSUME count > 0 PROVE expires > now + 1
          OBVIOUS
        <4>1. Len(log) \in DOMAIN log
          BY <1>4, <2>1 DEF LimiterTypes
        <4>2. expires \in Nat
          BY <1>4, <1>6, <2>1, <4>1
        <4> QED
          BY <1>4, <2>1, <2>3, <4>2
      <3> QED
        BY <1>1, <1>4, <1>5, <2>1, <2>3, <3>1 DEF StreakOK
    <2> QED
      BY <2>2, <2>3
  <1>10. AtMostLimit' /\ RefusedWhenBusy'
    BY <1>1, <1>2 DEF LimiterInv, AtMostLimit, Limiter!AtMostLimit,
                      RefusedWhenBusy, Limiter!RefusedWhenBusy
  <1> QED
    BY <1>3, <1>8, <1>9, <1>10 DEF LimiterInv

-----------------------------------------------------------------------------

LEMMA LimiterInit == Limiter!Init => LimiterInv
  <1> SUFFICES ASSUME Limiter!Init PROVE LimiterInv
    OBVIOUS
  <1>1. /\ now = 0 /\ count = 0 /\ expires = None /\ log = <<>> /\ split = FALSE
        /\ counted = [r \in Reqs |-> Limiter!Idle]
    BY DEF Limiter!Init
  <1>2. Counted = {} /\ Recent = {} /\ DOMAIN log = {} /\ Len(log) = 0
    BY <1>1 DEF Counted, Limiter!InProgress, Recent
  <1>3. LimiterTypes /\ Alone
    BY <1>1, <1>2 DEF LimiterTypes, Alone, Limiter!Idle
  <1>4. RecentOK /\ StreakOK
    BY <1>1, <1>2, FS_EmptySet DEF RecentOK, StreakOK, Settled
  <1>5. AtMostLimit
    <2>1. \A t : InWindow(t) = {}
      BY <1>2 DEF InWindow
    <2> QED
      BY <2>1, FS_EmptySet, AtMostLimitDef, BoundAssumption
  <1>6. RefusedWhenBusy
    BY <1>2 DEF RefusedWhenBusy, Limiter!RefusedWhenBusy
  <1> QED
    BY <1>3, <1>4, <1>5, <1>6 DEF LimiterInv

LEMMA LimiterNext == LimiterInv /\ [Limiter!Next]_Limiter!vars => LimiterInv'
  <1> SUFFICES ASSUME LimiterInv, [Limiter!Next]_Limiter!vars PROVE LimiterInv'
    OBVIOUS
  <1>1. CASE UNCHANGED Limiter!vars
    BY <1>1 DEF Limiter!vars, LimiterInv, LimiterTypes, Alone, RecentOK, Recent, StreakOK, Settled,
                Counted, Limiter!InProgress, AtMostLimit, Limiter!AtMostLimit,
                RefusedWhenBusy, Limiter!RefusedWhenBusy
  <1>2. ASSUME NEW r \in Reqs, Limiter!Incr(r) \/ Limiter!Expire(r) PROVE LimiterInv'
    BY <1>2, IncrStep, ExpireStep
  <1>3. ASSUME NEW r \in Reqs, Limiter!PipelineFails(r) \/ Limiter!RedisDown(r) PROVE LimiterInv'
    BY <1>3, PipelineFailsStep, RedisDownStep
  <1> QED
    BY <1>1, <1>2, <1>3, TickStep DEF Limiter!Next

\* The history of the window and the counter in Redis agree in every reachable
\* state.
THEOREM LimiterInvariance == Limiter!Spec => []LimiterInv
  BY LimiterInit, LimiterNext, PTL DEF Limiter!Spec

\* Whatever the routes do with the requests, no window holds more of them than the
\* limit, unless something comes between the two commands of a pipeline.
THEOREM NeverOverLimit == SignInSpec => []AtMostLimit
  <1>1. LimiterInv => AtMostLimit
    BY DEF LimiterInv
  <1> QED
    BY <1>1, SignInImplementsLimiter, LimiterInvariance, PTL

\* While Redis works, whoever is refused has sent as many requests as the limit,
\* each less than a window after the one before.
THEOREM OnlyTheBusyRefused == SignInSpec => []RefusedWhenBusy
  <1>1. LimiterInv => RefusedWhenBusy
    BY DEF LimiterInv
  <1> QED
    BY <1>1, SignInImplementsLimiter, LimiterInvariance, PTL
=============================================================================
