------------------------------- MODULE UsersProofs -------------------------------
(***************************************************************************)
(* The properties of Users for every number of requests and documents.     *)
(*                                                                         *)
(* Rows are written back from copies as old as one likes, so the invariant *)
(* says of every copy what NothingInvented says of the row (Declared).     *)
(* BalanceKept needs no more than that Update leaves the balance out, and  *)
(* that a row which is gone reads as a fresh one (GoneIsFresh).            *)
(*                                                                         *)
(* OnlyOwnColumns needs more: a copy agrees with the row in every column   *)
(* that has not changed since it was read (Fresh).  ReviewHasFile needs to *)
(* know what stale copies may bring back: a row that waits for the review, *)
(* and by then there is a document, which only the deletion of the account *)
(* takes away (PendingOK).                                                 *)
(***************************************************************************)
EXTENDS Users, TLAPS

\* What a row says is among what was decided.
Declared(copy, decisions) ==
    /\ copy.kyc = "verified" => "verified" \in decisions
    /\ copy.status = "blocked" => "blocked" \in decisions
    /\ copy.sub = "active" => "subscribed" \in decisions

\* A request goes on with a copy that was once right; an upload has a document.
RequestOK(t, decisions) ==
    Declared(t.copy, decisions) /\ (t.kind = "upload" => t.doc \in Docs)

CopiesDecided == \A r \in Reqs : RequestOK(req[r], ever)

GoneIsFresh == ~exists => doc = None

IInv == TypeOK /\ Declared(row, ever) /\ CopiesDecided /\ GoneIsFresh /\ BalanceKept

-----------------------------------------------------------------------------

LEMMA RegisteredRow == Registered \in Row /\ Declared(Registered, ever)
  BY BoundAssumption DEF Registered, Row, KYC, Declared

LEMMA IdleRequest == Idle \in Request /\ Idle.copy = Registered /\ RequestOK(Idle, ever)
  BY RegisteredRow DEF Idle, Request, Kinds, RequestOK

LEMMA IInit == Init => IInv
  <1> SUFFICES ASSUME Init PROVE IInv
    OBVIOUS
  <1>1. CopiesDecided
    BY IdleRequest DEF Init, CopiesDecided
  <1>2. Declared(row, ever) /\ BalanceKept
    BY RegisteredRow DEF Init, BalanceKept, Registered
  <1> QED
    BY <1>1, <1>2, RegisteredRow, IdleRequest, BoundAssumption
       DEF Init, IInv, TypeOK, GoneIsFresh

LEMMA NextRequest ==
    ASSUME IInv, NEW r \in Reqs, NEW t \in Request, RequestOK(t, ever),
           req' = [req EXCEPT ![r] = t], ever \subseteq ever',
           ever' \subseteq {"verified", "blocked", "subscribed"} \cup Docs
    PROVE  req' \in [Reqs -> Request] /\ CopiesDecided'
  <1>1. \A q \in Reqs : req'[q] = t \/ req'[q] = req[q]
    BY DEF IInv, TypeOK
  <1>2. \A q \in Reqs : RequestOK(req[q], ever)
    BY DEF IInv, CopiesDecided
  <1> QED
    BY <1>1, <1>2 DEF IInv, TypeOK, CopiesDecided, RequestOK, Declared

\* The whole row is written, from such a copy.
LEMMA UpdateStep ==
    ASSUME IInv, NEW copy \in Row, Declared(copy, ever'), Update(copy),
           ever \subseteq ever', exists' = exists, credit' = credit
    PROVE  row' \in Row /\ Declared(row', ever') /\ BalanceKept'
  <1> DEFINE kept == [copy EXCEPT !.balance = row.balance]
  <1>1. row \in Row /\ Declared(row, ever) /\ row.balance = credit
    BY DEF IInv, TypeOK, BalanceKept
  <1>2. /\ kept \in Row /\ kept.balance = row.balance
        /\ kept.kyc = copy.kyc /\ kept.status = copy.status /\ kept.sub = copy.sub
    BY <1>1 DEF Row
  <1>3. row' = kept \/ row' = row
    BY DEF Update
  <1> HIDE DEF kept
  <1> QED
    BY <1>1, <1>2, <1>3 DEF Declared, BalanceKept

\* One column is written.
LEMMA SetStep ==
    ASSUME IInv, NEW column \in {"kyc", "sub", "balance"}, NEW value, Set(column, value),
           ever \subseteq ever', exists' = exists,
           column = "kyc" => /\ value \in KYC /\ credit' = credit
                             /\ value = "verified" => "verified" \in ever',
           column = "sub" => /\ value \in {"none", "active"} /\ credit' = credit
                             /\ value = "active" => "subscribed" \in ever',
           column = "balance" => value \in 0 .. MaxBalance /\ credit' = value
    PROVE  row' \in Row /\ Declared(row', ever') /\ BalanceKept'
  <1>1. row \in Row /\ Declared(row, ever) /\ row.balance = credit
    BY DEF IInv, TypeOK, BalanceKept
  <1>2. row' = [row EXCEPT ![column] = value]
    BY DEF Set
  <1>3. CASE column = "kyc"
    BY <1>1, <1>2, <1>3 DEF Row, Declared, BalanceKept
  <1>4. CASE column = "sub"
    BY <1>1, <1>2, <1>4 DEF Row, Declared, BalanceKept
  <1>5. CASE column = "balance"
    BY <1>1, <1>2, <1>5 DEF Row, Declared, BalanceKept
  <1> QED
    BY <1>3, <1>4, <1>5

-----------------------------------------------------------------------------
(* Requests *)

LEMMA ReadStep ==
    ASSUME IInv, before' \in [Columns -> SUBSET Reqs],
           NEW r \in Reqs, NEW kind \in Kinds \ {"upload"}, Read(r, kind)
    PROVE  IInv'
  <1> DEFINE t == [kind |-> kind, pc |-> "read", copy |-> row, doc |-> None]
  <1>1. t \in Request /\ RequestOK(t, ever)
    BY DEF IInv, TypeOK, Request, RequestOK
  <1>2. /\ req' = [req EXCEPT ![r] = t]
        /\ UNCHANGED <<row, exists, doc, files, credit, ever, refused>>
    BY DEF Read
  <1> HIDE DEF t
  <1>3. req' \in [Reqs -> Request] /\ CopiesDecided'
    BY <1>1, <1>2, NextRequest DEF IInv, TypeOK
  <1> QED
    BY <1>2, <1>3 DEF IInv, TypeOK, Declared, GoneIsFresh, BalanceKept

LEMMA IdleNext ==
    ASSUME IInv, NEW r \in Reqs, Finish(r), ever \subseteq ever',
           ever' \subseteq {"verified", "blocked", "subscribed"} \cup Docs
    PROVE  req' \in [Reqs -> Request] /\ CopiesDecided'
  <1>1. req' = [req EXCEPT ![r] = Idle]
    BY DEF Finish
  <1> QED
    BY <1>1, IdleRequest, NextRequest

LEMMA CopyRow ==
    ASSUME IInv, NEW r \in Reqs
    PROVE  /\ req[r] \in Request /\ req[r].copy \in Row
           /\ RequestOK(req[r], ever) /\ Declared(req[r].copy, ever)
  BY DEF IInv, TypeOK, CopiesDecided, Request, RequestOK

LEMMA WriteBackStep ==
    ASSUME IInv, before' \in [Columns -> SUBSET Reqs],
           NEW r \in Reqs, UpdateLastLogin(r) \/ UpdateProfile(r)
    PROVE  IInv'
  <1>1. /\ Update(req[r].copy) /\ Finish(r)
        /\ UNCHANGED <<exists, doc, files, credit, ever, refused>>
    BY DEF UpdateLastLogin, UpdateProfile
  <1>2. row' \in Row /\ Declared(row', ever') /\ BalanceKept'
    BY <1>1, CopyRow, UpdateStep
  <1>3. req' \in [Reqs -> Request] /\ CopiesDecided'
    BY <1>1, IdleNext DEF IInv, TypeOK
  <1> QED
    BY <1>1, <1>2, <1>3 DEF IInv, TypeOK, GoneIsFresh

LEMMA LinkProviderStep ==
    ASSUME IInv, before' \in [Columns -> SUBSET Reqs],
           NEW r \in Reqs, LinkProvider(r)
    PROVE  IInv'
  <1> DEFINE t == [req[r] EXCEPT !.kind = "login"]
  <1>1. /\ req[r] \in Request /\ req[r].copy \in Row
        /\ RequestOK(req[r], ever) /\ Declared(req[r].copy, ever)
    BY CopyRow
  <1>2. /\ Update(req[r].copy)
        /\ UNCHANGED <<exists, doc, files, credit, ever, refused>>
        /\ req' = [req EXCEPT ![r].kind = "login"]
    BY DEF LinkProvider
  <1>3. t \in Request /\ RequestOK(t, ever) /\ req' = [req EXCEPT ![r] = t]
    BY <1>1, <1>2 DEF Request, Kinds, IInv, TypeOK, RequestOK
  <1> HIDE DEF t
  <1>4. row' \in Row /\ Declared(row', ever') /\ BalanceKept'
    BY <1>1, <1>2, UpdateStep
  <1>5. req' \in [Reqs -> Request] /\ CopiesDecided'
    BY <1>1, <1>2, <1>3, NextRequest DEF IInv, TypeOK
  <1> QED
    BY <1>2, <1>4, <1>5 DEF IInv, TypeOK, GoneIsFresh

LEMMA UpdateUserStatusStep ==
    ASSUME IInv, before' \in [Columns -> SUBSET Reqs],
           NEW r \in Reqs, UpdateUserStatus(r)
    PROVE  IInv'
  <1>1. PICK status \in {"active", "blocked"} :
           /\ Update([req[r].copy EXCEPT !.status = status])
           /\ ever' = IF status = "blocked" THEN ever \cup {"blocked"} ELSE ever
    BY DEF UpdateUserStatus
  <1> DEFINE copy == [req[r].copy EXCEPT !.status = status]
  <1>2. Finish(r) /\ UNCHANGED <<exists, doc, files, credit, refused>>
    BY DEF UpdateUserStatus
  <1>3. req[r].copy \in Row /\ Declared(req[r].copy, ever)
    BY CopyRow
  <1>4. copy \in Row /\ Update(copy)
    BY <1>1, <1>3 DEF Row
  <1>5. Declared(copy, ever')
    BY <1>1, <1>3 DEF Row, Declared
  <1>6. /\ ever \subseteq ever'
        /\ ever' \subseteq {"verified", "blocked", "subscribed"} \cup Docs
    BY <1>1 DEF IInv, TypeOK
  <1> HIDE DEF copy
  <1>7. row' \in Row /\ Declared(row', ever') /\ BalanceKept'
    BY <1>2, <1>4, <1>5, <1>6, UpdateStep
  <1>8. req' \in [Reqs -> Request] /\ CopiesDecided'
    BY <1>2, <1>6, IdleNext
  <1> QED
    BY <1>2, <1>6, <1>7, <1>8 DEF IInv, TypeOK, GoneIsFresh

-----------------------------------------------------------------------------
(* Identity documents *)

LEMMA BeginUploadStep ==
    ASSUME IInv, before' \in [Columns -> SUBSET Reqs],
           NEW r \in Reqs, NEW d \in Docs, BeginUpload(r, d)
    PROVE  IInv'
  <1> DEFINE t == [Idle EXCEPT !.kind = "upload", !.pc = "read", !.doc = d]
  <1>1. t \in Request /\ RequestOK(t, ever)
    BY IdleRequest DEF Request, Kinds, RequestOK
  <1>2. /\ req' = [req EXCEPT ![r] = t] /\ ever' = ever \cup {d} /\ files' = files \cup {d}
        /\ UNCHANGED <<row, exists, doc, credit, refused>>
    BY DEF BeginUpload, IInv, TypeOK
  <1> HIDE DEF t
  <1>3. req' \in [Reqs -> Request] /\ CopiesDecided'
    BY <1>1, <1>2, RegisteredRow, NextRequest DEF IInv, TypeOK
  <1> QED
    BY <1>2, <1>3 DEF IInv, TypeOK, Declared, GoneIsFresh, BalanceKept

LEMMA SaveKYCDocumentStep ==
    ASSUME IInv, before' \in [Columns -> SUBSET Reqs],
           NEW r \in Reqs, SaveKYCDocument(r)
    PROVE  IInv'
  <1> DEFINE t == [req[r] EXCEPT !.pc = "saved"]
  <1>1. req[r] \in Request /\ RequestOK(req[r], ever)
    BY CopyRow
  <1>2. t \in Request /\ RequestOK(t, ever) /\ req[r].doc \in Docs \cup {None}
    BY <1>1 DEF Request, RequestOK
  <1>3. /\ req' = [req EXCEPT ![r] = t] /\ doc' = req[r].doc /\ exists
        /\ UNCHANGED <<row, exists, files, credit, ever, refused>>
    BY DEF SaveKYCDocument, IInv, TypeOK
  <1> HIDE DEF t
  <1>4. req' \in [Reqs -> Request] /\ CopiesDecided'
    BY <1>1, <1>2, <1>3, NextRequest DEF IInv, TypeOK
  <1> QED
    BY <1>2, <1>3, <1>4 DEF IInv, TypeOK, Declared, GoneIsFresh, BalanceKept

LEMMA SetPendingStep ==
    ASSUME IInv, before' \in [Columns -> SUBSET Reqs],
           NEW r \in Reqs, SetPending(r)
    PROVE  IInv'
  <1>1. /\ Set("kyc", "pending") /\ Finish(r)
        /\ UNCHANGED <<exists, doc, files, credit, ever, refused>>
    BY DEF SetPending
  <1>2. row' \in Row /\ Declared(row', ever') /\ BalanceKept'
    BY <1>1, SetStep DEF KYC
  <1>3. req' \in [Reqs -> Request] /\ CopiesDecided'
    BY <1>1, IdleNext DEF IInv, TypeOK
  <1> QED
    BY <1>1, <1>2, <1>3 DEF IInv, TypeOK, GoneIsFresh

\* The one statement a failing upload may leave behind.
LEMMA UploadFailsStep ==
    ASSUME IInv, before' \in [Columns -> SUBSET Reqs],
           NEW r \in Reqs, UploadFails(r)
    PROVE  IInv'
  <1>1. /\ Finish(r) /\ req[r].kind = "upload"
        /\ files' = files \ {req[r].doc} /\ refused' = refused \cup {req[r].doc}
        /\ UNCHANGED <<exists, credit, ever>>
    BY DEF UploadFails
  <1>2. req[r].doc \in Docs
    BY <1>1, CopyRow DEF RequestOK
  <1>3. row' \in Row /\ Declared(row', ever') /\ BalanceKept'
    <2>1. CASE row' = row
      BY <1>1, <2>1 DEF IInv, TypeOK, Declared, BalanceKept
    <2>2. CASE Set("kyc", "pending")
      BY <1>1, <2>2, SetStep DEF KYC
    <2> QED
      BY <2>1, <2>2 DEF UploadFails
  <1>4. req' \in [Reqs -> Request] /\ CopiesDecided'
    BY <1>1, IdleNext DEF IInv, TypeOK
  <1>5. doc' \in Docs \cup {None} /\ (~exists => doc' = None)
    BY <1>2 DEF UploadFails, Set, IInv, TypeOK, GoneIsFresh
  <1> QED
    BY <1>1, <1>2, <1>3, <1>4, <1>5 DEF IInv, TypeOK, GoneIsFresh

LEMMA RequestCutStep ==
    ASSUME IInv, before' \in [Columns -> SUBSET Reqs],
           NEW r \in Reqs, RequestCut(r)
    PROVE  IInv'
  <1>1. Finish(r) /\ UNCHANGED <<row, exists, doc, files, credit, ever, refused>>
    BY DEF RequestCut
  <1>2. req' \in [Reqs -> Request] /\ CopiesDecided'
    BY <1>1, IdleNext DEF IInv, TypeOK
  <1> QED
    BY <1>1, <1>2 DEF IInv, TypeOK, Declared, GoneIsFresh, BalanceKept

LEMMA ReviewStep ==
    ASSUME IInv, before' \in [Columns -> SUBSET Reqs], AdminStep
    PROVE  IInv'
  <1>1. PICK kyc \in {"verified", "rejected"} :
           /\ Set("kyc", kyc)
           /\ ever \subseteq ever' /\ ever' \subseteq ever \cup {"verified"}
           /\ kyc = "verified" => "verified" \in ever'
    BY DEF AdminStep, AdminApprove, AdminReject, Review
  <1>2. UNCHANGED <<exists, doc, files, req, credit, refused>>
    BY DEF AdminStep, AdminApprove, AdminReject, Review
  <1>3. row' \in Row /\ Declared(row', ever') /\ BalanceKept'
    BY <1>1, <1>2, SetStep DEF KYC
  <1>4. CopiesDecided'
    BY <1>1, <1>2 DEF IInv, CopiesDecided, RequestOK, Declared
  <1>5. TypeOK'
    BY <1>1, <1>2, <1>3 DEF IInv, TypeOK
  <1> QED
    BY <1>2, <1>3, <1>4, <1>5 DEF IInv, GoneIsFresh

LEMMA StutterStep ==
    ASSUME IInv, UNCHANGED vars
    PROVE  IInv'
  BY DEF IInv, TypeOK, vars, CopiesDecided, Declared, GoneIsFresh, BalanceKept

-----------------------------------------------------------------------------
(* The other writers *)

LEMMA UpdateSubscriptionStatusStep ==
    ASSUME IInv, before' \in [Columns -> SUBSET Reqs],
           NEW sub \in {"none", "active"}, UpdateSubscriptionStatus(sub)
    PROVE  IInv'
  <1>1. /\ Set("sub", sub)
        /\ ever \subseteq ever' /\ ever' \subseteq ever \cup {"subscribed"}
        /\ sub = "active" => "subscribed" \in ever'
        /\ UNCHANGED <<exists, doc, files, req, credit, refused>>
    BY DEF UpdateSubscriptionStatus, IInv, TypeOK
  <1>2. row' \in Row /\ Declared(row', ever') /\ BalanceKept'
    BY <1>1, SetStep
  <1>3. CopiesDecided'
    BY <1>1 DEF IInv, CopiesDecided, RequestOK, Declared
  <1>4. TypeOK'
    BY <1>1, <1>2 DEF IInv, TypeOK
  <1> QED
    BY <1>1, <1>2, <1>3, <1>4 DEF IInv, GoneIsFresh

LEMMA ChangeBalanceStep ==
    ASSUME IInv, before' \in [Columns -> SUBSET Reqs],
           NEW balance \in 0 .. MaxBalance, ChangeBalance(balance)
    PROVE  IInv'
  <1>1. /\ Set("balance", balance) /\ credit' = balance
        /\ UNCHANGED <<exists, doc, files, req, ever, refused>>
    BY DEF ChangeBalance, IInv, TypeOK
  <1>2. row' \in Row /\ Declared(row', ever') /\ BalanceKept'
    BY <1>1, SetStep
  <1>3. CopiesDecided'
    BY <1>1 DEF IInv, CopiesDecided, RequestOK, Declared
  <1>4. TypeOK'
    BY <1>1, <1>2 DEF IInv, TypeOK
  <1> QED
    BY <1>1, <1>2, <1>3, <1>4 DEF IInv, GoneIsFresh

LEMMA DeleteAccountStep ==
    ASSUME IInv, before' \in [Columns -> SUBSET Reqs],
           DeleteAccount
    PROVE  IInv'
  <1>1. /\ exists' = FALSE /\ row' = Registered /\ credit' = 0 /\ doc' = None
        /\ UNCHANGED <<files, req, ever, refused>>
    BY DEF DeleteAccount, IInv, TypeOK
  <1>2. Registered \in Row /\ Declared(Registered, ever) /\ Registered.balance = 0
    BY RegisteredRow DEF Registered
  <1>3. 0 \in 0 .. MaxBalance
    BY BoundAssumption
  <1>4. TypeOK'
    BY <1>1, <1>2, <1>3 DEF IInv, TypeOK
  <1>5. CopiesDecided' /\ Declared(row', ever')
    BY <1>1, <1>2 DEF IInv, CopiesDecided, RequestOK, Declared
  <1> QED
    BY <1>1, <1>2, <1>4, <1>5 DEF IInv, GoneIsFresh, BalanceKept

LEMMA INext == IInv /\ [Next]_vars => IInv'
  <1> SUFFICES ASSUME IInv, [Next]_vars PROVE IInv'
    OBVIOUS
  <1>0. before' \in [Columns -> SUBSET Reqs]
    <2>1. CASE Remember
      BY <2>1 DEF Remember
    <2>2. CASE UNCHANGED vars
      BY <2>2 DEF vars, IInv, TypeOK
    <2> QED
      BY <2>1, <2>2 DEF Next
  <1>1. ASSUME NEW r \in Reqs,
               \/ BeginLogin(r) \/ BeginLink(r) \/ BeginUpdateProfile(r)
               \/ BeginUpdateUserStatus(r)
        PROVE  IInv'
    <2>1. PICK kind \in Kinds \ {"upload"} : Read(r, kind)
      BY <1>1 DEF BeginLogin, BeginLink, BeginUpdateProfile, BeginUpdateUserStatus, Kinds
    <2> QED
      BY <1>0, <2>1, ReadStep
  <1>2. ASSUME NEW r \in Reqs,
               \/ UpdateLastLogin(r) \/ LinkProvider(r) \/ UpdateProfile(r)
               \/ UpdateUserStatus(r)
        PROVE  IInv'
    BY <1>0, <1>2, WriteBackStep, LinkProviderStep, UpdateUserStatusStep
  <1>3. ASSUME NEW r \in Reqs, (\E d \in Docs : BeginUpload(r, d)) \/ SaveKYCDocument(r)
        PROVE  IInv'
    BY <1>0, <1>3, BeginUploadStep, SaveKYCDocumentStep
  <1>4. ASSUME NEW r \in Reqs, SetPending(r) \/ UploadFails(r) \/ RequestCut(r)
        PROVE  IInv'
    BY <1>0, <1>4, SetPendingStep, UploadFailsStep, RequestCutStep
  <1>5. CASE RequestStep
    BY <1>1, <1>2, <1>3, <1>4, <1>5 DEF RequestStep
  <1>6. CASE AdminStep
    BY <1>0, <1>6, ReviewStep
  <1>7. CASE OtherStep
    BY <1>0, <1>7, UpdateSubscriptionStatusStep, ChangeBalanceStep, DeleteAccountStep, StutterStep
       DEF OtherStep, AutoVerify
  <1> QED
    BY <1>5, <1>6, <1>7, StutterStep DEF Next

-----------------------------------------------------------------------------
(* The theorems *)

\* The inductive invariant holds in every reachable state.
THEOREM Invariance == Spec => []IInv
  BY IInit, INext, PTL DEF Spec

\* Every variable keeps its type, whatever requests, documents and
\* administrators there are.
THEOREM TypeCorrect == Spec => []TypeOK
  <1>1. IInv => TypeOK
    BY DEF IInv
  <1> QED
    BY <1>1, Invariance, PTL

\* userRepo.Update leaves the balance out, so no number of stale copies
\* loses a credit or a fee.
THEOREM BalanceAlwaysKept == Spec => []BalanceKept
  <1>1. IInv => BalanceKept
    BY DEF IInv
  <1> QED
    BY <1>1, Invariance, PTL

\* However old the copies userRepo.Update writes back, an account is
\* verified, blocked or subscribed only if somebody decided so.
THEOREM NothingEverInvented == Spec => []NothingInvented
  <1>1. IInv => NothingInvented
    BY DEF IInv, Declared, NothingInvented
  <1> QED
    BY <1>1, Invariance, PTL

\* Every statement is of a row that is there: a request that outlives the
\* account changes nothing.
LEMMA GoneStep == IInv /\ [Next]_vars => (~exists => ~exists' /\ row' = row /\ doc' = None)
  <1> SUFFICES ASSUME IInv, [Next]_vars, ~exists
               PROVE  ~exists' /\ row' = row /\ doc' = None
    OBVIOUS
  <1>1. doc = None
    BY DEF IInv, GoneIsFresh
  <1>2. CASE RequestStep
    <2>1. ASSUME NEW copy, Update(copy) PROVE row' = row
      BY <2>1 DEF Update
    <2>2. PICK r \in Reqs :
             \/ BeginLogin(r) \/ BeginLink(r) \/ BeginUpdateProfile(r)
             \/ BeginUpdateUserStatus(r)
             \/ UpdateLastLogin(r) \/ LinkProvider(r) \/ UpdateProfile(r)
             \/ UpdateUserStatus(r)
             \/ \E d \in Docs : BeginUpload(r, d)
             \/ SaveKYCDocument(r) \/ SetPending(r) \/ UploadFails(r) \/ RequestCut(r)
      BY <1>2 DEF RequestStep
    <2>3. CASE UpdateLastLogin(r) \/ LinkProvider(r) \/ UpdateProfile(r) \/ UpdateUserStatus(r)
      BY <1>1, <2>1, <2>3 DEF UpdateLastLogin, LinkProvider, UpdateProfile, UpdateUserStatus
    <2>4. CASE UploadFails(r) \/ RequestCut(r)
      BY <1>1, <2>4 DEF UploadFails, RequestCut, Set
    <2>5. ~(BeginLogin(r) \/ BeginLink(r) \/ BeginUpdateProfile(r) \/ BeginUpdateUserStatus(r))
      BY DEF BeginLogin, BeginLink, BeginUpdateProfile, BeginUpdateUserStatus, Read
    <2>6. ~((\E d \in Docs : BeginUpload(r, d)) \/ SaveKYCDocument(r) \/ SetPending(r))
      BY DEF BeginUpload, SaveKYCDocument, SetPending
    <2> QED
      BY <2>2, <2>3, <2>4, <2>5, <2>6
  <1>3. CASE AdminStep
    BY <1>1, <1>3 DEF AdminStep, AdminApprove, AdminReject, Review, Set
  <1>4. CASE OtherStep
    BY <1>1, <1>4 DEF OtherStep, AutoVerify, UpdateSubscriptionStatus, ChangeBalance, Set,
       DeleteAccount
  <1>5. CASE UNCHANGED vars
    BY <1>1, <1>5 DEF vars
  <1> QED
    BY <1>2, <1>3, <1>4, <1>5 DEF Next

\* What was deleted stays deleted.
THEOREM DeletedStaysDeleted == Spec => DeletedIsGone
  BY Invariance, GoneStep, PTL DEF Spec, DeletedIsGone

-----------------------------------------------------------------------------
(* Copies and columns *)

\* What a request relies on when it writes: a copy of the column as it is now, or,
\* for an upload, that the user was not verified.
Current(t, c) ==
    /\ t.kind \in Kinds \ {"upload"} => t.copy[c] = row[c]
    /\ t.kind = "upload" /\ c = "kyc" => row.kyc # "verified"

Fresh == \A r \in Reqs, c \in Columns : r \notin before[c] => Current(req[r], c)

IdleIsNone == \A r \in Reqs : ~Running(r) => req[r] = Idle

FInv == IInv /\ IdleIsNone /\ Fresh

LEMMA IdleCurrent == Idle.pc = "idle" /\ \A c : Current(Idle, c)
  BY DEF Idle, Current, Kinds

LEMMA FInit == Init => FInv
  <1> SUFFICES ASSUME Init PROVE FInv
    OBVIOUS
  <1>1. \A r \in Reqs : req[r] = Idle
    BY DEF Init
  <1> QED
    BY <1>1, IInit, IdleCurrent DEF FInv, IdleIsNone, Fresh

\* What a step writes makes every other request old in the columns it changes.
LEMMA OthersAge ==
    ASSUME FInv, Remember, NEW q \in Reqs, req'[q] = req[q], NEW c \in Columns,
           q \notin before'[c]
    PROVE  Current(req[q], c)'
  <1>1. CASE ~Running(q)
    BY <1>1, IdleCurrent DEF FInv, IdleIsNone, Current, Idle, Kinds
  <1>2. CASE Running(q)
    <2>1. q \notin before[c] /\ row'[c] = row[c]
      BY <1>2 DEF Remember, Running
    <2>2. Current(req[q], c)
      BY <2>1 DEF FInv, Fresh
    <2> QED
      BY <2>1, <2>2 DEF Current
  <1> QED
    BY <1>1, <1>2

\* One request goes on, current where it was or where it has just become so.
LEMMA ActorStep ==
    ASSUME FInv, Remember, NEW r \in Reqs, NEW t, req' = [req EXCEPT ![r] = t],
           t.pc = "idle" => t = Idle,
           \A c \in Columns : r \notin before'[c] => Current(t, c)'
    PROVE  IdleIsNone' /\ Fresh'
  <1>1. req'[r] = t /\ \A q \in Reqs \ {r} : req'[q] = req[q]
    BY DEF FInv, IInv, TypeOK
  <1>2. IdleIsNone'
    BY <1>1 DEF FInv, IdleIsNone, Running
  <1>3. ASSUME NEW q \in Reqs, NEW c \in Columns, q \notin before'[c]
        PROVE  Current(req[q], c)'
    BY <1>1, <1>3, OthersAge DEF Current
  <1> QED
    BY <1>2, <1>3 DEF Fresh

LEMMA NobodyStep ==
    ASSUME FInv, Remember, req' = req
    PROVE  IdleIsNone' /\ Fresh'
  <1>1. IdleIsNone'
    BY DEF FInv, IdleIsNone, Running
  <1>2. Fresh'
    BY OthersAge DEF Fresh
  <1> QED
    BY <1>1, <1>2

\* A request that writes nothing, and runs on, keeps what it had.
LEMMA StillCurrent ==
    ASSUME FInv, Remember, NEW r \in Reqs, Running(r)', NEW c \in Columns,
           r \notin before'[c]
    PROVE  Current(req[r], c)
  BY DEF Remember, FInv, Fresh

LEMMA FinishFresh ==
    ASSUME FInv, Remember, NEW r \in Reqs, Finish(r)
    PROVE  IdleIsNone' /\ Fresh'
  <1>1. req' = [req EXCEPT ![r] = Idle]
    BY DEF Finish
  <1>2. \A c \in Columns : Current(Idle, c)'
    BY DEF Idle, Current, Kinds
  <1> QED
    BY <1>1, <1>2, ActorStep

LEMMA ReadFresh ==
    ASSUME FInv, Remember, NEW r \in Reqs, NEW kind \in Kinds \ {"upload"}, Read(r, kind)
    PROVE  IdleIsNone' /\ Fresh'
  <1>0. PICK t : t = [kind |-> kind, pc |-> "read", copy |-> row, doc |-> None]
    OBVIOUS
  <1>1. req' = [req EXCEPT ![r] = t] /\ row' = row
    BY <1>0 DEF Read
  <1>2. t.kind # "upload" /\ t.pc = "read" /\ t.copy = row
    BY <1>0
  <1>3. \A c \in Columns : t.copy[c] = row'[c]
    BY <1>1, <1>2
  <1>4. \A c \in Columns : Current(t, c)'
    BY <1>2, <1>3 DEF Current
  <1> QED
    BY <1>1, <1>2, <1>4, ActorStep

LEMMA BeginUploadFresh ==
    ASSUME FInv, Remember, NEW r \in Reqs, NEW d \in Docs, BeginUpload(r, d)
    PROVE  IdleIsNone' /\ Fresh'
  <1> DEFINE t == [Idle EXCEPT !.kind = "upload", !.pc = "read", !.doc = d]
  <1>1. req' = [req EXCEPT ![r] = t] /\ row' = row /\ row.kyc # "verified"
    BY DEF BeginUpload
  <1>2. t.kind = "upload" /\ t.pc = "read"
    BY DEF Idle
  <1> HIDE DEF t
  <1>3. \A c \in Columns : Current(t, c)'
    BY <1>1, <1>2 DEF Current
  <1> QED
    BY <1>1, <1>2, <1>3, ActorStep

LEMMA SaveKYCDocumentFresh ==
    ASSUME FInv, Remember, NEW r \in Reqs, SaveKYCDocument(r)
    PROVE  IdleIsNone' /\ Fresh'
  <1>0. PICK t : t = [req[r] EXCEPT !.pc = "saved"]
    OBVIOUS
  <1>1. req[r] \in Request
    BY CopyRow DEF FInv
  <1>2. t.kind = "upload" /\ t.pc = "saved" /\ req[r].kind = "upload"
    BY <1>0, <1>1 DEF SaveKYCDocument, Request
  <1>3. req' = [req EXCEPT ![r] = t] /\ row' = row
    BY <1>0 DEF SaveKYCDocument, FInv, IInv, TypeOK
  <1>4. req'[r] = t /\ Running(r)'
    BY <1>2, <1>3 DEF FInv, IInv, TypeOK, Running
  <1>5. ASSUME NEW c \in Columns, r \notin before'[c] PROVE Current(t, c)'
    BY <1>2, <1>3, <1>4, <1>5, StillCurrent DEF Current
  <1> QED
    BY <1>2, <1>3, <1>5, ActorStep

\* After an Update the copy is the row, but for the balance.
LEMMA LinkProviderFresh ==
    ASSUME FInv, Remember, NEW r \in Reqs, LinkProvider(r)
    PROVE  IdleIsNone' /\ Fresh'
  <1>0. PICK t : t = [req[r] EXCEPT !.kind = "login"]
    OBVIOUS
  <1>1. req[r] \in Request /\ req[r].copy \in Row
    BY CopyRow DEF FInv
  <1>2. t.kind = "login" /\ t.copy = req[r].copy /\ t.pc = req[r].pc /\ t.pc # "idle"
    BY <1>0, <1>1 DEF LinkProvider, Request, FInv, IdleIsNone, Running, Idle
  <1>3. req' = [req EXCEPT ![r] = t] /\ Update(req[r].copy) /\ req[r].kind = "link"
    BY <1>0 DEF LinkProvider, FInv, IInv, TypeOK
  <1>4. req'[r] = t /\ Running(r)'
    BY <1>2, <1>3 DEF FInv, IInv, TypeOK, Running
  <1>5. ASSUME NEW c \in Columns, r \notin before'[c] PROVE t.copy[c] = row'[c]
    <2>1. req[r].copy[c] = row[c]
      BY <1>3, <1>4, <1>5, StillCurrent DEF Current, Kinds
    <2>2. CASE exists
      BY <1>1, <1>2, <1>3, <2>2 DEF Update, Row, Columns
    <2>3. CASE ~exists
      BY <1>2, <1>3, <2>1, <2>3 DEF Update
    <2> QED
      BY <2>2, <2>3
  <1>6. \A c \in Columns : r \notin before'[c] => Current(t, c)'
    BY <1>2, <1>5 DEF Current
  <1> QED
    BY <1>2, <1>3, <1>6, ActorStep

LEMMA FNext == FInv /\ [Next]_vars => FInv'
  <1> SUFFICES ASSUME FInv, [Next]_vars PROVE FInv'
    OBVIOUS
  <1>1. IInv'
    BY INext DEF FInv
  <1>2. CASE UNCHANGED vars
    BY <1>1, <1>2 DEF vars, FInv, IdleIsNone, Running, Fresh, Current
  <1>3. ASSUME RequestStep, Remember PROVE FInv'
    <2>1. PICK r \in Reqs :
             \/ \E kind \in Kinds \ {"upload"} : Read(r, kind)
             \/ Finish(r)
             \/ LinkProvider(r) \/ SaveKYCDocument(r)
             \/ \E d \in Docs : BeginUpload(r, d)
      BY <1>3 DEF RequestStep, BeginLogin, BeginLink, BeginUpdateProfile,
                  BeginUpdateUserStatus, Kinds, UpdateLastLogin, UpdateProfile,
                  UpdateUserStatus, SetPending, UploadFails, RequestCut
    <2> QED
      BY <1>1, <1>3, <2>1, ReadFresh, FinishFresh, LinkProviderFresh,
         SaveKYCDocumentFresh, BeginUploadFresh DEF FInv
  <1>4. ASSUME AdminStep \/ OtherStep, Remember, ~UNCHANGED vars PROVE FInv'
    <2>1. req' = req
      BY <1>4 DEF AdminStep, AdminApprove, AdminReject, Review, OtherStep, AutoVerify,
                  UpdateSubscriptionStatus, ChangeBalance, DeleteAccount
    <2> QED
      BY <1>1, <1>4, <2>1, NobodyStep DEF FInv
  <1> QED
    BY <1>2, <1>3, <1>4 DEF Next

\* A request that writes changes its own columns, and those it is old in.
OwnColumns ==
    \A r \in Reqs : req'[r] # req[r] =>
        \A c \in Columns : row'[c] # row[c] =>
            c \in ColumnsOf(req[r].kind) \/ r \in before[c]

\* An Update from a copy that is current in a column leaves the column.
LEMMA CurrentUpdate ==
    ASSUME FInv, NEW r \in Reqs, req[r].kind \in Kinds \ {"upload"},
           NEW status, Update([req[r].copy EXCEPT !.status = status]),
           NEW c \in Columns, row'[c] # row[c], r \notin before[c]
    PROVE  c = "status" /\ status # req[r].copy.status
  <1>1. req[r].copy \in Row /\ req[r].copy[c] = row[c]
    BY CopyRow DEF FInv, Fresh, Current
  <1> QED
    BY <1>1 DEF Update, Row, Columns

LEMMA OwnColumnsStep == FInv /\ [Next]_vars => OwnColumns
  <1> SUFFICES ASSUME FInv, [Next]_vars, NEW r \in Reqs, req'[r] # req[r],
                      NEW c \in Columns, row'[c] # row[c], r \notin before[c]
               PROVE  c \in ColumnsOf(req[r].kind)
    BY DEF OwnColumns
  <1>1. RequestStep
    BY DEF Next, vars, AdminStep, AdminApprove, AdminReject, Review, OtherStep, AutoVerify,
           UpdateSubscriptionStatus, ChangeBalance, DeleteAccount
  <1>2. PICK q \in Reqs :
             \/ \E kind \in Kinds : Read(q, kind)
             \/ UpdateLastLogin(q) \/ LinkProvider(q) \/ UpdateProfile(q)
             \/ UpdateUserStatus(q)
             \/ \E d \in Docs : BeginUpload(q, d)
             \/ SaveKYCDocument(q) \/ SetPending(q) \/ UploadFails(q) \/ RequestCut(q)
    BY <1>1 DEF RequestStep, BeginLogin, BeginLink, BeginUpdateProfile,
                BeginUpdateUserStatus, Kinds
  <1>3. q = r
    <2>1. \/ \E t : req' = [req EXCEPT ![q] = t]
          \/ req' = [req EXCEPT ![q].kind = "login"]
          \/ req' = [req EXCEPT ![q].pc = "saved"]
      BY <1>2 DEF Read, UpdateLastLogin, LinkProvider, UpdateProfile, UpdateUserStatus,
                  BeginUpload, SaveKYCDocument, SetPending, UploadFails, RequestCut, Finish
    <2> QED
      BY <2>1 DEF FInv, IInv, TypeOK
  <1>4. req[r] \in Request /\ req[r].copy \in Row
    BY CopyRow DEF FInv
  <1>5. CASE UpdateLastLogin(r) \/ LinkProvider(r) \/ UpdateProfile(r)
    <2>1. req[r].kind \in Kinds \ {"upload"} /\ Update(req[r].copy)
      BY <1>5 DEF UpdateLastLogin, LinkProvider, UpdateProfile, Kinds
    <2>2. req[r].copy = [req[r].copy EXCEPT !.status = req[r].copy.status]
      BY <1>4 DEF Row
    <2> QED
      BY <2>1, <2>2, CurrentUpdate
  <1>6. CASE UpdateUserStatus(r)
    <2>1. PICK status : Update([req[r].copy EXCEPT !.status = status])
      BY <1>6 DEF UpdateUserStatus
    <2>2. req[r].kind = "status"
      BY <1>6 DEF UpdateUserStatus
    <2>3. c = "status"
      BY <2>1, <2>2, CurrentUpdate DEF Kinds
    <2> QED
      BY <2>2, <2>3 DEF ColumnsOf
  <1>7. CASE SetPending(r) \/ UploadFails(r)
    <2>1. req[r].kind = "upload" /\ Set("kyc", "pending")
      BY <1>7 DEF SetPending, UploadFails
    <2>2. c = "kyc"
      BY <2>1 DEF Set, Columns, FInv, IInv, TypeOK, Row
    <2>3. row.kyc # "verified"
      BY <2>1, <2>2 DEF FInv, Fresh, Current
    <2> QED
      BY <2>1, <2>2, <2>3 DEF ColumnsOf
  <1>8. CASE \/ \E kind \in Kinds : Read(r, kind)
             \/ \E d \in Docs : BeginUpload(r, d)
             \/ SaveKYCDocument(r) \/ RequestCut(r)
    BY <1>8 DEF Read, BeginUpload, SaveKYCDocument, RequestCut
  <1> QED
    BY <1>2, <1>3, <1>5, <1>6, <1>7, <1>8

\* Whatever overlaps, a request undoes no decision that was made before it began.
THEOREM RequestsKeepToTheirColumns == Spec => OnlyOwnColumns
  BY FInit, FNext, OwnColumnsStep, PTL DEF Spec, OnlyOwnColumns, OwnColumns

-----------------------------------------------------------------------------
(* Documents and their files *)

\* A file is removed only with the upload it belongs to refused.
Kept(d) == d \in files \cup refused

UploadOK(t) ==
    t.kind = "upload" => Kept(t.doc) /\ (t.pc = "saved" /\ exists => doc # None)

PendingOK ==
    /\ \A r \in Reqs : UploadOK(req[r])
    /\ doc # None => Kept(doc)
    /\ row.kyc = "pending" => exists /\ doc # None
    /\ \A r \in Reqs : req[r].copy.kyc = "pending" /\ exists => doc # None

DInv == IInv /\ PendingOK

LEMMA DInit == Init => DInv
  BY IInit DEF Init, DInv, PendingOK, UploadOK, Idle, Registered

\* One request goes on; the others keep their files and the document.
LEMMA DocumentStep ==
    ASSUME DInv, NEW r \in Reqs, NEW t, req' = [req EXCEPT ![r] = t],
           files \cup refused \subseteq files' \cup refused', exists' = exists,
           doc # None => doc' # None, doc' # None => Kept(doc)',
           row'.kyc = "pending" => exists /\ doc' # None,
           t.copy.kyc = "pending" /\ exists => doc' # None,
           UploadOK(t)'
    PROVE  PendingOK'
  <1>1. req'[r] = t /\ \A q \in Reqs \ {r} : req'[q] = req[q]
    BY DEF DInv, IInv, TypeOK
  <1>2. \A q \in Reqs : UploadOK(req[q])'
    BY <1>1 DEF DInv, PendingOK, UploadOK, Kept
  <1>3. \A q \in Reqs : req'[q].copy.kyc = "pending" /\ exists' => doc' # None
    BY <1>1 DEF DInv, PendingOK
  <1> QED
    BY <1>2, <1>3 DEF PendingOK

\* The row is written from a copy, which was waiting for the review at most when
\* there was a document.
LEMMA PendingWritten ==
    ASSUME DInv, NEW r \in Reqs, NEW status,
           \/ Update(req[r].copy)
           \/ Update([req[r].copy EXCEPT !.status = status]),
           row'.kyc = "pending"
    PROVE  exists /\ doc # None
  <1>1. req[r].copy \in Row
    BY CopyRow DEF DInv
  <1>2. \/ row' = row
        \/ exists /\ row'.kyc = req[r].copy.kyc
    BY <1>1 DEF Update, Row
  <1> QED
    BY <1>2 DEF DInv, PendingOK

LEMMA DNext == DInv /\ [Next]_vars => DInv'
  <1> SUFFICES ASSUME DInv, [Next]_vars PROVE DInv'
    OBVIOUS
  <1>1. IInv' /\ IInv
    BY INext DEF DInv
  <1>2. PendingOK
    BY DEF DInv
  <1>3. Idle.kind # "upload" /\ Idle.copy.kyc # "pending"
    BY DEF Idle, Registered
  <1>4. CASE UNCHANGED vars
    BY <1>1, <1>2, <1>4 DEF vars, DInv, PendingOK, UploadOK, Kept
  <1>5. ASSUME NEW r \in Reqs, NEW kind \in Kinds \ {"upload"}, Read(r, kind)
        PROVE  PendingOK'
    <2> DEFINE t == [kind |-> kind, pc |-> "read", copy |-> row, doc |-> None]
    <2>1. /\ req' = [req EXCEPT ![r] = t]
          /\ UNCHANGED <<row, exists, doc, files, refused>>
      BY <1>5 DEF Read
    <2>2. t.kind # "upload" /\ t.copy = row
      OBVIOUS
    <2> HIDE DEF t
    <2> QED
      BY <1>2, <2>1, <2>2, DocumentStep DEF PendingOK, UploadOK, Kept
  <1>6. ASSUME NEW r \in Reqs, \/ UpdateLastLogin(r) \/ UpdateProfile(r)
                               \/ UpdateUserStatus(r)
        PROVE  PendingOK'
    <2>1. /\ req' = [req EXCEPT ![r] = Idle]
          /\ UNCHANGED <<exists, doc, files, refused>>
      BY <1>6 DEF UpdateLastLogin, UpdateProfile, UpdateUserStatus, Finish
    <2>2. PICK status : \/ Update(req[r].copy)
                        \/ Update([req[r].copy EXCEPT !.status = status])
      BY <1>6 DEF UpdateLastLogin, UpdateProfile, UpdateUserStatus
    <2>3. row'.kyc = "pending" => exists /\ doc # None
      BY <2>2, PendingWritten
    <2> QED
      BY <1>2, <1>3, <2>1, <2>3, DocumentStep DEF PendingOK, UploadOK, Kept
  <1>7. ASSUME NEW r \in Reqs, LinkProvider(r)
        PROVE  PendingOK'
    <2> DEFINE t == [req[r] EXCEPT !.kind = "login"]
    <2>1. req[r] \in Request
      BY CopyRow DEF DInv
    <2>2. t.kind # "upload" /\ t.copy = req[r].copy
      BY <2>1 DEF Request
    <2>3. /\ req' = [req EXCEPT ![r] = t] /\ Update(req[r].copy)
          /\ UNCHANGED <<exists, doc, files, refused>>
      BY <1>1, <1>7 DEF LinkProvider, IInv, TypeOK
    <2> HIDE DEF t
    <2>4. row'.kyc = "pending" => exists /\ doc # None
      BY <2>3, PendingWritten
    <2> QED
      BY <1>2, <2>2, <2>3, <2>4, DocumentStep DEF PendingOK, UploadOK, Kept
  <1>8. ASSUME NEW r \in Reqs, NEW d \in Docs, BeginUpload(r, d)
        PROVE  PendingOK'
    <2> DEFINE t == [Idle EXCEPT !.kind = "upload", !.pc = "read", !.doc = d]
    <2>1. t.kind = "upload" /\ t.pc = "read" /\ t.doc = d /\ t.copy = Idle.copy
      BY DEF Idle
    <2>2. /\ req' = [req EXCEPT ![r] = t] /\ files' = files \cup {d}
          /\ UNCHANGED <<row, exists, doc, refused>>
      BY <1>8 DEF BeginUpload
    <2> HIDE DEF t
    <2> QED
      BY <1>2, <1>3, <2>1, <2>2, DocumentStep DEF PendingOK, UploadOK, Kept
  <1>9. ASSUME NEW r \in Reqs, SaveKYCDocument(r)
        PROVE  PendingOK'
    <2>0. PICK t : t = [req[r] EXCEPT !.pc = "saved"]
      OBVIOUS
    <2>1. req[r] \in Request /\ req[r].kind = "upload" /\ req[r].doc \in Docs
      BY <1>9, CopyRow DEF DInv, SaveKYCDocument, RequestOK
    <2>2. t.kind = "upload" /\ t.doc = req[r].doc /\ t.copy = req[r].copy
      BY <2>0, <2>1 DEF Request
    <2>3. /\ req' = [req EXCEPT ![r] = t] /\ doc' = req[r].doc
          /\ UNCHANGED <<row, exists, files, refused>>
      BY <1>1, <1>9, <2>0 DEF SaveKYCDocument, IInv, TypeOK
    <2>4. doc' # None
      BY <2>1, <2>3, NoneAssumption
    <2>5. Kept(doc)' /\ Kept(t.doc)'
      BY <1>2, <2>1, <2>2, <2>3 DEF PendingOK, UploadOK, Kept
    <2> QED
      BY <1>2, <2>2, <2>3, <2>4, <2>5, DocumentStep DEF PendingOK, UploadOK
  <1>10. ASSUME NEW r \in Reqs, SetPending(r)
         PROVE  PendingOK'
    <2>1. /\ req' = [req EXCEPT ![r] = Idle] /\ exists
          /\ req[r].kind = "upload" /\ req[r].pc = "saved"
          /\ UNCHANGED <<exists, doc, files, refused>>
      BY <1>10 DEF SetPending, Finish
    <2>2. doc # None /\ Kept(doc)'
      BY <1>2, <2>1 DEF PendingOK, UploadOK, Kept
    <2> QED
      BY <1>3, <2>1, <2>2, DocumentStep DEF UploadOK
  <1>11. ASSUME NEW r \in Reqs, UploadFails(r)
         PROVE  PendingOK'
    <2>1. /\ req' = [req EXCEPT ![r] = Idle] /\ exists' = exists
          /\ req[r].kind = "upload" /\ req[r].doc \in Docs
          /\ files' \cup refused' = files \cup refused \cup {req[r].doc}
      BY <1>11, CopyRow DEF UploadFails, Finish, DInv, RequestOK
    <2>2. files \cup refused \subseteq files' \cup refused'
      BY <2>1
    <2>3. /\ doc # None => doc' # None
          /\ doc' # None => Kept(doc)'
          /\ row'.kyc = "pending" => exists /\ doc' # None
      <3>1. CASE UNCHANGED <<row, doc>>
        BY <1>2, <2>1, <3>1 DEF PendingOK, Kept
      <3>2. CASE exists /\ doc' = req[r].doc /\ row' = row
        BY <2>1, <3>2, NoneAssumption DEF Kept
      <3>3. CASE req[r].pc = "saved" /\ Set("kyc", "pending") /\ doc' = doc
        <4>1. exists /\ doc # None
          BY <1>2, <2>1, <3>3 DEF PendingOK, UploadOK, Set
        <4> QED
          BY <1>2, <2>1, <3>3, <4>1 DEF PendingOK, Kept
      <3> QED
        BY <1>11, <3>1, <3>2, <3>3 DEF UploadFails
    <2> QED
      BY <1>3, <2>1, <2>2, <2>3, DocumentStep DEF UploadOK
  <1>12. ASSUME NEW r \in Reqs, RequestCut(r)
         PROVE  PendingOK'
    <2>1. /\ req' = [req EXCEPT ![r] = Idle]
          /\ UNCHANGED <<row, exists, doc, files, refused>>
      BY <1>12 DEF RequestCut, Finish
    <2> QED
      BY <1>2, <1>3, <2>1, DocumentStep DEF PendingOK, UploadOK, Kept
  <1>13. ASSUME AdminStep \/ OtherStep
         PROVE  PendingOK'
    <2>1. CASE DeleteAccount
      BY <1>2, <2>1 DEF DeleteAccount, PendingOK, UploadOK, Kept, Registered
    <2>2. CASE ~DeleteAccount
      <3>1. UNCHANGED <<req, exists, doc, files, refused>>
        BY <1>13, <2>2 DEF AdminStep, AdminApprove, AdminReject, Review, OtherStep,
                      AutoVerify, UpdateSubscriptionStatus, ChangeBalance, vars
      <3>2. row'.kyc = "pending" => row.kyc = "pending"
        BY <1>1, <1>13, <2>2 DEF AdminStep, AdminApprove, AdminReject, Review, OtherStep,
              AutoVerify, UpdateSubscriptionStatus, ChangeBalance, vars, Set, IInv, TypeOK, Row
      <3> QED
        BY <1>2, <3>1, <3>2 DEF PendingOK, UploadOK, Kept
    <2> QED
      BY <2>1, <2>2
  <1>14. CASE RequestStep
    <2>1. PICK r \in Reqs :
             \/ \E kind \in Kinds \ {"upload"} : Read(r, kind)
             \/ UpdateLastLogin(r) \/ UpdateProfile(r) \/ UpdateUserStatus(r)
             \/ LinkProvider(r)
             \/ \E d \in Docs : BeginUpload(r, d)
             \/ SaveKYCDocument(r) \/ SetPending(r) \/ UploadFails(r) \/ RequestCut(r)
      BY <1>14 DEF RequestStep, BeginLogin, BeginLink, BeginUpdateProfile,
                   BeginUpdateUserStatus, Kinds
    <2> QED
      BY <1>1, <2>1, <1>5, <1>6, <1>7, <1>8, <1>9, <1>10, <1>11, <1>12 DEF DInv
  <1> QED
    BY <1>1, <1>4, <1>13, <1>14 DEF Next, DInv

\* Whatever overlaps or fails, whoever waits for the review has a document, on disk
\* unless its own upload was refused.
THEOREM ReviewAlwaysHasFile == Spec => []ReviewHasFile
  <1>1. DInv => ReviewHasFile
    BY DEF DInv, PendingOK, Kept, ReviewHasFile
  <1> QED
    BY <1>1, DInit, DNext, PTL DEF Spec
=============================================================================
