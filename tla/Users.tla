--------------------------------- MODULE Users ---------------------------------
(***************************************************************************)
(* The row of one user in the table users, and everything that writes it   *)
(* (repository/postgres/user_repo.go): signing in, editing the profile,    *)
(* moderation, the review of identity documents (KYC), the subscription    *)
(* fields, the balance, deletion.  Rows of different users do not touch    *)
(* each other, so one stands for all.                                      *)
(*                                                                         *)
(* Two kinds of statements write the row.  userRepo.Update writes every    *)
(* column but the balance, from a copy read earlier in the request; the    *)
(* others write the columns they are about.  One statement is one step.    *)
(*                                                                         *)
(* The columns are abstracted: suspended and banned, which every check     *)
(* treats alike, are "blocked"; the columns of the profile and the time of *)
(* the last login, which decide nothing, are left out, and so are the      *)
(* linked identities, which are in Identity.  A row that is gone is shown  *)
(* as a fresh one with exists = FALSE.                                     *)
(***************************************************************************)
EXTENDS Naturals

CONSTANTS
    Reqs,        \* requests that may be in progress
    Docs,        \* identity documents, each uploaded at most once
    MaxBalance,  \* bound on the balance
    None

ASSUME BoundAssumption == MaxBalance \in Nat
ASSUME NoneAssumption == None \notin Reqs \cup Docs

VARIABLES
    row,      \* the row
    exists,   \* whether there is one
    doc,      \* the document kyc_documents names
    files,    \* the documents on disk
    req,      \* the requests
    credit,   \* history: what the statements about the balance made of it
    ever,     \* history: what was decided about the row so far
    refused,  \* history: documents whose upload was answered with an error
    before    \* history: by column, the requests that were in progress when it
              \* last changed, and still are

vars == <<row, exists, doc, files, req, credit, ever, refused, before>>

KYC == {"not_submitted", "pending", "verified", "rejected"}

Row == [status : {"active", "blocked"}, kyc : KYC, sub : {"none", "active"},
        balance : 0 .. MaxBalance]

Registered == [status |-> "active", kyc |-> "not_submitted", sub |-> "none",
               balance |-> 0]

Columns == {"status", "kyc", "sub"}

Kinds == {"login", "link", "profile", "status", "upload"}

Idle == [kind |-> "none", pc |-> "idle", copy |-> Registered, doc |-> None]

Request == [kind : Kinds \cup {"none"}, pc : {"idle", "read", "saved"},
            copy : Row, doc : Docs \cup {None}]

TypeOK ==
    /\ row \in Row /\ exists \in BOOLEAN
    /\ doc \in Docs \cup {None} /\ files \subseteq Docs
    /\ req \in [Reqs -> Request]
    /\ credit \in 0 .. MaxBalance
    /\ ever \subseteq {"verified", "blocked", "subscribed"} \cup Docs
    /\ refused \subseteq Docs
    /\ before \in [Columns -> SUBSET Reqs]

Init ==
    /\ row = Registered /\ exists = TRUE
    /\ doc = None /\ files = {}
    /\ req = [r \in Reqs |-> Idle]
    /\ credit = 0
    /\ ever = {}
    /\ refused = {}
    /\ before = [c \in Columns |-> {}]

Running(r) == req[r].pc # "idle"

\* The history of the columns, kept along with every step.  The request that takes
\* the step does not count: it wrote the column itself.
Remember ==
    before' = [c \in Columns |->
                 {r \in Reqs : /\ Running(r)'
                               /\ \/ r \in before[c]
                                  \/ row'[c] # row[c] /\ req'[r] = req[r]}]

-----------------------------------------------------------------------------
(* The statements *)

\* Mutant: the balance is one of the columns.
UpdateWithBalance(copy) ==
    row' = IF exists THEN copy ELSE row

\* Mutant: a row that is gone is inserted again.
UpdateOrInsert(copy) ==
    row' = [copy EXCEPT !.balance = row.balance]

\* Every column but the balance is written; nothing is written to a row that
\* is gone.
Update(copy) ==
    row' = IF exists THEN [copy EXCEPT !.balance = row.balance] ELSE row

\* A statement about one column, of a row that is there.
Set(column, value) ==
    /\ exists
    /\ row' = [row EXCEPT ![column] = value]

-----------------------------------------------------------------------------
(* Requests that read the row and write it back *)

Read(r, kind) ==
    /\ req[r].pc = "idle"
    /\ exists
    /\ req' = [req EXCEPT ![r] = [kind |-> kind, pc |-> "read", copy |-> row,
                                  doc |-> None]]
    /\ UNCHANGED <<row, exists, doc, files, credit, ever, refused>>

Finish(r) == req' = [req EXCEPT ![r] = Idle]

\* A blocked user is refused, by the service or by the middleware.
BeginLogin(r) == row.status = "active" /\ Read(r, "login")

BeginLink(r) == row.status = "active" /\ Read(r, "link")

BeginUpdateProfile(r) == row.status = "active" /\ Read(r, "profile")

BeginUpdateUserStatus(r) == Read(r, "status")

\* Mutant: the query that reads the user leaves the subscription out.
UpdateLastLoginPartialCopy(r) ==
    /\ req[r].kind = "login"
    /\ Update([req[r].copy EXCEPT !.sub = "none"])
    /\ Finish(r)
    /\ UNCHANGED <<exists, doc, files, credit, ever, refused>>

UpdateLastLogin(r) ==
    /\ req[r].kind = "login"
    /\ Update(req[r].copy)
    /\ Finish(r)
    /\ UNCHANGED <<exists, doc, files, credit, ever, refused>>

\* The user is then logged in: the same copy is written again.
LinkProvider(r) ==
    /\ req[r].kind = "link"
    /\ Update(req[r].copy)
    /\ req' = [req EXCEPT ![r].kind = "login"]
    /\ UNCHANGED <<exists, doc, files, credit, ever, refused>>

\* All the columns kept here are written back as they were read.
UpdateProfile(r) ==
    /\ req[r].kind = "profile"
    /\ Update(req[r].copy)
    /\ Finish(r)
    /\ UNCHANGED <<exists, doc, files, credit, ever, refused>>

\* The status is the one the administrator chose.
UpdateUserStatus(r) ==
    /\ req[r].kind = "status"
    /\ \E status \in {"active", "blocked"} :
          /\ Update([req[r].copy EXCEPT !.status = status])
          /\ ever' = IF status = "blocked" THEN ever \cup {"blocked"} ELSE ever
    /\ Finish(r)
    /\ UNCHANGED <<exists, doc, files, credit, refused>>

-----------------------------------------------------------------------------
(* Identity documents *)

\* The file is on disk before the service reads the user.
BeginUpload(r, d) ==
    /\ req[r].pc = "idle"
    /\ exists /\ row.status = "active"
    /\ row.kyc # "verified"
    /\ d \notin ever
    /\ ever' = ever \cup {d}
    /\ files' = files \cup {d}
    /\ req' = [req EXCEPT ![r] = [Idle EXCEPT !.kind = "upload", !.pc = "read",
                                              !.doc = d]]
    /\ UNCHANGED <<row, exists, doc, credit, refused>>

SaveKYCDocument(r) ==
    /\ req[r].kind = "upload" /\ req[r].pc = "read"
    /\ exists
    /\ doc' = req[r].doc
    /\ req' = [req EXCEPT ![r].pc = "saved"]
    /\ UNCHANGED <<row, exists, files, credit, ever, refused>>

\* Mutant: the file is removed in a deferred call.
SetPendingDeferredCleanup(r) ==
    /\ req[r].kind = "upload" /\ req[r].pc = "saved"
    /\ exists
    /\ files' = files \ {req[r].doc}
    /\ Set("kyc", "pending")
    /\ Finish(r)
    /\ UNCHANGED <<exists, doc, credit, ever, refused>>

SetPending(r) ==
    /\ req[r].kind = "upload" /\ req[r].pc = "saved"
    /\ exists
    /\ Set("kyc", "pending")
    /\ Finish(r)
    /\ UNCHANGED <<exists, doc, files, credit, ever, refused>>

\* A statement of the service failed, or was carried out and its answer lost: the
\* handler removes the file.
UploadFails(r) ==
    /\ req[r].kind = "upload"
    /\ \/ UNCHANGED <<row, doc>>
       \/ req[r].pc = "read" /\ exists /\ doc' = req[r].doc /\ UNCHANGED row
       \/ req[r].pc = "saved" /\ Set("kyc", "pending") /\ UNCHANGED doc
    /\ files' = files \ {req[r].doc}
    /\ refused' = refused \cup {req[r].doc}
    /\ Finish(r)
    /\ UNCHANGED <<exists, credit, ever>>

\* An administrator decides about a user, whatever the list showed and whatever
\* has become of the user and the document since.
Review(kyc) ==
    /\ Set("kyc", kyc)
    /\ UNCHANGED <<exists, doc, files, req, credit, refused>>

AdminApprove == Review("verified") /\ ever' = ever \cup {"verified"}

AdminReject == Review("rejected") /\ UNCHANGED ever

\* Mutant: the request to verify approves.
AutoVerifyApproves ==
    /\ exists /\ row.kyc = "pending"
    /\ row' = [row EXCEPT !.kyc = "verified"]
    /\ UNCHANGED <<exists, doc, files, req, credit, ever, refused>>

\* The face service is not called yet: nothing changes.
AutoVerify ==
    /\ exists /\ row.kyc = "pending"
    /\ UNCHANGED vars

-----------------------------------------------------------------------------
(* The other writers *)

UpdateSubscriptionStatus(sub) ==
    /\ Set("sub", sub)
    /\ ever' = IF sub = "active" THEN ever \cup {"subscribed"} ELSE ever
    /\ UNCHANGED <<exists, doc, files, req, credit, refused>>

ChangeBalance(balance) ==
    /\ Set("balance", balance)
    /\ credit' = balance
    /\ UNCHANGED <<exists, doc, files, req, ever, refused>>

\* The documents of the user go with the row, their files stay.
DeleteAccount ==
    /\ exists
    /\ exists' = FALSE
    /\ row' = Registered /\ credit' = 0
    /\ doc' = None
    /\ UNCHANGED <<files, req, ever, refused>>

\* A failed or interrupted request writes nothing.
RequestCut(r) ==
    /\ req[r].pc # "idle"
    /\ Finish(r)
    /\ UNCHANGED <<row, exists, doc, files, credit, ever, refused>>

-----------------------------------------------------------------------------

RequestStep ==
    \E r \in Reqs :
        \/ BeginLogin(r) \/ UpdateLastLogin(r)
        \/ BeginLink(r) \/ LinkProvider(r)
        \/ BeginUpdateProfile(r) \/ UpdateProfile(r)
        \/ BeginUpdateUserStatus(r) \/ UpdateUserStatus(r)
        \/ \E d \in Docs : BeginUpload(r, d)
        \/ SaveKYCDocument(r) \/ SetPending(r) \/ UploadFails(r)
        \/ RequestCut(r)

AdminStep == AdminApprove \/ AdminReject

OtherStep ==
    \/ AutoVerify
    \/ \E sub \in {"none", "active"} : UpdateSubscriptionStatus(sub)
    \/ \E balance \in 0 .. MaxBalance : ChangeBalance(balance)
    \/ DeleteAccount

Next == (RequestStep \/ AdminStep \/ OtherStep) /\ Remember

Spec == Init /\ [][Next]_vars

-----------------------------------------------------------------------------
(* Properties *)

\* Requests that write the whole row back never lose a credit or a fee: the
\* balance is what the statements about the balance made of it.
BalanceKept == row.balance = credit

\* Stale copies bring back old values, never new ones: an account is verified,
\* blocked or subscribed only if that was once decided.
NothingInvented ==
    /\ row.kyc = "verified" => "verified" \in ever
    /\ row.status = "blocked" => "blocked" \in ever
    /\ row.sub = "active" => "subscribed" \in ever

\* A request that was in progress when the account was deleted writes nothing
\* any more and leaves no document behind.
DeletedIsGone ==
    [][~exists => ~exists' /\ row' = row /\ doc' = None]_vars

\* The columns a request is about.  The document of a verified user is refused.
ColumnsOf(kind) ==
    CASE kind = "status" -> {"status"}
      [] kind = "upload" -> IF row.kyc = "verified" THEN {} ELSE {"kyc"}
      [] OTHER -> {}

\* A request that reads the row and writes it later changes no column but its own,
\* except one that somebody else changed in between.  What was decided about the
\* account (a review, a block, a subscription) is therefore undone by no request
\* that began after the decision; signing in ("Update last login timestamp"),
\* editing the profile and uploading another document are among them.
OnlyOwnColumns ==
    [][\A r \in Reqs : req'[r] # req[r] =>
         \A c \in Columns : row'[c] # row[c] =>
            c \in ColumnsOf(req[r].kind) \/ r \in before[c]]_vars

\* Whoever waits for the review has a document, and its file is on disk unless the
\* upload of that very document was answered with an error: no other request,
\* failure or stale copy parts the three.
ReviewHasFile ==
    row.kyc = "pending" => doc # None /\ doc \in files \cup refused
=============================================================================
