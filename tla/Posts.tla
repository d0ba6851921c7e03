--------------------------------- MODULE Posts ---------------------------------
(***************************************************************************)
(* One post and its images: handler/post_handler.go over                   *)
(* repository/postgres/post_repo.go.  The owner edits the post, changes its *)
(* status, adds and removes images; anybody views it; the owner or an      *)
(* administrator deletes it.  The fee of publishing is the subject of      *)
(* Balance.                                                                *)
(*                                                                         *)
(* An edit reads the post, merges the form into the copy and writes every  *)
(* editable column back, the status included; the images follow, one file  *)
(* and one INSERT at a time.  The view counter is incremented by a         *)
(* goroutine that outlives its request.                                    *)
(*                                                                         *)
(* The text columns are abstracted to the request that last edited them.   *)
(* A failed statement has no effect, or its effect stays and only the      *)
(* answer is lost; the INSERT of an image, whose file the handler then     *)
(* removes, is the one where that matters (AddImageFails).                 *)
(***************************************************************************)
EXTENDS Naturals, FiniteSets

CONSTANTS
    Reqs,      \* requests of the owner that may be in progress
    Images,    \* image files, each uploaded at most once
    MaxFiles,  \* bound on the files of one request (10 in the code)
    MaxViews,  \* bound on the views
    None

ASSUME BoundAssumption == MaxFiles \in Nat /\ MaxViews \in Nat
ASSUME NoneAssumption == None \notin Reqs \cup Images \cup Nat
ASSUME ImagesAssumption == IsFiniteSet(Images)

VARIABLES
    post,     \* the row of posts
    order,    \* sort_order of each row of post_images, None without a row
    files,    \* the images on disk
    req,      \* the requests
    viewers,  \* goroutines about to count a view
    counted,  \* history: the goroutines that have counted theirs
    used,     \* history: the images uploaded so far
    stray,    \* history: the images whose row was removed or whose request was cut
    unanswered  \* history: the images whose INSERT was carried out and its answer lost

vars == <<post, order, files, req, viewers, counted, used, stray, unanswered>>

Statuses == {"active", "sold", "draft"}

Post == [status : Statuses, edited : Reqs \cup {None}, views : 0 .. MaxViews,
         deleted : BOOLEAN]

\* The values the CHECK on deleted_by_type lets in.
DeletedByTypes == {"User", "Admin"}

Published == [status |-> "active", edited |-> None, views |-> 0, deleted |-> FALSE]

Idle == [pc |-> "idle", copy |-> Published, base |-> 0, index |-> 0, last |-> 0,
         image |-> None, strict |-> FALSE]

TypeOK ==
    /\ post \in Post
    /\ order \in [Images -> Nat \cup {None}]
    /\ files \subseteq Images
    /\ req \in [Reqs -> [pc : {"idle", "edit", "images", "saved"}, copy : Post,
                         base : Nat, index : 0 .. MaxFiles, last : 0 .. MaxFiles,
                         image : Images \cup {None}, strict : BOOLEAN]]
    /\ viewers \in 0 .. MaxViews /\ counted \in 0 .. MaxViews
    /\ used \subseteq Images /\ stray \subseteq Images /\ unanswered \subseteq Images

Rows == {i \in Images : order[i] # None}

\* CreatePost has inserted the row and goes on with the images of its form.
Init ==
    /\ post = Published
    /\ order = [i \in Images |-> None]
    /\ files = {}
    /\ \E r \in Reqs, n \in 0 .. MaxFiles :
         req = [q \in Reqs |->
                  IF q = r /\ n > 0 THEN [Idle EXCEPT !.pc = "images", !.last = n]
                  ELSE Idle]
    /\ viewers = 0 /\ counted = 0
    /\ used = {} /\ stray = {} /\ unanswered = {}

-----------------------------------------------------------------------------
(* Editing *)

\* FindByID loads the row and its images; only an edit uses the row.
FindByID(r, pc, n) ==
    /\ req[r].pc = "idle"
    /\ req' = [req EXCEPT ![r] =
                 [pc |-> pc, copy |-> IF pc = "edit" THEN post ELSE Published,
                  base |-> Cardinality(Rows), index |-> 0, last |-> n,
                  image |-> None, strict |-> pc = "images"]]
    /\ UNCHANGED <<post, order, files, viewers, counted, used, stray, unanswered>>

BeginUpdatePost(r) == \E n \in 0 .. MaxFiles : FindByID(r, "edit", n)

BeginAddImages(r) == \E n \in 1 .. MaxFiles : FindByID(r, "images", n)

\* Where a request stands after one more of its files; the copy is done with.
Passed(r) ==
    IF req[r].index + 1 = req[r].last THEN Idle
    ELSE [req[r] EXCEPT !.pc = "images", !.index = @ + 1, !.image = None]

\* Mutant: the view counter is one of the columns.
UpdateWithViews(r) ==
    /\ req[r].pc = "edit"
    /\ post' = [req[r].copy EXCEPT !.edited = r, !.deleted = post.deleted]
    /\ req' = [req EXCEPT ![r] = IF req[r].last = 0 THEN Idle
                                 ELSE [req[r] EXCEPT !.pc = "images",
                                                      !.copy = Published]]
    /\ UNCHANGED <<order, files, viewers, counted, used, stray, unanswered>>

\* The counters and the deletion are not among the columns.
Update(r) ==
    /\ req[r].pc = "edit"
    /\ post' = [post EXCEPT !.status = req[r].copy.status, !.edited = r]
    /\ req' = [req EXCEPT ![r] = IF req[r].last = 0 THEN Idle
                                 ELSE [req[r] EXCEPT !.pc = "images",
                                                      !.copy = Published]]
    /\ UNCHANGED <<order, files, viewers, counted, used, stray, unanswered>>

UpdateFails(r) ==
    /\ req[r].pc = "edit"
    /\ req' = [req EXCEPT ![r] = Idle]
    /\ UNCHANGED <<post, order, files, viewers, counted, used, stray, unanswered>>

\* Nothing is taken from the post that was read but its owner.
UpdatePostStatus ==
    /\ \E status \in Statuses : post' = [post EXCEPT !.status = status]
    /\ UNCHANGED <<order, files, req, viewers, counted, used, stray, unanswered>>

SoftDelete(deletedByType) ==
    /\ ~post.deleted
    /\ post' = [post EXCEPT !.deleted = deletedByType \in DeletedByTypes]
    /\ UNCHANGED <<order, files, req, viewers, counted, used, stray, unanswered>>

DeletePost == SoftDelete("user")

AdminDeletePost == SoftDelete("admin")

-----------------------------------------------------------------------------
(* Images *)

SaveFile(r, i) ==
    /\ req[r].pc = "images"
    /\ i \notin used
    /\ files' = files \cup {i}
    /\ used' = used \cup {i}
    /\ req' = [req EXCEPT ![r].pc = "saved", ![r].image = i]
    /\ UNCHANGED <<post, order, viewers, counted, stray, unanswered>>

\* A file that cannot be written is passed over, and so is one with another
\* extension, unless AddImages handles it.
SkipFile(r) ==
    /\ req[r].pc = "images"
    /\ req' = [req EXCEPT ![r] = Passed(r)]
    /\ UNCHANGED <<post, order, files, viewers, counted, used, stray, unanswered>>

\* AddImages stops at a file with another extension and keeps those before it.
RefuseFile(r) ==
    /\ req[r].pc = "images"
    /\ req[r].strict
    /\ req' = [req EXCEPT ![r] = Idle]
    /\ UNCHANGED <<post, order, files, viewers, counted, used, stray, unanswered>>

\* The position counts the images of the copy and the files before this one.
Inserted(r) == [order EXCEPT ![req[r].image] = req[r].base + req[r].index]

AddImage(r) ==
    /\ req[r].pc = "saved"
    /\ order' = Inserted(r)
    /\ req' = [req EXCEPT ![r] = Passed(r)]
    /\ UNCHANGED <<post, files, viewers, counted, used, stray, unanswered>>

\* Mutant: the file of an image that was not stored stays.
AddImageFailsQuietly(r) ==
    /\ req[r].pc = "saved"
    /\ req' = [req EXCEPT ![r] = Passed(r)]
    /\ UNCHANGED <<post, order, files, viewers, counted, used, stray, unanswered>>

\* The client is gone, the INSERT is refused, or it is carried out and the answer
\* does not come back: the handler takes them all alike.
AddImageFails(r) ==
    /\ req[r].pc = "saved"
    /\ \/ UNCHANGED <<order, unanswered>>
       \/ order' = Inserted(r) /\ unanswered' = unanswered \cup {req[r].image}
    /\ files' = files \ {req[r].image}
    /\ req' = [req EXCEPT ![r] = Passed(r)]
    /\ UNCHANGED <<post, viewers, counted, used, stray>>

\* Mutant: the file goes and the row stays.
RemoveFileOnly(i) ==
    /\ i \in Rows
    /\ files' = files \ {i}
    /\ UNCHANGED <<post, order, req, viewers, counted, used, stray, unanswered>>

\* The file stays on disk.
RemoveImage(i) ==
    /\ i \in Rows
    /\ order' = [order EXCEPT ![i] = None]
    /\ stray' = stray \cup {i}
    /\ UNCHANGED <<post, files, req, viewers, counted, used, unanswered>>

RequestCut(r) ==
    /\ req[r].pc # "idle"
    /\ stray' = stray \cup ({req[r].image} \ {None})
    /\ req' = [req EXCEPT ![r] = Idle]
    /\ UNCHANGED <<post, order, files, viewers, counted, used, unanswered>>

-----------------------------------------------------------------------------
(* Views *)

GetPost ==
    /\ viewers + counted < MaxViews
    /\ viewers' = viewers + 1
    /\ UNCHANGED <<post, order, files, req, counted, used, stray, unanswered>>

IncrementViews ==
    /\ viewers > 0
    /\ viewers' = viewers - 1
    /\ counted' = counted + 1
    /\ post' = [post EXCEPT !.views = @ + 1]
    /\ UNCHANGED <<order, files, req, used, stray, unanswered>>

\* The statement fails or five seconds are over.
IncrementViewsFails ==
    /\ viewers > 0
    /\ viewers' = viewers - 1
    /\ UNCHANGED <<post, order, files, req, counted, used, stray, unanswered>>

-----------------------------------------------------------------------------

OwnerStep ==
    \E r \in Reqs :
        \/ BeginUpdatePost(r) \/ Update(r) \/ UpdateFails(r)
        \/ BeginAddImages(r) \/ SkipFile(r) \/ RefuseFile(r)
        \/ AddImage(r) \/ AddImageFails(r)
        \/ \E i \in Images : SaveFile(r, i)
        \/ RequestCut(r)

Next ==
    \/ OwnerStep
    \/ UpdatePostStatus
    \/ DeletePost
    \/ AdminDeletePost
    \/ \E i \in Images : RemoveImage(i)
    \/ GetPost
    \/ IncrementViews
    \/ IncrementViewsFails

Spec == Init /\ [][Next]_vars

-----------------------------------------------------------------------------
(* Properties *)

\* No view is lost or counted twice, however edits and views overlap.
ViewsExact == post.views = counted

\* Every image a listing shows has its file, whatever overlaps, fails or is cut, with
\* one exception: a file is lost when the answer to the INSERT of its row is.
ImageHasFile == Rows \subseteq files \cup unanswered

\* A file without a row belongs to an upload that is still in progress or was
\* cut, or to an image the owner removed: no failure leaves one behind.
NoStrayFile ==
    \A i \in files \ Rows :
        \/ i \in stray
        \/ \E r \in Reqs : req[r].image = i
=============================================================================
