------------------------------- MODULE PostsProofs -------------------------------
(***************************************************************************)
(* The properties of Posts for every number of requests and images.        *)
(*                                                                         *)
(* An image that is on disk and not in post_images belongs to one request  *)
(* at a time: the file is stored before the row is, under a name no other  *)
(* upload has (Held, Distinct).  So the row a request adds has its file,   *)
(* and the file a request removes has no row.                              *)
(*                                                                         *)
(* Then the properties of Listing, for every number of posts, every limit  *)
(* and every offset.  While no two rows shown are equal in the column they *)
(* are sorted by, the row at place i has i - 1 rows before it, whichever   *)
(* order the database chooses (PlaceIsRank), so a page is a range of ranks *)
(* and a walk can be followed by ranks alone (StillAhead, AllBehind).      *)
(***************************************************************************)
EXTENDS Posts, Listing, FiniteSetTheorems, TLAPS

\* What a request has done of its files.
Progress(t) ==
    /\ t.pc \in {"images", "saved"} => t.index < t.last
    /\ t.pc = "edit" => t.index = 0
    /\ t.image # None <=> t.pc = "saved"

Held == \A r \in Reqs : req[r].image # None => req[r].image \in files \ Rows

Distinct ==
    \A r, q \in Reqs : req[r].image # None /\ req[r].image = req[q].image => r = q

Views == viewers + counted <= MaxViews

IInv ==
    /\ TypeOK
    /\ \A r \in Reqs : Progress(req[r])
    /\ files \cup unanswered \subseteq used
    /\ Held /\ Distinct
    /\ ImageHasFile /\ NoStrayFile
    /\ Views /\ ViewsExact

-----------------------------------------------------------------------------
(* Requests *)

Request == [pc : {"idle", "edit", "images", "saved"}, copy : Post,
            base : Nat, index : 0 .. MaxFiles, last : 0 .. MaxFiles,
            image : Images \cup {None}, strict : BOOLEAN]

Fits(t) == t \in Request /\ Progress(t)

LEMMA FitsNow == IInv => /\ req \in [Reqs -> Request]
                         /\ \A r \in Reqs : Fits(req[r])
  BY DEF IInv, TypeOK, Request, Fits

LEMMA PublishedPost == Published \in Post
  BY BoundAssumption DEF Published, Post, Statuses

LEMMA IdleFits == Fits(Idle) /\ Idle.image = None /\ Idle.pc = "idle"
  BY PublishedPost, BoundAssumption DEF Fits, Idle, Request, Progress

LEMMA PassedFits ==
    ASSUME IInv, NEW r \in Reqs, req[r].pc \in {"images", "saved"}
    PROVE  Fits(Passed(r)) /\ Passed(r).image = None
  <1> DEFINE t == [req[r] EXCEPT !.pc = "images", !.index = @ + 1, !.image = None]
  <1>1. req[r] \in Request /\ req[r].index < req[r].last
    BY FitsNow DEF Fits, Progress
  <1>2. ASSUME req[r].index + 1 # req[r].last PROVE Fits(t) /\ t.image = None
    <2>1. /\ req[r].index \in 0 .. MaxFiles /\ req[r].last \in 0 .. MaxFiles
          /\ req[r].index + 1 < req[r].last
      BY <1>1, <1>2, BoundAssumption DEF Request
    <2>2. req[r].index + 1 \in 0 .. MaxFiles
      BY <2>1, BoundAssumption
    <2>3. /\ t \in Request /\ t.pc = "images" /\ t.image = None
          /\ t.index = req[r].index + 1 /\ t.last = req[r].last
      BY <1>1, <2>2 DEF Request
    <2> HIDE DEF t
    <2> QED
      BY <2>1, <2>3 DEF Fits, Progress
  <1> HIDE DEF t
  <1>3. Passed(r) = IF req[r].index + 1 = req[r].last THEN Idle ELSE t
    BY DEF Passed, t
  <1> QED
    BY <1>2, <1>3, IdleFits

\* A request goes on and holds no file.
LEMMA NextRequest ==
    ASSUME IInv, NEW r \in Reqs, NEW t, Fits(t), t.image = None,
           req' = [req EXCEPT ![r] = t]
    PROVE  /\ req' \in [Reqs -> Request]
           /\ \A q \in Reqs : Progress(req'[q])
           /\ \A q \in Reqs : q # r => req'[q] = req[q]
           /\ req'[r].image = None
           /\ Distinct'
  <1>1. req \in [Reqs -> Request] /\ \A q \in Reqs : Progress(req[q])
    BY FitsNow DEF Fits
  <1>2. /\ req' \in [Reqs -> Request] /\ req'[r] = t
        /\ \A q \in Reqs : q # r => req'[q] = req[q]
    BY <1>1 DEF Fits
  <1> QED
    BY <1>1, <1>2 DEF Fits, IInv, Distinct

\* A step of a request that holds no file, before and after it.
LEMMA PlainStep ==
    ASSUME IInv, NEW r \in Reqs, NEW t, Fits(t), t.image = None, req[r].pc # "saved",
           req' = [req EXCEPT ![r] = t], post' \in Post, post'.views = post.views,
           UNCHANGED <<order, files, viewers, counted, used, stray, unanswered>>
    PROVE  IInv'
  <1>1. /\ req' \in [Reqs -> Request]
        /\ \A q \in Reqs : Progress(req'[q])
        /\ \A q \in Reqs : q # r => req'[q] = req[q]
        /\ req'[r].image = None
        /\ Distinct'
    BY NextRequest
  <1>2. req[r].image = None
    BY FitsNow DEF Fits, Progress
  <1>3. TypeOK'
    BY <1>1 DEF IInv, TypeOK, Request
  <1>4. Held' /\ NoStrayFile'
    BY <1>1, <1>2 DEF IInv, Held, NoStrayFile, Rows
  <1> QED
    BY <1>1, <1>3, <1>4 DEF IInv, ImageHasFile, Rows, Views, ViewsExact

LEMMA RowsFinite == IsFiniteSet(Rows) /\ Cardinality(Rows) \in Nat
  <1>1. Rows \subseteq Images
    BY DEF Rows
  <1> QED
    BY <1>1, ImagesAssumption, FS_Subset, FS_CardinalityType

LEMMA FindByIDStep ==
    ASSUME IInv, NEW r \in Reqs, NEW pc \in {"edit", "images"}, NEW n \in 0 .. MaxFiles,
           pc = "images" => n # 0, FindByID(r, pc, n)
    PROVE  IInv'
  <1> DEFINE copy == IF pc = "edit" THEN post ELSE Published
             t == [pc |-> pc, copy |-> copy, base |-> Cardinality(Rows), index |-> 0,
                   last |-> n, image |-> None, strict |-> pc = "images"]
  <1>1. copy \in Post
    BY PublishedPost DEF IInv, TypeOK
  <1>2. 0 \in 0 .. MaxFiles /\ n \in Nat
    BY BoundAssumption
  <1>3. /\ req' = [req EXCEPT ![r] = t] /\ req[r].pc = "idle"
        /\ UNCHANGED <<post, order, files, viewers, counted, used, stray, unanswered>>
    BY DEF FindByID
  <1> HIDE DEF copy
  <1>4. t \in Request
    BY <1>1, <1>2, RowsFinite DEF Request
  <1>5. t.pc = pc /\ t.image = None /\ t.index = 0 /\ t.last = n
    OBVIOUS
  <1> HIDE DEF t
  <1>6. Fits(t)
    BY <1>2, <1>4, <1>5 DEF Fits, Progress
  <1> QED
    BY <1>3, <1>5, <1>6, PlainStep DEF IInv, TypeOK

LEMMA UpdateStep ==
    ASSUME IInv, NEW r \in Reqs, Update(r)
    PROVE  IInv'
  <1> DEFINE t == [req[r] EXCEPT !.pc = "images", !.copy = Published]
             u == IF req[r].last = 0 THEN Idle ELSE t
  <1>1. req[r] \in Request /\ Progress(req[r]) /\ req[r].copy \in Post
    BY FitsNow DEF Fits, Request
  <1>2. /\ req[r].pc = "edit" /\ req' = [req EXCEPT ![r] = u]
        /\ post' = [post EXCEPT !.status = req[r].copy.status, !.edited = r]
        /\ UNCHANGED <<order, files, viewers, counted, used, stray, unanswered>>
    BY DEF Update
  <1>3. req[r].index = 0 /\ req[r].image = None
    BY <1>1, <1>2 DEF Progress
  <1>4. /\ t \in Request /\ t.pc = "images" /\ t.index = 0 /\ t.last = req[r].last
        /\ t.image = None
    BY <1>1, <1>3, PublishedPost DEF Request
  <1>5. req[r].last \in Nat
    BY <1>1, BoundAssumption DEF Request
  <1> HIDE DEF t
  <1>6. Fits(u) /\ u.image = None
    BY <1>4, <1>5, IdleFits DEF Fits, Progress
  <1>7. post' \in Post /\ post'.views = post.views
    BY <1>1, <1>2 DEF IInv, TypeOK, Post
  <1> HIDE DEF u
  <1> QED
    BY <1>2, <1>6, <1>7, PlainStep

LEMMA IdleStep ==
    ASSUME IInv, NEW r \in Reqs, UpdateFails(r) \/ SkipFile(r) \/ RefuseFile(r)
    PROVE  IInv'
  <1>1. PICK t : /\ t = Idle \/ (req[r].pc = "images" /\ t = Passed(r))
                 /\ req' = [req EXCEPT ![r] = t] /\ req[r].pc # "saved"
                 /\ UNCHANGED <<post, order, files, viewers, counted, used, stray, unanswered>>
    BY DEF UpdateFails, SkipFile, RefuseFile
  <1>2. Fits(t) /\ t.image = None
    BY <1>1, IdleFits, PassedFits
  <1> QED
    BY <1>1, <1>2, PlainStep DEF IInv, TypeOK

-----------------------------------------------------------------------------
(* Files and rows *)

LEMMA SaveFileStep ==
    ASSUME IInv, NEW r \in Reqs, NEW i \in Images, SaveFile(r, i)
    PROVE  IInv'
  <1> DEFINE t == [req[r] EXCEPT !.pc = "saved", !.image = i]
  <1>1. req[r] \in Request /\ Progress(req[r])
    BY FitsNow DEF Fits
  <1>2. /\ req[r].pc = "images" /\ i \notin used
        /\ files' = files \cup {i} /\ used' = used \cup {i}
        /\ req' = [req EXCEPT ![r].pc = "saved", ![r].image = i]
        /\ UNCHANGED <<post, order, viewers, counted, stray, unanswered>>
    BY DEF SaveFile
  <1>goes. req' = [req EXCEPT ![r] = t]
    BY <1>2, FitsNow
  <1>3. /\ t \in Request /\ t.pc = "saved" /\ t.image = i
        /\ t.index = req[r].index /\ t.last = req[r].last
    BY <1>1 DEF Request
  <1>4. i # None
    BY NoneAssumption
  <1> HIDE DEF t
  <1>5. Progress(t)
    BY <1>1, <1>2, <1>3, <1>4 DEF Progress
  <1>6. /\ req' \in [Reqs -> Request] /\ req'[r] = t
        /\ \A q \in Reqs : q # r => req'[q] = req[q]
    BY <1>goes, <1>3, FitsNow
  <1>7. \A q \in Reqs : Progress(req'[q])
    BY <1>5, <1>6 DEF IInv
  <1>8. /\ \A q \in Reqs : req[q].image # i
        /\ i \notin Rows /\ Rows' = Rows /\ files \subseteq used
    BY <1>2, <1>4 DEF IInv, Held, ImageHasFile, Rows
  <1>9. TypeOK'
    BY <1>2, <1>6 DEF IInv, TypeOK, Request
  <1>10. Held' /\ Distinct'
    BY <1>2, <1>3, <1>6, <1>8 DEF IInv, Held, Distinct
  <1>11. req[r].image = None
    BY <1>1, <1>2 DEF Progress
  <1>12. NoStrayFile'
    BY <1>2, <1>3, <1>6, <1>8, <1>11, NoneAssumption DEF IInv, NoStrayFile, TypeOK
  <1> QED
    BY <1>2, <1>7, <1>8, <1>9, <1>10, <1>12 DEF IInv, ImageHasFile, Views, ViewsExact

LEMMA AddImageStep ==
    ASSUME IInv, NEW r \in Reqs, AddImage(r)
    PROVE  IInv'
  <1> DEFINE i == req[r].image
             n == req[r].base + req[r].index
  <1>1. req[r] \in Request /\ Progress(req[r])
    BY FitsNow DEF Fits
  <1>2. /\ req[r].pc = "saved" /\ order' = [order EXCEPT ![i] = n]
        /\ req' = [req EXCEPT ![r] = Passed(r)]
        /\ UNCHANGED <<post, files, viewers, counted, used, stray, unanswered>>
    BY DEF AddImage, Inserted
  <1>3. i \in Images /\ i # None /\ i \in files
    BY <1>1, <1>2 DEF Request, Progress, IInv, Held
  <1>4. n \in Nat
    BY <1>1, BoundAssumption DEF Request
  <1>5. n # None
    BY <1>4, NoneAssumption
  <1>6. Fits(Passed(r)) /\ Passed(r).image = None
    BY <1>2, PassedFits
  <1>7. /\ req' \in [Reqs -> Request]
        /\ \A q \in Reqs : Progress(req'[q])
        /\ \A q \in Reqs : q # r => req'[q] = req[q]
        /\ req'[r].image = None
        /\ Distinct'
    BY <1>2, <1>6, NextRequest
  <1>8. \A q \in Reqs : q # r => req[q].image # i
    BY <1>3 DEF IInv, Distinct
  <1> HIDE DEF i, n
  <1>9. Rows' = Rows \cup {i} /\ order' \in [Images -> Nat \cup {None}]
    BY <1>2, <1>3, <1>4, <1>5 DEF Rows, IInv, TypeOK
  <1>10. TypeOK'
    BY <1>2, <1>7, <1>9 DEF IInv, TypeOK, Request
  <1>11. Held'
    BY <1>2, <1>7, <1>8, <1>9 DEF IInv, Held
  <1>12. NoStrayFile'
    BY <1>2, <1>7, <1>9 DEF IInv, NoStrayFile, i
  <1> QED
    BY <1>2, <1>3, <1>7, <1>9, <1>10, <1>11, <1>12 DEF IInv, ImageHasFile, Views, ViewsExact

\* The file goes either way; the row is there when only the answer was lost.
LEMMA AddImageFailsStep ==
    ASSUME IInv, NEW r \in Reqs, AddImageFails(r)
    PROVE  IInv'
  <1> DEFINE i == req[r].image
             n == req[r].base + req[r].index
  <1>1. req[r] \in Request /\ Progress(req[r])
    BY FitsNow DEF Fits
  <1>2. /\ req[r].pc = "saved" /\ files' = files \ {i}
        /\ req' = [req EXCEPT ![r] = Passed(r)]
        /\ UNCHANGED <<post, viewers, counted, used, stray>>
    BY DEF AddImageFails
  <1>3. i \in Images /\ i # None /\ i \in used /\ i \notin Rows
    BY <1>1, <1>2 DEF Request, Progress, IInv, Held
  <1>4. Fits(Passed(r)) /\ Passed(r).image = None
    BY <1>2, PassedFits
  <1>5. /\ req' \in [Reqs -> Request]
        /\ \A q \in Reqs : Progress(req'[q])
        /\ \A q \in Reqs : q # r => req'[q] = req[q]
        /\ req'[r].image = None
        /\ Distinct'
    BY <1>2, <1>4, NextRequest
  <1>6. \A q \in Reqs : q # r => req[q].image # i
    BY <1>3 DEF IInv, Distinct
  <1>7. n \in Nat /\ n # None
    <2>1. n \in Nat
      BY <1>1, BoundAssumption DEF Request
    <2> QED
      BY <2>1, NoneAssumption
  <1>8. \/ order' = order /\ unanswered' = unanswered
        \/ order' = [order EXCEPT ![i] = n] /\ unanswered' = unanswered \cup {i}
    BY DEF AddImageFails, Inserted
  <1> HIDE DEF i, n
  <1>9. /\ order' \in [Images -> Nat \cup {None}]
        /\ unanswered \subseteq unanswered' /\ unanswered' \subseteq unanswered \cup {i}
        /\ Rows \subseteq Rows'
        /\ Rows' = Rows \/ (Rows' = Rows \cup {i} /\ i \in unanswered')
    BY <1>3, <1>7, <1>8 DEF Rows, IInv, TypeOK
  <1>10. TypeOK'
    BY <1>2, <1>3, <1>5, <1>9 DEF IInv, TypeOK, Request
  <1>11. Held'
    BY <1>2, <1>5, <1>6, <1>9 DEF IInv, Held
  <1>12. NoStrayFile'
    BY <1>2, <1>5, <1>9 DEF IInv, NoStrayFile, i
  <1>13. ImageHasFile' /\ (files \cup unanswered \subseteq used)'
    BY <1>2, <1>3, <1>9 DEF IInv, ImageHasFile
  <1> QED
    BY <1>2, <1>5, <1>10, <1>11, <1>12, <1>13 DEF IInv, Views, ViewsExact

LEMMA RemoveImageStep ==
    ASSUME IInv, NEW i \in Images, RemoveImage(i)
    PROVE  IInv'
  <1>1. /\ i \in Rows /\ order' = [order EXCEPT ![i] = None]
        /\ stray' = stray \cup {i}
        /\ UNCHANGED <<post, files, req, viewers, counted, used, unanswered>>
    BY DEF RemoveImage
  <1>2. Rows' = Rows \ {i} /\ order' \in [Images -> Nat \cup {None}]
    BY <1>1 DEF Rows, IInv, TypeOK
  <1>3. TypeOK'
    BY <1>1, <1>2 DEF IInv, TypeOK
  <1>4. Held' /\ NoStrayFile'
    BY <1>1, <1>2 DEF IInv, Held, NoStrayFile
  <1> QED
    BY <1>1, <1>2, <1>3, <1>4 DEF IInv, Distinct, ImageHasFile, Views, ViewsExact

LEMMA RequestCutStep ==
    ASSUME IInv, NEW r \in Reqs, RequestCut(r)
    PROVE  IInv'
  <1>1. /\ stray' = stray \cup ({req[r].image} \ {None})
        /\ req' = [req EXCEPT ![r] = Idle]
        /\ UNCHANGED <<post, order, files, viewers, counted, used, unanswered>>
    BY DEF RequestCut
  <1>2. /\ req' \in [Reqs -> Request]
        /\ \A q \in Reqs : Progress(req'[q])
        /\ \A q \in Reqs : q # r => req'[q] = req[q]
        /\ req'[r].image = None
        /\ Distinct'
    BY <1>1, IdleFits, NextRequest
  <1>3. req[r].image \in Images \cup {None}
    BY FitsNow DEF Fits, Request
  <1>4. TypeOK'
    BY <1>1, <1>2, <1>3 DEF IInv, TypeOK, Request
  <1>5. Held' /\ NoStrayFile'
    BY <1>1, <1>2, NoneAssumption DEF IInv, Held, NoStrayFile, Rows, TypeOK
  <1> QED
    BY <1>1, <1>2, <1>4, <1>5 DEF IInv, ImageHasFile, Rows, Views, ViewsExact

-----------------------------------------------------------------------------
(* The row and its views *)

LEMMA Within ==
    ASSUME NEW v \in Nat, NEW c \in Nat, v + c <= MaxViews
    PROVE  v \in 0 .. MaxViews /\ c \in 0 .. MaxViews
  BY BoundAssumption

LEMMA RowStep ==
    ASSUME IInv, post' \in Post, viewers' \in Nat, counted' \in Nat,
           viewers' + counted' <= MaxViews,
           post'.views = counted', UNCHANGED <<order, files, req, used, stray, unanswered>>
    PROVE  IInv'
  <1>1. viewers' \in 0 .. MaxViews /\ counted' \in 0 .. MaxViews
    BY Within
  <1>2. TypeOK'
    BY <1>1 DEF IInv, TypeOK
  <1> QED
    BY <1>2 DEF IInv, Held, Distinct, ImageHasFile, NoStrayFile, Rows, Views, ViewsExact

LEMMA ViewTypes == IInv => /\ viewers \in Nat /\ counted \in Nat /\ viewers + counted <= MaxViews
                           /\ post \in Post /\ post.views = counted
  BY BoundAssumption DEF IInv, TypeOK, Views, ViewsExact

LEMMA StatusStep ==
    ASSUME IInv, UpdatePostStatus \/ DeletePost \/ AdminDeletePost
    PROVE  IInv'
  <1>1. ASSUME NEW status \in Statuses PROVE [post EXCEPT !.status = status] \in Post
    BY ViewTypes DEF Post
  <1>2. ASSUME NEW deleted \in BOOLEAN PROVE [post EXCEPT !.deleted = deleted] \in Post
    BY ViewTypes DEF Post
  <1>3. CASE UpdatePostStatus
    <2>1. PICK status \in Statuses : post' = [post EXCEPT !.status = status]
      BY <1>3 DEF UpdatePostStatus
    <2>2. post' \in Post /\ post'.views = post.views
      BY <1>1, <2>1, ViewTypes DEF Post
    <2> QED
      BY <1>3, <2>2, ViewTypes, RowStep DEF UpdatePostStatus
  <1>4. ASSUME NEW by, SoftDelete(by) PROVE IInv'
    <2> DEFINE deleted == by \in DeletedByTypes
    <2>1. post' = [post EXCEPT !.deleted = deleted] /\ deleted \in BOOLEAN
      BY <1>4 DEF SoftDelete
    <2> HIDE DEF deleted
    <2>2. post' \in Post /\ post'.views = post.views
      BY <1>2, <2>1, ViewTypes DEF Post
    <2> QED
      BY <1>4, <2>2, ViewTypes, RowStep DEF SoftDelete
  <1> QED
    BY <1>3, <1>4 DEF DeletePost, AdminDeletePost

LEMMA ViewStep ==
    ASSUME IInv, GetPost \/ IncrementViews \/ IncrementViewsFails
    PROVE  IInv'
  <1>1. CASE GetPost
    <2>1. viewers' \in Nat /\ viewers' + counted <= MaxViews
      BY <1>1, ViewTypes, BoundAssumption DEF GetPost
    <2> QED
      BY <1>1, <2>1, ViewTypes, RowStep DEF GetPost
  <1>2. CASE IncrementViews
    <2>1. /\ viewers' \in Nat /\ counted' \in Nat /\ viewers' + counted' <= MaxViews
          /\ counted + 1 = counted' /\ counted' \in 0 .. MaxViews
      BY <1>2, ViewTypes, BoundAssumption DEF IncrementViews
    <2>2. post' \in Post /\ post'.views = counted'
      BY <1>2, <2>1, ViewTypes DEF IncrementViews, Post
    <2> QED
      BY <1>2, <2>1, <2>2, RowStep DEF IncrementViews
  <1>3. CASE IncrementViewsFails
    <2>1. viewers' \in Nat /\ viewers' + counted <= MaxViews
      BY <1>3, ViewTypes, BoundAssumption DEF IncrementViewsFails
    <2> QED
      BY <1>3, <2>1, ViewTypes, RowStep DEF IncrementViewsFails
  <1> QED
    BY <1>1, <1>2, <1>3

-----------------------------------------------------------------------------
(* The theorems *)

LEMMA IInit == Init => IInv
  <1> SUFFICES ASSUME Init PROVE IInv
    OBVIOUS
  <1>1. PICK r \in Reqs, n \in 0 .. MaxFiles :
           req = [q \in Reqs |->
                    IF q = r /\ n > 0 THEN [Idle EXCEPT !.pc = "images", !.last = n]
                    ELSE Idle]
    BY DEF Init
  <1> DEFINE t == [Idle EXCEPT !.pc = "images", !.last = n]
  <1>2. n \in Nat /\ 0 \in 0 .. MaxViews
    BY BoundAssumption
  <1>3. Idle \in Request
    BY IdleFits DEF Fits
  <1>4. /\ t \in Request /\ t.pc = "images" /\ t.index = 0 /\ t.last = n
        /\ t.image = None
    BY <1>3 DEF Idle, Request
  <1> HIDE DEF t
  <1>5. n > 0 => Fits(t)
    BY <1>2, <1>4 DEF Fits, Progress
  <1>6. \A q \in Reqs : req[q] = Idle \/ (n > 0 /\ req[q] = t)
    BY <1>1 DEF t
  <1>7. \A q \in Reqs : Fits(req[q]) /\ req[q].image = None
    BY <1>4, <1>5, <1>6, IdleFits
  <1>8. req \in [Reqs -> Request]
    BY <1>1, <1>7 DEF Fits
  <1>9. post = Published /\ Published \in Post /\ Published.views = 0
    BY PublishedPost DEF Init, Published
  <1>10. TypeOK
    BY <1>2, <1>8, <1>9 DEF Init, TypeOK, Request
  <1>11. Rows = {} /\ files = {} /\ unanswered = {} /\ viewers = 0 /\ counted = 0
    BY DEF Init, Rows
  <1> QED
    BY <1>2, <1>7, <1>9, <1>10, <1>11, BoundAssumption
       DEF IInv, Fits, Held, Distinct, ImageHasFile, NoStrayFile, Views, ViewsExact

LEMMA INext == IInv /\ [Next]_vars => IInv'
  <1> SUFFICES ASSUME IInv, [Next]_vars PROVE IInv'
    OBVIOUS
  <1>1. CASE OwnerStep
    <2>1. PICK r \in Reqs :
             \/ \E n \in 0 .. MaxFiles : FindByID(r, "edit", n)
             \/ \E n \in 1 .. MaxFiles : FindByID(r, "images", n)
             \/ Update(r)
             \/ UpdateFails(r) \/ SkipFile(r) \/ RefuseFile(r)
             \/ AddImage(r) \/ AddImageFails(r)
             \/ \E i \in Images : SaveFile(r, i)
             \/ RequestCut(r)
      BY <1>1 DEF OwnerStep, BeginUpdatePost, BeginAddImages
    <2>2. 1 .. MaxFiles \subseteq (0 .. MaxFiles) \ {0}
      BY BoundAssumption
    <2> QED
      BY <2>1, <2>2, FindByIDStep, UpdateStep, IdleStep, AddImageStep, AddImageFailsStep,
         SaveFileStep, RequestCutStep
  <1>2. CASE UpdatePostStatus \/ DeletePost \/ AdminDeletePost
    BY <1>2, StatusStep
  <1>3. CASE \E i \in Images : RemoveImage(i)
    BY <1>3, RemoveImageStep
  <1>4. CASE GetPost \/ IncrementViews \/ IncrementViewsFails
    BY <1>4, ViewStep
  <1>5. CASE UNCHANGED vars
    BY <1>5 DEF vars, IInv, TypeOK, Held, Distinct, ImageHasFile, NoStrayFile, Rows, Views,
                ViewsExact
  <1> QED
    BY <1>1, <1>2, <1>3, <1>4, <1>5 DEF Next

\* The inductive invariant holds in every reachable state.
THEOREM Invariance == Spec => []IInv
  BY IInit, INext, PTL DEF Spec

\* Every variable keeps its type.
THEOREM TypeCorrect == Spec => []TypeOK
  <1>1. IInv => TypeOK
    BY DEF IInv
  <1> QED
    BY <1>1, Invariance, PTL

\* The counter is incremented by the database and never written by an edit:
\* no view is lost or counted twice.
THEOREM ViewsAlwaysExact == Spec => []ViewsExact
  <1>1. IInv => ViewsExact
    BY DEF IInv
  <1> QED
    BY <1>1, Invariance, PTL

\* No listing shows an image whose file is missing, however many requests upload,
\* fail and remove at once, but one whose INSERT was carried out unanswered.
THEOREM ImagesAlwaysHaveFiles == Spec => []ImageHasFile
  <1>1. IInv => ImageHasFile
    BY DEF IInv
  <1> QED
    BY <1>1, Invariance, PTL

\* A failed INSERT leaves no file behind; only a removed image or a request
\* that was cut does.
THEOREM NoFileStrays == Spec => []NoStrayFile
  <1>1. IInv => NoStrayFile
    BY DEF IInv
  <1> QED
    BY <1>1, Invariance, PTL

-----------------------------------------------------------------------------
(* Walking through the listings: ranks and pages *)

\* The rows shown are finitely many.
LEMMA ShownFinite ==
    ASSUME WalkTypes
    PROVE  /\ IsFiniteSet(shown) /\ Cardinality(shown) \in Nat
           /\ \A p : /\ IsFiniteSet({q \in shown : key[q] > key[p]})
                     /\ Rank(p) \in Nat
  <1>1. IsFiniteSet(shown)
    BY PostsAssumption, FS_Subset DEF WalkTypes
  <1>2. ASSUME NEW p PROVE IsFiniteSet({q \in shown : key[q] > key[p]}) /\ Rank(p) \in Nat
    <2>1. IsFiniteSet({q \in shown : key[q] > key[p]})
      <3> DEFINE before == {q \in shown : key[q] > key[p]}
      <3>1. before \in SUBSET shown
        OBVIOUS
      <3> HIDE DEF before
      <3>2. IsFiniteSet(before)
        BY <1>1, <3>1, FS_Subset
      <3> QED
        BY <3>2 DEF before
    <2> QED
      BY <2>1, FS_CardinalityType DEF Rank
  <1> QED
    BY <1>1, <1>2, FS_CardinalityType

\* In an order of rows with different keys the i-th row has i - 1 before it, and
\* every row has its place.
LEMMA PlaceIsRank ==
    ASSUME WalkTypes, ~Tied, NEW s \in Orders
    PROVE  /\ \A i \in DOMAIN s : s[i] \in shown /\ Rank(s[i]) = i - 1
           /\ \A p \in shown : \E i \in DOMAIN s : s[i] = p
  <1> DEFINE n == Cardinality(shown)
  <1>1. /\ IsFiniteSet(shown) /\ n \in Nat
        /\ s \in [1 .. n -> shown]
        /\ \A i, j \in 1 .. n : i < j => s[i] # s[j] /\ key[s[i]] >= key[s[j]]
    BY ShownFinite DEF Orders
  <1> HIDE DEF n
  <1>2. \A i \in 1 .. n : s[i] \in shown /\ key[s[i]] \in Nat
    BY <1>1 DEF WalkTypes
  <1>3. \A i, j \in 1 .. n : i < j => key[s[i]] > key[s[j]]
    BY <1>1, <1>2 DEF Tied
  <1>4. \A i, j \in 1 .. n : s[i] = s[j] => i = j
    <2> SUFFICES ASSUME NEW i \in 1 .. n, NEW j \in 1 .. n, s[i] = s[j], i # j
                 PROVE  FALSE
      OBVIOUS
    <2>1. i < j \/ j < i
      BY <1>1
    <2> QED
      BY <1>1, <2>1
  <1>5. \A p \in shown : \E i \in 1 .. n : s[i] = p
    <2>1. s \in Injection(1 .. n, shown)
      BY <1>1, <1>4 DEF Injection, IsInjective
    <2>2. Cardinality(1 .. n) = n
      BY <1>1, FS_Interval
    <2>3. Cardinality(1 .. n) = Cardinality(shown)
      BY <2>2 DEF n
    <2>4. s \in Surjection(1 .. n, shown)
      BY <1>1, <2>1, <2>3, FS_Injection
    <2> QED
      BY <2>4 DEF Surjection
  <1>6. ASSUME NEW i \in 1 .. n PROVE Rank(s[i]) = i - 1
    <2> DEFINE before == {q \in shown : key[q] > key[s[i]]}
               f == [j \in 1 .. i - 1 |-> s[j]]
    <2>1. i \in Nat /\ i >= 1 /\ \A j \in 1 .. i - 1 : j \in 1 .. n /\ j < i
      BY <1>1
    <2>2. f \in [1 .. i - 1 -> before]
      BY <1>1, <1>2, <1>3, <2>1
    <2>3. \A q \in before : \E j \in 1 .. i - 1 : f[j] = q
      <3> SUFFICES ASSUME NEW q \in before PROVE \E j \in 1 .. i - 1 : f[j] = q
        OBVIOUS
      <3>1. PICK j \in 1 .. n : s[j] = q
        BY <1>5
      <3>2. j < i
        <4>1. j # i
          BY <1>2, <3>1
        <4>2. ~(i < j)
          BY <1>2, <1>3, <3>1
        <4> QED
          BY <1>1, <4>1, <4>2
      <3>3. j \in 1 .. i - 1
        BY <1>1, <3>2
      <3> QED
        BY <3>1, <3>3
    <2>4. \A j, k \in 1 .. i - 1 : f[j] = f[k] => j = k
      BY <1>4, <2>1
    <2>5. f \in Bijection(1 .. i - 1, before)
      <3> HIDE DEF f, before
      <3> QED
        BY <2>2, <2>3, <2>4 DEF Bijection, Injection, Surjection, IsInjective
    <2>6. IsFiniteSet(1 .. i - 1) /\ Cardinality(1 .. i - 1) = i - 1
      BY <2>1, FS_Interval
    <2>7. ExistsBijection(1 .. i - 1, before)
      BY <2>5 DEF ExistsBijection
    <2>8. Cardinality(before) = Cardinality(1 .. i - 1)
      <3> HIDE DEF f, before
      <3> QED
        BY <2>6, <2>7, FS_Bijection
    <2> QED
      BY <2>6, <2>8 DEF Rank
  <1>7. DOMAIN s = 1 .. n
    BY <1>1
  <1> QED
    BY <1>2, <1>5, <1>6, <1>7

\* Fewer rows never stand before a post when rows come, and never more when rows
\* leave.
LEMMA RankAfterInsert ==
    ASSUME WalkTypes, shown \subseteq shown', WalkTypes', UNCHANGED key, NEW p
    PROVE  Rank(p) <= Rank(p)' /\ Rank(p)' \in Nat
  <1> DEFINE before == {q \in shown : key[q] > key[p]}
             after == {q \in shown' : key'[q] > key'[p]}
  <1>1. before \in SUBSET after
    OBVIOUS
  <1>2. IsFiniteSet(after)
    <2>1. IsFiniteSet(shown')
      BY PostsAssumption, FS_Subset DEF WalkTypes
    <2>2. after \in SUBSET shown'
      OBVIOUS
    <2> HIDE DEF after
    <2> QED
      BY <2>1, <2>2, FS_Subset
  <1>3. Cardinality(before) <= Cardinality(after) /\ Cardinality(after) \in Nat
    <2> HIDE DEF before, after
    <2> QED
      BY <1>1, <1>2, FS_Subset, FS_CardinalityType
  <1> QED
    BY <1>3 DEF Rank

LEMMA RankAfterRemoval ==
    ASSUME WalkTypes, shown' \subseteq shown, UNCHANGED key, NEW p
    PROVE  Rank(p)' <= Rank(p) /\ Rank(p)' \in Nat
  <1> DEFINE before == {q \in shown : key[q] > key[p]}
             after == {q \in shown' : key'[q] > key'[p]}
  <1>1. after \in SUBSET before
    OBVIOUS
  <1>2. IsFiniteSet(before)
    BY ShownFinite
  <1>3. Cardinality(after) <= Cardinality(before) /\ Cardinality(after) \in Nat
    <2> HIDE DEF before, after
    <2> QED
      BY <1>1, <1>2, FS_Subset, FS_CardinalityType
  <1> QED
    BY <1>3 DEF Rank

\* A page begins at a multiple of the limit: at the offset if that is one, and the
\* page of the next offset begins behind the last row of this one.
LEMMA PageArithmetic ==
    ASSUME NEW o \in Nat
    PROVE  /\ PageStart(o) \in Nat
           /\ o % Limit = 0 => PageStart(o) = o
           /\ PageStart(o + Limit) = PageStart(o) + Limit
  <1>1. Limit \in Nat \ {0}
    BY LimitAssumption
  <1>2. o \div Limit \in Nat
    BY <1>1
  <1>3. o % Limit = 0 => (o \div Limit) * Limit = o
    BY <1>1
  <1>4. (o + Limit) \div Limit = o \div Limit + 1
    BY <1>1
  <1>5. (o \div Limit) * Limit \in Nat
    BY <1>1, <1>2
  <1>6. (o \div Limit + 1) * Limit = (o \div Limit) * Limit + Limit
    BY <1>1, <1>2
  <1> QED
    BY <1>3, <1>4, <1>5, <1>6 DEF PageStart

-----------------------------------------------------------------------------
(* Walking through the listings: what a walk keeps *)

\* A post the reader should still see lies at the offset or behind it, and a page
\* in progress was counted with every row that is shown.
StillAhead ==
    Aligned /\ events \subseteq {"inserted"} /\ walk.pc # "idle" =>
        /\ stayed \subseteq shown
        /\ \A p \in stayed \ seen : walk.pc # "done" /\ Rank(p) >= walk.offset
        /\ walk.pc = "page" => walk.total = Cardinality(shown)
        /\ walk.route # "search" => PageStart(walk.offset) = walk.offset

\* Where the rows of the page begin.
First == IF walk.route = "search" THEN walk.offset ELSE PageStart(walk.offset)

\* A post the reader has seen lies before the page to come.
AllBehind ==
    events \subseteq {"removed"} =>
        /\ ~twice
        /\ walk.pc \in {"count", "page"} => \A p \in seen \cap shown : Rank(p) < First

WalkInv ==
    /\ WalkTypes
    /\ walk.pc = "idle" => seen = {} /\ ~twice
    /\ StillAhead
    /\ AllBehind

\* The types are kept by every step.
LEMMA WalkTypesKept ==
    ASSUME WalkTypes, WalkNext
    PROVE  WalkTypes'
  <1>1. Limit \in Nat /\ Offsets \subseteq Nat
    BY LimitAssumption
  <1>2. CASE GetPosts \/ SearchPosts \/ GetPostsByPage
    BY <1>1, <1>2 DEF GetPosts, SearchPosts, GetPostsByPage, Start, Behind, WalkTypes, Walk, Routes
  <1>3. CASE Count
    BY <1>3, ShownFinite DEF Count, WalkTypes, Walk
  <1>4. ASSUME NEW start, Page(start) PROVE WalkTypes'
    <2>1. PICK s \in Orders :
            LET rows == {s[i] : i \in DOMAIN s \cap (start + 1 .. start + Limit)} IN
            seen' = seen \cup rows /\ twice' = (twice \/ rows \cap seen # {})
      BY <1>4 DEF Page
    <2>2. \A i \in DOMAIN s : s[i] \in shown
      BY DEF Orders
    <2>3. seen' \subseteq Posts /\ twice' \in BOOLEAN
      BY <2>1, <2>2 DEF WalkTypes
    <2>4. walk' \in Walk
      <3>1. walk \in Walk /\ walk.offset + Limit \in Nat
        BY <1>1 DEF WalkTypes, Walk
      <3>2. \/ walk' = [walk EXCEPT !.pc = "count", !.offset = @ + Limit, !.total = 0]
            \/ walk' = [walk EXCEPT !.pc = "done", !.total = 0]
        BY <1>4 DEF Page
      <3>3. CASE walk' = [walk EXCEPT !.pc = "count", !.offset = @ + Limit, !.total = 0]
        BY <3>1, <3>3 DEF Walk
      <3>4. CASE walk' = [walk EXCEPT !.pc = "done", !.total = 0]
        BY <3>1, <3>4 DEF Walk
      <3> QED
        BY <3>2, <3>3, <3>4
    <2>5. events' \subseteq {"inserted", "split", "removed", "moved", "tied"}
      BY <1>4 DEF Page, WalkTypes
    <2> QED
      BY <1>4, <2>3, <2>4, <2>5 DEF Page, WalkTypes
  <1>5. CASE Retry
    BY <1>5 DEF Retry, WalkTypes, Walk
  <1>6. ASSUME NEW p \in Posts, Appear(p) PROVE WalkTypes'
    BY <1>6 DEF Appear, WalkTypes
  <1>7. ASSUME NEW p \in Posts, Vanish(p) PROVE WalkTypes'
    BY <1>7 DEF Vanish, WalkTypes
  <1>8. ASSUME NEW p \in Posts, Shift(p) PROVE WalkTypes'
    BY <1>8 DEF Shift, WalkTypes
  <1> QED
    BY <1>2, <1>3, <1>4, <1>5, <1>6, <1>7, <1>8 DEF WalkNext, ListWithFilters, Search

\* A walk begins with everything behind its offset still to be seen.
LEMMA StartStep ==
    ASSUME WalkInv, WalkTypes', NEW route \in Routes, NEW offset \in Offsets,
           route = "admin" => offset % Limit = 0, Start(route, offset)
    PROVE  WalkInv'
  <1>1. /\ walk' = [walk EXCEPT !.route = route, !.pc = "count", !.from = offset,
                                !.offset = offset]
        /\ stayed' = Behind(offset) /\ events' = {}
        /\ walk.pc = "idle" /\ UNCHANGED <<shown, key, seen, twice>>
    BY DEF Start
  <1>2. /\ walk'.route = route /\ walk'.pc = "count" /\ walk'.from = offset
        /\ walk'.offset = offset
    BY <1>1 DEF WalkInv, WalkTypes, Walk
  <1>3. seen' = {} /\ ~twice'
    BY <1>1 DEF WalkInv
  <1>4. StillAhead'
    <2>1. \A p \in stayed' : p \in shown' /\ Rank(p)' >= offset
      BY <1>1 DEF Behind, Rank
    <2>2. Aligned' /\ route # "search" => PageStart(offset) = offset
      BY <1>2, PageArithmetic, LimitAssumption DEF Aligned
    <2> QED
      BY <1>2, <2>1, <2>2 DEF StillAhead, PageStart
  <1>5. AllBehind'
    BY <1>3 DEF AllBehind
  <1> QED
    BY <1>2, <1>3, <1>4, <1>5 DEF WalkInv

\* The count, a lost answer: nothing is shown, and the page is where it was.
LEMMA CountStep ==
    ASSUME WalkInv, WalkTypes', Count \/ Retry
    PROVE  WalkInv'
  <1>1. /\ walk.pc \in {"count", "page"} /\ walk'.pc \in {"count", "page"}
        /\ walk'.route = walk.route /\ walk'.from = walk.from /\ walk'.offset = walk.offset
        /\ walk'.pc = "page" => walk'.total = Cardinality(shown)
        /\ UNCHANGED <<shown, key, seen, stayed, twice, events>>
    BY DEF Count, Retry, WalkInv, WalkTypes, Walk
  <1>2. \A p : Rank(p)' = Rank(p)
    BY <1>1 DEF Rank
  <1>3. StillAhead'
    BY <1>1, <1>2 DEF WalkInv, StillAhead, Aligned, PageStart
  <1>4. AllBehind'
    BY <1>1, <1>2 DEF WalkInv, AllBehind, First, PageStart
  <1> QED
    BY <1>1, <1>3, <1>4 DEF WalkInv

\* A page shows the rows of the next ranks: what stays unseen lies behind them,
\* and nothing of them lay before the page.
LEMMA PageStep ==
    ASSUME WalkInv, WalkTypes', Page(First)
    PROVE  WalkInv'
  <1>1. /\ walk.pc = "page" /\ walk \in Walk /\ walk.offset \in Nat /\ walk.total \in Nat
        /\ Limit \in Nat \ {0}
    BY LimitAssumption DEF Page, WalkInv, WalkTypes, Walk
  <1>2. First \in Nat /\ (First' = First + Limit \/ walk'.offset # walk.offset + Limit
                                                 \/ walk'.route # walk.route)
    BY <1>1, PageArithmetic DEF First, PageStart
  <1>3. /\ walk'.route = walk.route /\ walk'.from = walk.from
        /\ \/ /\ walk.offset + Limit < walk.total
              /\ walk'.pc = "count" /\ walk'.offset = walk.offset + Limit
           \/ /\ ~(walk.offset + Limit < walk.total)
              /\ walk'.pc = "done" /\ walk'.offset = walk.offset
        /\ UNCHANGED <<shown, key, stayed>> /\ events \subseteq events'
    BY <1>1 DEF Page, HasMore, Walk
  <1>4. \A p : Rank(p)' = Rank(p)
    BY <1>3 DEF Rank
  <1>5. CASE Tied
    <2>1. "tied" \in events'
      BY <1>5 DEF Page
    <2> QED
      BY <1>3, <2>1 DEF WalkInv, StillAhead, AllBehind
  <1>6. CASE ~Tied
    <2> DEFINE PageOf(s) == {s[i] : i \in DOMAIN s \cap (First + 1 .. First + Limit)}
    <2>1. PICK s \in Orders : /\ seen' = seen \cup PageOf(s)
                              /\ twice' = (twice \/ PageOf(s) \cap seen # {})
      BY DEF Page
    <2>2. /\ DOMAIN s = 1 .. Cardinality(shown) /\ Cardinality(shown) \in Nat
          /\ \A i \in DOMAIN s : s[i] \in shown /\ Rank(s[i]) = i - 1
          /\ \A p \in shown : \E i \in DOMAIN s : s[i] = p
      <3>1. DOMAIN s = 1 .. Cardinality(shown)
        BY DEF Orders
      <3> QED
        BY <1>6, <3>1, PlaceIsRank, ShownFinite DEF WalkInv
    <2>3. \A p \in PageOf(s) : p \in shown /\ Rank(p) >= First /\ Rank(p) < First + Limit
      <3> SUFFICES ASSUME NEW i \in DOMAIN s, i \in First + 1 .. First + Limit
                   PROVE  s[i] \in shown /\ Rank(s[i]) >= First /\ Rank(s[i]) < First + Limit
        OBVIOUS
      <3> QED
        BY <1>1, <1>2, <2>2
    <2>4. \A p \in shown \ PageOf(s) :
             Rank(p) >= First => Rank(p) >= First + Limit /\ First + Limit < Cardinality(shown)
      <3> SUFFICES ASSUME NEW p \in shown, p \notin PageOf(s), Rank(p) >= First
                   PROVE  Rank(p) >= First + Limit /\ First + Limit < Cardinality(shown)
        OBVIOUS
      <3>1. PICK i \in DOMAIN s : s[i] = p
        BY <2>2
      <3>2. i \in 1 .. Cardinality(shown) /\ Rank(p) = i - 1
        BY <2>2, <3>1
      <3>3. i \notin First + 1 .. First + Limit
        BY <3>1
      <3> QED
        BY <1>1, <1>2, <2>2, <3>2, <3>3
    <2> HIDE DEF PageOf
    <2>5. StillAhead'
      <3> SUFFICES ASSUME Aligned', events' \subseteq {"inserted"}
                   PROVE  /\ stayed' \subseteq shown'
                          /\ \A p \in stayed' \ seen' : /\ walk'.pc # "done"
                                                        /\ Rank(p)' >= walk'.offset
                          /\ walk'.pc = "page" => walk'.total = Cardinality(shown)'
                          /\ walk'.route # "search" => PageStart(walk'.offset) = walk'.offset
        BY DEF StillAhead, PageStart
      <3>1. /\ stayed \subseteq shown
            /\ \A p \in stayed \ seen : Rank(p) >= walk.offset
            /\ walk.total = Cardinality(shown)
            /\ walk.route # "search" => PageStart(walk.offset) = walk.offset
        BY <1>1, <1>3 DEF WalkInv, StillAhead, Aligned
      <3>2. First = walk.offset
        BY <3>1 DEF First
      <3>3. ASSUME NEW p \in stayed' \ seen'
            PROVE  walk'.pc # "done" /\ Rank(p)' >= walk'.offset
        <4>1. p \in shown \ PageOf(s) /\ Rank(p) >= First
          BY <1>3, <2>1, <3>1, <3>2
        <4>2. Rank(p) >= walk.offset + Limit /\ walk.offset + Limit < walk.total
          BY <2>4, <3>1, <3>2, <4>1
        <4> QED
          BY <1>3, <1>4, <4>2
      <3>4. PageStart(walk.offset + Limit) = PageStart(walk.offset) + Limit
        BY <1>1, PageArithmetic
      <3> QED
        BY <1>3, <3>1, <3>3, <3>4
    <2>6. AllBehind'
      <3> SUFFICES ASSUME events' \subseteq {"removed"}
                   PROVE  /\ ~twice'
                          /\ walk'.pc \in {"count", "page"} =>
                                \A p \in seen' \cap shown' : Rank(p)' < First'
        BY DEF AllBehind
      <3>1. ~twice /\ \A p \in seen \cap shown : Rank(p) < First
        BY <1>1, <1>3 DEF WalkInv, AllBehind
      <3>2. \A p \in shown : Rank(p) \in Nat
        BY ShownFinite DEF WalkInv
      <3>3. PageOf(s) \cap seen = {}
        <4> SUFFICES ASSUME NEW p \in PageOf(s), p \in seen PROVE FALSE
          OBVIOUS
        <4> QED
          BY <1>2, <2>3, <3>1, <3>2
      <3>4. ASSUME walk'.pc \in {"count", "page"}, NEW p \in seen' \cap shown'
            PROVE  Rank(p)' < First'
        <4>1. First' = First + Limit
          BY <1>2, <1>3, <3>4
        <4>2. Rank(p) < First + Limit
          BY <1>1, <1>2, <1>3, <2>1, <2>3, <3>1, <3>2
        <4> QED
          BY <1>4, <4>1, <4>2
      <3> QED
        BY <2>1, <3>1, <3>3, <3>4
    <2> QED
      BY <1>3, <2>5, <2>6 DEF WalkInv
  <1> QED
    BY <1>5, <1>6

\* A post that appears moves none to the front; in the middle of a request it is
\* remembered as a split.
LEMMA AppearStep ==
    ASSUME WalkInv, WalkTypes', NEW p \in Posts, Appear(p)
    PROVE  WalkInv'
  <1>1. /\ shown' = shown \cup {p} /\ "inserted" \in events' /\ events \subseteq events'
        /\ walk.pc = "page" => "split" \in events'
        /\ UNCHANGED <<key, walk, seen, stayed, twice>>
    BY DEF Appear
  <1>2. \A q : Rank(q) <= Rank(q)' /\ Rank(q) \in Nat /\ Rank(q)' \in Nat
    <2>1. \A q : Rank(q) <= Rank(q)' /\ Rank(q)' \in Nat
      BY <1>1, RankAfterInsert DEF WalkInv
    <2>2. \A q : Rank(q) \in Nat
      BY ShownFinite DEF WalkInv
    <2> QED
      BY <2>1, <2>2
  <1>3. walk.offset \in Nat
    BY DEF WalkInv, WalkTypes, Walk
  <1>4. StillAhead'
    BY <1>1, <1>2, <1>3 DEF WalkInv, StillAhead, Aligned, PageStart
  <1>5. AllBehind'
    BY <1>1 DEF AllBehind
  <1> QED
    BY <1>1, <1>4, <1>5 DEF WalkInv

\* A post that leaves moves none to the back.
LEMMA VanishStep ==
    ASSUME WalkInv, WalkTypes', NEW p \in Posts, Vanish(p)
    PROVE  WalkInv'
  <1>1. /\ shown' = shown \ {p} /\ "removed" \in events' /\ events \subseteq events'
        /\ UNCHANGED <<key, walk, seen, twice>>
    BY DEF Vanish
  <1>2. \A q : Rank(q)' <= Rank(q) /\ Rank(q)' \in Nat
    BY <1>1, RankAfterRemoval DEF WalkInv
  <1>3. \A q : Rank(q) \in Nat
    BY ShownFinite DEF WalkInv
  <1>4. First' = First /\ First \in Nat
    <2>1. walk.offset \in Nat
      BY DEF WalkInv, WalkTypes, Walk
    <2>2. First' = First
      BY <1>1 DEF First, PageStart
    <2> QED
      BY <2>1, <2>2, PageArithmetic DEF First
  <1>5. AllBehind'
    BY <1>1, <1>2, <1>3, <1>4 DEF WalkInv, AllBehind
  <1>6. StillAhead'
    BY <1>1 DEF StillAhead
  <1> QED
    BY <1>1, <1>5, <1>6 DEF WalkInv

\* A post that changes its place is remembered.
LEMMA ShiftStep ==
    ASSUME WalkInv, WalkTypes', NEW p \in Posts, Shift(p)
    PROVE  WalkInv'
  <1>1. "moved" \in events' /\ UNCHANGED <<walk, seen, twice>>
    BY DEF Shift
  <1> QED
    BY <1>1 DEF WalkInv, StillAhead, AllBehind

LEMMA WalkInvariance == WalkSpec => []WalkInv
  <1>1. WalkInit => WalkInv
    <2> SUFFICES ASSUME WalkInit PROVE WalkInv
      OBVIOUS
    <2>1. walk \in Walk /\ walk.pc = "idle" /\ seen = {} /\ twice = FALSE
      BY DEF WalkInit, Walk, Routes
    <2>2. WalkTypes
      BY <2>1 DEF WalkInit, WalkTypes
    <2>3. StillAhead
      BY <2>1 DEF StillAhead
    <2>4. AllBehind
      BY <2>1 DEF AllBehind
    <2> QED
      BY <2>1, <2>2, <2>3, <2>4 DEF WalkInv
  <1>2. WalkInv /\ [WalkNext]_walkVars => WalkInv'
    <2> SUFFICES ASSUME WalkInv, [WalkNext]_walkVars PROVE WalkInv'
      OBVIOUS
    <2>1. CASE UNCHANGED walkVars
      BY <2>1 DEF walkVars, WalkInv, WalkTypes, StillAhead, AllBehind, Aligned, First, Rank,
                  PageStart
    <2>2. CASE WalkNext
      <3>1. WalkTypes'
        BY <2>2, WalkTypesKept DEF WalkInv
      <3>2. CASE GetPosts \/ SearchPosts \/ GetPostsByPage
        BY <3>1, <3>2, StartStep DEF GetPosts, SearchPosts, GetPostsByPage, Routes
      <3>3. CASE Count \/ Retry
        BY <3>1, <3>3, CountStep
      <3>4. CASE ListWithFilters \/ Search
        BY <3>1, <3>4, PageStep DEF ListWithFilters, Search, First
      <3>5. ASSUME NEW p \in Posts, Appear(p) \/ Vanish(p) \/ Shift(p) PROVE WalkInv'
        BY <3>1, <3>5, AppearStep, VanishStep, ShiftStep
      <3> QED
        BY <2>2, <3>2, <3>3, <3>4, <3>5 DEF WalkNext
    <2> QED
      BY <2>1, <2>2
  <1> QED
    BY <1>1, <1>2, PTL DEF WalkSpec

\* The state of a walk has its types.
THEOREM WalkTypeCorrect == WalkSpec => []WalkTypes
  <1>1. WalkInv => WalkTypes
    BY DEF WalkInv
  <1> QED
    BY <1>1, WalkInvariance, PTL

\* A reader who follows hasMore to the end of a listing has seen every post that
\* was there all the time, whatever was added between the requests (Page).
THEOREM WalkSeesEverything == WalkSpec => []WalkSeesAll
  <1>1. WalkInv => WalkSeesAll
    BY DEF WalkInv, StillAhead, WalkSeesAll
  <1> QED
    BY <1>1, WalkInvariance, PTL

\* No answer of a walk holds a post an earlier one held, whatever was removed
\* between the statements (Page).
THEOREM NothingTwice == WalkSpec => []NoRowTwice
  <1>1. WalkInv => NoRowTwice
    BY DEF WalkInv, AllBehind, NoRowTwice
  <1> QED
    BY <1>1, WalkInvariance, PTL
=================================================================================
