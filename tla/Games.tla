--------------------------------- MODULE Games ---------------------------------
(***************************************************************************)
(* The catalogue of games: what administrators do to it                    *)
(* (handler/admin_handler.go over repository/postgres/game_repo.go) and    *)
(* what the public lists and looks up (handler/game_handler.go).           *)
(*                                                                         *)
(* A slug names a game in the public paths.  It is given or derived from   *)
(* the name, by pkg/slug when a game is created and by slugify when it is  *)
(* updated; either may leave nothing of a name, and different names may    *)
(* have one slug.  UpdateGame and DeleteGame read the row, change the copy *)
(* and write every column back.  Icon and genres are left out.             *)
(***************************************************************************)
EXTENDS GameSlugs

CONSTANTS
    Reqs,  \* requests of administrators that may be in progress
    Ids,   \* identifiers of games
    None

VARIABLES
    games,  \* the table games
    req     \* the requests, each with the row it is about to write

vars == <<games, req>>

Game == [name : Names, slug : Slugs \cup {Empty}, active : BOOLEAN]

Idle == [kind |-> "none", id |-> None, copy |-> None]

TypeOK ==
    /\ games \in [Ids -> Game \cup {None}]
    /\ req \in [Reqs -> [kind : {"none", "create", "update"}, id : Ids \cup {None},
                         copy : Game \cup {None}]]

Init ==
    /\ games = [g \in Ids |-> None]
    /\ req = [r \in Reqs |-> Idle]

Stored == {g \in Ids : games[g] # None}

FindBySlug(slug) == {g \in Stored : games[g].slug = slug}

\* Both names and slugs are unique.
Clash(game, others) ==
    \E g \in others : games[g].name = game.name \/ games[g].slug = game.slug

-----------------------------------------------------------------------------

\* A slug found taken is refused, but the lookup may fail, which the handler
\* ignores: any slug may pass.
CreateGame(r) ==
    /\ req[r] = Idle
    /\ \E name \in Names, given \in Slugs \cup {Empty}, active \in BOOLEAN :
         LET slug == IF given = Empty THEN Generate[name] ELSE given IN
         /\ slug # Empty
         /\ req' = [req EXCEPT ![r] =
                      [kind |-> "create", id |-> None,
                       copy |-> [name |-> name, slug |-> slug, active |-> active]]]
    /\ UNCHANGED games

Finish(r) == req' = [req EXCEPT ![r] = Idle]

\* Mutant: the slug was checked, so the constraint is not needed.
InsertChecked(r) ==
    /\ req[r].kind = "create"
    /\ \E id \in Ids \ Stored : games' = [games EXCEPT ![id] = req[r].copy]
    /\ Finish(r)

Insert(r) ==
    /\ req[r].kind = "create"
    /\ ~Clash(req[r].copy, Stored)
    /\ \E id \in Ids \ Stored : games' = [games EXCEPT ![id] = req[r].copy]
    /\ Finish(r)

\* What the form leaves out stays as it was read: each value chosen here may be
\* the old one.
UpdateGame(r) ==
    /\ req[r] = Idle
    /\ \E id \in Stored, name \in Names, slug \in Slugs \cup {Empty}, active \in BOOLEAN :
         req' = [req EXCEPT ![r] =
                   [kind |-> "update", id |-> id,
                    copy |-> [name |-> name, slug |-> slug, active |-> active]]]
    /\ UNCHANGED games

DeleteGame(r) ==
    /\ req[r] = Idle
    /\ \E id \in Stored :
         req' = [req EXCEPT ![r] =
                   [kind |-> "update", id |-> id,
                    copy |-> [games[id] EXCEPT !.active = FALSE]]]
    /\ UNCHANGED games

\* The row an update writes.
Completed(copy) ==
    [copy EXCEPT !.slug = IF @ = Empty THEN Slugify[copy.name] ELSE @]

Update(r) ==
    LET id == req[r].id
        game == Completed(req[r].copy) IN
    /\ req[r].kind = "update"
    /\ ~Clash(game, Stored \ {id})
    /\ games' = [games EXCEPT ![id] = game]
    /\ Finish(r)

\* The table refuses the row, or the statement fails.
Refused(r) ==
    /\ req[r] # Idle
    /\ Finish(r)
    /\ UNCHANGED games

Next ==
    \E r \in Reqs :
        CreateGame(r) \/ Insert(r) \/ UpdateGame(r) \/ DeleteGame(r) \/ Update(r)
        \/ Refused(r)

Spec == Init /\ [][Next]_vars

-----------------------------------------------------------------------------
(* Properties *)

\* A public path leads to at most one game, although two administrators may
\* both find a slug free before either of them writes.
SlugLeadsToOne ==
    \A slug \in Slugs \cup {Empty} : \A g, h \in FindBySlug(slug) : g = h
=============================================================================
