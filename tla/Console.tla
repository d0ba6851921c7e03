-------------------------------- MODULE Console --------------------------------
(***************************************************************************)
(* The administration console at work: the accounts of Admins together     *)
(* with the catalogue of Games.  A request about games passes the same     *)
(* middleware, needs the permission manage_games, and is logged like a     *)
(* change of an account.  A request of Games belongs to the task of the    *)
(* same name: it begins when the task is admitted and is over when the     *)
(* task has only its log entry to write.                                   *)
(***************************************************************************)
EXTENDS Admins, GameSlugs

CONSTANT GameIds  \* identifiers of games

VARIABLES
    games,  \* the table games
    form    \* the requests about games

Catalogue == INSTANCE Games WITH Ids <- GameIds, req <- form

catalogueVars == <<games, form>>

consoleVars == <<vars, games, form>>

ConsoleInit == Init /\ Catalogue!Init

-----------------------------------------------------------------------------

GameManagers == {a \in Stored : HasPermission(admins[a], "manage_games")}

BeginManageGames(r) == Admit(r, "games", GameManagers) /\ UNCHANGED catalogueVars

\* CreateGame, UpdateGame or DeleteGame: the form is read, and the row.
ReadGame(r) ==
    /\ task[r].pc = "admitted" /\ task[r].kind = "games"
    /\ Catalogue!CreateGame(r) \/ Catalogue!UpdateGame(r) \/ Catalogue!DeleteGame(r)
    /\ task' = [task EXCEPT ![r].pc = "ready"]
    /\ UNCHANGED <<admins, now, issued, logged, done, asked, left, vouched, mixed, failed>>

\* Mutant: a game that is changed is not logged.
WriteGameUnlogged(r) ==
    /\ task[r].pc = "ready" /\ task[r].kind = "games"
    /\ Catalogue!Insert(r) \/ Catalogue!Update(r)
    /\ Room /\ done' = done + 1
    /\ task' = [task EXCEPT ![r] = Idle]
    /\ UNCHANGED <<admins, now, issued, logged, asked, left, vouched, mixed, failed>>

WriteGame(r) ==
    /\ task[r].pc = "ready" /\ task[r].kind = "games"
    /\ Catalogue!Insert(r) \/ Catalogue!Update(r)
    /\ Carried(r, Idle)
    /\ UNCHANGED <<admins, now, issued, logged, asked, left, vouched, mixed, failed>>

GameRefused(r) ==
    /\ task[r].kind = "games"
    /\ Refused(r)
    /\ IF task[r].pc = "ready" THEN Catalogue!Refused(r) ELSE UNCHANGED catalogueVars

AccountStep ==
    /\ \/ \E r \in Reqs :
             \/ Login(r) \/ RefreshToken(r) \/ RefreshTokenAsUser(r)
             \/ GenerateAdminTokens(r) \/ Logout(r)
             \/ BeginCreateAdmin(r) \/ CheckEmail(r) \/ Create(r)
             \/ BeginUpdateAdmin(r) \/ FindByID(r) \/ Update(r)
             \/ LogAdminAction(r) \/ LogAdminActionFails(r) \/ CutBeforeLog(r)
             \/ task[r].kind # "games" /\ Refused(r)
       \/ Tick
    /\ UNCHANGED catalogueVars

ConsoleNext ==
    \/ AccountStep
    \/ \E r \in Reqs : BeginManageGames(r) \/ ReadGame(r) \/ WriteGame(r) \/ GameRefused(r)

ConsoleSpec == ConsoleInit /\ [][ConsoleNext]_consoleVars

-----------------------------------------------------------------------------
(* Properties *)

\* A public path leads to at most one game, although two administrators may
\* both find a slug free before either of them writes.
SlugLeadsToOne == Catalogue!SlugLeadsToOne
=============================================================================
