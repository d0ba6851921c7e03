-------------------------------- MODULE Listing --------------------------------
(***************************************************************************)
(* Walking through the listings of posts page by page: GetPosts and        *)
(* SearchPosts of handler/post_handler.go, GetPosts of                     *)
(* handler/admin_handler.go, over repository/postgres/post_repo.go.        *)
(*                                                                         *)
(* A request counts the rows of the filter, then selects one page of them  *)
(* in descending order of one column.  These are two statements, and the   *)
(* requests of a walk share nothing but the offset the last answer named,  *)
(* so posts come, go and change places between any two.  Rows with equal   *)
(* values are in the order the database likes, a different one each time.  *)
(***************************************************************************)
EXTENDS Naturals, FiniteSets

CONSTANTS
    Posts,    \* the posts
    MaxKey,   \* bound on the values of the column they are sorted by
    Limit,    \* rows on a page
    Offsets   \* offsets a reader may begin with

ASSUME LimitAssumption == Limit \in Nat \ {0} /\ MaxKey \in Nat /\ Offsets \subseteq Nat
ASSUME PostsAssumption == IsFiniteSet(Posts)

VARIABLES
    shown,   \* the posts the filter selects
    key,     \* the column of each post
    walk,    \* the reader: the route, the request in progress and its offset
    seen,    \* the posts the answers held
    stayed,  \* history: the posts to be shown, there ever since the walk began
    twice,   \* history: an answer held a post seen before
    events   \* history: what happened during the walk

walkVars == <<shown, key, walk, seen, stayed, twice, events>>

Routes == {"public", "search", "admin"}

Walk == [route : Routes, pc : {"idle", "count", "page", "done"}, from : Nat,
         offset : Nat, total : Nat]

WalkTypes ==
    /\ shown \subseteq Posts /\ key \in [Posts -> 0 .. MaxKey]
    /\ walk \in Walk
    /\ seen \subseteq Posts /\ stayed \subseteq Posts
    /\ twice \in BOOLEAN
    /\ events \subseteq {"inserted", "split", "removed", "moved", "tied"}

WalkInit ==
    /\ shown \in SUBSET Posts /\ key \in [Posts -> 0 .. MaxKey]
    /\ walk = [route |-> "public", pc |-> "idle", from |-> 0, offset |-> 0, total |-> 0]
    /\ seen = {} /\ stayed = {}
    /\ twice = FALSE
    /\ events = {}

-----------------------------------------------------------------------------
(* The reader *)

\* The posts before p.
Rank(p) == Cardinality({q \in shown : key[q] > key[p]})

\* The posts behind the first k.
Behind(k) == {p \in shown : Rank(p) >= k}

Start(route, offset) ==
    /\ walk.pc = "idle"
    /\ walk' = [walk EXCEPT !.route = route, !.pc = "count", !.from = offset,
                            !.offset = offset]
    /\ stayed' = Behind(offset)
    /\ events' = {}
    /\ UNCHANGED <<shown, key, seen, twice>>

GetPosts == \E offset \in Offsets : Start("public", offset)

SearchPosts == \E offset \in Offsets : Start("search", offset)

\* The administrators' route takes pages instead of offsets.
GetPostsByPage == \E offset \in Offsets : offset % Limit = 0 /\ Start("admin", offset)

Count ==
    /\ walk.pc = "count"
    /\ walk' = [walk EXCEPT !.pc = "page", !.total = Cardinality(shown)]
    /\ UNCHANGED <<shown, key, seen, stayed, twice, events>>

Tied == \E p, q \in shown : p # q /\ key[p] = key[q]

\* The orders the database may choose from.
Orders ==
    {s \in [1 .. Cardinality(shown) -> shown] :
        \A i, j \in DOMAIN s : i < j => s[i] # s[j] /\ key[s[i]] >= key[s[j]]}

\* Mutant: the last page is announced only when it is full.
HasMoreFull(offset, total) == offset + 2 * Limit <= total

HasMore(offset, total) == offset + Limit < total

\* The page, and the answer that names the next offset.
Page(start) ==
    /\ walk.pc = "page"
    /\ \E s \in Orders :
          LET rows == {s[i] : i \in DOMAIN s \cap (start + 1 .. start + Limit)} IN
          /\ seen' = seen \cup rows
          /\ twice' = (twice \/ rows \cap seen # {})
    /\ walk' = IF HasMore(walk.offset, walk.total)
               THEN [walk EXCEPT !.pc = "count", !.offset = @ + Limit, !.total = 0]
               ELSE [walk EXCEPT !.pc = "done", !.total = 0]
    /\ events' = IF Tied THEN events \cup {"tied"} ELSE events
    /\ UNCHANGED <<shown, key, stayed>>

\* Mutant: pages are counted from zero on one side and from one on the other.
ListWithFiltersFromZero ==
    /\ walk.route # "search"
    /\ Page(IF walk.offset < Limit THEN 0 ELSE (walk.offset \div Limit - 1) * Limit)

\* The offset becomes the number of a page, which begins at a multiple of the
\* limit.
PageStart(offset) == (offset \div Limit) * Limit

ListWithFilters == walk.route # "search" /\ Page(PageStart(walk.offset))

Search == walk.route = "search" /\ Page(walk.offset)

\* A statement fails, or the answer is lost: the page is asked for again.
Retry ==
    /\ walk.pc = "page"
    /\ walk' = [walk EXCEPT !.pc = "count", !.total = 0]
    /\ UNCHANGED <<shown, key, seen, stayed, twice, events>>

-----------------------------------------------------------------------------
(* The others *)

\* A post is created, or offered again.
Appear(p) ==
    /\ walk.pc # "done"
    /\ p \notin shown
    /\ shown' = shown \cup {p}
    /\ events' = events \cup {"inserted"} \cup IF walk.pc = "page" THEN {"split"} ELSE {}
    /\ UNCHANGED <<key, walk, seen, stayed, twice>>

\* A post is sold, withdrawn or edited out of the filter.
Vanish(p) ==
    /\ walk.pc # "done"
    /\ p \in shown
    /\ shown' = shown \ {p}
    /\ stayed' = stayed \ {p}
    /\ events' = events \cup {"removed"}
    /\ UNCHANGED <<key, walk, seen, twice>>

\* Its price, title or number of views changes.
Shift(p) ==
    /\ walk.pc # "done"
    /\ p \in shown
    /\ \E k \in 0 .. MaxKey \ {key[p]} : key' = [key EXCEPT ![p] = k]
    /\ events' = events \cup {"moved"}
    /\ UNCHANGED <<shown, walk, seen, stayed, twice>>

WalkNext ==
    \/ GetPosts \/ SearchPosts \/ GetPostsByPage
    \/ Count \/ ListWithFilters \/ Search \/ Retry
    \/ \E p \in Posts : Appear(p) \/ Vanish(p) \/ Shift(p)

WalkSpec == WalkInit /\ [][WalkNext]_walkVars

-----------------------------------------------------------------------------
(* Properties *)

\* The public route names the offset it was asked for, but its pages begin at
\* multiples of the limit.
Aligned == walk.route = "search" \/ walk.from % Limit = 0

\* A reader who goes on until hasMore is false has seen every post that was there
\* all the time, although posts were added between the requests; not, however,
\* if one was added between the two statements of a request, if one was removed
\* or moved, if two were equal, or if the walk began inside a page.
WalkSeesAll ==
    walk.pc = "done" /\ Aligned /\ events \subseteq {"inserted"} => stayed \subseteq seen

\* No post is shown twice, although posts were removed, unless one was added or
\* moved or two were equal.
NoRowTwice == events \subseteq {"removed"} => ~twice
=============================================================================
