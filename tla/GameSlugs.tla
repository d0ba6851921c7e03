------------------------------- MODULE GameSlugs -------------------------------
(* What slugs are made of the names of games, and by which of two functions. *)

CONSTANTS
    Names,     \* names of games
    Slugs,     \* slugs that are not empty
    Empty,     \* the empty slug
    Generate,  \* pkg/slug: the slug of each name
    Slugify    \* game_repo.go: the slug of each name

ASSUME SlugAssumption ==
    /\ Empty \notin Slugs
    /\ Generate \in [Names -> Slugs \cup {Empty}]
    /\ Slugify \in [Names -> Slugs \cup {Empty}]
=============================================================================
