SPECIFICATION ConsoleSpec
CONSTANTS
    Reqs = {r1, r2}
    Ids = {a1, a2}
    Emails = {m1, m2}
    AccessLife = 1
    RefreshLife = 2
    MaxTime = 2
    MaxDone = 3
    GameIds = {g1, g2}
    Names <- MCNames
    Slugs <- MCSlugs
    Empty = Empty
    Generate <- MCGenerate
    Slugify <- MCSlugify
    None = None
SYMMETRY Symmetry
CHECK_DEADLOCK FALSE
INVARIANTS SlugLeadsToOne PermissionsFollowRole AccessEnds LastWordCounts LogTellsTruth
