SPECIFICATION WalkSpec
CONSTANTS
    Posts = {p1, p2, p3, p4, p5}
    MaxKey = 4
    Limit = 2
    Offsets = {0, 1, 2}
SYMMETRY Symmetry
CONSTRAINT StillPromised
CHECK_DEADLOCK FALSE
INVARIANTS WalkSeesAll NoRowTwice
