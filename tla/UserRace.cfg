SPECIFICATION Spec
CONSTANTS
    Reqs = {r1, r2}
    Docs = {d1}
    MaxBalance = 1
    None = None
SYMMETRY Symmetry
INVARIANTS BalanceKept NothingInvented ReviewHasFile
PROPERTIES DeletedIsGone OnlyOwnColumns
CHECK_DEADLOCK FALSE
