SPECIFICATION Spec
CONSTANTS
    Reqs = {r1, r2}
    Images = {i1, i2}
    MaxFiles = 2
    MaxViews = 1
    None = None
SYMMETRY Symmetry
INVARIANTS ViewsExact ImageHasFile NoStrayFile
