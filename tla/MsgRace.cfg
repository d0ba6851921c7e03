SPECIFICATION Spec
CONSTANTS
    Users = {u1, u2}
    Msgs = {m1, m2}
    None = None
SYMMETRY Symmetry
INVARIANTS BadgeCoversUnread BadgeHasReason
