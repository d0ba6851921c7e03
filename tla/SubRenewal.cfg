SPECIFICATION Spec
CONSTANTS
    Users = {u1}
    Subs = {s1, s2}
    Granted = Granted
    None = None
    Term = 2
    Horizon = 12
    AdminUntil = 3
SYMMETRY Symmetry
PROPERTIES RenewalHonoured
