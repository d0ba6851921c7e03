SPECIFICATION Spec
CONSTANTS
    Users = {u1}
    Subs = {s1, s2}
    Granted = Granted
    None = None
    Term = 1
    Horizon = 10
    AdminUntil = 3
SYMMETRY Symmetry
INVARIANTS TypeOK GraceServed PaidTermHonoured AccessMatchesRows TermsEnforcedDaily
PROPERTIES ExpiredIsFinal
