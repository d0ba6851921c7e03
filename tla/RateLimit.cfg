SPECIFICATION MCSpec
CONSTANTS
    Reqs = {r1, r2}
    Window = 3
    Limit = 2
    MaxTime = 5
    MaxRequests = 4
    Ids = {u1, u2, u3}
    Identities <- MCIdentities
    Emails <- MCEmails
    NoEmail = NoEmail
    Provider <- MCProvider
    EmailOf <- MCEmailOf
    Null = Null
    None = None
SYMMETRY Symmetry
CHECK_DEADLOCK FALSE
INVARIANTS AtMostLimit RefusedWhenBusy NoStrangers OneHome
