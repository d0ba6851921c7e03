SPECIFICATION Spec
CONSTANTS
    Users = {u1, u2}
    Admins = {a1, a2}
    Topups = {t1, t2}
    Posts = {p1, p2, p3}
    Amounts = {2, 5}
    Cost = 2
    None = None
SYMMETRY Symmetry
INVARIANTS TypeOK CreditedOnce BooksBalance
PROPERTIES RevenueNotOverstated ImplementsPayPerPost
