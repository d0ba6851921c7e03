SPECIFICATION Spec
CONSTANTS
    Txs = {t1}
    Users = {u1}
    Subs = {s1, s2, s3}
    Requests = {r1, r2}
    Methods = {"payme"}
    ExtIds = {e1, e2}
    None = None
INVARIANTS OneSubscriptionPerPayment
