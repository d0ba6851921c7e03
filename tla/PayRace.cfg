SPECIFICATION FairSpec
CONSTANTS
    Txs = {t1}
    Users = {u1}
    ExtIds = {e1}
    Subs = {s1, s2}
    Requests = {r1, r2}
    Methods = {"payme", "click", "xazna"}
    None = None
INVARIANTS GrantedOnlyIfPaid LinksConsistent EntitledWhenQuiet
PROPERTIES NeverPendingAgain PaymeExpiryFinal PaidIsHonoured
