SPECIFICATION Spec
CONSTANTS
    Txs = {t1, t2}
    Users = {u1}
    ExtIds = {e1}
    Subs = {s1, s2, s3}
    Requests = {r1}
    Methods = {"payme", "click", "uzum"}
    None = None
SYMMETRY Symmetry
 
PROPERTIES ImplementsContract
