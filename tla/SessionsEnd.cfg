SPECIFICATION Spec
CONSTANTS
    k1 = k1 a1 = a1 t1 = t1 t2 = t2
    NoAccount = NoAccount
    Tokens = {k1}
    Accounts = {a1}
    Requests = {t1, t2}
SYMMETRY Symmetry
INVARIANTS
    TypeOK
    EntitledOnly
    InHandEntitled
PROPERTY EndedStaysEnded
