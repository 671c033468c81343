SPECIFICATION Spec
CONSTANTS
    k1 = k1 k2 = k2 k3 = k3 t1 = t1 t2 = t2
    SigningKeys = {k1, k2, k3}
    Configurations <- AnyOrder
    Requests = {t1}
INVARIANTS
    TypeOK
    AtMostOneActive
PROPERTY RetiredStands
