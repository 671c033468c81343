SPECIFICATION Spec
CONSTANTS
    v1 = v1 k1 = k1 k2 = k2 k3 = k3 t1 = t1 t2 = t2
    NoKey = NoKey
    Devices = {v1}
    Keys = {k1, k2, k3}
    ConfiguredRevoked = {k3}
    RequireProof = TRUE
    Requests = {t1, t2}
SYMMETRY Symmetry
PROPERTY RevocationStands
