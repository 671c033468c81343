SPECIFICATION TargetsSpec
CONSTANTS
    v1 = v1 k1 = k1 k2 = k2 t1 = t1 t2 = t2 calendar = calendar
    NoKey = NoKey
    Devices = {v1}
    Resources = {v1}
    Keys = {k1, k2}
    ConfiguredRevoked = {}
    RequireProof = FALSE
    Requests = {t1, t2}
    Listeners = {}
    Capacity = 1
    Repos = {}
    Branches = {}
    Capabilities = {calendar}
    Advertised <- MCAdvertised
SYMMETRY Symmetry
VIEW View
INVARIANTS
    TypeOK
    DispatchableKeySound
    RowsSound
    TargetsVouched
