SPECIFICATION ConsoleSpec
CONSTANTS
    v1 = v1 k1 = k1 k2 = k2 k3 = k3 t1 = t1 l1 = l1 job = job
    alpha = alpha beta = beta main = main calendar = calendar
    NoKey = NoKey
    Devices = {v1}
    Resources = {v1, job}
    Keys = {k1, k2, k3}
    ConfiguredRevoked = {k3}
    RequireProof = TRUE
    Requests = {t1}
    Listeners = {l1}
    Capacity = 2
    Repos = {alpha, beta}
    Branches = {main}
    Capabilities = {calendar}
    Advertised <- MCAdvertised
SYMMETRY Symmetry
INVARIANTS
    ConsoleTypeOK
    RotationConfirmed
    ListenerInformed
    ServesAsRegistered
PROPERTY RevocationStands
