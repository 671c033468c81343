SPECIFICATION Spec
CONSTANTS
    j1 = j1 j2 = j2 v1 = v1 n1 = n1 n2 = n2 a1 = a1 a2 = a2 d1 = d1 d2 = d2 r1 = r1 r2 = r2
    NoJob = NoJob
    NoDevice = NoDevice
    NoApproval = NoApproval
    Devices = {v1}
    Jobs = {j1}
    RepositoryJobs = {j1}
    LegacyJobs = {}
    Approvals = {a1}
    Attempts = {n1}
    Dispatchers = {d1}
    Resolvers = {r1}
    Outcomes = {"completed", "failed"}
    Failures = {}
PROPERTIES
    FoldedStatusKept
\* every command published and every request answered: the modelled work is done
CHECK_DEADLOCK FALSE
