SPECIFICATION Spec
CONSTANTS
    j1 = j1 j2 = j2 v1 = v1 n1 = n1 n2 = n2 a1 = a1 a2 = a2 d1 = d1 d2 = d2 r1 = r1 r2 = r2
    NoJob = NoJob
    NoDevice = NoDevice
    NoApproval = NoApproval
    Devices = {v1}
    Jobs = {j1}
    RepositoryJobs = {j1}
    LegacyJobs = {j1}
    Approvals = {a1}
    Attempts = {n1, n2}
    Dispatchers = {d1, d2}
    Resolvers = {r1}
    Outcomes = {"completed", "completed_badly", "failed"}
    Failures = {"crash", "publish_error", "db_error", "lose_event"}
SYMMETRY Symmetry
INVARIANTS
    TypeOK
    StatusJustified
    FailedIsRetryable
\* every command published and every request answered: the modelled work is done
CHECK_DEADLOCK FALSE
