SPECIFICATION Spec
CONSTANTS
    c1 = c1 c2 = c2 p1 = p1 p2 = p2 n1 = n1 n2 = n2
    None = None
    NoDraft = NoDraft
    NoTarget = NoTarget
    Names = {"alpha", "rt", "dev", "main", "unspecified", "generic_jobs"}
    Reading <- MCReading
    Texts <- MCTexts
    Orders <- MCOrders
    ReplyText = "thanks"
    Clients = {c1, c2}
    MaxRequests = 3
    MaxJobs = 1
    NoteIds = {n1, n2}
    Scores = {0, 150}
    Times = {1, 2}
    Promoters = {p1, p2}
SYMMETRY Symmetry
INVARIANTS
    TypeOK
    RepliesInformed
    ReadOnlyKept
    RefinementKeeps
    JobAsShown
    HandoffAcknowledged
    MemoryMerged
    PromotedFirst
    OneNoteInTurn
\* the bounds on messages and notes end every behaviour
CHECK_DEADLOCK FALSE
