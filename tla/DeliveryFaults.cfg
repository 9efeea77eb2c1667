SPECIFICATION Spec
CONSTANTS
    a1 = a1
    c1 = c1
    Action = {a1}
    Creations = {}
    Deletions = {}
    Client = {c1}
    Api = {"propose", "approve", "stream", "retry", "reject", "resume"}
    Faults = {"crash", "refused", "lost", "partial", "read_error", "read_throw", "callback"}
    MaxClock = 2
    MaxEdits = 1
    MaxRetries = 1
    Attempts = 2
INVARIANTS
    TypeOK
    ExecutedAtIsTrue
    ExecutionIsLicensed
    MutationHasApproval
    RetriesPayForWrites
    VerifiedUnlessBlind
PROPERTIES
    ImplementsLedger
