SPECIFICATION Spec
CONSTANTS
    a1 = a1
    c1 = c1
    Action = {a1}
    Creations = {}
    Deletions = {a1}
    Client = {c1}
    Api = {"propose", "approve"}
    Faults = {"read_error"}
    MaxClock = 1
    MaxEdits = 0
    MaxRetries = 0
    Attempts = 2
INVARIANTS
    VerifiedHasEvidence
