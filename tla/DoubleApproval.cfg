SPECIFICATION Spec
CONSTANTS
    a1 = a1
    c1 = c1
    c2 = c2
    Action = {a1}
    Creations = {}
    Deletions = {}
    Client = {c1, c2}
    Api = {"propose", "approve"}
    Faults = {}
    MaxClock = 1
    MaxEdits = 0
    MaxRetries = 0
    Attempts = 2
SYMMETRY Callers
INVARIANTS
    AtMostOnce
