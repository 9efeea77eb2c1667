SPECIFICATION FairSpec
CONSTANTS
    a1 = a1
    c1 = c1
    c2 = c2
    Action = {a1}
    Creations = {a1}
    Deletions = {}
    Client = {c1, c2}
    Api = {"propose", "approve", "reject", "resume"}
    Faults = {"refused", "lost", "read_throw"}
    MaxClock = 1
    MaxEdits = 0
    MaxRetries = 0
    Attempts = 2
INVARIANTS
    WritesCharged
    OverlapsPayForWrites
PROPERTIES
    InFlightSettles
    SettledYieldsToStale
