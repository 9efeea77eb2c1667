SPECIFICATION FairSpec
CONSTANTS
    Replicas = {r1, r2}
    Commits = {c1, c2}
    MaxIteration = 2
    Unchanged <- FirstUnchanged
    DoneLimit = 1
    MaxEvents = 3
    MaxFaults = 1
    NoJob = NoJob
INVARIANTS
    TypeOK
    ReviewsCharged
    AuditIsTrue
PROPERTIES
    HistoryNeverGoesBack
    QueuedIsReviewed
CHECK_DEADLOCK FALSE
