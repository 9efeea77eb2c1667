SPECIFICATION Spec
CONSTANTS
    Replicas = {r1}
    Commits = {c1, c2}
    MaxIteration = 2
    Unchanged <- FirstUnchanged
    DoneLimit = 1
    MaxEvents = 2
    MaxFaults = 0
    NoJob = NoJob
INVARIANT ApprovalsAudited
CHECK_DEADLOCK FALSE
