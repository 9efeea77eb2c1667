CONSTANTS
    c1 = c1
    c2 = c2
    push = push
    create = create
    None = None
    Client = {c1}
    Verified = {push}
    Direct = {create}
    MaxRequests = 4
    MaxEdits = 1
    MaxCrashes = 0
SPECIFICATION FairSpec
PROPERTY OkIsConfirmed
CHECK_DEADLOCK FALSE
