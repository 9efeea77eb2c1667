CONSTANTS
    c1 = c1
    c2 = c2
    push = push
    create = create
    None = None
    Client = {c1, c2}
    Verified = {push}
    Direct = {create}
    MaxRequests = 3
    MaxEdits = 1
    MaxCrashes = 1
SPECIFICATION FairSpec
INVARIANTS
    TypeOK
    ProposalAnsweredOnce
PROPERTIES
    WritesNotRepeated
    OkIsConfirmedOnce
    ClicksAreAnswered
CHECK_DEADLOCK FALSE
