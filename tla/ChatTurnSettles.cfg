CONSTANTS
    Messages <- MCMessages
    MaxSteps = 2
SPECIFICATION FairSpec
INVARIANTS
    TypeOK
    NarrativeBeforeAction
    EndedStreamsAreSilent
    AnswerIsObeyed
    CardHasProposal
PROPERTIES
    StoppedTurnsActNoMore
    EveryTurnIsAnswered
    ProposalIsShown
    RuntimeIsReleasedOrStranded
CHECK_DEADLOCK FALSE
