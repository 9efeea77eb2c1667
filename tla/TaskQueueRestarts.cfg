SPECIFICATION FairSpec
CONSTANTS
    Tasks = {t1, t2}
    Procs = {d1, d2}
    MaxFaults = 3
    NoTask = NoTask
    NoProc = NoProc
    Corrupt = Corrupt
INVARIANTS
    TypeOK
    RunsCharged
    AnswersAreDurable
PROPERTIES
    AcceptedEnds
    ImplementsBoard
CHECK_DEADLOCK FALSE
