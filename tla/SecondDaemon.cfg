SPECIFICATION Spec
CONSTANTS
    Tasks = {t1}
    Procs = {d1, d2}
    MaxFaults = 1
    NoTask = NoTask
    NoProc = NoProc
    Corrupt = Corrupt
SYMMETRY Symmetry
PROPERTY
    ResetIsOfInterrupted
CHECK_DEADLOCK FALSE
