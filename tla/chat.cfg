CONSTANTS
    t1 = t1
    t2 = t2
    w1 = w1
    w2 = w2
    c1 = c1
    Turns <- TwoTurns
    Sweeps <- TwoSweeps
    Commands <- OneCommand
    MaxPerSession = 2
    MinToExtract = 2
    MaxTurns = 2
    MaxFaults = 1
SPECIFICATION FairSpec
INVARIANTS
    ExtractedOnce
    TalkIsExtracted
    LateMessagesBounded
PROPERTIES
    EverySessionFlushed
