SPECIFICATION FairSpec
CONSTANTS
    Requests = {r1, r2, r3}
    None = None
    Messages <- Answerable
    Async = TRUE
    MayThrow = FALSE
    HasDebugger = FALSE
INVARIANT BusyGetsIdle
INVARIANT DoomedNeverRun
INVARIANT DoomedInv
PROPERTY EveryRequestEnds
