SPECIFICATION Spec
CONSTANTS
    Requests = {r1, r2}
    None = None
    Messages <- Answerable
    Async = FALSE
    MayThrow = TRUE
    HasDebugger = FALSE
INVARIANT BusyGetsIdle
