SPECIFICATION Spec
CONSTANTS
    Requests = {r1, r2, r3}
    None = None
    Messages <- Garbled
    Async = TRUE
    MayThrow = TRUE
    HasDebugger = FALSE
SYMMETRY Symmetry
INVARIANT IInv
INVARIANT CountsMatch
INVARIANT HistoryLinesDistinct
INVARIANT AbortedForCause
PROPERTY LifecycleSpec
