SPECIFICATION Spec
CONSTANTS
    Requests = {r1, r2, r3}
    None = None
    Messages <- EveryKind
    Async = FALSE
    MayThrow = TRUE
    HasDebugger = TRUE
SYMMETRY Symmetry
INVARIANT TypeOK
INVARIANT HistoryInOrder
INVARIANT IdleIsInHistory
INVARIANT OutputsAttributed
INVARIANT SyncInv
