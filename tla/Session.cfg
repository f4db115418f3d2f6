SPECIFICATION FairSpec
CONSTANTS
    MaxPrompts = 2
    MayThrow = TRUE
INVARIANT TypeOK
INVARIANT CallsAreSound
INVARIANT OwnAnswer
PROPERTY HandlersAlive
PROPERTY PromptsEnd
PROPERTY InternalAnswered
PROPERTY KernelEnds
