SPECIFICATION Spec
CONSTANTS
    N = 5
    Radix = 16
    Chars <- NulAndLetter
    Storages = {"small", "sized"}
    FillSmall = FALSE
INVARIANT TypeOK
INVARIANT Terminated
INVARIANT EditsLikeStd
INVARIANT SearchesLikeStd
INVARIANT ComparesLikeStd
INVARIANT IdsRoundTrip
