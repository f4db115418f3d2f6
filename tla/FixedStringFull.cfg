SPECIFICATION Spec
CONSTANTS
    N = 4
    Radix = 16
    Chars <- NulAndLetter
    Storages = {"small"}
    FillSmall = TRUE
INVARIANT SizeFits
