SPECIFICATION Spec
CONSTANTS
    Addrs = {a1, a2, a3}
    Ids = {i1, i2, i3}
    Targets = {t1, t2}
    FreshFlags <- Initialised
    Reassign = FALSE
    SelfMove = FALSE
    None = None
SYMMETRY Symmetry
INVARIANT TypeOK
INVARIANT NoDangling
INVARIANT LiveIsRegistered
INVARIANT HandlersFollow
INVARIANT InfoIsTruthful
INVARIANT CommInv
PROPERTY EntriesNotLost
