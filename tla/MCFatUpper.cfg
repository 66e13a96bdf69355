CONSTANTS
    Trees <- UpperTrees
    NameLen <- UpperLen
    Short83 <- Upper83
    Sizes <- MCSizes
    LabelLens = {0}
SPECIFICATION Spec
INVARIANT FinalizeReturns
