CONSTANTS
    Trees <- MCTrees
    NameLen <- MCNameLen
    Short83 <- MCShort83
    Sizes <- MCSizes
    LabelLens = {0, 16}
SPECIFICATION Spec
INVARIANTS StoredTree LinksConverted Sealed RecordsInBlocks
INVARIANTS UdfAnchored ClustersExact FatGeometrySound
