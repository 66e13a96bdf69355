\* A full layer, with or without hard links, and two more layers by a careful caller;
\* d2 is d1 with a special bit.
CONSTANTS
    Path <- Paths
    PathSeq <- Walk
    Ino = {i1, i2}
    Data = {d1, d2, d3}
    Special = {d2}
    Plain = d1
    MaxLayers = 3
SPECIFICATION CarefulSpec
SYMMETRY Inodes
INVARIANTS FlattenRestores LinkTargetPresent
CHECK_DEADLOCK FALSE
