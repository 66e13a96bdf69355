\* Two files in the root, which may be one file; a full layer and a delta.
CONSTANTS
    Path <- FlatPaths
    PathSeq <- FlatWalk
    Ino = {i1, i2}
    Data = {d1, d2}
    Special = {}
    Plain = d1
    MaxLayers = 2
SPECIFICATION Spec
INVARIANT RoundTrip
CHECK_DEADLOCK FALSE
