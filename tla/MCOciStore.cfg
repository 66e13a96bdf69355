\* Two operations, one layer content of fsforge's own and two of the registry, whose
\* indexes may name things otherwise than by digest.
CONSTANTS
    Tar = {t}
    Served = {u, v}
    Other = {o}
    MaxLayers = 2
    MaxOps = 2
SPECIFICATION Spec
INVARIANTS ContentAddressed IndexSound DiffIDsMatch PullIsPinned RefusalIsReal
PROPERTY OperationEnds
CHECK_DEADLOCK FALSE
