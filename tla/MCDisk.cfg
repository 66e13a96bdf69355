CONSTANTS
    DiskSizes <- MCDiskSizes
    SpecLists <- MCSpecLists
    Lens = {1, 3}
    Near <- MCNear
    MaxWrites = 2
    Word = 1048576
SPECIFICATION Spec
INVARIANTS DiskSound PlanOnDisk
PROPERTY EnginesStayInside
