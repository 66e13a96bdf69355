\* Groups of twelve blocks with six for data (eight without a superblock).
\* Devices of one group, of two groups the second of which is a runt, of two and
\* of three; a file of five blocks needs an extent tree of depth two, or a double
\* indirect block, and both groups.  The seventh block, of the device or of the
\* scratch device, may be one that cannot be written.
CONSTANTS
    BlocksPerGroup = 12
    DescsPerBlock = 2
    InodesPerBlock = 2
    BlocksPerInode = 4
    MinInodesPerGroup = 4
    InodeRound = 4
    runtMinDataBlocks = 2
    MinFree = 3
    firstIno = 3
    lostFoundIno = 3
    rootIno = 2
    reservedInos = 2
    EntriesPerBlock = 4
    directBlocks = 1
    PointersPerBlock = 2
    inlineExtents = 1
    EntriesPerNode = 2
    extentMaxLen = 2
    maxExtentDepth = 5
    ChunkBlocks = 10
    DeviceSizes = {0, 1, 8, 13, 18, 21, 31}
    NewSizes = {1, 4}
    MaxEdits = 1
    LostWrites = {{}, {7}}
    Trees <- MCTrees
SPECIFICATION Spec
INVARIANTS ReadBack AccountsExact MetadataInRange OriginalKept
