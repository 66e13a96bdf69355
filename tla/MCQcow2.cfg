\* Five sectors in three clusters of two, the last one cut short; two entries
\* per table cluster, so the disk needs two L2 tables; three refcounts per block,
\* so that the refcount structures take several turns to size.
CONSTANTS
    Size = 5
    ClSize = 2
    Entries = 2
    RefsPerCl = 3
    Val = {0, 1}
SPECIFICATION Spec
INVARIANTS TypeOK WriterReadsBack ImageHoldsDisk RefcountsExact
PROPERTIES FinalizeEnds
CHECK_DEADLOCK FALSE
