\* Four blocks in words of three slots, so that the last word has padding, and
\* 3-bit arithmetic, so that start+n wraps.
CONSTANTS
    Total = 4
    WordBits = 3
    Modulus = 8
    Requests = {0, 1, 2, 4}
    MaxRuns = {0, 2}
SPECIFICATION Spec
INVARIANTS TypeOK HintExact Ledger JobExact
PROPERTIES PoolSpec AllocRunsReturns
