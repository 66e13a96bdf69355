\* Root and three more nodes in the source and as many in the destination, which
\* may hold a file of its own besides.
CONSTANTS
    MaxNodes = 4
    a = a
    b = b
    Name <- ABNames
    BadName = {dotdot}
    StaleEdits = FALSE
    NameOrder <- ABOrder
    MaxOwn = 1
SPECIFICATION GraftSpec
INVARIANT GraftOutcome
PROPERTIES GraftEnds
CHECK_DEADLOCK FALSE
