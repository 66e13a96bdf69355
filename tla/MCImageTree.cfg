\* Root and three more nodes, two good names and a bad one; callers keep the
\* handles of removed directories and use them.
CONSTANTS
    MaxNodes = 4
    Name = {a, b}
    BadName = {dotdot}
    StaleEdits = TRUE
SPECIFICATION Spec
INVARIANTS TreeShape LinkLedger
