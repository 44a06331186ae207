\* Two requests in flight over two servants, two postes and two rows; one of
\* them may die.  The system may stop: no row is left.
CONSTANTS
    Workers = {w1, w2}
    Users = {u1, u2}
    Postes = {p1, p2}
    Rows = {n1, n2}
    Aumoniers = {a1}
    Meetings = {m1}
    SystemId = sys
    Accounts = {a1, sys}
    None = none
    MaxAttendances = 3
    MaxBatch = 1
    MaxAborts = 1
SPECIFICATION Spec
SYMMETRY Symmetry
CHECK_DEADLOCK FALSE
INVARIANTS
    HoldersBounded
PROPERTIES
    ImplementsRegistry
    RevocationIsFinal
    
