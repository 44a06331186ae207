\* Two requests at a time, one event and one servant they compete for, one crash.
\* The system may stop: no row is left.
SPECIFICATION Spec
CONSTANTS
    Workers = {w1, w2}
    Events = {e1}
    Users = {u1}
    Roles = {r1, r2}
    Rows = {n1, n2}
    None = none
    MaxBatch = 2
    MaxAborts = 1
SYMMETRY Symmetry
INVARIANTS
    OneAssignmentPerServant
    NoOrphans
CHECK_DEADLOCK FALSE
