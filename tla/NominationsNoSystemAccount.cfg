\* A control of attendance on a users table without the system's account.
SPECIFICATION Spec
CONSTANTS
    Workers = {w1}
    Users = {u1}
    Postes = {p1}
    Rows = {n1}
    Aumoniers = {a1}
    Meetings = {m1, m2, m3}
    SystemId = sys
    Accounts = {a1}
    None = none
    MaxAttendances = 3
    MaxBatch = 1
    MaxAborts = 0
PROPERTIES
    DestitutionCompletes
CHECK_DEADLOCK FALSE
