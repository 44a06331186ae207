\* Two requests in flight, one servant, three sessions; the thresholds, three
\* and five in the code, are two and three; a mark that counts and one that
\* does not.  The system may stop: the requests
\* are counted.
SPECIFICATION Spec
CONSTANTS
    Workers = {w1, w2}
    Tasks = {}
    Servants = {s1}
    Motifs = {m1}
    Rows = {c1}
    Managers = {a1}
    SystemId = sys
    Accounts = {a1}
    None = none
    MaxAborts = 0
    Sessions = {x1, x2, x3}
    Marks = {"PRESENT", "ABSENT"}
    WarnAt = 2
    SummonAt = 3
    AbsenceMotif = m1
    MaxCalls = 3
    MaxFaults = 1
SYMMETRY Symmetry
INVARIANTS
    RecordsBounded
    NoMissedAlert
    
    AlertsOnce
PROPERTIES
    ImplementsConvocations
CHECK_DEADLOCK FALSE
