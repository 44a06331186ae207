\* Two requests and one run of the daily task at a time; one of them may die.
\* The system may stop: no row is left.
SPECIFICATION FairSpec
CONSTANTS
    Workers = {w1, w2}
    Tasks = {t1}
    Servants = {s1, s2}
    Motifs = {m1}
    Rows = {c1, c2}
    Managers = {a1}
    SystemId = sys
    Accounts = {a1}
    None = none
    MaxAborts = 1

    
PROPERTIES
    SuspensionIsDue
    
    ConvenesOnce
CHECK_DEADLOCK FALSE
