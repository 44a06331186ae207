\* Two requests in flight on one case of a council of two seats, one of them with
\* a scope of its own (they decide only together: the majority of two is two) and
\* an exclusion, which that one may not pronounce and which closes an account; with
\* one seat filled or none, a change of seat or a request that dies.  The system may stop: the case closed and no request in
\* flight.
CONSTANTS
    Workers = {w1, w2}
    Cases = {c1}
    Servants = {s1}
    Seats = {"CENSEUR_ADJOINT", "DELEGUE"}
    Sanctions = {"AUCUNE", "EXCLUSION_DEFINITIVE"}
    MaxReseats = 1
    MaxAborts = 1
SPECIFICATION MCSpec
SYMMETRY WorkerSymmetry
CHECK_DEADLOCK FALSE
INVARIANTS
    NoMissedMajority
    
    CollegialOrEmpowered
    
PROPERTIES
    ExclusionDeactivates
