\* One request at a time: is the Aumonier's sanction the last word?
SPECIFICATION FairSpec
CONSTANTS
    Workers = {w1}
    Cases = {c1}
    Servants = {s1}
    Seats = {"CENSEUR_ADJOINT", "DELEGUE"}
    Sanctions = {"AUCUNE", "AVERTISSEMENT_ECRIT"}
    MaxReseats = 0
    MaxAborts = 0
PROPERTIES
    AumonierLastWord
CHECK_DEADLOCK FALSE
