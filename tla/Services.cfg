\* Two requests in flight in one of the services.  The system may stop: the
\* requests are counted.
CONSTANTS
    Workers = {w1, w2}
    Ones = {o}
    Rows = {a, b}
    Thirds = {r}
    Others = {c, d}
    Elsewhere = elsewhere
    Chief = chief
    Amounts = {1, 2}
    Upkeeps = {1, 2}
    Days = {0}
    Hours = {10, 11}
    Times = {9, 13}
    Starts = {0, 20}
    Ends = {34}
    WeekTimes = {5, 9, 41}
    EventDates = {1, 2, 3}
    Attended = {1}
    Limits = {0, 1}
    GroupLimits = {1}
    Kinds = {"AINES", "CONFIRMES"}
    AinesMax = 1
    Posts = {"CENSEUR", "ECONOME"}
    Tried = {"Censeur", "CommissaireStrict", "VerdictAuthority", "AdminOnly", "ParentOnly"}
    Limit = 2
    Window = 2
    MaxAge = 2
    Ticks = 3
    MaxStarts = 1
    Timeout = 0
    Beats = 1
    FewCalls = 2
    MoreCalls = 4
    ManyCalls = 5
    Logged = 21
    None = none
    Gone = gone
    MaxCalls = 3
SPECIFICATION MCSpec
SYMMETRY Symmetry
CHECK_DEADLOCK FALSE
INVARIANTS
    AllTyped
    
    BoundsHold
    NothingHalfDone
    
    
    AccountsHold
    
    ActsAreEntitled

    
    
