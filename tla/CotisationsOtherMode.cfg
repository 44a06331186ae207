\* One request at a time; a month and two weeks of it.
\* The system may stop: the requests are counted.
SPECIFICATION MCSpec
CONSTANTS
    Workers = {w1}
    Servants = {s1}
    Periods = {1, 2, 3}
    Rows = {1, 2, 3}
    LastDay = 3
    Window = 3
    Drafts <- Modes
    Prices = {}
    Ends = {}
    Payments = {5}
    None = none
    MaxCalls = 5
    MaxAborts = 0
SYMMETRY Symmetry
INVARIANTS
    ConvenedCouldPay
CHECK_DEADLOCK FALSE
