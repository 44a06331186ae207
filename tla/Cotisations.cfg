\* Two requests in flight, one of which may die, on one period and two servants;
\* and one request at a time, on three periods that may overlap, a month and its
\* weeks among them.  The system may stop: the requests are counted.
CONSTANTS
    Workers = {w1, w2}
    Servants = {s1, s2}
    Periods = {1, 2, 3}
    Rows = {1, 2, 3}
    LastDay = 3
    Window = 3
    Drafts <- Entered
    Prices = {2}
    Ends = {0}
    Payments = {1, 4}
    None = none
    MaxCalls = 5
    MaxAborts = 1
SPECIFICATION MCSpec
SYMMETRY Symmetry
CHECK_DEADLOCK FALSE
INVARIANTS
    NothingInvented
    ObligationsCreated
    NoPaymentLost
    ReportIsLongestGap
PROPERTIES
    AcceptsOneMode
