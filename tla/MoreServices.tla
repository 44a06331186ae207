---------------------------- MODULE MoreServices -----------------------------
(***************************************************************************)
(* The services of the parish's life: material, tasks, schedules, events,  *)
(* subgroups and connections (MoreServicesProofs).                         *)
(***************************************************************************)
EXTENDS Tables, Integers

CONSTANTS
    Upkeeps,        \* dates of an upkeep
    Days, Hours, Times,             \* of the Sunday schedule
    Starts, Ends, WeekTimes,        \* of the weekly schedule
    EventDates,     \* of an event
    GroupLimits, Kinds, AinesMax,   \* of the subgroups
    Timeout, Beats  \* of the connections

VARIABLES x10, x11

\* What only the Sunday schedule uses.
Spare == <<x10, x11>>
NoSpare == x10 = None /\ x11 = None

-----------------------------------------------------------------------------
Items == INSTANCE MaterialItems WITH
    Items <- Ones, Files <- Rows, Dates <- Upkeeps, MaxCalls <- MaxCalls,
    items <- x1, ledger <- x2, files <- x3, spoiled <- x4, unrecorded <- x5

Tasks == INSTANCE MaterialTasks WITH
    Tasks <- Ones, Servants <- Others, Photos <- Rows, MaxCalls <- MaxCalls,
    tasks <- x1, crew <- x2, notices <- x3, unused <- x4, untold <- x5,
    answered <- x6, dropped <- x7, crossed <- x8

Sunday == INSTANCE SundaySchedule WITH
    Templates <- Ones, Masses <- Rows, Posts <- Thirds, Days <- Days,
    Hours <- Hours, Times <- Times, MaxCalls <- MaxCalls,
    templates <- x1, masses <- x2, posts <- x3, logs <- x4, clock <- x5, asked <- x6,
    cut <- x7, struck <- x8, moved <- x9, late <- x10, untraced <- x11

Weekly == INSTANCE WeeklySchedule WITH
    Templates <- Ones, Slots <- Rows, Places <- Thirds, Starts <- Starts, Ends <- Ends,
    Times <- WeekTimes, MaxCalls <- FewCalls,
    weeks <- x1, slots <- x2, places <- x3, now <- x4, asked <- x5, cut <- x6,
    struck <- x7, moved <- x8, late <- x9

Pages == INSTANCE EventPages WITH
    Events <- Ones, Photos <- Rows, Teams <- Thirds, Results <- Thirds, Members <- Others,
    MaxCalls <- MaxCalls,
    pages <- x1, results <- x2, teams <- x3, told <- x4, unused <- x5, answered <- x6,
    crossed <- x7, untold <- x8

Parish == INSTANCE Events WITH
    Dates <- EventDates, EventRows <- Ones, Places <- Rows, Users <- Others,
    Nobody <- Elsewhere, MaxCalls <- MaxCalls,
    events <- x1, guests <- x2, asked <- x3, cut <- x4, taken <- x5, met <- x6

Teams == INSTANCE Subgroups WITH
    Groups <- Rows, Places <- Others, Servants <- Ones \cup Thirds, Nobody <- Elsewhere,
    Kinds <- Kinds, Limits <- GroupLimits, AinesMax <- AinesMax, MaxCalls <- FewCalls,
    groups <- x1, members <- x2, met <- x3, lowered <- x4

Sockets == INSTANCE Connections WITH
    Sockets <- Rows, Timeout <- Timeout, MaxTime <- Beats, MaxCalls <- FewCalls,
    now <- x1, routes <- x2, registry <- x3, lastPong <- x4, beat <- x5

\* A row is neither the lack of one nor what a deletion leaves, and what is compared is a
\* number.
ASSUME MoreServicesAssumption ==
    /\ MaxCalls \in Nat /\ FewCalls \in Nat /\ Beats \in Nat
    /\ None # Gone /\ None # Elsewhere /\ None \notin Rows /\ Elsewhere \notin Rows
    /\ None \notin Upkeeps /\ None \notin EventDates /\ None \notin Int
    /\ None \notin {"open", "lost", "ended"} /\ Elsewhere # "clergy"
    /\ Days \subseteq Int /\ Hours \subseteq Int /\ Times \subseteq Int
    /\ Starts \subseteq Int /\ Ends \subseteq Int /\ WeekTimes \subseteq Int
    /\ \E x \in Times : \A y \in Times : x <= y
    /\ \E x \in WeekTimes : \A y \in WeekTimes : x <= y
    /\ IsFiniteSet(Others) /\ GroupLimits \subseteq Nat /\ Kinds \subseteq Teams!SubGroupCategory
    /\ {None, Gone} \cap Items!Item = {} /\ {None, Gone} \cap Tasks!Task = {}
    /\ {None, Gone} \cap (Pages!Page \cup Pages!EventTeam) = {}
    /\ {None, Gone} \cap (Parish!Event \cup Parish!EventParticipant) = {}
    /\ {None, Gone} \cap (Teams!SubGroup \cup Teams!SubGroupMember) = {}
    /\ {None, Gone} \cap (Sunday!SundayScheduleTemplate \cup Sunday!SundayMassSlot
                             \cup Sunday!SundayMassAssignment) = {}
    /\ {None, Gone} \cap (Weekly!Week \cup Weekly!Slot \cup Weekly!Place) = {}

-----------------------------------------------------------------------------
MoreInit ==
    \/ focus = "Items" /\ Items!Init /\ Unused6 /\ NoSpare
    \/ focus = "Tasks" /\ Tasks!Init /\ Unused9 /\ NoSpare
    \/ focus = "Sunday" /\ Sunday!Init
    \/ focus = "Weekly" /\ Weekly!Init /\ NoSpare
    \/ focus = "Pages" /\ Pages!Init /\ Unused9 /\ NoSpare
    \/ focus = "Parish" /\ Parish!Init /\ Unused7 /\ NoSpare
    \/ focus = "Teams" /\ Teams!Init /\ Unused5 /\ NoSpare
    \/ focus = "Sockets" /\ Sockets!Init /\ Unused6 /\ NoSpare

MoreNext ==
    \/ focus = "Items" /\ Items!Next /\ UNCHANGED <<focus, Rest6, Spare>>
    \/ focus = "Tasks" /\ Tasks!Next /\ UNCHANGED <<focus, Rest9, Spare>>
    \/ focus = "Sunday" /\ Sunday!Next /\ UNCHANGED focus
    \/ focus = "Weekly" /\ Weekly!Next /\ UNCHANGED <<focus, Spare>>
    \/ focus = "Pages" /\ Pages!Next /\ UNCHANGED <<focus, Rest9, Spare>>
    \/ focus = "Parish" /\ Parish!Next /\ UNCHANGED <<focus, Rest7, Spare>>
    \/ focus = "Teams" /\ Teams!Next /\ UNCHANGED <<focus, Rest5, Spare>>
    \/ focus = "Sockets" /\ Sockets!Next /\ UNCHANGED <<focus, Rest6, Spare>>

moreVars == <<focus, x1, x2, Rest3, Spare, flights>>
MoreSpec == MoreInit /\ [][MoreNext]_moreVars

-----------------------------------------------------------------------------
\* The rows and the requests of the service have their types.
MoreRowsTyped ==
    /\ focus = "Items" => Items!TypeOK
    /\ focus = "Tasks" => Tasks!TypeOK
    /\ focus = "Sunday" => Sunday!TypeOK
    /\ focus = "Weekly" => Weekly!TypeOK
    /\ focus = "Pages" => Pages!TypeOK
    /\ focus = "Parish" => Parish!TypeOK
    /\ focus = "Teams" => Teams!TypeOK
    /\ focus = "Sockets" => Sockets!TypeOK

\* A request that ends leaves its work whole: the template with its masses or
\* slots, the event with its participants, the photograph or the upkeep with its row,
\* the news of a page with whom it is for; and what a request has written is not undone
\* by another that read the row before: the photographs of a task, an event or an item,
\* the list of connections.  What is lost when a request dies or two of them meet is
\* what each service says.
WorkIsWhole ==
    /\ focus = "Sunday" => Sunday!TemplatesAreWhole
    /\ focus = "Weekly" => Weekly!WeeksAreWhole
    /\ focus = "Parish" => Parish!EventsAreWhole
    /\ focus = "Tasks" => Tasks!EverybodyTold /\ Tasks!PhotosKept
    /\ focus = "Pages" => Pages!EverybodyTold /\ Pages!GalleryKept
    /\ focus = "Items" => Items!UpkeepOnRecord /\ Items!PhotoOnFile
    /\ focus = "Sockets" => Sockets!ListIsExact

\* What is looked at before a row is written still holds when it is, but for the
\* requests that have met: one invitation, one subgroup; the window in which presence
\* is marked and servants are added, the end of an event after its beginning.
BoundsHold ==
    /\ focus = "Sunday" => Sunday!MarksInWindow
    /\ focus = "Weekly" => Weekly!AddedInWindow
    /\ focus = "Parish" => Parish!DatesInOrder /\ Parish!InvitedOnce
    /\ focus = "Teams" => Teams!OneGroupEach /\ Teams!MembersBounded
=============================================================================
