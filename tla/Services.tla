------------------------------ MODULE Services -------------------------------
(***************************************************************************)
(* The services of the council's own business: accounts, books, courses,   *)
(* reports and what goes with them (ServicesProofs).                       *)
(***************************************************************************)
EXTENDS Tables

CONSTANTS
    Chief,          \* the account ADMIN that the system is installed with
    Amounts,        \* sums of money
    Limits,         \* places of a course or of an activity
    Posts, Tried,   \* the postes that are given and the gates that are asked for
    Attended,       \* pairs of a date and a type
    Limit, Window, MaxAge, Ticks, MaxStarts,    \* of the rate limiter
    MoreCalls, ManyCalls, Logged    \* MaxCalls of the services that differ

-----------------------------------------------------------------------------
Courses == INSTANCE Training WITH
    Sessions <- Ones, Registrations <- Rows, Servants <- Others, Limits <- Limits, MaxCalls <- FewCalls,
    sessions <- x1, participations <- x2, crowded <- x3, lowered <- x4, called <- x5

Sport == INSTANCE SportCulture WITH
    Events <- Ones, Inscriptions <- Rows, Servants <- Others, Limits <- Limits, MaxCalls <- FewCalls,
    events <- x1, inscriptions <- x2, crowded <- x3, lowered <- x4, called <- x5

Minutes == INSTANCE Reports WITH
    Papers <- Ones, Contents <- Others, Files <- Thirds, MaxCalls <- MaxCalls,
    reports <- x1, attachments <- x2, stored <- x3, shown <- x4, public <- x5,
    leftover <- x6, met <- x7

News == INSTANCE Notifications WITH
    Notices <- Rows, Users <- Ones \cup Thirds, Twice <- Ones,
    Broadcasts <- {Elsewhere}, MaxCalls <- FewCalls,
    notices <- x1, present <- x2, found <- x3, told <- x4, early <- x5

Plans == INSTANCE Classements WITH
    Rows <- Ones, Contents <- Others, MaxCalls <- ManyCalls,
    classements <- x1, met <- x2

Books == INSTANCE FinancialEntries WITH
    Entries <- Ones, Sums <- Amounts, MaxCalls <- MaxCalls,
    entries <- x1, stated <- x2, crossed <- x3, moved <- x4, figures <- x5, failed <- x6

Postes == INSTANCE PosteActions WITH
    Actions <- Ones, Servants <- Thirds, Clergy <- Rows, Amounts <- Amounts, MaxCalls <- MaxCalls,
    acts <- x1, holders <- x2, agreed <- x3, passed <- x4, edited <- x5, reworked <- x6

Families == INSTANCE ParentLinks WITH
    Servants <- Ones, Parents <- Rows \cup Others, MaxCalls <- ManyCalls,
    servants <- x1, parents <- x2, links <- x3, linkedTwice <- x4, entered <- x5, let <- x6

People == INSTANCE Accounts WITH
    Users <- {Chief} \cup Rows, Emails <- Others, Codes <- Ones, MaxCalls <- MaxCalls,
    users <- x1, codes <- x2, raced <- x3, crossed <- x4, rivals <- x5, made <- x6,
    spent <- x7, asked <- x8

Logins == INSTANCE Credentials WITH
    Tokens <- Rows \cup Thirds, ResetCodes <- Others, MaxCalls <- MaxCalls,
    active <- x1, tokens <- x2, revoked <- x3, resetCodes <- x4, served <- x5,
    answered <- x6, met <- x7, lostList <- x8, cutOff <- x9

Locks == INSTANCE Lockout WITH
    MaxCalls <- Logged,
    count <- x1, left <- x2, since <- x3

\* Two postes, and a gate of each kind: one poste, a strict one, the verdict,
\* the roles alone.
Access == INSTANCE Permissions WITH
    Posts <- Posts,
    Tried <- Tried,
    MaxCalls <- FewCalls,
    account <- x1, tokenOff <- x2, holds <- x3, held <- x4, acts <- x5, changed <- x6

Library == INSTANCE TrainingMaterials WITH
    Sessions <- Ones, Materials <- Thirds, MaxCalls <- MoreCalls,
    alive <- x1, materials <- x2, links <- x3, stored <- x4, shown <- x5, crossed <- x6

Rolls == INSTANCE Attendances WITH
    Records <- Rows, Servants <- Others, Days <- Attended, Notes <- Thirds, MaxCalls <- MaxCalls,
    attendances <- x1, present <- x2, met <- x3, given <- x4

Limiter == INSTANCE RateLimiter WITH
    Limit <- Limit, Window <- Window, MaxAge <- MaxAge, MaxTime <- Ticks, MaxStarts <- MaxStarts, MaxCalls <- MaxCalls,
    now <- x1, useRedis <- x2, redis <- x3, memory <- x4, period <- x5,
    admitted <- x6, refused <- x7

\* A row is neither the lack of one (None) nor what a deletion leaves (Gone), a bound
\* is a number, and the gates that are asked for are gates of the application.
ASSUME ServicesAssumption ==
    /\ IsFiniteSet(Workers) /\ IsFiniteSet(Ones) /\ IsFiniteSet(Rows) /\ IsFiniteSet(Others)
    /\ MaxCalls \in Nat /\ FewCalls \in Nat /\ ManyCalls \in Nat /\ Logged \in Nat
    /\ Limits \subseteq Nat
    /\ None # Gone /\ None # Chief /\ None # Elsewhere /\ None \notin Ones /\ None \notin Rows /\ None \notin Thirds
    /\ None \notin Others /\ None \notin Amounts /\ None \notin Limits
    /\ None \notin {"refresh", "reset", "sent", "used"} /\ Gone \notin {"refresh", "reset", "sent", "used"}
    /\ None \notin Books!VerificationStatus
    /\ None \notin Books!Entry /\ Gone \notin Books!Entry
    /\ None \notin Postes!Act /\ Gone \notin Postes!Act
    /\ None \notin Plans!Classement /\ Gone \notin Plans!Classement
    /\ None \notin Courses!TrainingSession /\ Gone \notin Courses!TrainingSession
    /\ None \notin Courses!TrainingParticipation /\ Gone \notin Courses!TrainingParticipation
    /\ None \notin Sport!SportCultureEvent /\ Gone \notin Sport!SportCultureEvent
    /\ None \notin Sport!EventParticipation /\ Gone \notin Sport!EventParticipation
    /\ None \notin Minutes!Report /\ Gone \notin Minutes!Report
    /\ None \notin News!Notification /\ Gone \notin News!Notification
    /\ None \notin People!User /\ Gone \notin People!User
    /\ None \notin People!InvitationCode
    /\ MoreCalls \in Nat /\ Limit \in Nat /\ Window \in Nat /\ MaxAge \in Nat /\ Ticks \in Nat
    /\ MaxStarts \in Nat /\ MaxAge >= Window
    /\ None \notin Nat /\ Gone \notin Nat
    /\ None \notin Rolls!Attendance /\ Gone \notin Rolls!Attendance
    /\ Tried \subseteq DOMAIN Access!Gates

-----------------------------------------------------------------------------
Init ==
    \/ focus = "Courses" /\ Courses!Init /\ Unused6
    \/ focus = "Sport" /\ Sport!Init /\ Unused6
    \/ focus = "Minutes" /\ Minutes!Init /\ Unused8
    \/ focus = "News" /\ News!Init /\ Unused6
    \/ focus = "Plans" /\ Plans!Init /\ Unused3
    \/ focus = "Books" /\ Books!Init /\ Unused7
    \/ focus = "Postes" /\ Postes!Init /\ Unused7
    \/ focus = "Families" /\ Families!Init /\ Unused7
    \/ focus = "People" /\ People!Init /\ Unused9
    \/ focus = "Logins" /\ Logins!Init
    \/ focus = "Locks" /\ Locks!Init /\ Unused4
    \/ focus = "Access" /\ Access!Init /\ Unused7
    \/ focus = "Library" /\ Library!Init /\ Unused7
    \/ focus = "Rolls" /\ Rolls!Init /\ Unused5
    \/ focus = "Limiter" /\ Limiter!Init /\ Unused8

Next ==
    \/ focus = "Courses" /\ Courses!Next /\ UNCHANGED <<focus, Rest6>>
    \/ focus = "Sport" /\ Sport!Next /\ UNCHANGED <<focus, Rest6>>
    \/ focus = "Minutes" /\ Minutes!Next /\ UNCHANGED <<focus, Rest8>>
    \/ focus = "News" /\ News!Next /\ UNCHANGED <<focus, Rest6>>
    \/ focus = "Plans" /\ Plans!Next /\ UNCHANGED <<focus, Rest3>>
    \/ focus = "Books" /\ Books!Next /\ UNCHANGED <<focus, Rest7>>
    \/ focus = "Postes" /\ Postes!Next /\ UNCHANGED <<focus, Rest7>>
    \/ focus = "Families" /\ Families!Next /\ UNCHANGED <<focus, Rest7>>
    \/ focus = "People" /\ People!Next /\ UNCHANGED <<focus, Rest9>>
    \/ focus = "Logins" /\ Logins!Next /\ UNCHANGED focus
    \/ focus = "Locks" /\ Locks!Next /\ UNCHANGED <<focus, Rest4>>
    \/ focus = "Access" /\ Access!Next /\ UNCHANGED <<focus, Rest7>>
    \/ focus = "Library" /\ Library!Next /\ UNCHANGED <<focus, Rest7>>
    \/ focus = "Rolls" /\ Rolls!Next /\ UNCHANGED <<focus, Rest5>>
    \/ focus = "Limiter" /\ Limiter!Next /\ UNCHANGED <<focus, Rest8>>

vars == <<focus, x1, x2, Rest3, flights>>
Spec == Init /\ [][Next]_vars

-----------------------------------------------------------------------------
\* The rows and the requests of the service have their types.
RowsTyped ==
    /\ focus = "Postes" => Postes!TypeOK
    /\ focus = "Books" => Books!TypeOK
    /\ focus = "Courses" => Courses!TypeOK
    /\ focus = "Library" => Library!TypeOK
    /\ focus = "Sport" => Sport!TypeOK
    /\ focus = "People" => People!TypeOK
    /\ focus = "Families" => Families!TypeOK
    /\ focus = "Locks" => Locks!TypeOK
    /\ focus = "Logins" => Logins!TypeOK
    /\ focus = "Access" => Access!TypeOK
    /\ focus = "Plans" => Plans!TypeOK
    /\ focus = "Rolls" => Rolls!TypeOK
    /\ focus = "News" => News!TypeOK
    /\ focus = "Minutes" => Minutes!TypeOK
    /\ focus = "Limiter" => Limiter!TypeOK

\* A request that ends leaves its work whole: the broadcast with its recipients, the
\* child with its parent, the attachment with its row, and the views of a material and
\* the justification of an absence as they were given; what a dead or refused request
\* leaves behind, or two that have met, is what each service says.
NothingHalfDone ==
    /\ focus = "News" => News!EverybodyTold
    /\ focus = "Families" => Families!ChildrenHaveParents
    /\ focus = "Minutes" => Minutes!FilesOnRecord
    /\ focus = "Library" => Library!ViewsCounted
    /\ focus = "Rolls" => Rolls!NotesKept

\* A limit that is looked at before an insert holds, but for the requests that have
\* met: the places of a course or an activity, one notification of a broadcast, one
\* attendance record, the requests of an address.
LimitsHold ==
    /\ focus = "Courses" => Courses!CapacityHeld
    /\ focus = "Sport" => Sport!PlacesHeld
    /\ focus = "News" => News!ToldOnce
    /\ focus = "Rolls" => Rolls!RecordedOnce
    /\ focus = "Limiter" => Limiter!LimitHeld /\ Limiter!RefusedForCause

\* What is registered, published or read is not taken back by a request that has
\* looked at it before: registrations, inscriptions, classements, reports,
\* notifications.
RowsStand ==
    [][/\ focus = "Courses" => Courses!RegistrationsKept
       /\ focus = "Sport" => Sport!InscriptionsKept
       /\ focus = "Plans" => Plans!PublishedStands
       /\ focus = "Minutes" => Minutes!PublishedStands
       /\ focus = "News" => News!ReadStays]_vars

\* A verified entry is as it was verified and the figures add up; an expense waits
\* for an approval, which is of the expense as it was agreed on.
BooksStand ==
    /\ focus = "Books" => Books!VerifiedStands /\ Books!FiguresAddUp
    /\ focus = "Postes" => Postes!ExpensesWait /\ Postes!ApprovalStands

\* An address is of one account and is what its owner gave last, the offices are
\* not held by more than there may be, and a servant has three parents at most.
AccountsHold ==
    /\ focus = "People" => People!AddressesUnique /\ People!AddressesStand /\ People!OfficesHeld
    /\ focus = "Families" => Families!ParentsBounded

\* An invitation makes one account, a refresh token is exchanged once and a reset
\* code changes one password, but for the requests that have met.
CodesServeOnce ==
    /\ focus = "People" => People!CodesServeOnce
    /\ focus = "Logins" => Logins!TokensServeOnce /\ Logins!CodesAnswerOnce

\* What a gate lets through was entitled to it when it was looked up, and who is
\* not a secretary is shown no draft.
ActsAreEntitled ==
    /\ focus = "Access" => Access!ActsAreEntitled
    /\ focus = "Minutes" => Minutes!DraftsArePrivate

\* A lock after failed logins stands until its time is up, but for the requests
\* that had passed it.
LockHolds ==
    [][/\ focus = "Locks" => Locks!LockHolds
       /\ focus = "Locks" => Locks!LockEndsInTime]_vars
=============================================================================
