-------------------------------- MODULE Events --------------------------------
(***************************************************************************)
(* The events of the parish and the participants that are invited to them: *)
(* an event may be created with a list of participants, each of whom is    *)
(* looked up, looked for among those there are, and inserted.              *)
(***************************************************************************)
EXTENDS Requests, Sequences

CONSTANTS
    Dates,      \* bound: the days an event begins or ends on
    EventRows,  \* rows of events
    Places,     \* rows of event_participants
    Users,      \* accounts
    Nobody      \* an identifier that no account has

VARIABLES
    events,     \* table events: when each begins and ends
    guests,     \* table event_participants
    asked,      \* history: whom an event was created with
    cut,        \* history: events whose creation was refused or died
    taken,      \* history: <<event, account>> that were taken off an event
    met         \* history: events two requests have met on

eventTables  == <<events, guests>>
eventHistory == <<asked, cut, taken, met>>

-----------------------------------------------------------------------------
ParticipantStatus == {"INVITE", "CONFIRME", "DECLINE", "PRESENT", "ABSENT"}

Event == [start : Dates, end : Dates]
EventParticipant == [event : EventRows, user : Users, status : ParticipantStatus]

GuestsOf(e) == {p \in Places : Exists(guests[p]) /\ guests[p].event = e}
Invited(e)  == {guests[p].user : p \in GuestsOf(e)}

Meet(w, e) == met' = IF Alongside(w, "event", e) THEN met \cup {e} ELSE met

-----------------------------------------------------------------------------
(***************************************************************************)
(* Participants: one for each place of the list that is left.              *)
(***************************************************************************)
\* EventCreate refuses an end that is not after the start.
CreateEvent(w, e, start, end, list) ==
    /\ events[e] = None /\ start < end
    /\ events' = [events EXCEPT ![e] = [start |-> start, end |-> end]]
    /\ asked' = [asked EXCEPT ![e] = {list[i] : i \in DOMAIN list}]
    /\ Begin(w, [op |-> "create", event |-> e, left |-> list], "adding")
    /\ UNCHANGED <<guests, cut, taken, met>>

AddParticipant(w, e, u) ==
    /\ Exists(events[e])
    /\ Begin(w, [op |-> "add", event |-> e, left |-> <<u>>], "adding")
    /\ UNCHANGED <<eventTables, eventHistory>>

\* The creation that ends before its list does.
CutOff(w) == cut' = IF req[w].op = "create" THEN cut \cup {req[w].event} ELSE cut

\* Mutation: the last of the list is left out.
AddAllButLast(w) ==
    /\ pc[w] = "adding" /\ Len(req[w].left) <= 1
    /\ Return(w)
    /\ UNCHANGED <<eventTables, eventHistory>>

AllAdded(w) ==
    /\ pc[w] = "adding" /\ req[w].left = <<>>
    /\ Return(w)
    /\ UNCHANGED <<eventTables, eventHistory>>

\* Mutation: whoever is there already is not looked for.
FindNoOther(w) ==
    /\ pc[w] = "adding" /\ req[w].left # <<>>
    /\ Head(req[w].left) # Nobody
    /\ Continue(w, req[w], "inserting")
    /\ UNCHANGED <<eventTables, eventHistory>>

\* The account exists and is not a participant yet.
FindNoDuplicate(w) ==
    LET r == req[w] IN
    /\ pc[w] = "adding" /\ r.left # <<>>
    /\ Head(r.left) # Nobody /\ Head(r.left) \notin Invited(r.event)
    /\ Continue(w, r, "inserting")
    /\ UNCHANGED <<eventTables, eventHistory>>

\* 404 or 409: those before it are committed, those after it are left out.
RefuseParticipant(w) ==
    LET r == req[w] IN
    /\ pc[w] = "adding" /\ r.left # <<>>
    /\ Head(r.left) = Nobody \/ Head(r.left) \in Invited(r.event)
    /\ CutOff(w)
    /\ Return(w)
    /\ UNCHANGED <<eventTables, asked, taken, met>>

InsertParticipant(w) ==
    LET r == req[w] IN
    /\ pc[w] = "inserting" /\ Exists(events[r.event])
    /\ \E p \in Places :
          /\ guests[p] = None
          /\ guests' = [guests EXCEPT ![p] =
                           [event |-> r.event, user |-> Head(r.left), status |-> "INVITE"]]
    /\ Meet(w, r.event)
    /\ Continue(w, [r EXCEPT !.left = Tail(@)], "adding")
    /\ UNCHANGED <<events, asked, cut, taken>>

\* The foreign key refuses a participant of an event that is gone.
InsertFails(w) ==
    /\ pc[w] = "inserting" /\ ~Exists(events[req[w].event])
    /\ Return(w)
    /\ UNCHANGED <<eventTables, eventHistory>>

-----------------------------------------------------------------------------
(***************************************************************************)
(* Changes of a row that was read.                                         *)
(***************************************************************************)
Given(x, read) == IF x = None THEN read ELSE x

\* Mutation: the dates are compared as they were given.
UpdateUnread(w, e, start, end) ==
    /\ Exists(events[e])
    /\ None \notin {start, end} => start < end
    /\ LET new == [start |-> Given(start, events[e].start), end |-> Given(end, events[e].end)]
       IN Begin(w, [op |-> "update", event |-> e, read |-> events[e], new |-> new], "changing")
    /\ UNCHANGED <<eventTables, eventHistory>>

\* The dates that are not given are those that were read.
UpdateEvent(w, e, start, end) ==
    /\ Exists(events[e])
    /\ LET new == [start |-> Given(start, events[e].start), end |-> Given(end, events[e].end)]
       IN /\ new.start < new.end
          /\ Begin(w, [op |-> "update", event |-> e, read |-> events[e], new |-> new],
                   "changing")
    /\ UNCHANGED <<eventTables, eventHistory>>

CommitEvent(w) ==
    LET r == req[w] IN
    /\ pc[w] = "changing"
    /\ IF Exists(events[r.event])
       THEN /\ events' = [events EXCEPT ![r.event] = Flush(@, r.read, r.new)]
            /\ Meet(w, r.event)
       ELSE UNCHANGED <<events, met>>
    /\ Return(w)
    /\ UNCHANGED <<guests, asked, cut, taken>>

\* Any status may be given to a participant by the clergy; he himself confirms
\* or declines, whatever the status he has.
UpdateParticipant(w, p, status) ==
    /\ Exists(guests[p])
    /\ Begin(w, [op |-> "mark", place |-> p, status |-> status], "marking")
    /\ UNCHANGED <<eventTables, eventHistory>>

UpdateMyParticipation(w, p, status) ==
    /\ status \in {"CONFIRME", "DECLINE"}
    /\ UpdateParticipant(w, p, status)

CommitParticipant(w) ==
    LET p == req[w].place IN
    /\ pc[w] = "marking"
    /\ guests' = IF Exists(guests[p])
                 THEN [guests EXCEPT ![p].status = req[w].status] ELSE guests
    /\ Return(w)
    /\ UNCHANGED <<events, eventHistory>>

-----------------------------------------------------------------------------
RemoveParticipant(p) ==
    /\ Exists(guests[p])
    /\ guests' = [guests EXCEPT ![p] = Gone]
    /\ taken' = taken \cup {<<guests[p].event, guests[p].user>>}
    /\ UNCHANGED <<events, asked, cut, met, flights>>

\* The participants go with their event, those that are added meanwhile too
\* (ON DELETE CASCADE).
DeleteEvent(e) ==
    /\ Exists(events[e])
    /\ events' = [events EXCEPT ![e] = Gone]
    /\ guests' = [p \in Places |-> IF p \in GuestsOf(e) THEN Gone ELSE guests[p]]
    /\ UNCHANGED <<eventHistory, flights>>

AbortEvent(w) ==
    /\ Die(w)
    /\ CutOff(w)
    /\ UNCHANGED <<eventTables, asked, taken, met>>

-----------------------------------------------------------------------------
Init ==
    /\ events = [e \in EventRows |-> None]
    /\ guests = [p \in Places |-> None]
    /\ asked = [e \in EventRows |-> {}]
    /\ cut = {} /\ taken = {} /\ met = {}
    /\ InitFlights

\* Bound: lists of at most two.
Lists == LET Named == Users \cup {Nobody}
         IN {<<>>} \cup {<<u>> : u \in Named} \cup (Named \X Named)

EventRequest(w, e) ==
    \/ \E start, end \in Dates, list \in Lists : CreateEvent(w, e, start, end, list)
    \/ \E start, end \in Dates \cup {None} : UpdateEvent(w, e, start, end)
    \/ \E u \in Users \cup {Nobody} : AddParticipant(w, e, u)

PlaceRequest(w, p) ==
    \E status \in ParticipantStatus :
        UpdateParticipant(w, p, status) \/ UpdateMyParticipation(w, p, status)

ServeEvent(w) ==
    \/ AllAdded(w) \/ FindNoDuplicate(w) \/ RefuseParticipant(w)
    \/ InsertParticipant(w) \/ InsertFails(w)
    \/ CommitEvent(w) \/ CommitParticipant(w) \/ AbortEvent(w)

Next ==
    \/ \E e \in EventRows : DeleteEvent(e) \/ \E w \in Workers : EventRequest(w, e)
    \/ \E p \in Places : RemoveParticipant(p) \/ \E w \in Workers : PlaceRequest(w, p)
    \/ \E w \in Workers : ServeEvent(w)

Spec == Init /\ [][Next]_<<eventTables, eventHistory, flights>>

-----------------------------------------------------------------------------
TypeOK ==
    /\ events \in [EventRows -> Event \cup {None, Gone}]
    /\ guests \in [Places -> EventParticipant \cup {None, Gone}]
    /\ asked \in [EventRows -> SUBSET (Users \cup {Nobody})]
    /\ cut \cup met \subseteq EventRows /\ taken \subseteq EventRows \X Users
    /\ FlightsOK

\* An event ends after it begins, unless two changes of it have met: the order
\* is looked at on the dates as one request read them, and a commit writes the
\* ones that it has changed.
DatesInOrder ==
    \A e \in EventRows :
        Exists(events[e]) => events[e].start < events[e].end \/ e \in met

\* Nobody is twice in an event, unless two requests have met on it: no
\* constraint of the table refuses the second row.
InvitedOnce ==
    \A p, q \in Places :
        /\ p # q /\ Exists(guests[p]) /\ Exists(guests[q])
        /\ guests[p].event = guests[q].event /\ guests[p].user = guests[q].user
        => guests[p].event \in met

\* An event lacks somebody it was created with only while its creation goes on,
\* because he was taken off, or because the creation was refused or died.
EventsAreWhole ==
    \A e \in EventRows : Exists(events[e]) =>
        \/ \A u \in asked[e] : u \in Invited(e) \/ <<e, u>> \in taken
        \/ e \in cut
        \/ \E w \in Workers : pc[w] \in {"adding", "inserting"} /\ req[w].event = e

\* The creation of an event that lacks somebody goes on, and has him on its list.
Awaited(e) == {u \in asked[e] : u \notin Invited(e) /\ <<e, u>> \notin taken}
CreationGoesOn ==
    \A e \in EventRows : Exists(events[e]) =>
        \/ Awaited(e) = {} \/ e \in cut
        \/ \E w \in Workers : /\ pc[w] \in {"adding", "inserting"}
                              /\ req[w].op = "create" /\ req[w].event = e

\* What a request that waits knows: who is about to be inserted is not in the event, and
\* the dates are those it has read, unless others have met it.
Sound(w) ==
    LET r == req[w] IN
    \/ pc[w] = "idle"
    \/ /\ pc[w] \in {"adding", "inserting"}
       /\ r = [op |-> r.op, event |-> r.event, left |-> r.left]
       /\ r.op \in {"create", "add"} /\ r.event \in EventRows /\ events[r.event] # None
       /\ r.left \in Seq(Users \cup {Nobody})
       /\ r.op = "create" /\ Exists(events[r.event]) =>
             \A u \in Awaited(r.event) : \E i \in 1 .. Len(r.left) : r.left[i] = u
       /\ pc[w] = "inserting" =>
             /\ r.left # <<>> /\ Head(r.left) # Nobody
             /\ Head(r.left) \notin Invited(r.event) \/ r.event \in met
    \/ /\ pc[w] = "changing"
       /\ r = [op |-> "update", event |-> r.event, read |-> r.read, new |-> r.new]
       /\ r.event \in EventRows /\ events[r.event] # None /\ r.read \in Event
       /\ r.new \in Event /\ r.new.start < r.new.end
       /\ Exists(events[r.event]) => r.event \in met \/ r.read = events[r.event]
    \/ /\ pc[w] = "marking"
       /\ r = [op |-> "mark", place |-> r.place, status |-> r.status]
       /\ r.place \in Places /\ r.status \in ParticipantStatus

Inv ==
    /\ TypeOK /\ DatesInOrder /\ InvitedOnce /\ EventsAreWhole /\ CreationGoesOn
    /\ \A w \in Workers : Sound(w)
=============================================================================
