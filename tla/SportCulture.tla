---------------------------- MODULE SportCulture -----------------------------
(***************************************************************************)
(* The inscriptions to sports and cultural events: one servant at a time,  *)
(* or a batch for which the places are counted once and which is inserted  *)
(* in one commit.  An event without participants is deleted.               *)
(***************************************************************************)
EXTENDS Requests

CONSTANTS
    Events,         \* rows of sport_culture_events
    Inscriptions,   \* rows of event_participations
    Servants,       \* accounts with the role SERVANT
    Limits          \* bound: values of max_participants; 0 is no limit

VARIABLES
    events,         \* table sport_culture_events
    inscriptions,   \* table event_participations
    crowded,        \* history: events two requests have met on
    lowered,        \* history: events whose limit was changed
    called          \* history: inscriptions that were called off

sportTables  == <<events, inscriptions>>
sportHistory == <<crowded, lowered, called>>

-----------------------------------------------------------------------------
SportCultureEvent == [max : Limits]

\* Whether the presence is marked and whether the participation is paid.
EventParticipation == [event : Events, servant : Servants,
                       marked : BOOLEAN, paid : BOOLEAN]

Of(e) == {p \in Inscriptions : Exists(inscriptions[p]) /\ inscriptions[p].event = e}
CountByEvent(e) == Cardinality(Of(e))

\* A servant is inscribed once (uq_event_servant).
Inscribed(e, v) == \E p \in Of(e) : inscriptions[p].servant = v

Meet(w, e) == crowded' = IF Alongside(w, "event", e) THEN crowded \cup {e} ELSE crowded

-----------------------------------------------------------------------------
CreateEvent(e, max) ==
    /\ events[e] = None
    /\ events' = [events EXCEPT ![e] = [max |-> max]]
    /\ UNCHANGED <<inscriptions, sportHistory, flights>>

UpdateEvent(e, max) ==
    /\ Exists(events[e]) /\ max # events[e].max
    /\ events' = [events EXCEPT ![e].max = max]
    /\ lowered' = lowered \cup {e}
    /\ UNCHANGED <<inscriptions, crowded, called, flights>>

\* Mutation: the participants are not looked for.
DeleteEventUnseen(w, e) ==
    /\ Exists(events[e])
    /\ Begin(w, [op |-> "delete", event |-> e], "deleting")
    /\ UNCHANGED <<sportTables, sportHistory>>

\* An event with participants is not deleted; those that come in meanwhile go
\* with it (ON DELETE CASCADE).
DeleteEvent(w, e) ==
    /\ Exists(events[e]) /\ Of(e) = {}
    /\ Begin(w, [op |-> "delete", event |-> e], "deleting")
    /\ UNCHANGED <<sportTables, sportHistory>>

RemoveEvent(w) ==
    LET e == req[w].event IN
    /\ pc[w] = "deleting"
    /\ IF Exists(events[e])
       THEN /\ events' = [events EXCEPT ![e] = Gone]
            /\ inscriptions' = [p \in Inscriptions |->
                  IF p \in Of(e) THEN Gone ELSE inscriptions[p]]
            /\ Meet(w, e)
       ELSE UNCHANGED <<sportTables, crowded>>
    /\ Return(w)
    /\ UNCHANGED <<lowered, called>>

-----------------------------------------------------------------------------
\* One servant: the event, his inscription, the places, whatever the status of
\* the event and its deadline.
RegisterOne(w, e, v) ==
    /\ Exists(events[e])
    /\ Begin(w, [op |-> "one", event |-> e, max |-> events[e].max, size |-> 1,
                 twice |-> None, todo |-> {v}, new |-> {}], "looking")
    /\ UNCHANGED <<sportTables, sportHistory>>

\* A batch: the event, the places for all of the list, then each inscription.
\* A list that names a servant twice is counted as it is, and when he was not
\* inscribed both rows are tried.
RegisterBatch(w, e, servants, twice) ==
    /\ Exists(events[e]) /\ servants # {}
    /\ Begin(w, [op |-> "batch", event |-> e, max |-> events[e].max,
                 size |-> Cardinality(servants) + IF twice = None THEN 0 ELSE 1,
                 twice |-> twice, todo |-> servants, new |-> {}],
             IF events[e].max > 0 THEN "counting" ELSE "looking")
    /\ UNCHANGED <<sportTables, sportHistory>>

\* Mutation: the length of the list is not counted.
CountOnlyRows(w) ==
    LET r == req[w] IN
    /\ pc[w] = "counting"
    /\ IF CountByEvent(r.event) >= r.max
       THEN Return(w)
       ELSE Continue(w, r, IF r.op = "batch" THEN "looking" ELSE "inserting")
    /\ UNCHANGED <<sportTables, sportHistory>>

CountPlaces(w) ==
    LET r == req[w] IN
    /\ pc[w] = "counting"
    /\ IF CountByEvent(r.event) + r.size > r.max
       THEN Return(w)
       ELSE Continue(w, r, IF r.op = "batch" THEN "looking" ELSE "inserting")
    /\ UNCHANGED <<sportTables, sportHistory>>

\* Who is inscribed is refused, or passed over in a batch.
LookForInscription(w) ==
    LET r == req[w] IN
    /\ pc[w] = "looking"
    /\ \E v \in r.todo :
          LET there == Inscribed(r.event, v)
              rest  == [r EXCEPT !.todo = @ \ {v}, !.new = IF there THEN @ ELSE @ \cup {v}] IN
          \/ r.op = "one" /\ there /\ Return(w)
          \/ r.op = "one" /\ ~there /\ r.max > 0 /\ Continue(w, rest, "counting")
          \/ /\ r.op = "batch" \/ (~there /\ r.max = 0)
             /\ Continue(w, rest, IF rest.todo = {} THEN "inserting" ELSE "looking")
    /\ UNCHANGED <<sportTables, sportHistory>>

\* The rows that one commit can insert.
Insertable(r) ==
    /\ Exists(events[r.event])
    /\ \A v \in r.new : ~Inscribed(r.event, v)
    /\ r.twice \notin r.new

InsertInscriptions(w) ==
    LET r == req[w] IN
    /\ pc[w] = "inserting" /\ Insertable(r)
    /\ \E rows \in SUBSET {p \in Inscriptions : inscriptions[p] = None} :
          \E who \in [rows -> r.new] :
              /\ {who[p] : p \in rows} = r.new /\ Cardinality(rows) = Cardinality(r.new)
              /\ inscriptions' = [p \in Inscriptions |-> IF p \in rows
                    THEN [event |-> r.event, servant |-> who[p], marked |-> FALSE, paid |-> FALSE]
                    ELSE inscriptions[p]]
    /\ Meet(w, r.event)
    /\ Return(w)
    /\ UNCHANGED <<events, lowered, called>>

InscriptionsRefused(w) ==
    /\ pc[w] = "inserting" /\ ~Insertable(req[w])
    /\ Return(w)
    /\ UNCHANGED <<sportTables, sportHistory>>

-----------------------------------------------------------------------------
MarkAttendance(p, marked) ==
    /\ Exists(inscriptions[p])
    /\ inscriptions' = [inscriptions EXCEPT ![p].marked = marked]
    /\ UNCHANGED <<events, sportHistory, flights>>

MarkPayment(p, paid) ==
    /\ Exists(inscriptions[p])
    /\ inscriptions' = [inscriptions EXCEPT ![p].paid = paid]
    /\ UNCHANGED <<events, sportHistory, flights>>

CancelInscription(p) ==
    /\ Exists(inscriptions[p])
    /\ inscriptions' = [inscriptions EXCEPT ![p] = Gone]
    /\ called' = called \cup {p}
    /\ UNCHANGED <<events, crowded, lowered, flights>>

AbortSport(w) == Die(w) /\ UNCHANGED <<sportTables, sportHistory>>

-----------------------------------------------------------------------------
Init ==
    /\ events = [e \in Events |-> None]
    /\ inscriptions = [p \in Inscriptions |-> None]
    /\ crowded = {} /\ lowered = {} /\ called = {}
    /\ InitFlights

EventDesk(e) == \E max \in Limits : CreateEvent(e, max) \/ UpdateEvent(e, max)

InscriptionDesk(p) ==
    \/ CancelInscription(p)
    \/ \E b \in BOOLEAN : MarkAttendance(p, b) \/ MarkPayment(p, b)

SportRequest(w, e) ==
    \/ DeleteEvent(w, e)
    \/ \E v \in Servants : RegisterOne(w, e, v)
    \/ \E servants \in SUBSET Servants :
          \E twice \in servants \cup {None} : RegisterBatch(w, e, servants, twice)

ServeSport(w) ==
    \/ RemoveEvent(w) \/ CountPlaces(w) \/ LookForInscription(w)
    \/ InsertInscriptions(w) \/ InscriptionsRefused(w) \/ AbortSport(w)

Next == \/ \E e \in Events : \/ EventDesk(e)
                             \/ \E w \in Workers : SportRequest(w, e)
        \/ \E p \in Inscriptions : InscriptionDesk(p)
        \/ \E w \in Workers : ServeSport(w)

Spec == Init /\ [][Next]_<<sportTables, sportHistory, flights>>

-----------------------------------------------------------------------------
TypeOK ==
    /\ events \in [Events -> SportCultureEvent \cup {None, Gone}]
    /\ inscriptions \in [Inscriptions -> EventParticipation \cup {None, Gone}]
    /\ crowded \cup lowered \subseteq Events /\ called \subseteq Inscriptions
    /\ FlightsOK

\* An event has at most as many participants as it has places, unless its limit
\* was changed or two requests on it have met.
PlacesHeld ==
    \A e \in Events :
        Exists(events[e]) /\ events[e].max > 0 =>
            CountByEvent(e) <= events[e].max \/ e \in crowded \cup lowered

\* What a request carries at each place.
Deleting(w) == /\ pc[w] = "deleting"
               /\ req[w] \in [op : {"delete"}, event : Events]
Inscribing(w) == /\ pc[w] \in {"looking", "counting", "inserting"}
                 /\ req[w] \in [op : {"one", "batch"}, event : Events, max : Limits, size : Nat,
                               twice : Servants \cup {None}, todo : SUBSET Servants,
                               new : SUBSET Servants]

\* One servant is counted last, a batch first.
HasCounted(w) == pc[w] = "inserting" \/ (pc[w] = "looking" /\ req[w].op = "batch")

\* The limit that was read is the limit, those who are looked for are no more than
\* were counted, and their places are left, but for those who have met.
HasRead(w) ==
    LET r == req[w]  e == r.event IN
    /\ events[e] # None
    /\ Exists(events[e]) => events[e].max = r.max \/ e \in lowered
    /\ Cardinality(r.todo \cup r.new) <= r.size
    /\ HasCounted(w) /\ r.max > 0 => CountByEvent(e) + r.size <= r.max \/ e \in crowded

Sound(w) ==
    \/ pc[w] = "idle"
    \/ Deleting(w) /\ (Of(req[w].event) = {} \/ req[w].event \in crowded)
    \/ Inscribing(w) /\ HasRead(w)

\* An inscription is of an event there is (the foreign key).
EventsExist == \A e \in Events : Of(e) # {} => Exists(events[e])

Inv == TypeOK /\ PlacesHeld /\ EventsExist /\ \A w \in Workers : Sound(w)

\* Of a step: an inscription goes only when it is called off, or with its event when it
\* was made between the look at the participants and the deletion.
InscriptionsKept ==
    \A p \in Inscriptions :
        Exists(inscriptions[p]) /\ inscriptions'[p] = Gone =>
            p \in called' \/ inscriptions[p].event \in crowded'
=============================================================================
