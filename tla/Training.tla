------------------------------ MODULE Training -------------------------------
(***************************************************************************)
(* The courses of the servants: a session has a limited number of places,  *)
(* a registration looks at them before it takes one, and a session without *)
(* participants is deleted.  Each look is a call, and others run between.  *)
(***************************************************************************)
EXTENDS Requests

CONSTANTS
    Sessions,       \* rows of training_sessions
    Registrations,  \* rows of training_participations
    Servants,       \* accounts with the role SERVANT
    Limits          \* bound: values of max_participants; 0 is no limit

VARIABLES
    sessions,       \* table training_sessions
    participations, \* table training_participations
    crowded,        \* history: sessions two requests have met on
    lowered,        \* history: sessions whose limit was changed
    called          \* history: registrations that were called off

trainingTables  == <<sessions, participations>>
trainingHistory == <<crowded, lowered, called>>

-----------------------------------------------------------------------------
\* PLANIFIEE and EN_COURS are open, TERMINEE and ANNULEE are not.
TrainingSession == [open : BOOLEAN, max : Limits]

\* Whether the presence is marked and whether a certificate was given.
TrainingParticipation == [session : Sessions, servant : Servants,
                          marked : BOOLEAN, certificate : BOOLEAN]

Of(s) == {p \in Registrations :
             Exists(participations[p]) /\ participations[p].session = s}

\* A servant is registered once (uq_session_servant).
Registered(s, v) == \E p \in Of(s) : participations[p].servant = v

Meet(w, s) == crowded' = IF Alongside(w, "session", s) THEN crowded \cup {s} ELSE crowded

-----------------------------------------------------------------------------
CreateSession(s, max) ==
    /\ sessions[s] = None
    /\ sessions' = [sessions EXCEPT ![s] = [open |-> TRUE, max |-> max]]
    /\ UNCHANGED <<participations, trainingHistory, flights>>

\* Any status and any limit may be given.
UpdateSession(s, open, max) ==
    /\ Exists(sessions[s])
    /\ sessions' = [sessions EXCEPT ![s] = [open |-> open, max |-> max]]
    /\ lowered' = IF max = sessions[s].max THEN lowered ELSE lowered \cup {s}
    /\ UNCHANGED <<participations, crowded, called, flights>>

\* Mutation: the participants are not looked for.
DeleteSessionUnseen(w, s) ==
    /\ Exists(sessions[s])
    /\ Begin(w, [op |-> "delete", session |-> s], "deleting")
    /\ UNCHANGED <<trainingTables, trainingHistory>>

\* A session with participants is not deleted.
DeleteSession(w, s) ==
    /\ Exists(sessions[s]) /\ Of(s) = {}
    /\ Begin(w, [op |-> "delete", session |-> s], "deleting")
    /\ UNCHANGED <<trainingTables, trainingHistory>>

\* ON DELETE CASCADE takes the registrations that came in meanwhile.
RemoveSession(w) ==
    LET s == req[w].session IN
    /\ pc[w] = "deleting"
    /\ IF Exists(sessions[s])
       THEN /\ sessions' = [sessions EXCEPT ![s] = Gone]
            /\ participations' = [p \in Registrations |->
                  IF p \in Of(s) THEN Gone ELSE participations[p]]
            /\ Meet(w, s)
       ELSE UNCHANGED <<sessions, participations, crowded>>
    /\ Return(w)
    /\ UNCHANGED <<lowered, called>>

-----------------------------------------------------------------------------
(***************************************************************************)
(* One servant or a batch: for each the session, then the registration he  *)
(* may have, then the places; a batch passes over those that are refused.  *)
(***************************************************************************)
Register(w, s, batch, servants) ==
    /\ batch \/ Cardinality(servants) = 1
    /\ Begin(w, [op |-> IF batch THEN "batch" ELSE "one", session |-> s,
                 todo |-> servants, servant |-> None, max |-> None], "reading")
    /\ UNCHANGED <<trainingTables, trainingHistory>>

\* The next of a batch, or the answer.
NextServant(w) ==
    IF req[w].op = "batch"
    THEN Continue(w, [req[w] EXCEPT !.servant = None, !.max = None], "reading")
    ELSE Return(w)

ReadSession(w) ==
    LET r == req[w]  s == r.session IN
    /\ pc[w] = "reading"
    /\ \E v \in r.todo :
          LET rest == [r EXCEPT !.todo = @ \ {v}] IN
          IF Exists(sessions[s]) /\ sessions[s].open
          THEN Continue(w, [rest EXCEPT !.servant = v, !.max = sessions[s].max], "looking")
          ELSE IF r.op = "batch" THEN Continue(w, rest, "reading") ELSE Return(w)
    /\ UNCHANGED <<trainingTables, trainingHistory>>

LookForServant(w) ==
    LET r == req[w] IN
    /\ pc[w] = "looking"
    /\ IF Registered(r.session, r.servant)
       THEN NextServant(w)
       ELSE Continue(w, r, IF r.max > 0 THEN "counting" ELSE "inserting")
    /\ UNCHANGED <<trainingTables, trainingHistory>>

\* Mutation: one more than there are places.
CountOneMore(w) ==
    LET r == req[w] IN
    /\ pc[w] = "counting"
    /\ IF Cardinality(Of(r.session)) > r.max
       THEN NextServant(w)
       ELSE Continue(w, r, "inserting")
    /\ UNCHANGED <<trainingTables, trainingHistory>>

CountParticipants(w) ==
    LET r == req[w] IN
    /\ pc[w] = "counting"
    /\ IF Cardinality(Of(r.session)) >= r.max
       THEN NextServant(w)
       ELSE Continue(w, r, "inserting")
    /\ UNCHANGED <<trainingTables, trainingHistory>>

InsertRegistration(w) ==
    LET r == req[w]  s == r.session IN
    /\ pc[w] = "inserting"
    /\ Exists(sessions[s]) /\ ~Registered(s, r.servant)
    /\ \E p \in Registrations :
          /\ participations[p] = None
          /\ participations' = [participations EXCEPT ![p] =
                [session |-> s, servant |-> r.servant,
                 marked |-> FALSE, certificate |-> FALSE]]
    /\ Meet(w, s)
    /\ NextServant(w)
    /\ UNCHANGED <<sessions, lowered, called>>

\* The foreign key or the unique constraint refuses the row: no HTTPException,
\* and the rest of a batch is not looked at.
RegistrationRefused(w) ==
    LET r == req[w] IN
    /\ pc[w] = "inserting"
    /\ ~Exists(sessions[r.session]) \/ Registered(r.session, r.servant)
    /\ Return(w)
    /\ UNCHANGED <<trainingTables, trainingHistory>>

BatchDone(w) ==
    /\ pc[w] = "reading" /\ req[w].todo = {}
    /\ Return(w)
    /\ UNCHANGED <<trainingTables, trainingHistory>>

CancelRegistration(p) ==
    /\ Exists(participations[p])
    /\ participations' = [participations EXCEPT ![p] = Gone]
    /\ called' = called \cup {p}
    /\ UNCHANGED <<sessions, crowded, lowered, flights>>

-----------------------------------------------------------------------------
\* Each sets columns of its own, whatever the status of the session.
MarkAttendance(p, marked) ==
    /\ Exists(participations[p])
    /\ participations' = [participations EXCEPT ![p].marked = marked]
    /\ UNCHANGED <<sessions, trainingHistory, flights>>

EvaluateParticipant(p, certificate) ==
    /\ Exists(participations[p])
    /\ participations' = [participations EXCEPT ![p].certificate = certificate]
    /\ UNCHANGED <<sessions, trainingHistory, flights>>

-----------------------------------------------------------------------------
AbortTraining(w) == Die(w) /\ UNCHANGED <<trainingTables, trainingHistory>>

-----------------------------------------------------------------------------
Init ==
    /\ sessions = [s \in Sessions |-> None]
    /\ participations = [p \in Registrations |-> None]
    /\ crowded = {} /\ lowered = {} /\ called = {}
    /\ InitFlights

NewSession(s) == \E max \in Limits : CreateSession(s, max)

SessionDesk(s) == \E open \in BOOLEAN, max \in Limits : UpdateSession(s, open, max)

ParticipationDesk(p) ==
    \/ CancelRegistration(p)
    \/ \E b \in BOOLEAN : MarkAttendance(p, b) \/ EvaluateParticipant(p, b)

TrainingRequest(w, s) ==
    \/ DeleteSession(w, s)
    \/ \E batch \in BOOLEAN, servants \in SUBSET Servants : Register(w, s, batch, servants)

ServeTraining(w) ==
    \/ RemoveSession(w) \/ ReadSession(w) \/ LookForServant(w) \/ CountParticipants(w)
    \/ InsertRegistration(w) \/ RegistrationRefused(w) \/ BatchDone(w)
    \/ AbortTraining(w)

Next == \/ \E s \in Sessions : \/ NewSession(s) \/ SessionDesk(s)
                               \/ \E w \in Workers : TrainingRequest(w, s)
        \/ \E p \in Registrations : ParticipationDesk(p)
        \/ \E w \in Workers : ServeTraining(w)

Spec == Init /\ [][Next]_<<trainingTables, trainingHistory, flights>>

-----------------------------------------------------------------------------
TypeOK ==
    /\ sessions \in [Sessions -> TrainingSession \cup {None, Gone}]
    /\ participations \in [Registrations -> TrainingParticipation \cup {None, Gone}]
    /\ crowded \cup lowered \subseteq Sessions /\ called \subseteq Registrations
    /\ FlightsOK

\* A session has at most as many participants as it has places, unless its
\* limit was changed or two requests on it have met: no constraint of the table
\* holds the limit, and the places are counted before one is taken.
CapacityHeld ==
    \A s \in Sessions :
        Exists(sessions[s]) /\ sessions[s].max > 0 =>
            \/ Cardinality(Of(s)) <= sessions[s].max
            \/ s \in crowded \cup lowered

\* What a request carries at each place.
Deleting(w) == /\ pc[w] = "deleting"
               /\ req[w] \in [op : {"delete"}, session : Sessions]
Registering(w) == /\ pc[w] \in {"reading", "looking", "counting", "inserting"}
                  /\ req[w] \in [op : {"one", "batch"}, session : Sessions,
                                todo : SUBSET Servants, servant : Servants \cup {None},
                                max : Limits \cup {None}]

\* The limit that was read is the limit, and the places that were counted are
\* left, but for those who have met.
HasRead(w) ==
    LET r == req[w]  s == r.session IN
    /\ r.servant \in Servants /\ r.max \in Limits /\ sessions[s] # None
    /\ Exists(sessions[s]) => sessions[s].max = r.max \/ s \in lowered
    /\ pc[w] = "inserting" /\ r.max > 0 => Cardinality(Of(s)) < r.max \/ s \in crowded

Sound(w) ==
    \/ pc[w] = "idle"
    \/ Deleting(w) /\ (Of(req[w].session) = {} \/ req[w].session \in crowded)
    \/ Registering(w) /\ (pc[w] = "reading" \/ HasRead(w))

\* A registration is of a session there is (the foreign key).
SessionsExist == \A s \in Sessions : Of(s) # {} => Exists(sessions[s])

Inv == TypeOK /\ CapacityHeld /\ SessionsExist /\ \A w \in Workers : Sound(w)

\* Of a step: a registration goes only when it is called off, or with its session when it
\* was made between the look at the participants and the deletion.
RegistrationsKept ==
    \A p \in Registrations :
        Exists(participations[p]) /\ participations'[p] = Gone =>
            p \in called' \/ participations[p].session \in crowded'
=============================================================================
