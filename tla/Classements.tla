----------------------------- MODULE Classements ------------------------------
(***************************************************************************)
(* The classements: a draft is finalised and then published, one step at a *)
(* time and from the status that was read; what is published is not to be  *)
(* deleted.  Its contents may be changed at any time.                      *)
(***************************************************************************)
EXTENDS Requests

CONSTANTS
    Rows,       \* rows of classements
    Contents    \* bound: what a classement says

VARIABLES
    classements,    \* table classements
    met             \* history: classements two requests have met on

classementVars == <<classements, met>>

-----------------------------------------------------------------------------
ClassementStatus == {"BROUILLON", "FINALISE", "PUBLIE"}
Classement == [status : ClassementStatus, says : Contents, published : BOOLEAN]

\* The statuses there is a next one of.
Transitions == [BROUILLON |-> "FINALISE", FINALISE |-> "PUBLIE"]

Meet(w, c) == met' = IF Alongside(w, "row", c) THEN met \cup {c} ELSE met

-----------------------------------------------------------------------------
NewClassement(says) == [status |-> "BROUILLON", says |-> says, published |-> FALSE]

CreateClassement(c, says) ==
    /\ classements[c] = None
    /\ classements' = [classements EXCEPT ![c] = NewClassement(says)]
    /\ UNCHANGED <<met, flights>>

\* Only the columns that are given are written, whatever the status is.
UpdateClassement(c, says) ==
    /\ Exists(classements[c])
    /\ classements' = [classements EXCEPT ![c].says = says]
    /\ UNCHANGED <<met, flights>>

\* A published one is not advanced.
AdvanceStatus(w, c) ==
    /\ Exists(classements[c]) /\ classements[c].status \in DOMAIN Transitions
    /\ Begin(w, [op |-> "advance", row |-> c, next |-> Transitions[classements[c].status]],
             "advancing")
    /\ UNCHANGED classementVars

\* published_at is set with PUBLIE, and never taken back.
CommitStatus(w) ==
    LET c == req[w].row  next == req[w].next IN
    /\ pc[w] = "advancing"
    /\ IF Exists(classements[c])
       THEN /\ classements' = [classements EXCEPT ![c].status = next,
                                   ![c].published = @ \/ next = "PUBLIE"]
            /\ Meet(w, c)
       ELSE UNCHANGED classementVars
    /\ Return(w)

\* Mutation: the status is not looked at.
DeleteAnyClassement(w, c) ==
    /\ Exists(classements[c])
    /\ Begin(w, [op |-> "delete", row |-> c], "deleting")
    /\ UNCHANGED classementVars

\* A published one is not deleted.
DeleteClassement(w, c) ==
    /\ Exists(classements[c]) /\ classements[c].status # "PUBLIE"
    /\ Begin(w, [op |-> "delete", row |-> c], "deleting")
    /\ UNCHANGED classementVars

\* The status is not looked at again.
RemoveClassement(w) ==
    LET c == req[w].row IN
    /\ pc[w] = "deleting"
    /\ IF Exists(classements[c])
       THEN classements' = [classements EXCEPT ![c] = Gone] /\ Meet(w, c)
       ELSE UNCHANGED classementVars
    /\ Return(w)

AbortClassement(w) == Die(w) /\ UNCHANGED classementVars

-----------------------------------------------------------------------------
Init == /\ classements = [c \in Rows |-> None]
        /\ met = {}
        /\ InitFlights

\* What is told of a publication, by e-mail and afterwards, changes no row.
StatusDesk(w, c) == AdvanceStatus(w, c) \/ DeleteClassement(w, c)

\* The changes come with every field or with some.
EditDesk(c) == \E says \in Contents : UpdateClassement(c, says)

Next ==
    \/ \E c \in Rows :
          \/ EditDesk(c) \/ \E says \in Contents : CreateClassement(c, says)
          \/ \E w \in Workers : StatusDesk(w, c)
    \/ \E w \in Workers : CommitStatus(w) \/ RemoveClassement(w) \/ AbortClassement(w)

Spec == Init /\ [][Next]_<<classementVars, flights>>

-----------------------------------------------------------------------------
TypeOK == /\ classements \in [Rows -> Classement \cup {None, Gone}]
          /\ met \subseteq Rows
          /\ FlightsOK

\* What a request carries at each place.
Advancing(w) == /\ pc[w] = "advancing"
                /\ req[w] \in [op : {"advance"}, row : Rows, next : {"FINALISE", "PUBLIE"}]
Deleting(w)  == /\ pc[w] = "deleting"
                /\ req[w] \in [op : {"delete"}, row : Rows]

Published(c) == Exists(classements[c]) /\ classements[c].status = "PUBLIE"

\* It will take the row for one that is not published.
Unaware(w) == \/ Deleting(w)
              \/ Advancing(w) /\ req[w].next = "FINALISE"

\* Who is unaware of a publication has met the request that made it.
Inv ==
    /\ TypeOK
    /\ \A w \in Workers : pc[w] = "idle" \/ Advancing(w) \/ Deleting(w)
    /\ \A w \in Workers : Unaware(w) /\ Published(req[w].row) => req[w].row \in met

\* Of a step: what is published stays published, unless two requests have met on
\* it, one of which looked at the status before it was published.
PublishedStands ==
    \A c \in Rows :
        Exists(classements[c]) /\ classements[c].status = "PUBLIE" =>
            \/ Exists(classements'[c]) /\ classements'[c].status = "PUBLIE"
            \/ c \in met'
=============================================================================
