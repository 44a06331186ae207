------------------------- MODULE ConvocationTables --------------------------
(***************************************************************************)
(* The tables and processes of Convocations, and what is promised of them: *)
(* here and not in Convocations because RollCall, in which a roll call     *)
(* convenes too, shares them and promises the same.                        *)
(***************************************************************************)
EXTENDS Naturals, FiniteSets

CONSTANTS
    Workers,   \* requests that can be in flight at the same time
    Tasks,     \* runs of the daily task that can overlap
    Servants,  \* accounts with the role SERVANT
    Motifs,    \* ConvocationMotif
    Rows,      \* bound: identifiers for rows of the table convocations
    Managers,  \* accounts that may convene and receive the parents
    SystemId,  \* the id that the control of cotisations convenes with
    Accounts,  \* the ids in the table users
    None,      \* no value
    MaxAborts  \* bound: requests and tasks that die half way

Procs  == Workers \cup Tasks
Status == {"EN_ATTENTE", "HONOREE", "SANS_REPONSE"}

\* A row of convocations; "UNUSED" is an identifier no row has yet.
Convocation == [servant    : Servants \cup {None},
                motif      : Motifs \cup {None},
                status     : Status \cup {"UNUSED"},
                convenedBy : Managers \cup {SystemId, None},
                honoredBy  : Managers \cup {None}]

VARIABLES
    convocations,  \* table convocations
    overdue,       \* the rows whose response_deadline has passed
    active,        \* servants with is_active
    pc,            \* where each process is
    req,           \* what each process serves and what it has read
    aborts,        \* processes that died so far
    overlapped     \* history: two processes were busy at the same time

convocationVars == <<convocations, overdue, active, pc, req, aborts, overlapped>>

Pending(s, m) == {c \in Rows : /\ convocations[c].status = "EN_ATTENTE"
                               /\ convocations[c].servant = s
                               /\ convocations[c].motif = m}

-----------------------------------------------------------------------------
(***************************************************************************)
(* Properties that every interleaving keeps.                               *)
(***************************************************************************)

\* Who received the parent is on every honored convocation, even when the task
\* and the manager wrote the row at the same time.
HonoredIsSigned ==
    \A c \in Rows :
        convocations[c].status = "HONOREE" => convocations[c].honoredBy # None

\* A process suspends only a servant one of whose convocations is overdue.
SuspensionIsDue ==
    [][\A s \in active \ active' :
           \E c \in overdue : convocations[c].servant = s]_convocationVars

-----------------------------------------------------------------------------
(***************************************************************************)
(* Properties of processes that have not overlapped.                       *)
(***************************************************************************)

\* A row that counts as unanswered although a parent came.
Unheard(c) == /\ convocations[c].status = "SANS_REPONSE"
              /\ convocations[c].honoredBy # None

\* "Idempotence": a control convenes only when no convocation with its motif
\* is pending, however often the control is repeated.
ConvenesOnce ==
    [][\A p \in Procs :
           /\ ~overlapped
           /\ req[p].op = "convene" /\ pc'[p] = "idle"
           /\ convocations' # convocations
           => Pending(req[p].servant, req[p].motif) = {}]_convocationVars

\* "Delai de 30 jours ecoule sans reponse": no parent was received.
UnansweredHasNoParent == overlapped \/ \A c \in Rows : ~Unheard(c)
=============================================================================
