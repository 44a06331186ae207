----------------------------- MODULE Assignments -----------------------------
(***************************************************************************)
(* The liturgical assignments of servants to events: creation one by one   *)
(* and by batch, the servant's answer, the presence, cancellation and      *)
(* deletion.                                                               *)
(*                                                                         *)
(* A worker is one request in flight; the others run between any two of    *)
(* its database calls.  The database holds one assignment per event and    *)
(* servant, and its foreign keys follow a deleted event.                   *)
(***************************************************************************)
EXTENDS Naturals, FiniteSets, Sequences, TLC

CONSTANTS
    Workers,   \* requests that can be in flight at the same time
    Events,    \* identifiers of events
    Users,     \* accounts with the role SERVANT
    Roles,     \* LiturgicalRole
    Rows,      \* bound: identifiers for rows of the table assignments
    None,      \* no value
    MaxBatch,  \* bound: items of one batch
    MaxAborts  \* bound: requests that die half way

ASSUME AssignmentsAssumption == MaxBatch \in Nat /\ MaxAborts \in Nat

Answers == {"ACCEPTED", "DECLINED"}
Marks   == {"PRESENT", "ABSENT"}
Status  == {"PENDING", "CANCELLED"} \cup Answers \cup Marks

\* A row of assignments.  "UNUSED" is an identifier no row has yet; a deleted
\* row leaves its identifier "DELETED".
AssignmentRow == [event  : Events \cup {None},
                  user   : Users \cup {None},
                  role   : Roles \cup {None},
                  status : Status \cup {"UNUSED", "DELETED"}]

Item == [user : Users, role : Roles]

VARIABLES
    assignments,  \* table assignments
    events,       \* ids in the table events
    enabled,      \* accounts with is_active
    pc,           \* where each worker is
    req,          \* the request each worker serves and what it has read
    aborts,       \* requests that died so far
    overlapped    \* history: two requests were in flight at the same time

vars == <<assignments, events, enabled, pc, req, aborts, overlapped>>
tables == <<assignments, events, enabled>>

-----------------------------------------------------------------------------
Ops    == {"none", "create", "batch", "update", "answer", "mark", "cancel",
           "delete"}
Places == {"idle", "item", "eligible", "unassigned", "loaded"}

Request == [op     : Ops,
            event  : Events \cup {None},
            items  : Seq(Item),              \* the items still to create
            broken : BOOLEAN,                \* the session needs a rollback
            row    : Rows \cup {None},
            role   : Roles \cup {None},      \* the columns to write; None
            status : Status \cup {None}]     \* leaves the column alone

NoRequest == [op |-> "none", event |-> None, items |-> <<>>, broken |-> FALSE,
              row |-> None, role |-> None, status |-> None]

Goto(w, place) == pc' = [pc EXCEPT ![w] = place]
Begin(w, request, place) ==
    /\ pc[w] = "idle"
    /\ req' = [req EXCEPT ![w] = request]
    /\ Goto(w, place)
    /\ overlapped' = (overlapped \/ \E v \in Workers : pc[v] # "idle")

\* The handler returns or raises: its session and what it had read are gone.
Return(w) == /\ Goto(w, "idle")
             /\ req' = [req EXCEPT ![w] = NoRequest]

Exists(n) == assignments[n].status \notin {"UNUSED", "DELETED"}
Of(e, u)  == {n \in Rows : Exists(n) /\ assignments[n].event = e
                                     /\ assignments[n].user = u}

\* get_by_event_user_role: the assignments that count as a duplicate.
Duplicates(e, i) ==
    {n \in Of(e, i.user) : /\ assignments[n].role = i.role
                           /\ assignments[n].status # "CANCELLED"}

-----------------------------------------------------------------------------
(***************************************************************************)
(* Creation.  A single creation is handled as its only item; an item that  *)
(* fails ends it, while a batch notes the error and takes the next item.   *)
(***************************************************************************)
Current(w) == Head(req[w].items)

BeginCreate(w, op, e, items) ==
    /\ e \in events
    /\ Begin(w, [NoRequest EXCEPT !.op = op, !.event = e, !.items = items],
             "item")
    /\ UNCHANGED <<tables, aborts>>

\* The answer after the last item, or the next item.  A flush that failed
\* leaves the session of a batch unusable: no one calls rollback.
NextItem(w, broken) ==
    IF Len(req[w].items) = 1
    THEN Return(w)
    ELSE /\ req' = [req EXCEPT ![w].items = Tail(@), ![w].broken = broken]
         /\ Goto(w, "item")

\* PendingRollbackError: every later item of the batch fails on its first read.
SessionBroken(w) ==
    /\ pc[w] = "item" /\ req[w].broken
    /\ NextItem(w, TRUE)
    /\ UNCHANGED <<tables, aborts, overlapped>>

\* The account exists, is active and is a SERVANT.
CheckServant(w) ==
    /\ pc[w] = "item" /\ ~req[w].broken
    /\ IF Current(w).user \in enabled
       THEN Goto(w, "eligible") /\ UNCHANGED req
       ELSE NextItem(w, FALSE)
    /\ UNCHANGED <<tables, aborts, overlapped>>

CheckDuplicate(w) ==
    /\ pc[w] = "eligible"
    /\ IF Duplicates(req[w].event, Current(w)) = {}
       THEN Goto(w, "unassigned") /\ UNCHANGED req
       ELSE NextItem(w, FALSE)
    /\ UNCHANGED <<tables, aborts, overlapped>>

\* Mutation: the table has no unique constraint.
InsertableOften(e, u) == e \in events

\* Mutation: the table has no foreign key.
InsertableAnywhere(e, u) == Of(e, u) = {}

\* What the INSERT must satisfy: the foreign key of the event and
\* uq_assignment_event_user, which also counts the cancelled assignments.
Insertable(e, u) == e \in events /\ Of(e, u) = {}

Insert(w) ==
    LET r == req[w]  i == Current(w) IN
    /\ pc[w] = "unassigned"
    /\ Insertable(r.event, i.user)
    /\ \E n \in Rows :
         /\ assignments[n].status = "UNUSED"
         /\ assignments' = [assignments EXCEPT ![n] =
                [event |-> r.event, user |-> i.user, role |-> i.role,
                 status |-> "PENDING"]]
    /\ NextItem(w, FALSE)
    /\ UNCHANGED <<events, enabled, aborts, overlapped>>

\* An IntegrityError: a single creation answers 409, a batch notes it.
InsertConflict(w) ==
    /\ pc[w] = "unassigned"
    /\ ~Insertable(req[w].event, Current(w).user)
    /\ NextItem(w, TRUE)
    /\ UNCHANGED <<tables, aborts, overlapped>>

-----------------------------------------------------------------------------
(***************************************************************************)
(* The other requests read the assignment, decide, and commit later.       *)
(***************************************************************************)
Load(w, op, n, role, status) ==
    /\ Exists(n)
    /\ Begin(w, [NoRequest EXCEPT !.op = op, !.row = n, !.role = role,
                                  !.status = status], "loaded")
    /\ UNCHANGED <<tables, aborts>>

\* A value equal to the one read is no change: the UPDATE leaves it out.
Change(new, old) == IF new = old THEN None ELSE new

\* update_assignment writes any status, from any status; None is not given.
BeginUpdate(w, n, role, status) ==
    /\ Of(assignments[n].event, assignments[n].user) \subseteq {n}
    /\ Load(w, "update", n, Change(role, assignments[n].role),
                            Change(status, assignments[n].status))

\* The servant accepts or declines an assignment of his own.
BeginAnswer(w, n, status) ==
    /\ assignments[n].status = "PENDING"
    /\ Load(w, "answer", n, None, status)

BeginMark(w, n, status) ==
    /\ assignments[n].status # "CANCELLED"
    /\ Load(w, "mark", n, None, Change(status, assignments[n].status))

\* The servant shows the code of the event: his accepted assignment is marked.
CheckIn(w, n) ==
    /\ assignments[n].status = "ACCEPTED"
    /\ BeginMark(w, n, "PRESENT")

BeginCancel(w, n) ==
    /\ assignments[n].status # "CANCELLED"
    /\ Load(w, "cancel", n, None, "CANCELLED")

BeginDelete(w, n) == Load(w, "delete", n, None, None)

Written(row, r) ==
    [row EXCEPT !.role   = IF r.role = None THEN @ ELSE r.role,
                !.status = IF r.status = None THEN @ ELSE r.status]

CommitUpdate(w) ==
    LET r == req[w] IN
    /\ pc[w] = "loaded" /\ r.op # "delete"
    /\ Exists(r.row)
    /\ assignments' = [assignments EXCEPT ![r.row] = Written(@, r)]
    /\ Return(w)
    /\ UNCHANGED <<events, enabled, aborts, overlapped>>

CommitDelete(w) ==
    LET r == req[w] IN
    /\ pc[w] = "loaded" /\ r.op = "delete"
    /\ Exists(r.row)
    /\ assignments' = [assignments EXCEPT ![r.row].status = "DELETED"]
    /\ Return(w)
    /\ UNCHANGED <<events, enabled, aborts, overlapped>>

\* The row was deleted since it was read: no row matches, the request fails.
RowGone(w) ==
    /\ pc[w] = "loaded" /\ ~Exists(req[w].row)
    /\ Return(w)
    /\ UNCHANGED <<tables, aborts, overlapped>>

-----------------------------------------------------------------------------
(***************************************************************************)
(* What other parts of the system do to this state.                        *)
(***************************************************************************)

\* Deleting an event deletes its assignments (ON DELETE CASCADE).
DeleteEvent(e) ==
    /\ e \in events
    /\ events' = events \ {e}
    /\ assignments' = [n \in Rows |->
           IF Exists(n) /\ assignments[n].event = e
           THEN [assignments[n] EXCEPT !.status = "DELETED"]
           ELSE assignments[n]]
    /\ UNCHANGED <<enabled, pc, req, aborts, overlapped>>

\* An administrator deactivates or reactivates an account.
SwitchAccount(u) ==
    /\ enabled' = IF u \in enabled THEN enabled \ {u} ELSE enabled \cup {u}
    /\ UNCHANGED <<assignments, events, pc, req, aborts, overlapped>>

\* A database error or a restart ends a request; what it has committed stays.
Abort(w) ==
    /\ pc[w] # "idle"
    /\ aborts < MaxAborts
    /\ aborts' = aborts + 1
    /\ Return(w)
    /\ UNCHANGED <<tables, overlapped>>

-----------------------------------------------------------------------------
Init ==
    /\ assignments = [n \in Rows |-> [event |-> None, user |-> None,
                                      role |-> None, status |-> "UNUSED"]]
    /\ events = Events
    /\ enabled = Users
    /\ pc = [w \in Workers |-> "idle"]
    /\ req = [w \in Workers |-> NoRequest]
    /\ aborts = 0
    /\ overlapped = FALSE

Batches == UNION {[1..k -> Item] : k \in 1..MaxBatch}

Arrive(w) ==
    \/ \E e \in Events, i \in Item : BeginCreate(w, "create", e, <<i>>)
    \/ \E e \in Events, items \in Batches : BeginCreate(w, "batch", e, items)
    \/ \E n \in Rows :
         \/ \E role \in Roles \cup {None}, s \in Status \cup {None} :
               BeginUpdate(w, n, role, s)
         \/ \E s \in Answers : BeginAnswer(w, n, s)
         \/ \E s \in Marks : BeginMark(w, n, s)
         \/ CheckIn(w, n)
         \/ BeginCancel(w, n)
         \/ BeginDelete(w, n)

Serve(w) ==
    \/ SessionBroken(w) \/ CheckServant(w) \/ CheckDuplicate(w)
    \/ Insert(w) \/ InsertConflict(w)
    \/ CommitUpdate(w) \/ CommitDelete(w) \/ RowGone(w)

Environment ==
    \/ \E e \in Events : DeleteEvent(e)
    \/ \E u \in Users : SwitchAccount(u)
    \/ \E w \in Workers : Abort(w)

Next == Environment \/ \E w \in Workers : Arrive(w) \/ Serve(w)

Spec == Init /\ [][Next]_vars

-----------------------------------------------------------------------------
(***************************************************************************)
(* Properties that every interleaving of requests keeps.                   *)
(***************************************************************************)

\* The table, every request and every program counter hold values of their
\* type.
TypeOK ==
    /\ assignments \in [Rows -> AssignmentRow]
    /\ events \in SUBSET Events
    /\ enabled \in SUBSET Users
    /\ pc \in [Workers -> Places]
    /\ req \in [Workers -> Request]
    /\ aborts \in 0..MaxAborts
    /\ overlapped \in BOOLEAN

\* The check for duplicates is not atomic with the INSERT and looks at one
\* role only; the constraint of the table makes up for it: a servant has one
\* assignment per event, cancelled or not, whichever requests overlap.
OneAssignmentPerServant ==
    \A m, n \in Rows :
        /\ Exists(m) /\ Exists(n)
        /\ assignments[m].event = assignments[n].event
        /\ assignments[m].user = assignments[n].user
        => m = n

\* No assignment outlives its event, whenever the event is deleted.
NoOrphans == \A n \in Rows : Exists(n) => assignments[n].event \in events

\* An item leaves the creation and leaves no row.
Refused(w) == /\ pc[w] \in {"item", "eligible", "unassigned"}
              /\ pc'[w] = "idle" \/ req'[w].items # req[w].items
              /\ aborts' = aborts /\ assignments' = assignments

\* Its account is not active, its event is gone, its servant has a row at the
\* event already, or an earlier item of its batch broke the session.
HasReason(w) == LET u == Current(w).user  e == req[w].event IN
                \/ u \notin enabled \/ e \notin events
                \/ Of(e, u) # {} \/ req[w].broken

\* An item is refused for a reason that holds at the time, and for nothing
\* else, and the items after it are not lost.
RefusalHasReason ==
    [][\A w \in Workers :
           Refused(w) => /\ HasReason(w)
                         /\ Len(req[w].items) > 1
                                => req'[w].items = Tail(req[w].items)]_vars

-----------------------------------------------------------------------------
(***************************************************************************)
(* Properties of requests that have not overlapped.                        *)
(***************************************************************************)

\* An answer, or a presence, that changes a row it may not change.
Answered(w, n) == /\ req[w].op = "answer" /\ pc'[w] = "idle"
                  /\ assignments'[n] # assignments[n]
                  /\ assignments[n].status # "PENDING"
Marked(w, n) == /\ req[w].op = "mark" /\ pc'[w] = "idle"
                /\ assignments'[n] # assignments[n]
                /\ assignments[n].status = "CANCELLED"

\* "Seules les transitions PENDING -> ACCEPTED ou PENDING -> DECLINED sont
\* autorisees": the servant's answer changes a pending assignment only.
AnswersPendingOnly ==
    [][\A w \in Workers, n \in Rows : Answered(w, n) => overlapped]_vars

\* "Impossible de marquer la presence d'une affectation annulee".
MarksUncancelledOnly ==
    [][\A w \in Workers, n \in Rows : Marked(w, n) => overlapped]_vars

-----------------------------------------------------------------------------
(***************************************************************************)
(* What the documentation says and the code does not do.                   *)
(***************************************************************************)

\* "Une erreur sur l'une n'empeche pas la creation des autres": an item whose
\* event and account are in order and whose servant is free is created.
ItemsAreIndependent ==
    [][\A w \in Workers :
           /\ pc[w] = "item" /\ req'[w] # req[w] /\ aborts' = aborts
           => Current(w).user \notin enabled]_vars

\* For TLC: requests, events, servants, roles and row identifiers are interchangeable.
Symmetry == Permutations(Workers) \cup Permutations(Events)
            \cup Permutations(Users) \cup Permutations(Roles)
            \cup Permutations(Rows)
=============================================================================
