---------------------------- MODULE Convocations -----------------------------
(***************************************************************************)
(* The convocations of a servant's parents: by hand, or by a control that  *)
(* convenes once per motif; the parent who presents himself; the daily     *)
(* task that suspends the servant when the deadline has passed.            *)
(*                                                                         *)
(* A worker is one request in flight, a task one run of the daily task.    *)
(* The others run between any two of its database calls.                   *)
(***************************************************************************)
EXTENDS ConvocationTables

ASSUME ConvocationsAssumption ==
    /\ Managers \subseteq Accounts /\ None \notin Accounts \cup {SystemId}
    /\ MaxAborts \in Nat

vars == convocationVars
tables == <<convocations, overdue, active>>

-----------------------------------------------------------------------------
Ops    == {"none", "create", "convene", "honor", "expire"}
Places == {"idle", "lookup", "insert", "loaded", "expiring", "suspending"}

Request == [op      : Ops,
            servant : Servants \cup {None},
            motif   : Motifs \cup {None},
            by      : Managers \cup {SystemId, None},
            row     : Rows \cup {None},
            rows    : SUBSET Rows]   \* the expired rows still to process

NoRequest == [op |-> "none", servant |-> None, motif |-> None, by |-> None,
              row |-> None, rows |-> {}]

Goto(p, place) == pc' = [pc EXCEPT ![p] = place]
Begin(p, request, place) ==
    /\ pc[p] = "idle"
    /\ req' = [req EXCEPT ![p] = request]
    /\ Goto(p, place)
    /\ overlapped' = (overlapped \/ \E q \in Procs : pc[q] # "idle")
    /\ UNCHANGED <<tables, aborts>>

\* The handler returns or raises: its session and what it had read are gone.
Return(p) == /\ Goto(p, "idle")
             /\ req' = [req EXCEPT ![p] = NoRequest]

-----------------------------------------------------------------------------
(***************************************************************************)
(* Creation: by a manager, or by a control (cotisations, absences, tenue). *)
(***************************************************************************)

\* create_convocation: the account exists and is a SERVANT.
BeginCreate(p, s, m, by) ==
    Begin(p, [NoRequest EXCEPT !.op = "create", !.servant = s, !.motif = m,
                               !.by = by], "insert")

\* create_if_not_pending, called by a control.
BeginConvene(p, s, m, by) ==
    Begin(p, [NoRequest EXCEPT !.op = "convene", !.servant = s, !.motif = m,
                               !.by = by], "lookup")

\* Mutation: the pending convocations are not looked up.
LookupPendingNever(p) ==
    /\ pc[p] = "lookup"
    /\ Goto(p, "insert")
    /\ UNCHANGED <<tables, req, aborts, overlapped>>

LookupPending(p) ==
    /\ pc[p] = "lookup"
    /\ IF Pending(req[p].servant, req[p].motif) # {}
       THEN Return(p)
       ELSE Goto(p, "insert") /\ UNCHANGED req
    /\ UNCHANGED <<tables, aborts, overlapped>>

Insert(p) ==
    /\ pc[p] = "insert"
    /\ req[p].by \in Accounts
    /\ \E c \in Rows :
         /\ convocations[c].status = "UNUSED"
         /\ convocations' = [convocations EXCEPT ![c] =
                [servant |-> req[p].servant, motif |-> req[p].motif,
                 status |-> "EN_ATTENTE", convenedBy |-> req[p].by,
                 honoredBy |-> None]]
    /\ Return(p)
    /\ UNCHANGED <<overdue, active, aborts, overlapped>>

\* The foreign key of convened_by refuses the row, and the control that
\* convenes swallows the error.
InsertRefused(p) ==
    /\ pc[p] = "insert"
    /\ req[p].by \notin Accounts
    /\ Return(p)
    /\ UNCHANGED <<tables, aborts, overlapped>>

-----------------------------------------------------------------------------
(***************************************************************************)
(* A parent presents himself.                                              *)
(***************************************************************************)

BeginHonor(p, c, by) ==
    /\ convocations[c].status = "EN_ATTENTE"
    /\ Begin(p, [NoRequest EXCEPT !.op = "honor", !.row = c, !.by = by],
             "loaded")

\* Mutation: who received the parent is not written.
CommitHonorUnsigned(p) ==
    /\ pc[p] = "loaded"
    /\ convocations' = [convocations EXCEPT ![req[p].row].status = "HONOREE"]
    /\ Return(p)
    /\ UNCHANGED <<overdue, active, aborts, overlapped>>

CommitHonor(p) ==
    /\ pc[p] = "loaded"
    /\ convocations' = [convocations EXCEPT
           ![req[p].row].status = "HONOREE",
           ![req[p].row].honoredBy = req[p].by]
    /\ Return(p)
    /\ UNCHANGED <<overdue, active, aborts, overlapped>>

-----------------------------------------------------------------------------
(***************************************************************************)
(* The daily task: every expired convocation is two commits, the status    *)
(* and then the account of the servant.                                    *)
(***************************************************************************)
\* Mutation: the deadline is not compared.
ExpiredEarly == {c \in Rows : convocations[c].status = "EN_ATTENTE"}

Expired == {c \in overdue : convocations[c].status = "EN_ATTENTE"}

BeginExpire(p) ==
    /\ Expired # {}
    /\ Begin(p, [NoRequest EXCEPT !.op = "expire", !.rows = Expired],
             "expiring")

\* The status that was read was EN_ATTENTE: the UPDATE writes the new one over
\* whatever the row holds by now.
CommitExpire(p) ==
    /\ pc[p] = "expiring"
    /\ \E c \in req[p].rows :
         /\ convocations' = [convocations EXCEPT ![c].status = "SANS_REPONSE"]
         /\ req' = [req EXCEPT ![p].rows = @ \ {c}, ![p].row = c]
    /\ Goto(p, "suspending")
    /\ UNCHANGED <<overdue, active, aborts, overlapped>>

\* Mutation: the account is not touched.
SuspendNobody(p) ==
    /\ pc[p] = "suspending"
    /\ IF req[p].rows = {}
       THEN Return(p)
       ELSE Goto(p, "expiring") /\ UNCHANGED req
    /\ UNCHANGED <<tables, aborts, overlapped>>

Suspend(p) ==
    /\ pc[p] = "suspending"
    /\ active' = active \ {convocations[req[p].row].servant}
    /\ IF req[p].rows = {}
       THEN Return(p)
       ELSE Goto(p, "expiring") /\ UNCHANGED req
    /\ UNCHANGED <<convocations, overdue, aborts, overlapped>>

-----------------------------------------------------------------------------
(***************************************************************************)
(* What happens around it.                                                 *)
(***************************************************************************)

\* The thirty days of a convocation have passed.
DeadlinePasses(c) ==
    /\ convocations[c].status # "UNUSED" /\ c \notin overdue
    /\ overdue' = overdue \cup {c}
    /\ UNCHANGED <<convocations, active, pc, req, aborts, overlapped>>

\* An administrator reactivates an account.
Reactivate(s) ==
    /\ s \notin active
    /\ active' = active \cup {s}
    /\ UNCHANGED <<convocations, overdue, pc, req, aborts, overlapped>>

\* A database error or a restart ends a process; what it has committed stays.
Abort(p) ==
    /\ pc[p] # "idle"
    /\ aborts < MaxAborts
    /\ aborts' = aborts + 1
    /\ Return(p)
    /\ UNCHANGED <<tables, overlapped>>

-----------------------------------------------------------------------------
Init ==
    /\ convocations = [c \in Rows |->
           [servant |-> None, motif |-> None, status |-> "UNUSED",
            convenedBy |-> None, honoredBy |-> None]]
    /\ overdue = {}
    /\ active = Servants
    /\ pc = [p \in Procs |-> "idle"]
    /\ req = [p \in Procs |-> NoRequest]
    /\ aborts = 0
    /\ overlapped = FALSE

Arrive(w) ==
    \/ \E s \in Servants, m \in Motifs :
         \/ \E by \in Managers : BeginCreate(w, s, m, by)
         \/ \E by \in Managers \cup {SystemId} : BeginConvene(w, s, m, by)
    \/ \E c \in Rows, by \in Managers : BeginHonor(w, c, by)

Serve(p) ==
    \/ LookupPending(p) \/ Insert(p) \/ InsertRefused(p)
    \/ CommitHonor(p)
    \/ CommitExpire(p) \/ Suspend(p)

Environment ==
    \/ \E c \in Rows : DeadlinePasses(c)
    \/ \E s \in Servants : Reactivate(s)
    \/ \E p \in Procs : Abort(p)

Next ==
    \/ Environment
    \/ \E w \in Workers : Arrive(w)
    \/ \E t \in Tasks : BeginExpire(t)
    \/ \E p \in Procs : Serve(p)

Spec == Init /\ [][Next]_vars

\* The task is scheduled every day and a process that runs goes on.
Fairness ==
    /\ \A t \in Tasks : WF_vars(BeginExpire(t))
    /\ \A p \in Procs : WF_vars(Serve(p))

FairSpec == Spec /\ Fairness

-----------------------------------------------------------------------------
(***************************************************************************)
(* Properties that every interleaving keeps.                               *)
(***************************************************************************)

\* Every table, every request and every program counter holds values of its
\* type.
TypeOK ==
    /\ convocations \in [Rows -> Convocation]
    /\ overdue \in SUBSET Rows
    /\ active \in SUBSET Servants
    /\ pc \in [Procs -> Places]
    /\ req \in [Procs -> Request]
    /\ aborts \in 0..MaxAborts
    /\ overlapped \in BOOLEAN

\* "Apres un mois sans reponse, le servant est suspendu": a convocation that is
\* overdue ends honored, or its servant is suspended, unless a process died.
UnansweredIsSuspended ==
    \A c \in Rows, s \in Servants :
        (/\ c \in overdue
         /\ convocations[c].status = "EN_ATTENTE"
         /\ convocations[c].servant = s)
        ~> (\/ s \notin active
            \/ convocations[c].status = "HONOREE"
            \/ aborts > 0)

-----------------------------------------------------------------------------
(***************************************************************************)
(* What else holds all along, on which the proofs rest.                    *)
(***************************************************************************)

\* What a process has at hand at each of its places.
HasWork ==
    \A p \in Procs :
        /\ pc[p] \in {"lookup", "insert"} =>
               /\ req[p].servant \in Servants /\ req[p].motif \in Motifs
               /\ req[p].by \in Managers \cup {SystemId}
        /\ pc[p] = "loaded" => req[p].row \in Rows /\ req[p].by \in Managers
        /\ pc[p] = "suspending" => req[p].row \in Rows

TypeInv == TypeOK /\ HasWork

\* The task works on overdue rows only, and a row stays overdue.
WorksOnOverdue ==
    \A p \in Procs :
        /\ pc[p] = "expiring" => req[p].rows \subseteq overdue
        /\ pc[p] = "suspending" =>
               req[p].row \in overdue /\ req[p].rows \subseteq overdue

\* Only one process is at work.
OneBusy == \A p, q \in Procs : pc[p] # "idle" /\ pc[q] # "idle" => p = q

\* A row nobody has answered.
Open(c) == convocations[c].status = "EN_ATTENTE"

RowsHeard ==
    /\ \A c \in Rows : ~Unheard(c)
    /\ \A c \in Rows : Open(c) => convocations[c].honoredBy = None

\* What was read is still true at the commit.
StillTrue ==
    \A p \in Procs :
        /\ pc[p] = "loaded" => Open(req[p].row)
        /\ pc[p] \in {"expiring", "suspending"} =>
               \A c \in req[p].rows : Open(c)
        /\ pc[p] = "insert" /\ req[p].op = "convene" =>
               Pending(req[p].servant, req[p].motif) = {}

AloneInv == ~overlapped => OneBusy /\ RowsHeard /\ StillTrue

\* A control that convenes is looking for a pending row, or inserting one.
ConvenePlaces ==
    \A p \in Procs : req[p].op = "convene" => pc[p] \in {"lookup", "insert"}
=============================================================================
