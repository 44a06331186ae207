----------------------------- MODULE Nominations -----------------------------
(***************************************************************************)
(* Nominations to the postes of responsable, the attendance at the council *)
(* meetings, and the destitution of a responsable who stays away.          *)
(*                                                                         *)
(* A worker is one request in flight; the others run between any two of    *)
(* its database calls.  Nothing in the database makes a nomination unique. *)
(***************************************************************************)
EXTENDS Naturals, FiniteSets, Sequences, TLC

CONSTANTS
    Workers,        \* requests that can be in flight at the same time
    Users,          \* accounts with the role SERVANT
    Postes,         \* PosteResponsable
    Rows,           \* bound: identifiers for rows of the table nominations
    Aumoniers,      \* accounts that may nominate and revoke
    Meetings,       \* identifiers of council meetings
    SystemId,       \* the id that an automatic destitution signs with
    Accounts,       \* the ids in the table users
    None,           \* no value
    MaxAttendances, \* bound: rows of council_attendances
    MaxBatch,       \* bound: entries of one attendance sheet
    MaxAborts       \* bound: requests that die half way

ASSUME NominationsAssumption ==
    /\ IsFiniteSet(Workers) /\ IsFiniteSet(Rows)
    /\ Aumoniers \subseteq Accounts /\ None \notin Accounts \cup {SystemId}
    /\ SystemId \notin Aumoniers
    /\ MaxAttendances \in Nat /\ MaxBatch \in Nat /\ MaxAborts \in Nat

\* A row of nominations; "UNUSED" is an identifier no row has yet.
NominationRow == [user      : Users \cup {None},
                  poste     : Postes \cup {None},
                  status    : {"UNUSED", "ACTIVE", "REVOQUEE"},
                  revokedBy : Aumoniers \cup {SystemId, None}]

\* A row of council_attendances.
Attendance == [user : Users, meeting : Meetings, absent : BOOLEAN]
Entry      == [user : Users, absent : BOOLEAN]

VARIABLES
    nominations,    \* table nominations
    enabled,        \* accounts with is_active
    meetings,       \* table council_meetings
    attendances,    \* table council_attendances, in the order of recorded_at
    pc,             \* where each worker is
    req,            \* the request each worker serves and what it has read
    aborts,         \* requests that died so far
    overlapped      \* history: two requests were in flight at the same time

vars == <<nominations, enabled, meetings, attendances, pc, req, aborts,
          overlapped>>
tables == <<nominations, enabled, meetings, attendances>>

-----------------------------------------------------------------------------
Ops    == {"none", "nominate", "revoke", "record", "monitor"}
Places == {"idle", "eligible", "poste_free", "servant_free", "loaded",
           "recording", "absent", "destituting"}

Request == [op      : Ops,
            user    : Users \cup {None},
            poste   : Postes \cup {None},
            by      : Aumoniers \cup {None},
            row     : Rows \cup {None},
            meeting : Meetings \cup {None},
            entries : Seq(Entry),       \* the attendances still to record
            rows    : SUBSET Rows]      \* the nominations still to revoke

NoRequest == [op |-> "none", user |-> None, poste |-> None, by |-> None,
              row |-> None, meeting |-> None, entries |-> <<>>, rows |-> {}]

At(w, op, place) == pc[w] = place /\ req[w].op = op
Goto(w, place)   == pc' = [pc EXCEPT ![w] = place]
Begin(w, request, place) ==
    /\ pc[w] = "idle"
    /\ req' = [req EXCEPT ![w] = request]
    /\ Goto(w, place)
    /\ overlapped' = (overlapped \/ \E v \in Workers : pc[v] # "idle")
    /\ UNCHANGED <<tables, aborts>>

\* The handler returns or raises: its session and what it had read are gone.
Return(w) == /\ Goto(w, "idle")
             /\ req' = [req EXCEPT ![w] = NoRequest]

ActiveByPoste(p) ==
    {n \in Rows : nominations[n].status = "ACTIVE" /\ nominations[n].poste = p}
ActiveByUser(u) ==
    {n \in Rows : nominations[n].status = "ACTIVE" /\ nominations[n].user = u}

-----------------------------------------------------------------------------
(***************************************************************************)
(* Nominate: three reads, then the INSERT.                                 *)
(***************************************************************************)

\* The account exists, is active and is a SERVANT.
BeginNominate(w, u, p) ==
    /\ u \in enabled
    /\ Begin(w, [NoRequest EXCEPT !.op = "nominate", !.user = u, !.poste = p],
             "eligible")

\* Mutation: the poste is not looked up.
CheckPosteSkipped(w) ==
    /\ At(w, "nominate", "eligible")
    /\ Goto(w, "poste_free")
    /\ UNCHANGED <<tables, req, aborts, overlapped>>

\* Nobody holds the poste; a 409 otherwise.
CheckPoste(w) ==
    /\ At(w, "nominate", "eligible")
    /\ IF ActiveByPoste(req[w].poste) = {}
       THEN Goto(w, "poste_free") /\ UNCHANGED req
       ELSE Return(w)
    /\ UNCHANGED <<tables, aborts, overlapped>>

\* Mutation: only a servant who already holds this very poste is refused.
CheckServantSamePoste(w) ==
    LET r == req[w] IN
    /\ At(w, "nominate", "poste_free")
    /\ IF ActiveByUser(r.user) \cap ActiveByPoste(r.poste) = {}
       THEN Goto(w, "servant_free") /\ UNCHANGED req
       ELSE Return(w)
    /\ UNCHANGED <<tables, aborts, overlapped>>

\* The servant holds no poste; a 409 otherwise.
CheckServant(w) ==
    /\ At(w, "nominate", "poste_free")
    /\ IF ActiveByUser(req[w].user) = {}
       THEN Goto(w, "servant_free") /\ UNCHANGED req
       ELSE Return(w)
    /\ UNCHANGED <<tables, aborts, overlapped>>

CommitNominate(w) ==
    /\ At(w, "nominate", "servant_free")
    /\ \E n \in Rows :
         /\ nominations[n].status = "UNUSED"
         /\ nominations' = [nominations EXCEPT ![n] =
                [user |-> req[w].user, poste |-> req[w].poste,
                 status |-> "ACTIVE", revokedBy |-> None]]
    /\ Return(w)
    /\ UNCHANGED <<enabled, meetings, attendances, aborts, overlapped>>

-----------------------------------------------------------------------------
(***************************************************************************)
(* Revoke.                                                                 *)
(***************************************************************************)

\* The columns a revocation writes over the row that was read.
Revoked(row, by) == [row EXCEPT !.status = "REVOQUEE", !.revokedBy = by]

\* Mutation: a revoked nomination may be revoked again.
BeginRevokeAgain(w, n, by) ==
    /\ nominations[n].status # "UNUSED"
    /\ Begin(w, [NoRequest EXCEPT !.op = "revoke", !.row = n, !.by = by],
             "loaded")

BeginRevoke(w, n, by) ==
    /\ nominations[n].status = "ACTIVE"
    /\ Begin(w, [NoRequest EXCEPT !.op = "revoke", !.row = n, !.by = by],
             "loaded")

CommitRevoke(w) ==
    /\ At(w, "revoke", "loaded")
    /\ nominations' = [nominations EXCEPT ![req[w].row] =
                           Revoked(@, req[w].by)]
    /\ Return(w)
    /\ UNCHANGED <<enabled, meetings, attendances, aborts, overlapped>>

-----------------------------------------------------------------------------
(***************************************************************************)
(* The council: meetings, attendance sheets and the control of attendance. *)
(***************************************************************************)

CreateMeeting(m) ==
    /\ m \notin meetings
    /\ meetings' = meetings \cup {m}
    /\ UNCHANGED <<nominations, enabled, attendances, pc, req, aborts, overlapped>>

BeginRecord(w, m, entries) ==
    /\ m \in meetings
    /\ Begin(w, [NoRequest EXCEPT !.op = "record", !.meeting = m,
                                  !.entries = entries], "recording")

\* Each entry of the sheet is a commit of its own; the last one answers.
RecordAttendance(w) ==
    LET r == req[w]  e == Head(r.entries) IN
    /\ At(w, "record", "recording")
    /\ Len(attendances) < MaxAttendances
    /\ attendances' = Append(attendances, [user |-> e.user,
                                 meeting |-> r.meeting, absent |-> e.absent])
    /\ IF Len(r.entries) = 1
       THEN Return(w)
       ELSE /\ req' = [req EXCEPT ![w].entries = Tail(@)]
            /\ UNCHANGED pc
    /\ UNCHANGED <<nominations, enabled, meetings, aborts, overlapped>>

\* get_responsable_attendances(limit = 3): the rows of u, the last recorded.
Positions(u)  == {i \in 1..Len(attendances) : attendances[i].user = u}
LastThree(u)  == {i \in Positions(u) :
                      Cardinality({j \in Positions(u) : j > i}) < 3}

\* Mutation: "not enough data" is not looked at.
StayedAwayUnguarded(u) == \A i \in LastThree(u) : attendances[i].absent

StayedAway(u) == /\ Cardinality(LastThree(u)) = 3
                 /\ \A i \in LastThree(u) : attendances[i].absent

\* The control goes on only when the last three attendances are absences.
BeginMonitor(w, u) ==
    /\ StayedAway(u)
    /\ Begin(w, [NoRequest EXCEPT !.op = "monitor", !.user = u], "absent")

ReadNominations(w) ==
    /\ At(w, "monitor", "absent")
    /\ IF ActiveByUser(req[w].user) = {}
       THEN Return(w)
       ELSE /\ req' = [req EXCEPT ![w].rows = ActiveByUser(req[w].user)]
            /\ Goto(w, "destituting")
    /\ UNCHANGED <<tables, aborts, overlapped>>

\* One commit per nomination, signed with an id that must be in users; the
\* foreign key of revoked_by refuses the UPDATE otherwise.
Destitute(w) ==
    /\ At(w, "monitor", "destituting")
    /\ IF SystemId \in Accounts
       THEN \E n \in req[w].rows :
              /\ nominations' = [nominations EXCEPT ![n] = Revoked(@, SystemId)]
              /\ IF req[w].rows = {n}
                 THEN Return(w)
                 ELSE req' = [req EXCEPT ![w].rows = @ \ {n}] /\ UNCHANGED pc
       ELSE Return(w) /\ UNCHANGED nominations
    /\ UNCHANGED <<enabled, meetings, attendances, aborts, overlapped>>

-----------------------------------------------------------------------------
(***************************************************************************)
(* What other parts of the system do to this state.                        *)
(***************************************************************************)

\* An administrator deactivates or reactivates an account.
SwitchAccount(u) ==
    /\ enabled' = IF u \in enabled THEN enabled \ {u} ELSE enabled \cup {u}
    /\ UNCHANGED <<nominations, meetings, attendances, pc, req, aborts, overlapped>>

\* A database error or a restart ends a request; what it has committed stays.
Abort(w) ==
    /\ pc[w] # "idle"
    /\ aborts < MaxAborts
    /\ aborts' = aborts + 1
    /\ Return(w)
    /\ UNCHANGED <<tables, overlapped>>

-----------------------------------------------------------------------------
Init ==
    /\ nominations = [n \in Rows |-> [user |-> None, poste |-> None,
                                      status |-> "UNUSED", revokedBy |-> None]]
    /\ enabled = Users
    /\ meetings = {}
    /\ attendances = <<>>
    /\ pc = [w \in Workers |-> "idle"]
    /\ req = [w \in Workers |-> NoRequest]
    /\ aborts = 0
    /\ overlapped = FALSE

Sheets == UNION {[1..k -> Entry] : k \in 1..MaxBatch}

Arrive(w) ==
    \/ \E u \in Users, p \in Postes : BeginNominate(w, u, p)
    \/ \E n \in Rows, by \in Aumoniers : BeginRevoke(w, n, by)
    \/ \E m \in Meetings, entries \in Sheets : BeginRecord(w, m, entries)
    \/ \E u \in Users : BeginMonitor(w, u)

Serve(w) ==
    \/ CheckPoste(w) \/ CheckServant(w) \/ CommitNominate(w)
    \/ CommitRevoke(w)
    \/ RecordAttendance(w)
    \/ ReadNominations(w) \/ Destitute(w)

Environment ==
    \/ \E m \in Meetings : CreateMeeting(m)
    \/ \E u \in Users : SwitchAccount(u)
    \/ \E w \in Workers : Abort(w)

Next == Environment \/ \E w \in Workers : Arrive(w) \/ Serve(w)

Spec == Init /\ [][Next]_vars

-----------------------------------------------------------------------------
(***************************************************************************)
(* Properties that every interleaving of requests keeps.                   *)
(***************************************************************************)

\* Every table, every request and every program counter holds values of its
\* type.
TypeOK ==
    /\ nominations \in [Rows -> NominationRow]
    /\ enabled \in SUBSET Users
    /\ meetings \in SUBSET Meetings
    /\ attendances \in Seq(Attendance)
    /\ pc \in [Workers -> Places]
    /\ req \in [Workers -> Request]
    /\ aborts \in 0..MaxAborts
    /\ overlapped \in BOOLEAN

\* The requests that found poste p free, and those that found servant u free:
\* they will insert their row whatever happens meanwhile.
FoundPosteFree(p) ==
    {w \in Workers : /\ pc[w] \in {"poste_free", "servant_free"}
                     /\ req[w].poste = p}
FoundServantFree(u) ==
    {w \in Workers : pc[w] = "servant_free" /\ req[w].user = u}

\* The checks of nominate are not atomic with its INSERT, but they limit what a
\* race can do: the nominations in force and about to be, of one poste or of
\* one servant, are never more than the requests that can overlap.
HoldersBounded ==
    /\ \A p \in Postes : Cardinality(ActiveByPoste(p))
                          + Cardinality(FoundPosteFree(p)) <= Cardinality(Workers)
    /\ \A u \in Users : Cardinality(ActiveByUser(u))
                         + Cardinality(FoundServantFree(u)) <= Cardinality(Workers)

\* The nominations in force behave as the register of who holds which poste:
\* one holder per poste and one poste per servant until requests overlap, one
\* change at a time even then.
Held == {<<nominations[n].user, nominations[n].poste>> :
            n \in {m \in Rows : nominations[m].status = "ACTIVE"}}

Registry == INSTANCE PosteRegistry WITH held <- Held, raced <- overlapped

ImplementsRegistry == Registry!Spec

-----------------------------------------------------------------------------
(***************************************************************************)
(* Properties of requests that have not overlapped.                        *)
(***************************************************************************)

\* "Cette nomination est deja revoquee": who ended a nomination never changes.
RevocationIsFinal ==
    [][\A n \in Rows : nominations[n].status = "REVOQUEE" =>
           nominations'[n] = nominations[n] \/ overlapped]_vars

\* The last three rows of the attendances of u are absences.
MissedLastThree(u) ==
    \E i, j, k \in 1..Len(attendances) :
        /\ i < j /\ j < k
        /\ {m \in i..Len(attendances) : attendances[m].user = u} = {i, j, k}
        /\ \A m \in {i, j, k} : attendances[m].absent
Destituted(n) == /\ nominations'[n].revokedBy = SystemId
                 /\ nominations[n].revokedBy # SystemId

\* Only a responsable whose last three recorded attendances are absences loses
\* a poste to the control of attendance.
DestitutionIsDeserved ==
    [][\A n \in Rows : Destituted(n) /\ ~overlapped =>
           MissedLastThree(nominations[n].user)]_vars

-----------------------------------------------------------------------------
(***************************************************************************)
(* What the documentation says and the code does not do.                   *)
(***************************************************************************)

\* "Si 3 absences consecutives -> Destitution": a control that has seen the
\* three absences and has not died answers when no poste is left.
DestitutionCompletes ==
    [][\A w \in Workers :
           /\ pc[w] \in {"absent", "destituting"} /\ pc'[w] = "idle"
           /\ aborts' = aborts
           => \A n \in Rows : nominations'[n].user = req[w].user =>
                                  nominations'[n].status # "ACTIVE"]_vars

-----------------------------------------------------------------------------
\* Requests, servants, postes and row identifiers are interchangeable (for TLC).
Symmetry == Permutations(Workers) \cup Permutations(Users)
            \cup Permutations(Postes) \cup Permutations(Rows)
=============================================================================
