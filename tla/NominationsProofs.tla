-------------------------- MODULE NominationsProofs --------------------------
(***************************************************************************)
(* Proofs about Nominations, for any number of requests, servants, postes  *)
(* and rows.                                                               *)
(***************************************************************************)
EXTENDS Nominations, FiniteSetTheorems, SequenceTheorems, TLAPS

(***************************************************************************)
(* Types.                                                                  *)
(***************************************************************************)

\* A request that is recording a sheet has an entry left.
HasEntry ==
    \A w \in Workers : pc[w] = "recording" =>
        req[w].entries # <<>> /\ req[w].meeting \in Meetings

TypeInv == TypeOK /\ HasEntry

LEMMA NoRequestType == NoRequest \in Request
BY DEF NoRequest, Request, Ops

LEMMA RowType ==
  ASSUME NEW row \in NominationRow, NEW by \in Aumoniers \cup {SystemId, None}
  PROVE  Revoked(row, by) \in NominationRow
BY DEF Revoked, NominationRow

\* A sheet is a non-empty sequence of entries.
LEMMA SheetType ==
  ASSUME NEW s \in Sheets
  PROVE  s \in Seq(Entry) /\ s # <<>>
<1>1. PICK k \in 1..MaxBatch : s \in [1..k -> Entry]
  BY DEF Sheets
<1>2. k \in Nat /\ k >= 1
  BY NominationsAssumption
<1>3. s \in Seq(Entry)
  BY <1>1, <1>2, SeqDef
<1>4. DOMAIN s = 1..k /\ 1 \in 1..k
  BY <1>1, <1>2
<1>5. DOMAIN <<>> = {}
  BY EmptySeq, LenProperties
<1>. QED
  BY <1>3, <1>4, <1>5

LEMMA ReturnType ==
  ASSUME TypeInv, NEW w \in Workers, Return(w)
  PROVE  /\ pc' \in [Workers -> Places] /\ req' \in [Workers -> Request]
         /\ HasEntry'
BY NoRequestType DEF TypeInv, TypeOK, HasEntry, Return, Goto, Places

LEMMA GotoType ==
  ASSUME TypeInv, NEW w \in Workers, NEW place \in Places \ {"recording"},
         Goto(w, place), UNCHANGED req
  PROVE  /\ pc' \in [Workers -> Places] /\ req' \in [Workers -> Request]
         /\ HasEntry'
BY DEF TypeInv, TypeOK, HasEntry, Goto

LEMMA BeginType ==
  ASSUME TypeInv, NEW w \in Workers, NEW place \in Places,
         NEW r \in Request, Begin(w, r, place),
         place = "recording" => r.entries # <<>> /\ r.meeting \in Meetings
  PROVE  TypeInv'
<1>1. overlapped' \in BOOLEAN
  BY DEF Begin, TypeInv, TypeOK
<1>2. UNCHANGED <<nominations, enabled, meetings, attendances, aborts>>
  BY DEF Begin, tables
<1>. QED
  BY <1>1, <1>2 DEF TypeInv, TypeOK, HasEntry, Begin, Goto

LEMMA ArriveType ==
  ASSUME TypeInv, NEW w \in Workers, Arrive(w)
  PROVE  TypeInv'
<1>1. ASSUME NEW u \in Users, NEW p \in Postes, BeginNominate(w, u, p)
      PROVE  TypeInv'
  <2>1. [NoRequest EXCEPT !.op = "nominate", !.user = u, !.poste = p]
            \in Request
    BY NoRequestType DEF Request, Ops
  <2>. QED
    BY <1>1, <2>1, BeginType DEF BeginNominate, TypeInv, TypeOK, Places
<1>2. ASSUME NEW n \in Rows, NEW by \in Aumoniers, BeginRevoke(w, n, by)
      PROVE  TypeInv'
  <2>1. [NoRequest EXCEPT !.op = "revoke", !.row = n, !.by = by] \in Request
    BY NoRequestType DEF Request, Ops
  <2>. QED
    BY <1>2, <2>1, BeginType DEF BeginRevoke, TypeInv, TypeOK, Places
<1>3. ASSUME NEW m \in Meetings, NEW s \in Sheets, BeginRecord(w, m, s)
      PROVE  TypeInv'
  <2>1. s \in Seq(Entry) /\ s # <<>>
    BY SheetType
  <2>2. /\ [NoRequest EXCEPT !.op = "record", !.meeting = m, !.entries = s]
               \in Request
        /\ [NoRequest EXCEPT !.op = "record", !.meeting = m,
                             !.entries = s].entries = s
        /\ [NoRequest EXCEPT !.op = "record", !.meeting = m,
                             !.entries = s].meeting = m
    BY <2>1, NoRequestType DEF Request, Ops, NoRequest
  <2>. QED
    BY <1>3, <2>1, <2>2, BeginType DEF BeginRecord, TypeInv, TypeOK, Places
<1>4. ASSUME NEW u \in Users, BeginMonitor(w, u)
      PROVE  TypeInv'
  <2>1. [NoRequest EXCEPT !.op = "monitor", !.user = u] \in Request
    BY NoRequestType DEF Request, Ops
  <2>. QED
    BY <1>4, <2>1, BeginType DEF BeginMonitor, TypeInv, TypeOK, Places
<1>. QED
  BY <1>1, <1>2, <1>3, <1>4 DEF Arrive

LEMMA ServeType ==
  ASSUME TypeInv, NEW w \in Workers, Serve(w)
  PROVE  TypeInv'
<1>0. req[w] \in Request /\ req[w].rows \in SUBSET Rows
  BY DEF TypeInv, TypeOK, Request
<1>1. CASE CheckPoste(w)
  BY <1>1, ReturnType, GotoType DEF CheckPoste, tables, TypeInv, TypeOK, Places
<1>2. CASE CheckServant(w)
  BY <1>2, ReturnType, GotoType DEF CheckServant, tables, TypeInv, TypeOK, Places
<1>3. CASE CommitNominate(w)
  <2>1. nominations' \in [Rows -> NominationRow]
    BY <1>0, <1>3 DEF CommitNominate, TypeInv, TypeOK, Request, NominationRow
  <2>. QED
    BY <1>3, <2>1, ReturnType DEF CommitNominate, TypeInv, TypeOK
<1>4. CASE CommitRevoke(w)
  <2>1. req[w].by \in Aumoniers \cup {SystemId, None}
    BY <1>0 DEF Request
  <2>2. nominations' \in [Rows -> NominationRow]
    BY <1>4, <2>1, RowType DEF CommitRevoke, TypeInv, TypeOK
  <2>. QED
    BY <1>4, <2>2, ReturnType DEF CommitRevoke, TypeInv, TypeOK
<1>5. CASE RecordAttendance(w)
  <2>1. /\ req[w].entries \in Seq(Entry) /\ req[w].entries # <<>>
        /\ req[w].meeting \in Meetings
    BY <1>0, <1>5 DEF Request, RecordAttendance, At, TypeInv, HasEntry
  <2>2. /\ Head(req[w].entries) \in Entry
        /\ Tail(req[w].entries) \in Seq(Entry)
        /\ Len(req[w].entries) \in Nat \ {0}
        /\ Len(Tail(req[w].entries)) = Len(req[w].entries) - 1
    BY <2>1, HeadTailProperties, EmptySeq
  <2>3. attendances' \in Seq(Attendance)
    <3>1. [user |-> Head(req[w].entries).user, meeting |-> req[w].meeting,
           absent |-> Head(req[w].entries).absent] \in Attendance
      BY <2>1, <2>2 DEF Attendance, Entry
    <3>. QED
      BY <1>5, <3>1, AppendProperties DEF RecordAttendance, TypeInv, TypeOK
  <2>4. CASE Len(req[w].entries) = 1
    BY <1>5, <2>3, <2>4, ReturnType DEF RecordAttendance, TypeInv, TypeOK
  <2>5. CASE Len(req[w].entries) # 1
    <3>1. Tail(req[w].entries) # <<>>
      <4>1. Len(Tail(req[w].entries)) # 0
        BY <2>2, <2>5
      <4>2. Len(<<>>) = 0
        BY EmptySeq
      <4>. QED
        BY <4>1, <4>2
    <3>2. req' = [req EXCEPT ![w].entries = Tail(@)] /\ UNCHANGED pc
      BY <1>5, <2>5 DEF RecordAttendance
    <3>3. req' \in [Workers -> Request]
      BY <1>0, <2>2, <3>2 DEF TypeInv, TypeOK, Request
    <3>4. HasEntry'
      BY <1>0, <2>1, <3>1, <3>2 DEF TypeInv, TypeOK, HasEntry, Request
    <3>. QED
      BY <1>5, <2>3, <3>2, <3>3, <3>4 DEF RecordAttendance, TypeInv, TypeOK
  <2>. QED
    BY <2>4, <2>5
<1>6. CASE ReadNominations(w)
  <2>1. ActiveByUser(req[w].user) \in SUBSET Rows
    BY DEF ActiveByUser
  <2>2. CASE Return(w)
    BY <1>6, <2>2, ReturnType DEF ReadNominations, tables, TypeInv, TypeOK
  <2>3. CASE /\ req' = [req EXCEPT ![w].rows = ActiveByUser(req[w].user)]
             /\ Goto(w, "destituting")
    BY <1>0, <1>6, <2>1, <2>3
       DEF ReadNominations, tables, TypeInv, TypeOK, HasEntry, Goto, Request, Places
  <2>. QED
    BY <1>6, <2>2, <2>3 DEF ReadNominations
<1>7. CASE Destitute(w) /\ SystemId \notin Accounts
  BY <1>7, ReturnType DEF Destitute, TypeInv, TypeOK
<1>8. CASE Destitute(w) /\ SystemId \in Accounts
  <2>1. PICK n \in req[w].rows :
           /\ nominations' = [nominations EXCEPT ![n] = Revoked(@, SystemId)]
           /\ IF req[w].rows = {n}
              THEN Return(w)
              ELSE req' = [req EXCEPT ![w].rows = @ \ {n}] /\ UNCHANGED pc
    BY <1>8 DEF Destitute
  <2>2. nominations' \in [Rows -> NominationRow]
    BY <1>0, <2>1, RowType DEF TypeInv, TypeOK
  <2>3. CASE Return(w)
    BY <1>8, <2>2, <2>3, ReturnType DEF Destitute, TypeInv, TypeOK
  <2>4. CASE req' = [req EXCEPT ![w].rows = @ \ {n}] /\ UNCHANGED pc
    BY <1>0, <1>8, <2>2, <2>4
       DEF Destitute, TypeInv, TypeOK, HasEntry, Request
  <2>. QED
    BY <2>1, <2>3, <2>4
<1>. QED
  BY <1>1, <1>2, <1>3, <1>4, <1>5, <1>6, <1>7, <1>8 DEF Serve

LEMMA EnvironmentType ==
  ASSUME TypeInv, Environment
  PROVE  TypeInv'
<1>1. ASSUME NEW m \in Meetings, CreateMeeting(m) PROVE TypeInv'
  BY <1>1 DEF CreateMeeting, TypeInv, TypeOK, HasEntry
<1>2. ASSUME NEW u \in Users, SwitchAccount(u) PROVE TypeInv'
  BY <1>2 DEF SwitchAccount, TypeInv, TypeOK, HasEntry
<1>3. ASSUME NEW w \in Workers, Abort(w) PROVE TypeInv'
  <2>1. aborts' \in 0..MaxAborts
    BY <1>3, NominationsAssumption DEF Abort, TypeInv, TypeOK
  <2>. QED
    BY <1>3, <2>1, ReturnType DEF Abort, tables, TypeInv, TypeOK
<1>. QED
  BY <1>1, <1>2, <1>3 DEF Environment

LEMMA InitType == Init => TypeInv
<1>. SUFFICES ASSUME Init PROVE TypeInv
  OBVIOUS
<1>1. [user |-> None, poste |-> None, status |-> "UNUSED", revokedBy |-> None]
          \in NominationRow
  BY DEF NominationRow
<1>2. 0 \in 0..MaxAborts /\ <<>> \in Seq(Attendance)
  BY NominationsAssumption, EmptySeq
<1>3. overlapped \in BOOLEAN /\ aborts \in 0..MaxAborts
  BY <1>2 DEF Init
<1>. QED
  BY <1>1, <1>2, <1>3, NoRequestType
     DEF Init, TypeInv, TypeOK, HasEntry, Places

LEMMA NextType == TypeInv /\ [Next]_vars => TypeInv'
<1>. SUFFICES ASSUME TypeInv, [Next]_vars PROVE TypeInv'
  OBVIOUS
<1>1. CASE Next
  BY <1>1, ArriveType, ServeType, EnvironmentType DEF Next
<1>2. CASE UNCHANGED vars
  BY <1>2 DEF vars, TypeInv, TypeOK, HasEntry
<1>. QED
  BY <1>1, <1>2

LEMMA TypeInvariant == Spec => []TypeInv
BY InitType, NextType, PTL DEF Spec

\* The tables, the requests in flight and their program counters keep their
\* types, whatever nominate, revoke, record and monitor do at the same time.
THEOREM TypeCorrect == Spec => []TypeOK
BY TypeInvariant, PTL DEF TypeInv

(***************************************************************************)
(* What a race can do at most.                                             *)
(***************************************************************************)

\* The three ways a step changes such a count: both sets shrink,
LEMMA CountShrinks ==
  ASSUME NEW A \in SUBSET Rows, NEW P \in SUBSET Workers,
         NEW B \in SUBSET A, NEW Q \in SUBSET P,
         Cardinality(A) + Cardinality(P) <= Cardinality(Workers)
  PROVE  Cardinality(B) + Cardinality(Q) <= Cardinality(Workers)
<1>1. /\ IsFiniteSet(A) /\ IsFiniteSet(P) /\ IsFiniteSet(B) /\ IsFiniteSet(Q)
      /\ Cardinality(B) <= Cardinality(A) /\ Cardinality(Q) <= Cardinality(P)
  BY NominationsAssumption, FS_Subset
<1>. QED
  BY <1>1, NominationsAssumption, FS_CardinalityType

\* a request turns what it found free into a row,
LEMMA CountMoves ==
  ASSUME NEW A \in SUBSET Rows, NEW P \in SUBSET Workers,
         NEW n \in Rows, NEW w \in P,
         NEW B \in SUBSET (A \cup {n}), NEW Q \in SUBSET (P \ {w}),
         Cardinality(A) + Cardinality(P) <= Cardinality(Workers)
  PROVE  Cardinality(B) + Cardinality(Q) <= Cardinality(Workers)
<1>1. IsFiniteSet(A) /\ IsFiniteSet(P)
  BY NominationsAssumption, FS_Subset
<1>2. /\ IsFiniteSet(A \cup {n}) /\ Cardinality(A \cup {n}) <= Cardinality(A) + 1
      /\ IsFiniteSet(P \ {w}) /\ Cardinality(P \ {w}) = Cardinality(P) - 1
  <2>1. Cardinality(A) \in Nat /\ Cardinality(P) \in Nat
    BY <1>1, FS_CardinalityType
  <2>2. /\ IsFiniteSet(A \cup {n})
        /\ Cardinality(A \cup {n}) =
               IF n \in A THEN Cardinality(A) ELSE Cardinality(A) + 1
    BY <1>1, FS_AddElement
  <2>3. /\ IsFiniteSet(P \ {w})
        /\ Cardinality(P \ {w}) =
               IF w \in P THEN Cardinality(P) - 1 ELSE Cardinality(P)
    BY <1>1, FS_RemoveElement
  <2>. QED
    BY <2>1, <2>2, <2>3
<1>3. /\ IsFiniteSet(B) /\ Cardinality(B) <= Cardinality(A \cup {n})
      /\ IsFiniteSet(Q) /\ Cardinality(Q) <= Cardinality(P \ {w})
  BY <1>2, FS_Subset
<1>. QED
  BY <1>1, <1>2, <1>3, NominationsAssumption, FS_CardinalityType

\* or a request finds no row.
LEMMA CountStarts ==
  ASSUME NEW Q \in SUBSET Workers
  PROVE  Cardinality({}) + Cardinality(Q) <= Cardinality(Workers)
BY NominationsAssumption, FS_Subset, FS_EmptySet, FS_CardinalityType

LEMMA PosteKept ==
  ASSUME HoldersBounded, NEW p \in Postes,
         ActiveByPoste(p)' \subseteq ActiveByPoste(p),
         FoundPosteFree(p)' \subseteq FoundPosteFree(p)
  PROVE  Cardinality(ActiveByPoste(p)') + Cardinality(FoundPosteFree(p)')
             <= Cardinality(Workers)
<1>1. ActiveByPoste(p) \in SUBSET Rows /\ FoundPosteFree(p) \in SUBSET Workers
  BY DEF ActiveByPoste, FoundPosteFree
<1>2. Cardinality(ActiveByPoste(p)) + Cardinality(FoundPosteFree(p))
          <= Cardinality(Workers)
  BY DEF HoldersBounded
<1>. QED
  BY <1>1, <1>2, CountShrinks

LEMMA ServantKept ==
  ASSUME HoldersBounded, NEW u \in Users,
         ActiveByUser(u)' \subseteq ActiveByUser(u),
         FoundServantFree(u)' \subseteq FoundServantFree(u)
  PROVE  Cardinality(ActiveByUser(u)') + Cardinality(FoundServantFree(u)')
             <= Cardinality(Workers)
<1>1. ActiveByUser(u) \in SUBSET Rows /\ FoundServantFree(u) \in SUBSET Workers
  BY DEF ActiveByUser, FoundServantFree
<1>2. Cardinality(ActiveByUser(u)) + Cardinality(FoundServantFree(u))
          <= Cardinality(Workers)
  BY DEF HoldersBounded
<1>. QED
  BY <1>1, <1>2, CountShrinks

LEMMA CountStepShrinks ==
  ASSUME TypeInv, HoldersBounded,
         \A p \in Postes : /\ ActiveByPoste(p)' \subseteq ActiveByPoste(p)
                           /\ FoundPosteFree(p)' \subseteq FoundPosteFree(p),
         \A u \in Users : /\ ActiveByUser(u)' \subseteq ActiveByUser(u)
                          /\ FoundServantFree(u)' \subseteq FoundServantFree(u)
  PROVE  HoldersBounded'
BY PosteKept, ServantKept DEF HoldersBounded

\* A request that ends leaves the two sets of requests.
LEMMA ReturnFound ==
  ASSUME TypeInv, NEW w \in Workers, Return(w)
  PROVE  /\ \A p \in Postes : FoundPosteFree(p)' \subseteq FoundPosteFree(p) \ {w}
         /\ \A u \in Users : FoundServantFree(u)' \subseteq FoundServantFree(u) \ {w}
BY DEF TypeInv, TypeOK, Return, Goto, FoundPosteFree, FoundServantFree

\* A request that arrives is in neither.
LEMMA BeginFound ==
  ASSUME TypeInv, NEW w \in Workers, NEW r,
         NEW place \in Places \ {"poste_free", "servant_free"}, Begin(w, r, place)
  PROVE  /\ \A p \in Postes : FoundPosteFree(p)' \subseteq FoundPosteFree(p)
         /\ \A u \in Users : FoundServantFree(u)' \subseteq FoundServantFree(u)
         /\ UNCHANGED nominations
BY DEF TypeInv, TypeOK, Begin, tables, Goto, FoundPosteFree, FoundServantFree

\* A step that writes no nomination keeps the sets of rows.
LEMMA SameRows ==
  ASSUME UNCHANGED nominations
  PROVE  /\ \A p \in Postes : ActiveByPoste(p)' = ActiveByPoste(p)
         /\ \A u \in Users : ActiveByUser(u)' = ActiveByUser(u)
BY DEF ActiveByPoste, ActiveByUser

\* A revocation takes a row out of them.
LEMMA RevokedRows ==
  ASSUME TypeInv, NEW n, NEW by,
         nominations' = [nominations EXCEPT ![n] = Revoked(@, by)]
  PROVE  /\ \A p \in Postes : ActiveByPoste(p)' \subseteq ActiveByPoste(p)
         /\ \A u \in Users : ActiveByUser(u)' \subseteq ActiveByUser(u)
BY DEF TypeInv, TypeOK, NominationRow, Revoked, ActiveByPoste, ActiveByUser

LEMMA ArriveCount ==
  ASSUME TypeInv, HoldersBounded, NEW w \in Workers, Arrive(w)
  PROVE  HoldersBounded'
<1>. USE BeginFound, SameRows, CountStepShrinks DEF Places
<1>1. ASSUME NEW u \in Users, NEW p \in Postes, BeginNominate(w, u, p)
      PROVE  HoldersBounded'
  BY <1>1 DEF BeginNominate
<1>2. ASSUME NEW n \in Rows, NEW by \in Aumoniers, BeginRevoke(w, n, by)
      PROVE  HoldersBounded'
  BY <1>2 DEF BeginRevoke
<1>3. ASSUME NEW m \in Meetings, NEW s \in Sheets, BeginRecord(w, m, s)
      PROVE  HoldersBounded'
  BY <1>3 DEF BeginRecord
<1>4. ASSUME NEW u \in Users, BeginMonitor(w, u)
      PROVE  HoldersBounded'
  BY <1>4 DEF BeginMonitor
<1>. QED
  BY <1>1, <1>2, <1>3, <1>4 DEF Arrive

LEMMA CheckPosteCount ==
  ASSUME TypeInv, HoldersBounded, NEW w \in Workers, CheckPoste(w)
  PROVE  HoldersBounded'
<1>1. UNCHANGED nominations
  BY DEF CheckPoste, tables
<1>2. CASE Return(w)
  BY <1>1, <1>2, ReturnFound, SameRows, CountStepShrinks
<1>3. CASE /\ ActiveByPoste(req[w].poste) = {}
           /\ Goto(w, "poste_free") /\ UNCHANGED req
  <2>1. ASSUME NEW u \in Users
        PROVE  FoundServantFree(u)' \subseteq FoundServantFree(u)
    BY <1>3 DEF TypeInv, TypeOK, Goto, FoundServantFree
  <2>2. ASSUME NEW p \in Postes, p # req[w].poste
        PROVE  FoundPosteFree(p)' \subseteq FoundPosteFree(p)
    BY <1>3, <2>2 DEF TypeInv, TypeOK, Goto, FoundPosteFree
  <2>3. ASSUME NEW p \in Postes
        PROVE  Cardinality(ActiveByPoste(p)') + Cardinality(FoundPosteFree(p)')
                   <= Cardinality(Workers)
    <3>1. CASE p = req[w].poste
      <4>1. ActiveByPoste(p)' = {}
        BY <1>1, <1>3, <3>1, SameRows
      <4>2. FoundPosteFree(p)' \in SUBSET Workers
        BY DEF FoundPosteFree
      <4>. QED
        BY <4>1, <4>2, CountStarts
    <3>. QED
      BY <1>1, <2>2, <3>1, SameRows, PosteKept
  <2>. QED
    BY <1>1, <2>1, <2>3, SameRows, ServantKept
       DEF HoldersBounded
<1>. QED
  BY <1>2, <1>3 DEF CheckPoste

LEMMA CheckServantCount ==
  ASSUME TypeInv, HoldersBounded, NEW w \in Workers, CheckServant(w)
  PROVE  HoldersBounded'
<1>1. UNCHANGED nominations
  BY DEF CheckServant, tables
<1>2. CASE Return(w)
  BY <1>1, <1>2, ReturnFound, SameRows, CountStepShrinks
<1>3. CASE /\ ActiveByUser(req[w].user) = {}
           /\ Goto(w, "servant_free") /\ UNCHANGED req
  <2>1. ASSUME NEW p \in Postes
        PROVE  FoundPosteFree(p)' \subseteq FoundPosteFree(p)
    BY <1>3 DEF CheckServant, tables, At, TypeInv, TypeOK, Goto, FoundPosteFree
  <2>2. ASSUME NEW u \in Users, u # req[w].user
        PROVE  FoundServantFree(u)' \subseteq FoundServantFree(u)
    BY <1>3, <2>2 DEF TypeInv, TypeOK, Goto, FoundServantFree
  <2>3. ASSUME NEW u \in Users
        PROVE  Cardinality(ActiveByUser(u)') + Cardinality(FoundServantFree(u)')
                   <= Cardinality(Workers)
    <3>1. CASE u = req[w].user
      <4>1. ActiveByUser(u)' = {}
        BY <1>1, <1>3, <3>1, SameRows
      <4>2. FoundServantFree(u)' \in SUBSET Workers
        BY DEF FoundServantFree
      <4>. QED
        BY <4>1, <4>2, CountStarts
    <3>. QED
      BY <1>1, <2>2, <3>1, SameRows, ServantKept
  <2>. QED
    BY <1>1, <2>1, <2>3, SameRows, PosteKept
       DEF HoldersBounded
<1>. QED
  BY <1>2, <1>3 DEF CheckServant

\* The INSERT moves the request from the first set of each count to the row it
\* adds to the second.
LEMMA CommitNominateCount ==
  ASSUME TypeInv, HoldersBounded, NEW w \in Workers, CommitNominate(w)
  PROVE  HoldersBounded'
<1>1. PICK n \in Rows : nominations' = [nominations EXCEPT ![n] =
             [user |-> req[w].user, poste |-> req[w].poste,
              status |-> "ACTIVE", revokedBy |-> None]]
  BY DEF CommitNominate
<1>2. pc[w] = "servant_free" /\ Return(w)
  BY DEF CommitNominate, At
<1>3. ASSUME NEW p \in Postes
      PROVE  Cardinality(ActiveByPoste(p)') + Cardinality(FoundPosteFree(p)')
                 <= Cardinality(Workers)
  <2>1. FoundPosteFree(p)' \subseteq FoundPosteFree(p) \ {w}
    BY <1>2, ReturnFound
  <2>2. CASE p # req[w].poste
    <3>1. ActiveByPoste(p)' \subseteq ActiveByPoste(p)
      BY <1>1, <2>2 DEF TypeInv, TypeOK, ActiveByPoste
    <3>. QED
      BY <2>1, <3>1, PosteKept
  <2>3. CASE p = req[w].poste
    <3>1. w \in FoundPosteFree(p)
      BY <1>2, <2>3 DEF FoundPosteFree
    <3>2. ActiveByPoste(p)' \subseteq ActiveByPoste(p) \cup {n}
      BY <1>1 DEF TypeInv, TypeOK, ActiveByPoste
    <3>3. /\ ActiveByPoste(p) \in SUBSET Rows
          /\ FoundPosteFree(p) \in SUBSET Workers
      BY DEF ActiveByPoste, FoundPosteFree
    <3>4. Cardinality(ActiveByPoste(p)) + Cardinality(FoundPosteFree(p))
              <= Cardinality(Workers)
      BY DEF HoldersBounded
    <3>. QED
      BY <2>1, <3>1, <3>2, <3>3, <3>4, CountMoves
  <2>. QED
    BY <2>2, <2>3
<1>4. ASSUME NEW u \in Users
      PROVE  Cardinality(ActiveByUser(u)') + Cardinality(FoundServantFree(u)')
                 <= Cardinality(Workers)
  <2>1. FoundServantFree(u)' \subseteq FoundServantFree(u) \ {w}
    BY <1>2, ReturnFound
  <2>2. CASE u # req[w].user
    <3>1. ActiveByUser(u)' \subseteq ActiveByUser(u)
      BY <1>1, <2>2 DEF TypeInv, TypeOK, ActiveByUser
    <3>. QED
      BY <2>1, <3>1, ServantKept
  <2>3. CASE u = req[w].user
    <3>1. w \in FoundServantFree(u)
      BY <1>2, <2>3 DEF FoundServantFree
    <3>2. ActiveByUser(u)' \subseteq ActiveByUser(u) \cup {n}
      BY <1>1 DEF TypeInv, TypeOK, ActiveByUser
    <3>3. /\ ActiveByUser(u) \in SUBSET Rows
          /\ FoundServantFree(u) \in SUBSET Workers
      BY DEF ActiveByUser, FoundServantFree
    <3>4. Cardinality(ActiveByUser(u)) + Cardinality(FoundServantFree(u))
              <= Cardinality(Workers)
      BY DEF HoldersBounded
    <3>. QED
      BY <2>1, <3>1, <3>2, <3>3, <3>4, CountMoves
  <2>. QED
    BY <2>2, <2>3
<1>. QED
  BY <1>3, <1>4 DEF HoldersBounded

LEMMA ServeCount ==
  ASSUME TypeInv, HoldersBounded, NEW w \in Workers, Serve(w)
  PROVE  HoldersBounded'
<1>1. CASE CommitRevoke(w)
  BY <1>1, RevokedRows, ReturnFound, CountStepShrinks DEF CommitRevoke
<1>2. CASE RecordAttendance(w)
  <2>1. UNCHANGED nominations
    BY <1>2 DEF RecordAttendance
  <2>2. CASE Return(w)
    BY <2>1, <2>2, ReturnFound, SameRows, CountStepShrinks
  <2>3. CASE req' = [req EXCEPT ![w].entries = Tail(@)] /\ UNCHANGED pc
    <3>1. /\ \A p \in Postes : FoundPosteFree(p)' \subseteq FoundPosteFree(p)
          /\ \A u \in Users : FoundServantFree(u)' \subseteq FoundServantFree(u)
      BY <1>2, <2>3 DEF RecordAttendance, At, TypeInv, TypeOK,
                        FoundPosteFree, FoundServantFree
    <3>. QED
      BY <2>1, <3>1, SameRows, CountStepShrinks
  <2>. QED
    BY <1>2, <2>2, <2>3 DEF RecordAttendance
<1>3. CASE ReadNominations(w)
  <2>1. UNCHANGED nominations
    BY <1>3 DEF ReadNominations, tables
  <2>2. CASE Return(w)
    BY <2>1, <2>2, ReturnFound, SameRows, CountStepShrinks
  <2>3. CASE /\ req' = [req EXCEPT ![w].rows = ActiveByUser(req[w].user)]
             /\ Goto(w, "destituting")
    <3>1. /\ \A p \in Postes : FoundPosteFree(p)' \subseteq FoundPosteFree(p)
          /\ \A u \in Users : FoundServantFree(u)' \subseteq FoundServantFree(u)
      BY <2>3 DEF Goto, TypeInv, TypeOK, FoundPosteFree, FoundServantFree
    <3>. QED
      BY <2>1, <3>1, SameRows, CountStepShrinks
  <2>. QED
    BY <1>3, <2>2, <2>3 DEF ReadNominations
<1>4. CASE Destitute(w) /\ SystemId \notin Accounts
  BY <1>4, ReturnFound, SameRows, CountStepShrinks DEF Destitute
<1>5. CASE Destitute(w) /\ SystemId \in Accounts
  <2>1. PICK n \in req[w].rows :
           /\ nominations' = [nominations EXCEPT ![n] = Revoked(@, SystemId)]
           /\ IF req[w].rows = {n}
              THEN Return(w)
              ELSE req' = [req EXCEPT ![w].rows = @ \ {n}] /\ UNCHANGED pc
    BY <1>5 DEF Destitute
  <2>2. CASE Return(w)
    BY <2>1, <2>2, ReturnFound, RevokedRows, CountStepShrinks
  <2>3. CASE req' = [req EXCEPT ![w].rows = @ \ {n}] /\ UNCHANGED pc
    <3>1. /\ \A p \in Postes : FoundPosteFree(p)' \subseteq FoundPosteFree(p)
          /\ \A u \in Users : FoundServantFree(u)' \subseteq FoundServantFree(u)
      BY <1>5, <2>3 DEF Destitute, At, TypeInv, TypeOK,
                        FoundPosteFree, FoundServantFree
    <3>. QED
      BY <2>1, <3>1, RevokedRows, CountStepShrinks
  <2>. QED
    BY <2>1, <2>2, <2>3
<1>. QED
  BY <1>1, <1>2, <1>3, <1>4, <1>5, CheckPosteCount, CheckServantCount,
     CommitNominateCount DEF Serve

LEMMA EnvironmentCount ==
  ASSUME TypeInv, HoldersBounded, Environment
  PROVE  HoldersBounded'
<1>1. UNCHANGED nominations
  BY DEF Environment, CreateMeeting, SwitchAccount, Abort, tables
<1>2. CASE UNCHANGED <<pc, req>>
  <2>1. /\ \A p \in Postes : FoundPosteFree(p)' \subseteq FoundPosteFree(p)
        /\ \A u \in Users : FoundServantFree(u)' \subseteq FoundServantFree(u)
    BY <1>2 DEF FoundPosteFree, FoundServantFree
  <2>. QED
    BY <1>1, <2>1, SameRows, CountStepShrinks
<1>3. ASSUME NEW w \in Workers, Abort(w) PROVE HoldersBounded'
  BY <1>1, <1>3, ReturnFound, SameRows, CountStepShrinks DEF Abort
<1>. QED
  BY <1>2, <1>3 DEF Environment, CreateMeeting, SwitchAccount

LEMMA InitCount == Init => HoldersBounded
<1>. SUFFICES ASSUME Init PROVE HoldersBounded
  OBVIOUS
<1>1. /\ \A p \in Postes : ActiveByPoste(p) = {} /\ FoundPosteFree(p) \in SUBSET Workers
      /\ \A u \in Users : ActiveByUser(u) = {} /\ FoundServantFree(u) \in SUBSET Workers
  BY DEF Init, ActiveByPoste, ActiveByUser, FoundPosteFree, FoundServantFree
<1>. QED
  BY <1>1, CountStarts DEF HoldersBounded

LEMMA NextCount == TypeInv /\ HoldersBounded /\ [Next]_vars => HoldersBounded'
<1>. SUFFICES ASSUME TypeInv, HoldersBounded, [Next]_vars PROVE HoldersBounded'
  OBVIOUS
<1>1. CASE Next
  BY <1>1, ArriveCount, ServeCount, EnvironmentCount DEF Next
<1>2. CASE UNCHANGED vars
  BY <1>2 DEF vars, HoldersBounded, ActiveByPoste,
              ActiveByUser, FoundPosteFree, FoundServantFree
<1>. QED
  BY <1>1, <1>2

\* However nominations and revocations overlap, a poste has at most as many
\* holders, and a servant as many postes, as requests can overlap.
THEOREM BoundedHolders == Spec => []HoldersBounded
BY InitType, NextType, InitCount, NextCount, PTL DEF Spec

(***************************************************************************)
(* Requests that have not overlapped: what a request found free still is   *)
(* when it inserts its row.                                                *)
(***************************************************************************)

InForce(n) == nominations[n].status = "ACTIVE"
Pair(n)    == <<nominations[n].user, nominations[n].poste>>

\* A nomination in force, and one about to be, name a servant and a poste.
Filled ==
    /\ \A n \in Rows : InForce(n) =>
           nominations[n].user \in Users /\ nominations[n].poste \in Postes
    /\ \A w \in Workers : pc[w] \in {"eligible", "poste_free", "servant_free"} =>
           req[w].user \in Users /\ req[w].poste \in Postes

\* One request at a time.
OneBusy ==
    \A v, w \in Workers : pc[v] # "idle" /\ pc[w] # "idle" => v = w

\* What the request being served has read still holds.
StillTrue ==
    \A w \in Workers :
        /\ pc[w] \in {"poste_free", "servant_free"} =>
               ActiveByPoste(req[w].poste) = {}
        /\ pc[w] = "servant_free" => ActiveByUser(req[w].user) = {}
        /\ pc[w] = "loaded" => InForce(req[w].row)
        /\ pc[w] = "destituting" => \A n \in req[w].rows : InForce(n)

AloneInv == ~overlapped => OneBusy /\ StillTrue

HeldInv == TypeInv /\ Filled /\ AloneInv

\* No step forgets that requests have overlapped.
LEMMA OverlapKept ==
  ASSUME Next
  PROVE  overlapped => overlapped'
<1>1. ASSUME NEW w \in Workers, Arrive(w)
      PROVE  overlapped => overlapped'
  BY <1>1 DEF Arrive, BeginNominate, BeginRevoke, BeginRecord, BeginMonitor,
              Begin
<1>2. ASSUME NEW w \in Workers, Serve(w)
      PROVE  UNCHANGED overlapped
  BY <1>2 DEF Serve, CheckPoste, CheckServant, CommitNominate, CommitRevoke,
              RecordAttendance, ReadNominations, Destitute
<1>3. CASE Environment
  BY <1>3 DEF Environment, CreateMeeting, SwitchAccount, Abort
<1>. QED
  BY <1>1, <1>2, <1>3 DEF Next

\* Ending a nomination dismisses its holder, or changes nothing when it was
\* ended already.
LEMMA RevokedHeld ==
  ASSUME HeldInv, NEW n \in Rows, NEW by,
         nominations' = [nominations EXCEPT ![n] = Revoked(@, by)],
         UNCHANGED overlapped
  PROVE  /\ \A m \in Rows : InForce(m)' => InForce(m) /\ m # n
                                          /\ nominations'[m] = nominations[m]
         /\ Registry!Next \/ Held' = Held
<1>1. /\ nominations'[n].status = "REVOQUEE"
      /\ \A m \in Rows \ {n} : nominations'[m] = nominations[m]
  BY DEF HeldInv, TypeInv, TypeOK, NominationRow, Revoked
<1>2. \A m \in Rows : InForce(m)' => InForce(m) /\ m # n
                                      /\ nominations'[m] = nominations[m]
  BY <1>1 DEF InForce
<1>3. CASE ~InForce(n)
  <2>1. Held' = Held
    BY <1>1, <1>3 DEF Held, InForce
  <2>. QED
    BY <1>2, <2>1
<1>4. CASE InForce(n)
  <2>1. nominations[n].user \in Users /\ nominations[n].poste \in Postes
    BY <1>4 DEF HeldInv, Filled
  <2>2. Held = {Pair(m) : m \in {k \in Rows : InForce(k)}}
    BY DEF Held, Pair, InForce
  <2>3. Held' = {Pair(m) : m \in {k \in Rows : InForce(k)} \ {n}}
    BY <1>1, <1>2 DEF Held, Pair, InForce
  <2>4. Pair(n) \in Held
    BY <1>4, <2>2
  <2>5. Held' = Held \/ Held' = Held \ {Pair(n)}
    BY <2>2, <2>3
  <2>. QED
    BY <1>2, <2>1, <2>4, <2>5 DEF Registry!Next, Registry!Dismiss, Pair
<1>. QED
  BY <1>3, <1>4

\* The INSERT appoints the servant of the request to its poste.
LEMMA NominatedHeld ==
  ASSUME HeldInv, NEW w \in Workers, CommitNominate(w)
  PROVE  Registry!Next
<1>1. PICK n \in Rows :
         /\ nominations[n].status = "UNUSED"
         /\ nominations' = [nominations EXCEPT ![n] =
                [user |-> req[w].user, poste |-> req[w].poste,
                 status |-> "ACTIVE", revokedBy |-> None]]
  BY DEF CommitNominate
<1>2. req[w].user \in Users /\ req[w].poste \in Postes /\ UNCHANGED overlapped
  BY DEF CommitNominate, At, HeldInv, Filled
<1>3. Held' = Held \cup {<<req[w].user, req[w].poste>>}
  <2>1. {m \in Rows : nominations[m].status = "ACTIVE"}' =
            {m \in Rows : nominations[m].status = "ACTIVE"} \cup {n}
    BY <1>1 DEF HeldInv, TypeInv, TypeOK
  <2>2. /\ nominations'[n].user = req[w].user
        /\ nominations'[n].poste = req[w].poste
        /\ \A m \in Rows : nominations[m].status = "ACTIVE" =>
               nominations'[m] = nominations[m]
    BY <1>1 DEF HeldInv, TypeInv, TypeOK
  <2>. QED
    BY <2>1, <2>2 DEF Held
<1>4. CASE overlapped
  BY <1>2, <1>3, <1>4 DEF Registry!Next, Registry!Appoint
<1>5. CASE ~overlapped
  <2>1. ActiveByPoste(req[w].poste) = {} /\ ActiveByUser(req[w].user) = {}
    BY <1>5 DEF CommitNominate, At, HeldInv, AloneInv, StillTrue
  <2>2. \A m \in Rows : InForce(m) => /\ nominations[m].user # req[w].user
                                     /\ nominations[m].poste # req[w].poste
    BY <2>1 DEF ActiveByPoste, ActiveByUser, InForce
  <2>3. \A h \in Held : h[1] # req[w].user /\ h[2] # req[w].poste
    BY <2>2 DEF Held, InForce
  <2>. QED
    BY <1>2, <1>3, <2>3 DEF Registry!Next, Registry!Appoint, Registry!Free
<1>. QED
  BY <1>4, <1>5

\* Every step of the program is a step of the register, or changes nothing
\* that it shows.
LEMMA RegistryStep ==
  ASSUME HeldInv, [Next]_vars
  PROVE  [Registry!Next]_<<Held, overlapped>>
<1>1. ASSUME UNCHANGED <<nominations, overlapped>>
      PROVE  UNCHANGED <<Held, overlapped>>
  BY <1>1 DEF Held
<1>2. ASSUME NEW w \in Workers, Arrive(w)
      PROVE  [Registry!Next]_<<Held, overlapped>>
  <2>1. UNCHANGED nominations /\ (overlapped' = TRUE \/ UNCHANGED overlapped)
    BY <1>2 DEF Arrive, BeginNominate, BeginRevoke, BeginRecord, BeginMonitor,
                Begin, tables, HeldInv, TypeInv, TypeOK
  <2>2. UNCHANGED Held
    BY <2>1 DEF Held
  <2>. QED
    BY <2>1, <2>2 DEF Registry!Next, Registry!Race
<1>3. ASSUME NEW w \in Workers, Serve(w)
      PROVE  [Registry!Next]_<<Held, overlapped>>
  <2>1. CASE CheckPoste(w) \/ CheckServant(w) \/ RecordAttendance(w)
             \/ ReadNominations(w)
    BY <1>1, <2>1 DEF CheckPoste, CheckServant, RecordAttendance,
                      ReadNominations, tables
  <2>2. CASE CommitNominate(w)
    BY <2>2, NominatedHeld
  <2>3. CASE CommitRevoke(w)
    <3>1. CASE req[w].row \in Rows
      BY <2>3, <3>1, RevokedHeld DEF CommitRevoke
    <3>2. CASE req[w].row \notin Rows
      <4>1. UNCHANGED nominations
        BY <2>3, <3>2 DEF CommitRevoke, HeldInv, TypeInv, TypeOK
      <4>. QED
        BY <1>1, <2>3, <4>1 DEF CommitRevoke
    <3>. QED
      BY <3>1, <3>2
  <2>4. CASE Destitute(w)
    <3>1. req[w].rows \subseteq Rows
      BY DEF HeldInv, TypeInv, TypeOK, Request
    <3>2. CASE SystemId \in Accounts
      BY <2>4, <3>1, <3>2, RevokedHeld DEF Destitute
    <3>3. CASE SystemId \notin Accounts
      BY <1>1, <2>4, <3>3 DEF Destitute
    <3>. QED
      BY <3>2, <3>3
  <2>. QED
    BY <1>3, <2>1, <2>2, <2>3, <2>4 DEF Serve
<1>4. CASE Environment \/ UNCHANGED vars
  BY <1>1, <1>4 DEF Environment, CreateMeeting, SwitchAccount, Abort, vars,
                    tables
<1>. QED
  BY <1>2, <1>3, <1>4 DEF Next

\* The rows and the requests stay filled in.
LEMMA NextFilled ==
  ASSUME HeldInv, [Next]_vars
  PROVE  Filled'
<1>1. ASSUME UNCHANGED nominations, NEW w \in Workers, Return(w)
      PROVE  Filled'
  BY <1>1 DEF Return, Goto, Filled, InForce, HeldInv, TypeInv, TypeOK
<1>2. ASSUME NEW w \in Workers, Arrive(w)
      PROVE  Filled'
  <2>1. UNCHANGED nominations /\ \A v \in Workers : v # w =>
            pc'[v] = pc[v] /\ req'[v] = req[v]
    BY <1>2 DEF Arrive, BeginNominate, BeginRevoke, BeginRecord, BeginMonitor,
                Begin, tables, Goto, HeldInv, TypeInv, TypeOK
  <2>2. pc'[w] \in {"eligible", "poste_free", "servant_free"} =>
            req'[w].user \in Users /\ req'[w].poste \in Postes
    <3>1. ASSUME NEW u \in Users, NEW p \in Postes, BeginNominate(w, u, p)
          PROVE  req'[w].user = u /\ req'[w].poste = p
      BY <3>1 DEF BeginNominate, Begin, NoRequest, HeldInv, TypeInv, TypeOK
    <3>2. CASE ~\E u \in Users, p \in Postes : BeginNominate(w, u, p)
      BY <1>2, <3>2 DEF Arrive, BeginRevoke, BeginRecord, BeginMonitor, Begin,
                        Goto, HeldInv, TypeInv, TypeOK
    <3>. QED
      BY <3>1, <3>2
  <2>. QED
    BY <2>1, <2>2 DEF Filled, InForce, HeldInv
<1>3. ASSUME NEW w \in Workers, Serve(w)
      PROVE  Filled'
  <2>1. CASE CheckPoste(w) \/ CheckServant(w)
    BY <1>1, <2>1 DEF CheckPoste, CheckServant, At, tables, Goto, Filled,
                      InForce, HeldInv, TypeInv, TypeOK
  <2>2. CASE CommitNominate(w)
    BY <2>2 DEF CommitNominate, At, Return, Goto, Filled, InForce, HeldInv,
                TypeInv, TypeOK
  <2>3. CASE CommitRevoke(w)
    BY <2>3 DEF CommitRevoke, Return, Goto, Revoked, NominationRow, Filled,
                InForce, HeldInv, TypeInv, TypeOK
  <2>4. CASE RecordAttendance(w)
    BY <1>1, <2>4 DEF RecordAttendance, At, Filled, InForce, HeldInv, TypeInv,
                      TypeOK
  <2>5. CASE ReadNominations(w)
    BY <1>1, <2>5 DEF ReadNominations, At, tables, Goto, Filled, InForce,
                      HeldInv, TypeInv, TypeOK
  <2>6. CASE Destitute(w) /\ SystemId \notin Accounts
    BY <1>1, <2>6 DEF Destitute
  <2>7. CASE Destitute(w) /\ SystemId \in Accounts
    <3>1. PICK n \in req[w].rows :
             /\ nominations' = [nominations EXCEPT ![n] = Revoked(@, SystemId)]
             /\ IF req[w].rows = {n}
                THEN Return(w)
                ELSE req' = [req EXCEPT ![w].rows = @ \ {n}] /\ UNCHANGED pc
      BY <2>7 DEF Destitute
    <3>2. n \in Rows
      BY DEF HeldInv, TypeInv, TypeOK, Request
    <3>3. \A m \in Rows : InForce(m)' => /\ InForce(m)
                                         /\ nominations'[m] = nominations[m]
      BY <2>7, <3>1, <3>2, RevokedHeld DEF Destitute
    <3>4. \A v \in Workers :
             pc'[v] \in {"eligible", "poste_free", "servant_free"} =>
                 pc[v] = pc'[v] /\ req'[v] = req[v]
      BY <2>7, <3>1 DEF Destitute, At, Return, Goto, HeldInv, TypeInv, TypeOK
    <3>. QED
      BY <3>3, <3>4 DEF HeldInv, Filled
  <2>. QED
    BY <1>3, <2>1, <2>2, <2>3, <2>4, <2>5, <2>6, <2>7 DEF Serve
<1>4. CASE UNCHANGED <<nominations, pc, req>>
  BY <1>4 DEF Filled, InForce, HeldInv
<1>5. ASSUME NEW w \in Workers, Abort(w)
      PROVE  Filled'
  BY <1>1, <1>5 DEF Abort, tables
<1>. QED
  BY <1>2, <1>3, <1>4, <1>5 DEF Next, Environment, CreateMeeting,
                                SwitchAccount, vars

\* A request that ends leaves everyone idle, and nothing to be true.
LEMMA ReturnAlone ==
  ASSUME TypeInv, OneBusy, NEW w \in Workers, pc[w] # "idle", Return(w)
  PROVE  OneBusy' /\ StillTrue'
<1>1. \A v \in Workers : pc'[v] = "idle"
  BY DEF TypeInv, TypeOK, OneBusy, Return, Goto
<1>. QED
  BY <1>1 DEF OneBusy, StillTrue

\* A request that arrives while nobody is served has read nothing, except the
\* nomination that it revokes.
LEMMA ArriveAlone ==
  ASSUME TypeInv, NEW w \in Workers, Arrive(w), ~overlapped'
  PROVE  OneBusy' /\ StillTrue'
<1>1. /\ \A v \in Workers : pc[v] = "idle"
      /\ UNCHANGED nominations
  BY DEF Arrive, BeginNominate, BeginRevoke, BeginRecord, BeginMonitor, Begin,
         tables
<1>2. \A v \in Workers : v # w => pc'[v] = "idle"
  BY <1>1 DEF Arrive, BeginNominate, BeginRevoke, BeginRecord, BeginMonitor,
              Begin, Goto, TypeInv, TypeOK
<1>3. /\ pc'[w] \in {"eligible", "loaded", "recording", "absent"}
      /\ pc'[w] = "loaded" => InForce(req'[w].row)
  BY ZenonT(40) DEF Arrive, BeginNominate, BeginRevoke, BeginRecord, BeginMonitor,
         Begin, Goto, NoRequest, InForce, TypeInv, TypeOK
<1>. QED
  BY <1>1, <1>2, <1>3 DEF OneBusy, StillTrue, InForce

\* The request being served goes on: the others are still idle.
LEMMA GoesOn ==
  ASSUME TypeInv, OneBusy, NEW w \in Workers, pc[w] # "idle",
         \A v \in Workers : v # w => pc'[v] = pc[v]
  PROVE  OneBusy' /\ \A v \in Workers : v # w => pc'[v] = "idle"
BY DEF OneBusy

LEMMA ServeAlone ==
  ASSUME HeldInv, OneBusy, StillTrue, NEW w \in Workers, Serve(w)
  PROVE  OneBusy' /\ StillTrue'
<1>0. TypeInv /\ pc[w] # "idle"
  BY DEF Serve, CheckPoste, CheckServant, CommitNominate, CommitRevoke,
         RecordAttendance, ReadNominations, Destitute, At, HeldInv
<1>1. CASE Return(w)
  BY <1>0, <1>1, ReturnAlone
<1>2. CASE CheckPoste(w) /\ ~Return(w)
  <2>1. OneBusy' /\ \A v \in Workers : v # w => pc'[v] = "idle"
    BY <1>0, <1>2, GoesOn DEF CheckPoste, Goto, TypeInv, TypeOK
  <2>2. /\ pc'[w] = "poste_free" /\ ActiveByPoste(req[w].poste) = {}
        /\ UNCHANGED <<nominations, req>>
    BY <1>0, <1>2 DEF CheckPoste, Goto, tables, TypeInv, TypeOK
  <2>. QED
    BY <2>1, <2>2 DEF StillTrue, ActiveByPoste
<1>3. CASE CheckServant(w) /\ ~Return(w)
  <2>1. OneBusy' /\ \A v \in Workers : v # w => pc'[v] = "idle"
    BY <1>0, <1>3, GoesOn DEF CheckServant, Goto, TypeInv, TypeOK
  <2>2. /\ pc'[w] = "servant_free" /\ ActiveByUser(req[w].user) = {}
        /\ ActiveByPoste(req[w].poste) = {}
        /\ UNCHANGED <<nominations, req>>
    BY <1>0, <1>3 DEF CheckServant, At, Goto, tables, TypeInv, TypeOK, StillTrue
  <2>. QED
    BY <2>1, <2>2 DEF StillTrue, ActiveByPoste, ActiveByUser
<1>4. CASE RecordAttendance(w) /\ ~Return(w)
  <2>1. UNCHANGED pc /\ pc[w] = "recording"
    BY <1>4 DEF RecordAttendance, At
  <2>2. OneBusy' /\ \A v \in Workers : v # w => pc'[v] = "idle"
    BY <1>0, <2>1, GoesOn
  <2>. QED
    BY <2>1, <2>2 DEF StillTrue
<1>5. CASE ReadNominations(w) /\ ~Return(w)
  <2>1. OneBusy' /\ \A v \in Workers : v # w => pc'[v] = "idle"
    BY <1>0, <1>5, GoesOn DEF ReadNominations, Goto, TypeInv, TypeOK
  <2>2. /\ pc'[w] = "destituting" /\ UNCHANGED nominations
        /\ req'[w].rows = ActiveByUser(req[w].user)
    BY <1>0, <1>5 DEF ReadNominations, Goto, tables, TypeInv, TypeOK, Request
  <2>. QED
    BY <2>1, <2>2 DEF StillTrue, ActiveByUser, InForce
<1>6. CASE Destitute(w) /\ ~Return(w)
  <2>1. PICK n \in req[w].rows :
           /\ nominations' = [nominations EXCEPT ![n] = Revoked(@, SystemId)]
           /\ req' = [req EXCEPT ![w].rows = @ \ {n}] /\ UNCHANGED pc
    BY <1>6 DEF Destitute
  <2>2. OneBusy' /\ \A v \in Workers : v # w => pc'[v] = "idle"
    BY <1>0, <2>1, GoesOn
  <2>3. /\ pc'[w] = "destituting" /\ req'[w].rows = req[w].rows \ {n}
        /\ req[w].rows \subseteq Rows /\ \A m \in req[w].rows : InForce(m)
    BY <1>0, <1>6, <2>1 DEF Destitute, At, TypeInv, TypeOK, Request, StillTrue
  <2>4. \A m \in req'[w].rows : InForce(m)'
    BY <1>0, <2>1, <2>3 DEF InForce, TypeInv, TypeOK
  <2>. QED
    BY <2>2, <2>3, <2>4 DEF StillTrue
<1>. QED
  BY <1>1, <1>2, <1>3, <1>4, <1>5, <1>6
     DEF Serve, CommitNominate, CommitRevoke

LEMMA NextAlone ==
  ASSUME HeldInv, [Next]_vars
  PROVE  AloneInv'
<1>. SUFFICES ASSUME ~overlapped' PROVE OneBusy' /\ StillTrue'
  BY DEF AloneInv
<1>1. ~overlapped /\ TypeInv /\ OneBusy /\ StillTrue
  BY OverlapKept DEF vars, HeldInv, AloneInv
<1>2. CASE UNCHANGED <<nominations, pc, req>>
  BY <1>1, <1>2 DEF OneBusy, StillTrue, ActiveByPoste, ActiveByUser, InForce
<1>3. ASSUME NEW w \in Workers, Abort(w) PROVE OneBusy' /\ StillTrue'
  BY <1>1, <1>3, ReturnAlone DEF Abort
<1>. QED
  BY <1>1, <1>2, <1>3, ArriveAlone, ServeAlone
     DEF Next, Environment, CreateMeeting, SwitchAccount, vars

LEMMA InitHeld == Init => HeldInv /\ Registry!Init
<1>. SUFFICES ASSUME Init PROVE HeldInv /\ Registry!Init
  OBVIOUS
<1>1. \A n \in Rows : nominations[n].status # "ACTIVE"
  BY DEF Init
<1>2. Held = {} /\ overlapped = FALSE
  BY <1>1 DEF Held, Init
<1>3. \A w \in Workers : pc[w] = "idle"
  BY DEF Init
<1>. QED
  BY <1>1, <1>2, <1>3, InitType
     DEF Registry!Init, HeldInv, AloneInv, Filled, OneBusy, StillTrue, InForce

LEMMA HeldInvariant == Spec => []HeldInv
<1>1. HeldInv /\ [Next]_vars => HeldInv'
  BY NextType, NextFilled, NextAlone DEF HeldInv
<1>. QED
  BY <1>1, InitHeld, PTL DEF Spec

\* The table of nominations implements the register: until requests overlap a
\* poste has one holder and a servant one poste, and even then each commit
\* changes one pair.
THEOREM RegistryImplemented == Spec => ImplementsRegistry
<1>1. Spec => Registry!Init /\ [][Registry!Next]_<<Held, overlapped>>
  BY HeldInvariant, InitHeld, RegistryStep, PTL DEF Spec
<1>. QED
  BY <1>1 DEF ImplementsRegistry, Registry!Spec

\* Until requests overlap, who ended a nomination never changes.
THEOREM FinalRevocations == Spec => RevocationIsFinal
<1>. DEFINE Kept == \A n \in Rows : nominations[n].status = "REVOQUEE" =>
                        nominations'[n] = nominations[n] \/ overlapped
<1>1. ASSUME HeldInv, [Next]_vars PROVE Kept
  <2>. SUFFICES ASSUME ~overlapped, NEW n \in Rows,
                       nominations[n].status = "REVOQUEE"
                PROVE  nominations'[n] = nominations[n]
    OBVIOUS
  <2>0. TypeInv /\ StillTrue
    BY <1>1 DEF HeldInv, AloneInv
  <2>1. ASSUME NEW w \in Workers, Arrive(w) PROVE UNCHANGED nominations
    BY <2>1 DEF Arrive, BeginNominate, BeginRevoke, BeginRecord, BeginMonitor,
                Begin, tables
  <2>2. ASSUME NEW w \in Workers, CommitNominate(w)
        PROVE  nominations'[n] = nominations[n]
    BY <2>0, <2>2 DEF CommitNominate, TypeInv, TypeOK
  <2>3. ASSUME NEW w \in Workers, CommitRevoke(w)
        PROVE  nominations'[n] = nominations[n]
    BY <2>0, <2>3 DEF CommitRevoke, At, StillTrue, InForce, TypeInv, TypeOK
  <2>4. ASSUME NEW w \in Workers, Destitute(w)
        PROVE  nominations'[n] = nominations[n]
    BY <2>0, <2>4 DEF Destitute, At, StillTrue, InForce, TypeInv, TypeOK
  <2>5. CASE UNCHANGED nominations
    BY <2>5
  <2>. QED
    BY <1>1, <2>1, <2>2, <2>3, <2>4, <2>5
       DEF Next, Serve, CheckPoste, CheckServant, RecordAttendance,
           ReadNominations, Environment, CreateMeeting, SwitchAccount, Abort,
           tables, vars
<1>. QED
  BY <1>1, HeldInvariant, PTL DEF Spec, RevocationIsFinal

(***************************************************************************)
(* A destitution rests on three absences.  The guard counts the rows that  *)
(* come after each; the property names the three.                          *)
(***************************************************************************)

\* A set of three numbers, in their order.
LEMMA ThreeInOrder ==
  ASSUME NEW S \in SUBSET Nat, IsFiniteSet(S), Cardinality(S) = 3
  PROVE  \E i, j, k \in Nat : i < j /\ j < k /\ S = {i, j, k}
<1>0. Cardinality({}) = 0 /\ 3 # 0 /\ 2 # 0
  BY FS_EmptySet
<1>1. PICK a \in S : TRUE
  BY <1>0
<1>2. PICK T : T = S \ {a}
  OBVIOUS
<1>3. IsFiniteSet(T) /\ Cardinality(T) = 2
  BY <1>1, <1>2, FS_RemoveElement
<1>4. PICK b \in T : TRUE
  BY <1>0, <1>3
<1>5. IsFiniteSet(T \ {b}) /\ Cardinality(T \ {b}) = 1
  BY <1>3, <1>4, FS_RemoveElement
<1>6. PICK c : T \ {b} = {c}
  BY <1>5, FS_Singleton
<1>7. S = {a, b, c}
  BY <1>1, <1>2, <1>4, <1>6
<1>8. /\ a \in Nat /\ b \in Nat /\ c \in Nat
      /\ a # b /\ c # a /\ c # b
  BY <1>2, <1>4, <1>6, <1>7
<1>9. \/ (a < b /\ b < c) \/ (a < c /\ c < b) \/ (b < a /\ a < c)
      \/ (b < c /\ c < a) \/ (c < a /\ a < b) \/ (c < b /\ b < a)
  BY <1>8
<1>10. /\ S = {a, c, b} /\ S = {b, a, c} /\ S = {b, c, a}
       /\ S = {c, a, b} /\ S = {c, b, a}
  BY <1>7
<1>. QED
  BY <1>7, <1>8, <1>9, <1>10

\* What the control asks for is what the rule says.
LEMMA AwayMissed ==
  ASSUME TypeInv, NEW u, StayedAway(u)
  PROVE  MissedLastThree(u)
<1>. DEFINE L == Len(attendances)
<1>1. L \in Nat
  BY LenProperties DEF TypeInv, TypeOK
<1>2. IsFiniteSet(1..L)
  BY <1>1, FS_Interval
<1>. HIDE DEF L
<1>3. Positions(u) \subseteq 1..L /\ IsFiniteSet(Positions(u))
  BY <1>2, FS_Subset DEF Positions, L
<1>4. LastThree(u) \subseteq Positions(u) /\ IsFiniteSet(LastThree(u))
  BY <1>3, FS_Subset DEF LastThree
<1>5. PICK i, j, k \in Nat : i < j /\ j < k /\ LastThree(u) = {i, j, k}
  BY <1>1, <1>3, <1>4, ThreeInOrder DEF StayedAway
<1>6. i \in Positions(u) /\ j \in Positions(u) /\ k \in Positions(u)
  BY <1>4, <1>5
<1>7. ASSUME NEW m \in Positions(u), m >= i
      PROVE  m \in LastThree(u)
  <2>1. {q \in Positions(u) : q > m} \subseteq {q \in Positions(u) : q > i}
    BY <1>1, <1>3, <1>5, <1>7
  <2>2. IsFiniteSet({q \in Positions(u) : q > i})
    BY <1>3, FS_Subset
  <2>3. /\ Cardinality({q \in Positions(u) : q > m})
              <= Cardinality({q \in Positions(u) : q > i})
        /\ IsFiniteSet({q \in Positions(u) : q > m})
    BY <2>1, <2>2, FS_Subset
  <2>4. /\ Cardinality({q \in Positions(u) : q > m}) \in Nat
        /\ Cardinality({q \in Positions(u) : q > i}) \in Nat
    BY <2>2, <2>3, FS_CardinalityType
  <2>5. Cardinality({q \in Positions(u) : q > i}) < 3
    BY <1>5 DEF LastThree
  <2>. QED
    BY <2>3, <2>4, <2>5 DEF LastThree
<1>8. {m \in i..L : attendances[m].user = u} = {i, j, k}
  <2>1. \A m \in i..L : attendances[m].user = u => m \in {i, j, k}
    BY <1>1, <1>3, <1>5, <1>6, <1>7 DEF Positions, L
  <2>2. \A m \in {i, j, k} : m \in i..L /\ attendances[m].user = u
    BY <1>1, <1>3, <1>5, <1>6 DEF Positions, L
  <2>. QED
    BY <2>1, <2>2
<1>9. \A m \in {i, j, k} : attendances[m].absent
  BY <1>5 DEF StayedAway
<1>10. i \in 1..L /\ j \in 1..L /\ k \in 1..L
  BY <1>3, <1>6
<1>. QED
  BY <1>5, <1>8, <1>9, <1>10 DEF MissedLastThree, L

\* A control of attendance that is under way goes on as long as the absences
\* it was started for are the last ones, and for the nominations of its user.
Watching ==
    \A w \in Workers : pc[w] \in {"absent", "destituting"} =>
        /\ StayedAway(req[w].user)
        /\ pc[w] = "destituting" =>
               \A n \in req[w].rows : nominations[n].user = req[w].user

WatchInv == HeldInv /\ (~overlapped => Watching)

LEMMA ReturnWatching ==
  ASSUME TypeInv, OneBusy, NEW w \in Workers, pc[w] # "idle", Return(w)
  PROVE  Watching'
<1>1. \A v \in Workers : pc'[v] = "idle"
  BY DEF TypeInv, TypeOK, OneBusy, Return, Goto
<1>. QED
  BY <1>1 DEF Watching

LEMMA SameAway ==
  ASSUME UNCHANGED attendances, NEW u, StayedAway(u)
  PROVE  StayedAway(u)'
BY DEF StayedAway, LastThree, Positions

\* The control that is under way goes on.
LEMMA GoesOnWatching ==
  ASSUME NEW w \in Workers, \A v \in Workers : v # w => pc'[v] = "idle",
         NEW u, StayedAway(u), UNCHANGED attendances, req'[w].user = u,
         pc'[w] = "destituting" =>
             \A n \in req'[w].rows : nominations'[n].user = u
  PROVE  Watching'
<1>1. StayedAway(u)'
  BY SameAway
<1>2. ASSUME NEW v \in Workers, pc'[v] \in {"absent", "destituting"}
      PROVE  v = w
  BY <1>2
<1>3. StayedAway(req[w].user)'
  BY <1>1 DEF StayedAway, LastThree, Positions
<1>. QED
  BY <1>2, <1>3 DEF Watching

\* A control begins with three absences; any other request reads none.
LEMMA ArriveWatching ==
  ASSUME TypeInv, NEW w \in Workers, Arrive(w), ~overlapped'
  PROVE  Watching'
<1>1. /\ \A v \in Workers : pc[v] = "idle"
      /\ UNCHANGED <<nominations, attendances>>
  BY DEF Arrive, BeginNominate, BeginRevoke, BeginRecord, BeginMonitor, Begin,
         tables
<1>2. \A v \in Workers : v # w => pc'[v] = "idle"
  BY <1>1 DEF Arrive, BeginNominate, BeginRevoke, BeginRecord, BeginMonitor,
              Begin, Goto, TypeInv, TypeOK
<1>3. CASE \E u \in Users : BeginMonitor(w, u)
  <2>1. PICK u \in Users : BeginMonitor(w, u)
    BY <1>3
  <2>2. StayedAway(u) /\ pc'[w] = "absent" /\ req'[w].user = u
    BY <2>1 DEF BeginMonitor, Begin, Goto, NoRequest, TypeInv, TypeOK
  <2>. QED
    BY <1>1, <1>2, <2>2, GoesOnWatching
<1>4. CASE ~\E u \in Users : BeginMonitor(w, u)
  <2>1. pc'[w] \in {"eligible", "loaded", "recording"}
    BY <1>4 DEF Arrive, BeginNominate, BeginRevoke, BeginRecord, Begin, Goto,
                TypeInv, TypeOK
  <2>. QED
    BY <1>2, <2>1 DEF Watching
<1>. QED
  BY <1>3, <1>4

LEMMA ServeWatching ==
  ASSUME WatchInv, ~overlapped, NEW w \in Workers, Serve(w)
  PROVE  Watching'
<1>0. TypeInv /\ OneBusy /\ Watching /\ pc[w] # "idle"
  BY DEF Serve, CheckPoste, CheckServant, CommitNominate, CommitRevoke,
         RecordAttendance, ReadNominations, Destitute, At, HeldInv, WatchInv,
         AloneInv
<1>1. CASE Return(w)
  BY <1>0, <1>1, ReturnWatching
<1>2. ASSUME \A v \in Workers : v # w => pc'[v] = pc[v]
      PROVE  \A v \in Workers : v # w => pc'[v] = "idle"
  BY <1>0, <1>2, GoesOn
<1>3. CASE (CheckPoste(w) \/ CheckServant(w)) /\ ~Return(w)
  <2>1. \A v \in Workers : v # w => pc'[v] = pc[v]
    BY <1>0, <1>3 DEF CheckPoste, CheckServant, Goto, TypeInv, TypeOK
  <2>2. pc'[w] \in {"poste_free", "servant_free"}
    BY <1>0, <1>3 DEF CheckPoste, CheckServant, Goto, TypeInv, TypeOK
  <2>. QED
    BY <1>2, <2>1, <2>2 DEF Watching
<1>4. CASE RecordAttendance(w) /\ ~Return(w)
  <2>1. UNCHANGED pc /\ pc[w] = "recording"
    BY <1>4 DEF RecordAttendance, At
  <2>. QED
    BY <1>2, <2>1 DEF Watching
<1>5. PICK u : u = req[w].user
  OBVIOUS
<1>6. CASE ReadNominations(w) /\ ~Return(w)
  <2>1. \A v \in Workers : v # w => pc'[v] = pc[v]
    BY <1>0, <1>6 DEF ReadNominations, Goto, TypeInv, TypeOK
  <2>2. /\ UNCHANGED <<nominations, attendances>> /\ StayedAway(u)
        /\ req'[w].rows = ActiveByUser(u) /\ req'[w].user = u
    BY <1>0, <1>5, <1>6
       DEF ReadNominations, At, tables, TypeInv, TypeOK, Request, Watching
  <2>3. \A n \in req'[w].rows : nominations'[n].user = u
    BY <2>2 DEF ActiveByUser
  <2>. QED
    BY <1>2, <2>1, <2>2, <2>3, GoesOnWatching
<1>7. CASE Destitute(w) /\ ~Return(w)
  <2>1. PICK n \in req[w].rows :
           /\ nominations' = [nominations EXCEPT ![n] = Revoked(@, SystemId)]
           /\ req' = [req EXCEPT ![w].rows = @ \ {n}] /\ UNCHANGED pc
    BY <1>7 DEF Destitute
  <2>2. /\ UNCHANGED attendances /\ StayedAway(u)
        /\ req[w].rows \subseteq Rows
        /\ \A m \in req[w].rows : nominations[m].user = u
    BY <1>0, <1>5, <1>7 DEF Destitute, At, TypeInv, TypeOK, Request, Watching
  <2>3. req'[w].user = u /\ req'[w].rows = req[w].rows \ {n}
    BY <1>0, <1>5, <2>1 DEF TypeInv, TypeOK, Request
  <2>4. \A m \in req'[w].rows : nominations'[m].user = u
    BY <1>0, <2>1, <2>2, <2>3 DEF TypeInv, TypeOK
  <2>. QED
    BY <1>2, <2>1, <2>2, <2>3, <2>4, GoesOnWatching
<1>. QED
  BY <1>1, <1>3, <1>4, <1>6, <1>7 DEF Serve, CommitNominate, CommitRevoke

LEMMA NextWatching ==
  ASSUME WatchInv, [Next]_vars
  PROVE  WatchInv'
<1>1. HeldInv'
  BY NextType, NextFilled, NextAlone DEF HeldInv, WatchInv
<1>. SUFFICES ASSUME ~overlapped' PROVE Watching'
  BY <1>1 DEF WatchInv
<1>2. ~overlapped /\ TypeInv /\ OneBusy /\ Watching
  BY OverlapKept DEF vars, WatchInv, HeldInv, AloneInv
<1>3. CASE UNCHANGED <<nominations, attendances, pc, req>>
  <2>1. ASSUME NEW w \in Workers, pc'[w] \in {"absent", "destituting"}
        PROVE  /\ StayedAway(req[w].user)'
               /\ pc'[w] = "destituting" =>
                     \A n \in req'[w].rows :
                         nominations'[n].user = req'[w].user
    <3>1. pc[w] \in {"absent", "destituting"}
      BY <1>3, <2>1
    <3>2. StayedAway(req[w].user)
      BY <1>2, <3>1 DEF Watching
    <3>. QED
      BY <1>2, <1>3, <3>1, <3>2 DEF Watching, StayedAway, LastThree, Positions
  <2>. QED
    BY <2>1 DEF Watching
<1>4. ASSUME NEW w \in Workers, Abort(w) PROVE Watching'
  BY <1>2, <1>4, ReturnWatching DEF Abort
<1>. QED
  BY <1>2, <1>3, <1>4, ArriveWatching, ServeWatching
     DEF Next, Environment, CreateMeeting, SwitchAccount, vars

LEMMA WatchInvariant == Spec => []WatchInv
<1>1. Init => WatchInv
  <2>. SUFFICES ASSUME Init PROVE WatchInv
    OBVIOUS
  <2>1. \A w \in Workers : pc[w] = "idle"
    BY DEF Init
  <2>. QED
    BY <2>1, InitHeld DEF WatchInv, Watching
<1>. QED
  BY <1>1, NextWatching, PTL DEF Spec

\* Until requests overlap, only a responsable whose last three recorded
\* attendances are absences loses a poste to the control of attendance.
THEOREM DeservedDestitutions == Spec => DestitutionIsDeserved
<1>. DEFINE Deserved == \A n \in Rows : Destituted(n) /\ ~overlapped =>
                            MissedLastThree(nominations[n].user)
<1>1. ASSUME WatchInv, [Next]_vars PROVE Deserved
  <2>. SUFFICES ASSUME NEW n \in Rows, Destituted(n), ~overlapped
                PROVE  MissedLastThree(nominations[n].user)
    OBVIOUS
  <2>0. TypeInv /\ Watching
    BY <1>1 DEF WatchInv, HeldInv
  <2>1. ASSUME NEW w \in Workers, Arrive(w) PROVE UNCHANGED nominations
    BY <2>1 DEF Arrive, BeginNominate, BeginRevoke, BeginRecord, BeginMonitor,
                Begin, tables
  <2>2. ASSUME NEW w \in Workers, CommitNominate(w) PROVE FALSE
    BY <2>0, <2>2, NominationsAssumption
       DEF CommitNominate, Destituted, TypeInv, TypeOK
  <2>3. ASSUME NEW w \in Workers, CommitRevoke(w) PROVE FALSE
    <3>1. req[w].by \in Aumoniers \cup {None}
      BY <2>0 DEF TypeInv, TypeOK, Request
    <3>2. \/ nominations'[n] = nominations[n]
          \/ nominations'[n] = Revoked(nominations[n], req[w].by)
      BY <2>0, <2>3 DEF CommitRevoke, TypeInv, TypeOK
    <3>3. nominations[n] \in NominationRow
      BY <2>0 DEF TypeInv, TypeOK
    <3>. QED
      BY <3>1, <3>2, <3>3, NominationsAssumption
         DEF Destituted, Revoked, NominationRow
  <2>4. ASSUME NEW w \in Workers, Destitute(w)
        PROVE  MissedLastThree(nominations[n].user)
    <3>1. PICK u : u = req[w].user
      OBVIOUS
    <3>2. nominations' # nominations
      BY DEF Destituted
    <3>3. PICK m \in req[w].rows :
             nominations' = [nominations EXCEPT ![m] = Revoked(@, SystemId)]
      BY <2>4, <3>2 DEF Destitute
    <3>4. n = m
      BY <2>0, <3>3 DEF Destituted, TypeInv, TypeOK
    <3>5. StayedAway(u) /\ nominations[n].user = u
      BY <2>0, <2>4, <3>1, <3>3, <3>4 DEF Destitute, At, Watching
    <3>. QED
      BY <2>0, <3>5, AwayMissed
  <2>5. ~UNCHANGED nominations
    BY DEF Destituted
  <2>. QED
    BY <1>1, <2>1, <2>2, <2>3, <2>4, <2>5
       DEF Next, Serve, CheckPoste, CheckServant, RecordAttendance,
           ReadNominations, Environment, CreateMeeting, SwitchAccount, Abort,
           tables, vars
<1>. QED
  BY <1>1, WatchInvariant, PTL DEF Spec, DestitutionIsDeserved
=============================================================================
