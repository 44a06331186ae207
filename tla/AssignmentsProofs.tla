-------------------------- MODULE AssignmentsProofs --------------------------
(***************************************************************************)
(* Proofs about Assignments, for any number of requests, events, servants, *)
(* roles and rows.                                                         *)
(***************************************************************************)
EXTENDS Assignments, SequenceTheorems, TLAPS

(***************************************************************************)
(* Types.                                                                  *)
(***************************************************************************)
Creating == {"item", "eligible", "unassigned"}

\* A request that creates has an item left; one that has loaded has a row.
HasWork ==
    \A w \in Workers :
        /\ pc[w] \in Creating =>
               req[w].items # <<>> /\ req[w].event \in Events
        /\ pc[w] = "loaded" => req[w].row \in Rows

TypeInv == TypeOK /\ HasWork

LEMMA NoRequestType == NoRequest \in Request
BY DEF NoRequest, Request, Ops

LEMMA BatchType ==
  ASSUME NEW items, items \in Batches \/ \E i \in Item : items = <<i>>
  PROVE  items \in Seq(Item) /\ items # <<>>
<1>1. ASSUME NEW k \in 1..MaxBatch, items \in [1..k -> Item]
      PROVE  items \in Seq(Item) /\ items # <<>>
  <2>1. k \in Nat /\ k >= 1
    BY AssignmentsAssumption
  <2>2. items \in Seq(Item) /\ DOMAIN items = 1..k /\ 1 \in 1..k
    BY <1>1, <2>1, SeqDef
  <2>3. DOMAIN <<>> = {}
    BY EmptySeq, LenProperties
  <2>. QED
    BY <2>2, <2>3
<1>2. ASSUME NEW i \in Item, items = <<i>>
      PROVE  items \in Seq(Item) /\ items # <<>>
  BY <1>2
<1>. QED
  BY <1>1, <1>2 DEF Batches

LEMMA ReturnType ==
  ASSUME TypeInv, NEW w \in Workers, Return(w)
  PROVE  /\ pc' \in [Workers -> Places] /\ req' \in [Workers -> Request]
         /\ HasWork'
BY NoRequestType
   DEF TypeInv, TypeOK, HasWork, Return, Goto, Places, Creating

LEMMA BeginType ==
  ASSUME TypeInv, NEW w \in Workers, NEW place \in Places, NEW r \in Request,
         Begin(w, r, place),
         place \in Creating => r.items # <<>> /\ r.event \in Events,
         place = "loaded" => r.row \in Rows
  PROVE  /\ pc' \in [Workers -> Places] /\ req' \in [Workers -> Request]
         /\ HasWork' /\ overlapped' \in BOOLEAN
BY DEF TypeInv, TypeOK, HasWork, Begin, Goto

\* A creation that goes on keeps the items it has left.
LEMMA GoOnType ==
  ASSUME TypeInv, NEW w \in Workers, NEW place \in Creating,
         pc[w] \in Creating, Goto(w, place), UNCHANGED req
  PROVE  /\ pc' \in [Workers -> Places] /\ req' \in [Workers -> Request]
         /\ HasWork'
BY DEF TypeInv, TypeOK, HasWork, Goto, Places, Creating

LEMMA NextItemType ==
  ASSUME TypeInv, NEW w \in Workers, NEW broken \in BOOLEAN,
         pc[w] \in Creating, NextItem(w, broken)
  PROVE  /\ pc' \in [Workers -> Places] /\ req' \in [Workers -> Request]
         /\ HasWork'
<1>1. CASE Len(req[w].items) = 1
  BY <1>1, ReturnType DEF NextItem
<1>2. CASE Len(req[w].items) # 1
  <2>1. /\ req[w] \in Request /\ req[w].items \in Seq(Item)
        /\ req[w].items # <<>> /\ req[w].event \in Events
    BY DEF TypeInv, TypeOK, HasWork, Request
  <2>2. Tail(req[w].items) \in Seq(Item) /\ Tail(req[w].items) # <<>>
    <3>1. /\ Tail(req[w].items) \in Seq(Item)
          /\ Len(req[w].items) \in Nat \ {0}
          /\ Len(Tail(req[w].items)) = Len(req[w].items) - 1
      BY <2>1, HeadTailProperties, EmptySeq
    <3>2. Len(Tail(req[w].items)) # 0
      BY <1>2, <3>1
    <3>3. Len(<<>>) = 0
      BY EmptySeq
    <3>. QED
      BY <3>1, <3>2, <3>3
  <2>3. [req[w] EXCEPT !.items = Tail(@), !.broken = broken] \in Request
    BY <2>1, <2>2 DEF Request
  <2>4. /\ req' = [req EXCEPT ![w] =
                       [req[w] EXCEPT !.items = Tail(@), !.broken = broken]]
        /\ pc' = [pc EXCEPT ![w] = "item"]
    BY <1>2 DEF NextItem, Goto
  <2>. QED
    BY <2>1, <2>2, <2>3, <2>4 DEF TypeInv, TypeOK, HasWork, Places, Creating
<1>. QED
  BY <1>1, <1>2

LEMMA LoadType ==
  ASSUME TypeInv, NEW w \in Workers, NEW op \in Ops, NEW n \in Rows,
         NEW role \in Roles \cup {None}, NEW status \in Status \cup {None},
         Load(w, op, n, role, status)
  PROVE  TypeInv'
<1>. DEFINE r == [NoRequest EXCEPT !.op = op, !.row = n, !.role = role,
                                   !.status = status]
<1>1. r \in Request /\ r.row = n
  BY NoRequestType DEF Request, NoRequest
<1>2. Begin(w, r, "loaded") /\ "loaded" \in Places /\ "loaded" \notin Creating
  BY DEF Load, Places, Creating
<1>3. /\ pc' \in [Workers -> Places] /\ req' \in [Workers -> Request]
      /\ HasWork' /\ overlapped' \in BOOLEAN
  <2>. HIDE DEF r
  <2>. QED
    BY <1>1, <1>2, BeginType
<1>. QED
  BY <1>3 DEF Load, TypeInv, TypeOK, tables

LEMMA ArriveType ==
  ASSUME TypeInv, NEW w \in Workers, Arrive(w)
  PROVE  TypeInv'
<1>1. ASSUME NEW op \in {"create", "batch"}, NEW e \in Events,
             NEW items \in Seq(Item), items # <<>>,
             BeginCreate(w, op, e, items)
      PROVE  TypeInv'
  <2>. DEFINE r == [NoRequest EXCEPT !.op = op, !.event = e, !.items = items]
  <2>1. r \in Request /\ r.items = items /\ r.event = e
    BY NoRequestType DEF Request, NoRequest, Ops
  <2>2. Begin(w, r, "item") /\ "item" \in Places
    BY <1>1 DEF BeginCreate, Places
  <2>3. /\ pc' \in [Workers -> Places] /\ req' \in [Workers -> Request]
        /\ HasWork' /\ overlapped' \in BOOLEAN
    <3>. HIDE DEF r
    <3>. QED
      BY <1>1, <2>1, <2>2, BeginType
  <2>. QED
    BY <1>1, <2>3 DEF BeginCreate, TypeInv, TypeOK, tables
<1>2. ASSUME NEW n \in Rows, NEW role \in Roles \cup {None},
             NEW s \in Status \cup {None}, BeginUpdate(w, n, role, s)
      PROVE  TypeInv'
  <2>1. /\ Change(role, assignments[n].role) \in Roles \cup {None}
        /\ Change(s, assignments[n].status) \in Status \cup {None}
    BY DEF Change
  <2>. QED
    BY <1>2, <2>1, LoadType DEF BeginUpdate, Ops
<1>3. ASSUME NEW n \in Rows, NEW s \in Answers, BeginAnswer(w, n, s)
      PROVE  TypeInv'
  BY <1>3, LoadType DEF BeginAnswer, Ops, Status
<1>4. ASSUME NEW n \in Rows, NEW s \in Marks, BeginMark(w, n, s)
      PROVE  TypeInv'
  <2>1. Change(s, assignments[n].status) \in Status \cup {None}
    BY DEF Change, Status
  <2>. QED
    BY <1>4, <2>1, LoadType DEF BeginMark, Ops
<1>5. ASSUME NEW n \in Rows, BeginCancel(w, n) PROVE TypeInv'
  BY <1>5, LoadType DEF BeginCancel, Ops, Status
<1>6. ASSUME NEW n \in Rows, BeginDelete(w, n) PROVE TypeInv'
  BY <1>6, LoadType DEF BeginDelete, Ops
<1>. QED
  BY <1>1, <1>2, <1>3, <1>4, <1>5, <1>6, BatchType DEF Arrive, CheckIn, Marks

LEMMA ServeType ==
  ASSUME TypeInv, NEW w \in Workers, Serve(w)
  PROVE  TypeInv'
<1>0. req[w] \in Request
  BY DEF TypeInv, TypeOK
<1>1. CASE SessionBroken(w)
  BY <1>1, NextItemType DEF SessionBroken, Creating, TypeInv, TypeOK, tables
<1>2. CASE CheckServant(w)
  BY <1>2, NextItemType, GoOnType
     DEF CheckServant, Creating, TypeInv, TypeOK, tables
<1>3. CASE CheckDuplicate(w)
  BY <1>3, NextItemType, GoOnType
     DEF CheckDuplicate, Creating, TypeInv, TypeOK, tables
<1>4. CASE Insert(w)
  <2>1. Current(w) \in Item /\ req[w].event \in Events
    BY <1>0, <1>4 DEF Insert, Current, TypeInv, HasWork, Creating, Request
  <2>2. assignments' \in [Rows -> AssignmentRow]
    BY <1>4, <2>1
       DEF Insert, Item, AssignmentRow, Status, TypeInv, TypeOK
  <2>. QED
    BY <1>4, <2>2, NextItemType DEF Insert, Creating, TypeInv, TypeOK
<1>5. CASE InsertConflict(w)
  BY <1>5, NextItemType DEF InsertConflict, Creating, TypeInv, TypeOK, tables
<1>6. CASE CommitUpdate(w)
  <2>1. req[w].row \in Rows /\ assignments[req[w].row] \in AssignmentRow
    BY <1>6 DEF CommitUpdate, TypeInv, TypeOK, HasWork
  <2>2. Written(assignments[req[w].row], req[w]) \in AssignmentRow
    BY <1>0, <2>1 DEF Written, AssignmentRow, Request
  <2>3. assignments' \in [Rows -> AssignmentRow]
    BY <1>6, <2>1, <2>2 DEF CommitUpdate, TypeInv, TypeOK
  <2>. QED
    BY <1>6, <2>3, ReturnType DEF CommitUpdate, TypeInv, TypeOK
<1>7. CASE CommitDelete(w)
  <2>1. req[w].row \in Rows
    BY <1>7 DEF CommitDelete, TypeInv, HasWork
  <2>2. assignments' \in [Rows -> AssignmentRow]
    BY <1>7, <2>1 DEF CommitDelete, AssignmentRow, TypeInv, TypeOK
  <2>. QED
    BY <1>7, <2>2, ReturnType DEF CommitDelete, TypeInv, TypeOK
<1>8. CASE RowGone(w)
  BY <1>8, ReturnType DEF RowGone, TypeInv, TypeOK, tables
<1>. QED
  BY <1>1, <1>2, <1>3, <1>4, <1>5, <1>6, <1>7, <1>8 DEF Serve

LEMMA EnvironmentType ==
  ASSUME TypeInv, Environment
  PROVE  TypeInv'
<1>1. ASSUME NEW e \in Events, DeleteEvent(e) PROVE TypeInv'
  <2>1. assignments' \in [Rows -> AssignmentRow]
    BY <1>1 DEF DeleteEvent, AssignmentRow, TypeInv, TypeOK
  <2>. QED
    BY <1>1, <2>1 DEF DeleteEvent, TypeInv, TypeOK, HasWork
<1>2. ASSUME NEW u \in Users, SwitchAccount(u) PROVE TypeInv'
  BY <1>2 DEF SwitchAccount, TypeInv, TypeOK, HasWork
<1>3. ASSUME NEW w \in Workers, Abort(w) PROVE TypeInv'
  <2>1. aborts' \in 0..MaxAborts
    BY <1>3, AssignmentsAssumption DEF Abort, TypeInv, TypeOK
  <2>. QED
    BY <1>3, <2>1, ReturnType DEF Abort, TypeInv, TypeOK, tables
<1>. QED
  BY <1>1, <1>2, <1>3 DEF Environment

LEMMA InitType == Init => TypeInv
<1>. SUFFICES ASSUME Init PROVE TypeInv
  OBVIOUS
<1>1. assignments \in [Rows -> AssignmentRow]
  BY DEF Init, AssignmentRow
<1>2. pc \in [Workers -> Places] /\ req \in [Workers -> Request]
  BY NoRequestType DEF Init, Places
<1>3. HasWork
  BY DEF Init, HasWork, Creating
<1>4. aborts \in 0..MaxAborts
  BY AssignmentsAssumption DEF Init
<1>5. overlapped \in BOOLEAN
  BY DEF Init
<1>. QED
  BY <1>1, <1>2, <1>3, <1>4, <1>5 DEF Init, TypeInv, TypeOK

LEMMA NextType == TypeInv /\ [Next]_vars => TypeInv'
<1>. SUFFICES ASSUME TypeInv, [Next]_vars PROVE TypeInv'
  OBVIOUS
<1>1. CASE Next
  BY <1>1, ArriveType, ServeType, EnvironmentType DEF Next
<1>2. CASE UNCHANGED vars
  BY <1>2 DEF vars, TypeInv, TypeOK, HasWork
<1>. QED
  BY <1>1, <1>2

LEMMA TypeInvariant == Spec => []TypeInv
BY InitType, NextType, PTL DEF Spec

\* Every reachable state is well typed.
THEOREM TypeCorrect == Spec => []TypeOK
BY TypeInvariant, PTL DEF TypeInv

(***************************************************************************)
(* What the constraints of the database keep, whichever requests overlap.  *)
(***************************************************************************)

\* A step that brings no row to life and moves none to another event or
\* servant keeps one assignment per event and servant.
LEMMA NoNewRow ==
  ASSUME OneAssignmentPerServant,
         \A n \in Rows : Exists(n)' =>
             /\ Exists(n)
             /\ assignments'[n].event = assignments[n].event
             /\ assignments'[n].user = assignments[n].user
  PROVE  OneAssignmentPerServant'
BY DEF OneAssignmentPerServant

LEMMA UniqueStep ==
  ASSUME TypeInv, OneAssignmentPerServant, [Next]_vars
  PROVE  OneAssignmentPerServant'
<1>1. CASE UNCHANGED assignments
  BY <1>1 DEF OneAssignmentPerServant, Exists
<1>2. ASSUME NEW w \in Workers, Insert(w) PROVE OneAssignmentPerServant'
  <2>. DEFINE e == req[w].event
              u == Current(w).user
  <2>1. PICK k \in Rows :
            /\ assignments[k].status = "UNUSED"
            /\ assignments' = [assignments EXCEPT ![k] =
                   [event |-> e, user |-> u, role |-> Current(w).role,
                    status |-> "PENDING"]]
    BY <1>2 DEF Insert
  <2>2. /\ assignments'[k].event = e /\ assignments'[k].user = u
        /\ \A n \in Rows \ {k} : assignments'[n] = assignments[n]
    BY <2>1 DEF TypeInv, TypeOK
  <2>3. \A n \in Rows :
            ~(Exists(n) /\ assignments[n].event = e /\ assignments[n].user = u)
    BY <1>2 DEF Insert, Insertable, Of
  <2>. QED
    BY <2>2, <2>3 DEF OneAssignmentPerServant, Exists
<1>3. ASSUME NEW w \in Workers, CommitUpdate(w) PROVE OneAssignmentPerServant'
  <2>1. req[w].row \in Rows /\ Exists(req[w].row)
    BY <1>3 DEF CommitUpdate, TypeInv, HasWork
  <2>2. \A n \in Rows :
            /\ assignments'[n].event = assignments[n].event
            /\ assignments'[n].user = assignments[n].user
            /\ n # req[w].row => assignments'[n] = assignments[n]
    BY <1>3, <2>1 DEF CommitUpdate, Written, TypeInv, TypeOK, AssignmentRow
  <2>3. \A n \in Rows : Exists(n)' => Exists(n)
    BY <2>1, <2>2 DEF Exists
  <2>. QED
    BY <2>2, <2>3, NoNewRow
<1>4. ASSUME NEW w \in Workers, CommitDelete(w) PROVE OneAssignmentPerServant'
  <2>1. req[w].row \in Rows
    BY <1>4 DEF CommitDelete, TypeInv, HasWork
  <2>2. /\ assignments'[req[w].row].status = "DELETED"
        /\ \A n \in Rows \ {req[w].row} : assignments'[n] = assignments[n]
    BY <1>4, <2>1 DEF CommitDelete, TypeInv, TypeOK, AssignmentRow
  <2>. QED
    BY <2>2, NoNewRow DEF Exists
<1>5. ASSUME NEW e \in Events, DeleteEvent(e) PROVE OneAssignmentPerServant'
  <2>1. \A n \in Rows : \/ assignments'[n] = assignments[n]
                        \/ assignments'[n].status = "DELETED"
    BY <1>5 DEF DeleteEvent, TypeInv, TypeOK, AssignmentRow
  <2>. QED
    BY <2>1, NoNewRow DEF Exists
<1>. QED
  BY <1>1, <1>2, <1>3, <1>4, <1>5
     DEF Next, Arrive, Serve, Environment, BeginCreate, BeginUpdate,
         BeginAnswer, BeginMark, CheckIn, BeginCancel, BeginDelete, Load, SessionBroken,
         CheckServant, CheckDuplicate, InsertConflict, RowGone, SwitchAccount,
         Abort, tables, vars

\* A servant has one assignment per event, whichever requests overlap.
THEOREM OneAssignment == Spec => []OneAssignmentPerServant
<1>1. Init => OneAssignmentPerServant
  BY DEF Init, OneAssignmentPerServant, Exists
<1>. QED
  BY <1>1, UniqueStep, TypeInvariant, PTL DEF Spec

LEMMA OrphanStep ==
  ASSUME TypeInv, NoOrphans, [Next]_vars
  PROVE  NoOrphans'
<1>1. CASE UNCHANGED <<assignments, events>>
  BY <1>1 DEF NoOrphans, Exists
<1>2. ASSUME NEW w \in Workers, Insert(w) PROVE NoOrphans'
  <2>1. PICK k \in Rows :
            assignments' = [assignments EXCEPT ![k] =
                [event |-> req[w].event, user |-> Current(w).user,
                 role |-> Current(w).role, status |-> "PENDING"]]
    BY <1>2 DEF Insert
  <2>2. /\ assignments'[k].event = req[w].event /\ req[w].event \in events
        /\ \A n \in Rows \ {k} : assignments'[n] = assignments[n]
    BY <1>2, <2>1 DEF Insert, Insertable, TypeInv, TypeOK
  <2>. QED
    BY <1>2, <2>2 DEF Insert, NoOrphans, Exists
<1>3. ASSUME NEW w \in Workers, CommitUpdate(w) PROVE NoOrphans'
  <2>1. req[w].row \in Rows /\ Exists(req[w].row)
    BY <1>3 DEF CommitUpdate, TypeInv, HasWork
  <2>2. \A n \in Rows :
            /\ assignments'[n].event = assignments[n].event
            /\ n # req[w].row => assignments'[n] = assignments[n]
    BY <1>3, <2>1 DEF CommitUpdate, Written, TypeInv, TypeOK, AssignmentRow
  <2>. QED
    BY <1>3, <2>1, <2>2 DEF CommitUpdate, NoOrphans, Exists
<1>4. ASSUME NEW w \in Workers, CommitDelete(w) PROVE NoOrphans'
  <2>1. req[w].row \in Rows
    BY <1>4 DEF CommitDelete, TypeInv, HasWork
  <2>2. /\ assignments'[req[w].row].status = "DELETED"
        /\ \A n \in Rows \ {req[w].row} : assignments'[n] = assignments[n]
    BY <1>4, <2>1 DEF CommitDelete, TypeInv, TypeOK, AssignmentRow
  <2>. QED
    BY <1>4, <2>2 DEF CommitDelete, NoOrphans, Exists
<1>5. ASSUME NEW e \in Events, DeleteEvent(e) PROVE NoOrphans'
  <2>1. \A n \in Rows :
            \/ assignments'[n] = assignments[n] /\ ~(Exists(n) /\ assignments[n].event = e)
            \/ assignments'[n].status = "DELETED"
    BY <1>5 DEF DeleteEvent, TypeInv, TypeOK, AssignmentRow
  <2>. QED
    BY <1>5, <2>1 DEF DeleteEvent, NoOrphans, Exists
<1>. QED
  BY <1>1, <1>2, <1>3, <1>4, <1>5, ZenonT(40)
     DEF Next, Arrive, Serve, Environment, BeginCreate, BeginUpdate,
         BeginAnswer, BeginMark, CheckIn, BeginCancel, BeginDelete, Load, SessionBroken,
         CheckServant, CheckDuplicate, InsertConflict, RowGone, SwitchAccount,
         Abort, tables, vars

\* No assignment outlives its event, whenever the event is deleted.
THEOREM NoOrphanAssignments == Spec => []NoOrphans
<1>1. Init => NoOrphans
  BY DEF Init, NoOrphans, Exists
<1>. QED
  BY <1>1, OrphanStep, TypeInvariant, PTL DEF Spec

(***************************************************************************)
(* A refusal.                                                              *)
(***************************************************************************)

\* A creation that goes on to its next place refuses nothing.
LEMMA GoOnRefusesNot ==
  ASSUME TypeInv, NEW w \in Workers, NEW place \in Creating,
         Goto(w, place), UNCHANGED req
  PROVE  ~Refused(w)
BY DEF TypeInv, TypeOK, Goto, Refused, Creating

LEMMA NextItemKeeps ==
  ASSUME TypeInv, NEW w \in Workers, NEW broken \in BOOLEAN,
         NextItem(w, broken), Len(req[w].items) > 1
  PROVE  req'[w].items = Tail(req[w].items)
<1>1. req[w] \in Request /\ req \in [Workers -> Request]
  BY DEF TypeInv, TypeOK
<1>2. Len(req[w].items) # 1
  <2>1. req[w].items \in Seq(Item)
    BY <1>1 DEF Request
  <2>2. Len(req[w].items) \in Nat
    BY <2>1, LenProperties
  <2>3. \A k \in Nat : k > 1 => k # 1
    OBVIOUS
  <2>. QED
    BY <2>2, <2>3
<1>3. req' = [req EXCEPT ![w].items = Tail(@), ![w].broken = broken]
  BY <1>2 DEF NextItem
<1>. QED
  BY <1>1, <1>3 DEF Request

\* The step of the request that refuses.
LEMMA ServeReason ==
  ASSUME TypeInv, NEW w \in Workers, Refused(w), Serve(w)
  PROVE  /\ HasReason(w)
         /\ Len(req[w].items) > 1 => req'[w].items = Tail(req[w].items)
<1>0. req[w] \in Request
  BY DEF TypeInv, TypeOK
<1>1. CASE SessionBroken(w)
  BY <1>1, NextItemKeeps DEF SessionBroken, HasReason
<1>2. CASE CheckServant(w)
  BY <1>2, NextItemKeeps, GoOnRefusesNot DEF CheckServant, HasReason, Creating
<1>3. CASE CheckDuplicate(w)
  BY <1>3, NextItemKeeps, GoOnRefusesNot
     DEF CheckDuplicate, HasReason, Creating, Duplicates
<1>4. CASE Insert(w)
  <2>1. PICK n \in Rows :
          /\ assignments[n].status = "UNUSED"
          /\ assignments' = [assignments EXCEPT ![n] =
                [event |-> req[w].event, user |-> Current(w).user,
                 role |-> Current(w).role, status |-> "PENDING"]]
    BY <1>4 DEF Insert
  <2>2. assignments' # assignments
    BY <2>1 DEF TypeInv, TypeOK
  <2>. QED
    BY <2>2 DEF Refused
<1>5. CASE InsertConflict(w)
  BY <1>5, NextItemKeeps DEF InsertConflict, Insertable, HasReason
<1>6. CASE CommitUpdate(w) \/ CommitDelete(w) \/ RowGone(w)
  BY <1>6 DEF CommitUpdate, CommitDelete, RowGone, Refused, TypeInv, HasWork
<1>. QED
  BY <1>1, <1>2, <1>3, <1>4, <1>5, <1>6 DEF Serve

\* However requests overlap, an item of a creation is refused for a reason that
\* holds, and the items after it are kept.
THEOREM RefusalsHaveReason == Spec => RefusalHasReason
<1>1. ASSUME TypeInv, [Next]_vars, NEW w \in Workers, Refused(w)
      PROVE  /\ HasReason(w)
             /\ Len(req[w].items) > 1 => req'[w].items = Tail(req[w].items)
  <2>1. CASE Serve(w)
    BY <1>1, <2>1, ServeReason
  <2>2. ASSUME NEW v \in Workers, v # w, Arrive(v) \/ Serve(v) \/ Abort(v)
        PROVE  pc'[w] = pc[w] /\ req'[w] = req[w]
    BY <1>1, <2>2
       DEF TypeInv, TypeOK, Arrive, Serve, BeginCreate, BeginUpdate,
           BeginAnswer, BeginMark, CheckIn, BeginCancel, BeginDelete, Load, Begin,
           SessionBroken, CheckServant, CheckDuplicate, Insert,
           InsertConflict, CommitUpdate, CommitDelete, RowGone, Abort,
           NextItem, Return, Goto
  <2>3. ~Arrive(w)
    BY <1>1 DEF Refused, Arrive, BeginCreate, BeginUpdate, BeginAnswer,
                BeginMark, CheckIn, BeginCancel, BeginDelete, Load, Begin
  <2>4. ~Abort(w)
    BY <1>1 DEF Refused, Abort, TypeInv, TypeOK
  <2>5. pc'[w] = pc[w] /\ req'[w] = req[w] => ~Refused(w)
    BY DEF Refused
  <2>6. CASE UNCHANGED <<pc, req>>
    BY <1>1, <2>5, <2>6
  <2>. QED
    BY <1>1, <2>1, <2>2, <2>3, <2>4, <2>5, <2>6
       DEF Next, Environment, DeleteEvent, SwitchAccount, vars
<1>2. TypeInv /\ [Next]_vars =>
          \A w \in Workers :
              Refused(w) => /\ HasReason(w)
                            /\ Len(req[w].items) > 1
                                   => req'[w].items = Tail(req[w].items)
  BY <1>1
<1>. QED
  BY <1>2, TypeInvariant, PTL DEF Spec, RefusalHasReason

(***************************************************************************)
(* Until two requests overlap, what was read is still true at the commit.  *)
(***************************************************************************)

\* Only one request is in flight.
OneBusy == \A v, w \in Workers : pc[v] # "idle" /\ pc[w] # "idle" => v = w

StillTrue ==
    \A w \in Workers : pc[w] = "loaded" =>
        \/ ~Exists(req[w].row)
        \/ /\ req[w].op = "answer" => assignments[req[w].row].status = "PENDING"
           /\ req[w].op = "mark" => assignments[req[w].row].status # "CANCELLED"

AloneInv == ~overlapped => OneBusy /\ StillTrue

LEMMA AloneStep ==
  ASSUME TypeInv, AloneInv, [Next]_vars
  PROVE  AloneInv'
<1>. SUFFICES ASSUME ~overlapped, ~overlapped' PROVE (OneBusy /\ StillTrue)'
  <2>. ASSUME overlapped PROVE overlapped'
    <3>1. ASSUME NEW w \in Workers, Arrive(w) PROVE overlapped'
      BY <3>1 DEF Arrive, BeginCreate, BeginUpdate, BeginAnswer, BeginMark,
                  CheckIn, BeginCancel, BeginDelete, Load, Begin
    <3>2. ASSUME NEW w \in Workers, Serve(w) PROVE overlapped'
      BY <3>2 DEF Serve, SessionBroken, CheckServant, CheckDuplicate, Insert,
                  InsertConflict, CommitUpdate, CommitDelete, RowGone
    <3>3. CASE Environment
      BY <3>3 DEF Environment, DeleteEvent, SwitchAccount, Abort
    <3>. QED
      BY <3>1, <3>2, <3>3 DEF Next, vars
  <2>. QED
    BY DEF AloneInv
<1>0. OneBusy /\ StillTrue
  BY DEF AloneInv
<1>1. CASE UNCHANGED vars
  BY <1>0, <1>1 DEF vars, OneBusy, StillTrue, Exists
<1>2. ASSUME NEW w \in Workers, pc[w] # "idle", pc'[w] # "loaded",
             \A v \in Workers \ {w} : pc'[v] = pc[v]
      PROVE  (OneBusy /\ StillTrue)'
  BY <1>0, <1>2 DEF OneBusy, StillTrue
<1>3. ASSUME NEW w \in Workers, NEW r, NEW place, Begin(w, r, place)
      PROVE  /\ pc'[w] = place /\ req'[w] = r /\ OneBusy'
             /\ \A v \in Workers \ {w} : pc'[v] = "idle"
  <2>1. \A v \in Workers : pc[v] = "idle"
    BY <1>3 DEF Begin
  <2>2. pc'[w] = place /\ req'[w] = r
    BY <1>3 DEF Begin, Goto, TypeInv, TypeOK
  <2>3. \A v \in Workers \ {w} : pc'[v] = "idle"
    BY <1>3, <2>1 DEF Begin, Goto, TypeInv, TypeOK
  <2>. QED
    BY <2>2, <2>3 DEF OneBusy
<1>4. ASSUME NEW w \in Workers, NEW op \in Ops, NEW n \in Rows,
             NEW role, NEW status, Load(w, op, n, role, status),
             op = "answer" => assignments[n].status = "PENDING",
             op = "mark" => assignments[n].status # "CANCELLED"
      PROVE  (OneBusy /\ StillTrue)'
  <2>. DEFINE r == [NoRequest EXCEPT !.op = op, !.row = n, !.role = role,
                                     !.status = status]
  <2>1. r.row = n /\ r.op = op
    BY DEF NoRequest
  <2>2. Begin(w, r, "loaded") /\ UNCHANGED assignments
    BY <1>4 DEF Load, tables
  <2>. HIDE DEF r
  <2>. QED
    BY <1>3, <1>4, <2>1, <2>2 DEF StillTrue, Exists
<1>5. ASSUME NEW w \in Workers, Arrive(w) PROVE (OneBusy /\ StillTrue)'
  <2>1. ASSUME NEW op, NEW e, NEW items, BeginCreate(w, op, e, items)
        PROVE  (OneBusy /\ StillTrue)'
    BY <1>3, <2>1 DEF BeginCreate, StillTrue
  <2>2. ASSUME NEW n \in Rows, NEW role, NEW s, BeginUpdate(w, n, role, s)
        PROVE  (OneBusy /\ StillTrue)'
    BY <1>4, <2>2 DEF BeginUpdate, Ops
  <2>3. ASSUME NEW n \in Rows, NEW s, BeginAnswer(w, n, s)
        PROVE  (OneBusy /\ StillTrue)'
    BY <1>4, <2>3 DEF BeginAnswer, Ops
  <2>4. ASSUME NEW n \in Rows, NEW s, BeginMark(w, n, s)
        PROVE  (OneBusy /\ StillTrue)'
    BY <1>4, <2>4 DEF BeginMark, Ops
  <2>5. ASSUME NEW n \in Rows, BeginCancel(w, n) \/ BeginDelete(w, n)
        PROVE  (OneBusy /\ StillTrue)'
    BY <1>4, <2>5 DEF BeginCancel, BeginDelete, Ops
  <2>. QED
    BY <1>5, <2>1, <2>2, <2>3, <2>4, <2>5 DEF Arrive, CheckIn
<1>6. ASSUME NEW w \in Workers, Serve(w) PROVE (OneBusy /\ StillTrue)'
  BY <1>2, <1>6
     DEF Serve, SessionBroken, CheckServant, CheckDuplicate, Insert,
         InsertConflict, CommitUpdate, CommitDelete, RowGone, NextItem, Return,
         Goto, TypeInv, TypeOK
<1>7. ASSUME NEW e \in Events, DeleteEvent(e) PROVE (OneBusy /\ StillTrue)'
  <2>1. \A n \in Rows : \/ assignments'[n] = assignments[n]
                        \/ assignments'[n].status = "DELETED"
    BY <1>7 DEF DeleteEvent, TypeInv, TypeOK, AssignmentRow
  <2>2. \A w \in Workers : pc[w] = "loaded" => req[w].row \in Rows
    BY DEF TypeInv, HasWork
  <2>. QED
    BY <1>0, <1>7, <2>1, <2>2 DEF DeleteEvent, OneBusy, StillTrue, Exists
<1>8. ASSUME NEW u \in Users, SwitchAccount(u) PROVE (OneBusy /\ StillTrue)'
  BY <1>0, <1>8 DEF SwitchAccount, OneBusy, StillTrue, Exists
<1>9. ASSUME NEW w \in Workers, Abort(w) PROVE (OneBusy /\ StillTrue)'
  BY <1>2, <1>9 DEF Abort, Return, Goto, TypeInv, TypeOK
<1>. QED
  BY <1>1, <1>5, <1>6, <1>7, <1>8, <1>9 DEF Next, Environment

\* A request that answers or marks is at its only place.
AtLoaded ==
    \A w \in Workers : req[w].op \in {"answer", "mark"} => pc[w] = "loaded"

LEMMA AtLoadedStep ==
  ASSUME TypeInv, AtLoaded, [Next]_vars
  PROVE  AtLoaded'
<1>1. ASSUME NEW w \in Workers, Return(w) PROVE AtLoaded'
  BY <1>1 DEF Return, Goto, AtLoaded, NoRequest, TypeInv, TypeOK
<1>2. ASSUME NEW w \in Workers, NEW r, Begin(w, r, "loaded") PROVE AtLoaded'
  BY <1>2 DEF Begin, Goto, AtLoaded, TypeInv, TypeOK
<1>3. ASSUME NEW w \in Workers, NEW op \in {"create", "batch"}, NEW e,
             NEW items, BeginCreate(w, op, e, items)
      PROVE  AtLoaded'
  <2>1. req'[w].op = op /\ \A v \in Workers \ {w} : req'[v] = req[v]
    BY <1>3 DEF BeginCreate, Begin, NoRequest, TypeInv, TypeOK
  <2>. QED
    BY <1>3, <2>1 DEF BeginCreate, Begin, Goto, AtLoaded, TypeInv, TypeOK
<1>4. ASSUME NEW w \in Workers, NEW place, pc[w] # "loaded", Goto(w, place),
             UNCHANGED req
      PROVE  AtLoaded'
  BY <1>4 DEF Goto, AtLoaded, TypeInv, TypeOK
<1>5. ASSUME NEW w \in Workers, NEW broken \in BOOLEAN, pc[w] # "loaded",
             NextItem(w, broken)
      PROVE  AtLoaded'
  <2>1. CASE Return(w)
    BY <1>1, <2>1
  <2>2. CASE /\ req' = [req EXCEPT ![w].items = Tail(@), ![w].broken = broken]
             /\ Goto(w, "item")
    <3>1. \A v \in Workers : req'[v].op = req[v].op
      BY <2>2 DEF TypeInv, TypeOK, Request
    <3>. QED
      BY <1>5, <2>2, <3>1 DEF Goto, AtLoaded, TypeInv, TypeOK
  <2>. QED
    BY <1>5, <2>1, <2>2 DEF NextItem
<1>6. CASE UNCHANGED <<pc, req>>
  BY <1>6 DEF AtLoaded
<1>7. ASSUME NEW w \in Workers, Arrive(w) PROVE AtLoaded'
  BY <1>2, <1>3, <1>7
     DEF Arrive, BeginUpdate, BeginAnswer, BeginMark, CheckIn, BeginCancel, BeginDelete,
         Load
<1>8. ASSUME NEW w \in Workers, Serve(w) PROVE AtLoaded'
  BY <1>1, <1>4, <1>5, <1>8
     DEF Serve, SessionBroken, CheckServant, CheckDuplicate, Insert,
         InsertConflict, CommitUpdate, CommitDelete, RowGone
<1>9. CASE Environment
  BY <1>1, <1>6, <1>9 DEF Environment, DeleteEvent, SwitchAccount, Abort
<1>. QED
  BY <1>6, <1>7, <1>8, <1>9 DEF Next, vars

LEMMA AloneInvariant == Spec => [](TypeInv /\ AloneInv /\ AtLoaded)
<1>1. Init => AloneInv /\ AtLoaded
  BY DEF Init, AloneInv, OneBusy, StillTrue, AtLoaded, NoRequest
<1>. QED
  BY <1>1, AloneStep, AtLoadedStep, InitType, NextType, PTL DEF Spec

\* What an answer or a mark commits follows what it read, as long as no other
\* request was in flight.
LEMMA CommitStep ==
  ASSUME TypeInv, AloneInv, AtLoaded, [Next]_vars,
         NEW w \in Workers, NEW n \in Rows
  PROVE  Answered(w, n) \/ Marked(w, n) => overlapped
<1>. SUFFICES ASSUME ~overlapped, req[w].op \in {"answer", "mark"},
                     pc'[w] = "idle", assignments'[n] # assignments[n]
              PROVE  /\ req[w].op = "answer" => assignments[n].status = "PENDING"
                     /\ req[w].op = "mark" => assignments[n].status # "CANCELLED"
  BY DEF Answered, Marked
<1>0. pc[w] = "loaded" /\ OneBusy /\ StillTrue
  BY DEF AloneInv, AtLoaded
<1>1. \E v \in Workers : Insert(v) \/ CommitUpdate(v) \/ CommitDelete(v)
  <2>1. ASSUME NEW e \in Events, DeleteEvent(e) PROVE FALSE
    BY <1>0, <2>1 DEF DeleteEvent
  <2>. QED
    BY <2>1
       DEF Next, Arrive, Serve, Environment, BeginCreate, BeginUpdate,
           BeginAnswer, BeginMark, CheckIn, BeginCancel, BeginDelete, Load,
           SessionBroken, CheckServant, CheckDuplicate, InsertConflict,
           RowGone, SwitchAccount, Abort, tables, vars
<1>2. CommitUpdate(w)
  BY <1>0, <1>1 DEF OneBusy, Insert, CommitUpdate, CommitDelete
<1>3. n = req[w].row
  BY <1>2 DEF CommitUpdate, TypeInv, TypeOK, HasWork
<1>. QED
  BY <1>0, <1>2, <1>3 DEF CommitUpdate, StillTrue

\* Until requests overlap, a servant's answer changes a pending assignment only.
THEOREM AnswersPending == Spec => AnswersPendingOnly
<1>1. TypeInv /\ AloneInv /\ AtLoaded /\ [Next]_vars =>
          \A w \in Workers, n \in Rows : Answered(w, n) => overlapped
  BY CommitStep
<1>. QED
  BY <1>1, AloneInvariant, PTL DEF Spec, AnswersPendingOnly

\* Until requests overlap, a cancelled assignment is never marked.
THEOREM MarksUncancelled == Spec => MarksUncancelledOnly
<1>1. TypeInv /\ AloneInv /\ AtLoaded /\ [Next]_vars =>
          \A w \in Workers, n \in Rows : Marked(w, n) => overlapped
  BY CommitStep
<1>. QED
  BY <1>1, AloneInvariant, PTL DEF Spec, MarksUncancelledOnly
=============================================================================
