--------------------------- MODULE RollCallProofs ----------------------------
(***************************************************************************)
(* Proofs about RollCall and the convocations it is composed with, for any *)
(* number of requests, runs of the daily task, sessions, servants, rows    *)
(* and thresholds: what is true of the convocations whoever calls them     *)
(* (the lemmas and theorems about Parents), then of the roll call.         *)
(***************************************************************************)
EXTENDS RollCall, FiniteSetTheorems, SequenceTheorems, TLAPS

-----------------------------------------------------------------------------
(***************************************************************************)
(* The convocations, whatever calls them: the types.                       *)
(***************************************************************************)

LEMMA ParentsAssumption == Parents!ConvocationsAssumption
BY RollCallAssumption DEF Parents!ConvocationsAssumption

LEMMA NoRequestType == Parents!NoRequest \in Parents!Request
BY DEF Parents!NoRequest, Parents!Request, Parents!Ops

LEMMA ParentsReturnType ==
  ASSUME Parents!TypeInv, NEW p \in Parents!Procs, Parents!Return(p)
  PROVE  /\ pc' \in [Parents!Procs -> Parents!Places]
         /\ req' \in [Parents!Procs -> Parents!Request]
         /\ Parents!HasWork'
BY NoRequestType
   DEF Parents!TypeInv, Parents!TypeOK, Parents!HasWork, Parents!Return, Parents!Goto,
       Parents!Places

LEMMA ParentsGotoType ==
  ASSUME Parents!TypeInv, NEW p \in Parents!Procs, NEW place \in Parents!Places,
         Parents!Goto(p, place), UNCHANGED req,
         \/ pc[p] = "lookup" /\ place = "insert"
         \/ pc[p] = "suspending" /\ place = "expiring"
  PROVE  /\ pc' \in [Parents!Procs -> Parents!Places]
         /\ req' \in [Parents!Procs -> Parents!Request]
         /\ Parents!HasWork'
BY DEF Parents!TypeInv, Parents!TypeOK, Parents!HasWork, Parents!Goto

LEMMA ParentsBeginType ==
  ASSUME Parents!TypeInv, NEW p \in Parents!Procs, NEW place \in Parents!Places,
         NEW r \in Parents!Request,
         Parents!Begin(p, r, place), place # "suspending",
         place \in {"lookup", "insert"} =>
             /\ r.servant \in Servants /\ r.motif \in Motifs
             /\ r.by \in Managers \cup {SystemId},
         place = "loaded" => r.row \in Rows /\ r.by \in Managers
  PROVE  Parents!TypeInv'
BY DEF Parents!TypeInv, Parents!TypeOK, Parents!HasWork, Parents!Begin, Parents!Goto,
       Parents!tables

LEMMA ParentsArriveType ==
  ASSUME Parents!TypeInv, NEW p \in Parents!Procs
  PROVE  /\ Parents!Arrive(p) => Parents!TypeInv'
         /\ Parents!BeginExpire(p) => Parents!TypeInv'
<1>1. ASSUME NEW s \in Servants, NEW m \in Motifs,
             NEW by \in Managers \cup {SystemId},
             Parents!BeginCreate(p, s, m, by) \/ Parents!BeginConvene(p, s, m, by)
      PROVE  Parents!TypeInv'
  <2>. DEFINE r(op) == [Parents!NoRequest EXCEPT !.op = op, !.servant = s,
                                                 !.motif = m, !.by = by]
  <2>1. \A op \in Parents!Ops : /\ r(op) \in Parents!Request /\ r(op).servant = s
                                /\ r(op).motif = m /\ r(op).by = by
    BY NoRequestType DEF Parents!Request, Parents!NoRequest, Parents!Ops
  <2>2. \/ Parents!Begin(p, r("create"), "insert") \/ Parents!Begin(p, r("convene"), "lookup")
    BY <1>1 DEF Parents!BeginCreate, Parents!BeginConvene
  <2>3. /\ {"create", "convene"} \subseteq Parents!Ops
        /\ {"insert", "lookup"} \subseteq Parents!Places
    BY DEF Parents!Ops, Parents!Places
  <2>. HIDE DEF r
  <2>. QED
    BY <2>1, <2>2, <2>3, ParentsBeginType
<1>2. ASSUME NEW c \in Rows, NEW by \in Managers, Parents!BeginHonor(p, c, by)
      PROVE  Parents!TypeInv'
  <2>. DEFINE r == [Parents!NoRequest EXCEPT !.op = "honor", !.row = c, !.by = by]
  <2>1. r \in Parents!Request /\ r.row = c /\ r.by = by
    BY NoRequestType DEF Parents!Request, Parents!NoRequest, Parents!Ops
  <2>2. Parents!Begin(p, r, "loaded") /\ "loaded" \in Parents!Places
    BY <1>2 DEF Parents!BeginHonor, Parents!Places
  <2>. HIDE DEF r
  <2>. QED
    BY <2>1, <2>2, ParentsBeginType
<1>3. ASSUME Parents!BeginExpire(p) PROVE Parents!TypeInv'
  <2>. DEFINE r == [Parents!NoRequest EXCEPT !.op = "expire", !.rows = Parents!Expired]
  <2>1. r \in Parents!Request
    BY NoRequestType
       DEF Parents!Request, Parents!NoRequest, Parents!Ops, Parents!Expired,
           Parents!TypeInv, Parents!TypeOK
  <2>2. Parents!Begin(p, r, "expiring") /\ "expiring" \in Parents!Places
    BY <1>3 DEF Parents!BeginExpire, Parents!Places
  <2>. HIDE DEF r
  <2>. QED
    BY <2>1, <2>2, ParentsBeginType
<1>. QED
  BY <1>1, <1>2, <1>3 DEF Parents!Arrive

LEMMA ParentsServeType ==
  ASSUME Parents!TypeInv, NEW p \in Parents!Procs, Parents!Serve(p)
  PROVE  Parents!TypeInv'
<1>0. req[p] \in Parents!Request
  BY DEF Parents!TypeInv, Parents!TypeOK
<1>1. CASE Parents!LookupPending(p)
  <2>1. CASE Parents!Return(p)
    BY <1>1, <2>1, ParentsReturnType
       DEF Parents!LookupPending, Parents!TypeInv, Parents!TypeOK, Parents!tables
  <2>2. CASE Parents!Goto(p, "insert") /\ UNCHANGED req
    <3>1. "insert" \in Parents!Places /\ pc[p] = "lookup"
      BY <1>1 DEF Parents!LookupPending, Parents!Places
    <3>2. /\ pc' \in [Parents!Procs -> Parents!Places]
          /\ req' \in [Parents!Procs -> Parents!Request]
          /\ Parents!HasWork'
      BY <2>2, <3>1 DEF Parents!Goto, Parents!HasWork, Parents!TypeInv, Parents!TypeOK
    <3>. QED
      BY <1>1, <3>2
         DEF Parents!LookupPending, Parents!TypeInv, Parents!TypeOK, Parents!tables
  <2>. QED
    BY <1>1, <2>1, <2>2 DEF Parents!LookupPending
<1>2. CASE Parents!Insert(p)
  <2>1. /\ req[p].servant \in Servants /\ req[p].motif \in Motifs
        /\ req[p].by \in Managers \cup {SystemId}
    BY <1>2 DEF Parents!Insert, Parents!TypeInv, Parents!HasWork
  <2>2. convocations' \in [Rows -> Parents!Convocation]
    BY <1>2, <2>1
       DEF Parents!Insert, Parents!Convocation, Parents!Status, Parents!TypeInv,
           Parents!TypeOK
  <2>. QED
    BY <1>2, <2>2, ParentsReturnType DEF Parents!Insert, Parents!TypeInv, Parents!TypeOK
<1>3. CASE Parents!InsertRefused(p)
  BY <1>3, ParentsReturnType
     DEF Parents!InsertRefused, Parents!TypeInv, Parents!TypeOK, Parents!tables
<1>4. CASE Parents!CommitHonor(p)
  <2>1. req[p].row \in Rows /\ req[p].by \in Managers
    BY <1>4 DEF Parents!CommitHonor, Parents!TypeInv, Parents!HasWork
  <2>2. convocations' \in [Rows -> Parents!Convocation]
    BY <1>4, <2>1
       DEF Parents!CommitHonor, Parents!Convocation, Parents!Status, Parents!TypeInv,
           Parents!TypeOK
  <2>. QED
    BY <1>4, <2>2, ParentsReturnType
       DEF Parents!CommitHonor, Parents!TypeInv, Parents!TypeOK
<1>5. CASE Parents!CommitExpire(p)
  <2>1. PICK c \in req[p].rows :
            /\ convocations' = [convocations EXCEPT ![c].status = "SANS_REPONSE"]
            /\ req' = [req EXCEPT ![p].rows = @ \ {c}, ![p].row = c]
    BY <1>5 DEF Parents!CommitExpire
  <2>2. c \in Rows
    BY <1>0 DEF Parents!Request
  <2>3. convocations' \in [Rows -> Parents!Convocation]
    BY <2>1, <2>2
       DEF Parents!Convocation, Parents!Status, Parents!TypeInv, Parents!TypeOK
  <2>4. req' \in [Parents!Procs -> Parents!Request] /\ req'[p].row = c
    BY <1>0, <2>1, <2>2 DEF Parents!Request, Parents!TypeInv, Parents!TypeOK
  <2>5. \A q \in Parents!Procs \ {p} : req'[q] = req[q] /\ pc'[q] = pc[q]
    BY <1>5, <2>1
       DEF Parents!CommitExpire, Parents!Goto, Parents!TypeInv, Parents!TypeOK
  <2>6. pc' \in [Parents!Procs -> Parents!Places] /\ pc'[p] = "suspending"
    BY <1>5
       DEF Parents!CommitExpire, Parents!Goto, Parents!Places, Parents!TypeInv,
           Parents!TypeOK
  <2>7. Parents!HasWork'
    BY <2>2, <2>4, <2>5, <2>6 DEF Parents!HasWork, Parents!TypeInv
  <2>. QED
    BY <1>5, <2>3, <2>4, <2>6, <2>7
       DEF Parents!CommitExpire, Parents!TypeInv, Parents!TypeOK
<1>6. CASE Parents!Suspend(p)
  BY <1>6, ParentsReturnType, ParentsGotoType
     DEF Parents!Suspend, Parents!TypeInv, Parents!TypeOK, Parents!Places
<1>. QED
  BY <1>1, <1>2, <1>3, <1>4, <1>5, <1>6 DEF Parents!Serve

LEMMA ParentsEnvironmentType ==
  ASSUME Parents!TypeInv, Parents!Environment
  PROVE  Parents!TypeInv'
<1>1. ASSUME NEW c \in Rows, Parents!DeadlinePasses(c) PROVE Parents!TypeInv'
  BY <1>1 DEF Parents!DeadlinePasses, Parents!TypeInv, Parents!TypeOK, Parents!HasWork
<1>2. ASSUME NEW s \in Servants, Parents!Reactivate(s) PROVE Parents!TypeInv'
  BY <1>2 DEF Parents!Reactivate, Parents!TypeInv, Parents!TypeOK, Parents!HasWork
<1>3. ASSUME NEW p \in Parents!Procs, Parents!Abort(p) PROVE Parents!TypeInv'
  <2>1. aborts' \in 0..MaxAborts
    BY <1>3, ParentsAssumption DEF Parents!Abort, Parents!TypeInv, Parents!TypeOK
  <2>. QED
    BY <1>3, <2>1, ParentsReturnType
       DEF Parents!Abort, Parents!TypeInv, Parents!TypeOK, Parents!tables
<1>. QED
  BY <1>1, <1>2, <1>3 DEF Parents!Environment

LEMMA ParentsInitType == Parents!Init => Parents!TypeInv
<1>. SUFFICES ASSUME Parents!Init PROVE Parents!TypeInv
  OBVIOUS
<1>1. convocations \in [Rows -> Parents!Convocation]
  BY DEF Parents!Init, Parents!Convocation, Parents!Status
<1>2. pc \in [Parents!Procs -> Parents!Places] /\ req \in [Parents!Procs -> Parents!Request]
  BY NoRequestType DEF Parents!Init, Parents!Places
<1>3. Parents!HasWork
  BY DEF Parents!Init, Parents!HasWork
<1>4. aborts \in 0..MaxAborts
  BY ParentsAssumption DEF Parents!Init
<1>5. overlapped \in BOOLEAN
  BY DEF Parents!Init
<1>. QED
  BY <1>1, <1>2, <1>3, <1>4, <1>5 DEF Parents!Init, Parents!TypeInv, Parents!TypeOK

LEMMA ParentsNextType == Parents!TypeInv /\ [Parents!Next]_(Parents!vars) => Parents!TypeInv'
<1>. SUFFICES ASSUME Parents!TypeInv, [Parents!Next]_(Parents!vars) PROVE Parents!TypeInv'
  OBVIOUS
<1>1. CASE Parents!Next
  BY <1>1, ParentsArriveType, ParentsServeType, ParentsEnvironmentType
     DEF Parents!Next, Parents!Procs
<1>2. CASE UNCHANGED Parents!vars
  BY <1>2 DEF Parents!vars, Parents!convocationVars, Parents!TypeInv, Parents!TypeOK,
              Parents!HasWork
<1>. QED
  BY <1>1, <1>2

LEMMA ParentsTypeInvariant == Parents!Spec => []Parents!TypeInv
BY ParentsInitType, ParentsNextType, PTL DEF Parents!Spec

\* Every reachable state is well typed.
THEOREM ParentsTyped == Parents!Spec => []Parents!TypeOK
BY ParentsTypeInvariant, PTL DEF Parents!TypeInv

(***************************************************************************)
(* Who received the parent.                                                *)
(***************************************************************************)

LEMMA SignedStep ==
  ASSUME Parents!TypeInv, Parents!HonoredIsSigned, [Parents!Next]_(Parents!vars)
  PROVE  Parents!HonoredIsSigned'
<1>1. CASE UNCHANGED convocations
  BY <1>1 DEF Parents!HonoredIsSigned
<1>2. ASSUME NEW p \in Parents!Procs, Parents!Insert(p) PROVE Parents!HonoredIsSigned'
  BY <1>2 DEF Parents!Insert, Parents!HonoredIsSigned, Parents!TypeInv, Parents!TypeOK
<1>3. ASSUME NEW p \in Parents!Procs, Parents!CommitHonor(p) PROVE Parents!HonoredIsSigned'
  <2>1. req[p].row \in Rows /\ req[p].by # None
    BY <1>3, ParentsAssumption DEF Parents!CommitHonor, Parents!TypeInv, Parents!HasWork
  <2>. QED
    BY <1>3, <2>1
       DEF Parents!CommitHonor, Parents!HonoredIsSigned, Parents!TypeInv,
           Parents!TypeOK, Parents!Convocation
<1>4. ASSUME NEW p \in Parents!Procs, Parents!CommitExpire(p) PROVE Parents!HonoredIsSigned'
  <2>1. PICK c \in req[p].rows :
            convocations' = [convocations EXCEPT ![c].status = "SANS_REPONSE"]
    BY <1>4 DEF Parents!CommitExpire
  <2>. QED
    BY <2>1
       DEF Parents!HonoredIsSigned, Parents!TypeInv, Parents!TypeOK, Parents!Convocation
<1>. QED
  BY <1>1, <1>2, <1>3, <1>4
     DEF Parents!Next, Parents!Arrive, Parents!Serve, Parents!Environment,
         Parents!BeginCreate, Parents!BeginConvene, Parents!BeginHonor,
         Parents!BeginExpire, Parents!Begin, Parents!LookupPending,
         Parents!InsertRefused, Parents!Suspend, Parents!DeadlinePasses,
         Parents!Reactivate, Parents!Abort, Parents!tables, Parents!vars, Parents!convocationVars

\* Every honored convocation names who received the parent.
THEOREM HonoredSigned == Parents!Spec => []HonoredIsSigned
<1>1. Parents!Init => Parents!HonoredIsSigned
  BY DEF Parents!Init, Parents!HonoredIsSigned
<1>2. Parents!HonoredIsSigned => HonoredIsSigned
  BY DEF Parents!HonoredIsSigned, HonoredIsSigned
<1>. QED
  BY <1>1, <1>2, SignedStep, ParentsTypeInvariant, PTL DEF Parents!Spec

(***************************************************************************)
(* Suspension.                                                             *)
(***************************************************************************)

LEMMA OverdueStep ==
  ASSUME Parents!TypeInv, Parents!WorksOnOverdue, [Parents!Next]_(Parents!vars)
  PROVE  Parents!WorksOnOverdue'
<1>1. ASSUME NEW p \in Parents!Procs, NEW r, NEW place,
             Parents!Begin(p, r, place), place # "suspending",
             place = "expiring" => r.rows \subseteq overdue
      PROVE  Parents!WorksOnOverdue'
  BY <1>1
     DEF Parents!Begin, Parents!Goto, Parents!WorksOnOverdue, Parents!tables,
         Parents!TypeInv, Parents!TypeOK
<1>2. ASSUME NEW p \in Parents!Procs, Parents!Return(p), UNCHANGED overdue
      PROVE  Parents!WorksOnOverdue'
  BY <1>2
     DEF Parents!Return, Parents!Goto, Parents!WorksOnOverdue, Parents!TypeInv,
         Parents!TypeOK
<1>3. ASSUME NEW p \in Parents!Procs, NEW place, Parents!Goto(p, place), UNCHANGED req,
             UNCHANGED overdue, place # "suspending",
             place = "expiring" => pc[p] = "suspending"
      PROVE  Parents!WorksOnOverdue'
  BY <1>3 DEF Parents!Goto, Parents!WorksOnOverdue, Parents!TypeInv, Parents!TypeOK
<1>4. ASSUME NEW p \in Parents!Procs, Parents!CommitExpire(p) PROVE Parents!WorksOnOverdue'
  <2>1. PICK c \in req[p].rows :
            req' = [req EXCEPT ![p].rows = @ \ {c}, ![p].row = c]
    BY <1>4 DEF Parents!CommitExpire
  <2>2. /\ req'[p].rows = req[p].rows \ {c} /\ req'[p].row = c
        /\ \A q \in Parents!Procs \ {p} : req'[q] = req[q]
    BY <2>1 DEF Parents!TypeInv, Parents!TypeOK, Parents!Request
  <2>. QED
    BY <1>4, <2>2
       DEF Parents!CommitExpire, Parents!Goto, Parents!WorksOnOverdue, Parents!TypeInv,
           Parents!TypeOK
<1>5. ASSUME NEW p \in Parents!Procs, Parents!Arrive(p) \/ Parents!BeginExpire(p)
      PROVE  Parents!WorksOnOverdue'
  <2>1. ASSUME Parents!BeginExpire(p) PROVE Parents!WorksOnOverdue'
    <3>1. [Parents!NoRequest EXCEPT !.op = "expire", !.rows = Parents!Expired].rows
              \subseteq overdue
      BY DEF Parents!NoRequest, Parents!Expired
    <3>. QED
      BY <1>1, <2>1, <3>1 DEF Parents!BeginExpire
  <2>. QED
    BY <1>1, <1>5, <2>1
       DEF Parents!Arrive, Parents!BeginCreate, Parents!BeginConvene, Parents!BeginHonor
<1>6. ASSUME NEW p \in Parents!Procs, Parents!Serve(p) PROVE Parents!WorksOnOverdue'
  BY <1>2, <1>3, <1>4, <1>6
     DEF Parents!Serve, Parents!LookupPending, Parents!Insert, Parents!InsertRefused,
         Parents!CommitHonor, Parents!Suspend, Parents!tables
<1>7. CASE Parents!Environment
  BY <1>2, <1>7
     DEF Parents!Environment, Parents!DeadlinePasses, Parents!Reactivate, Parents!Abort,
         Parents!tables, Parents!WorksOnOverdue
<1>8. CASE UNCHANGED Parents!vars
  BY <1>8 DEF Parents!vars, Parents!convocationVars, Parents!WorksOnOverdue
<1>. QED
  BY <1>5, <1>6, <1>7, <1>8 DEF Parents!Next, Parents!Procs

\* Only a servant with an overdue convocation is suspended.
THEOREM SuspensionDue == Parents!Spec => SuspensionIsDue
<1>1. Parents!Init => Parents!WorksOnOverdue
  BY DEF Parents!Init, Parents!WorksOnOverdue
<1>2. Parents!TypeInv /\ Parents!WorksOnOverdue /\ [Parents!Next]_(Parents!vars) =>
          \A s \in active \ active' :
              \E c \in overdue : convocations[c].servant = s
  <2>. SUFFICES ASSUME Parents!TypeInv, Parents!WorksOnOverdue, [Parents!Next]_(Parents!vars),
                       NEW s \in active \ active'
                PROVE  \E c \in overdue : convocations[c].servant = s
    OBVIOUS
  <2>1. \E p \in Parents!Procs : Parents!Suspend(p)
    BY DEF Parents!Next, Parents!Arrive, Parents!Serve, Parents!Environment,
           Parents!BeginCreate, Parents!BeginConvene, Parents!BeginHonor,
           Parents!BeginExpire, Parents!Begin, Parents!LookupPending, Parents!Insert,
           Parents!InsertRefused, Parents!CommitHonor, Parents!CommitExpire,
           Parents!DeadlinePasses, Parents!Reactivate, Parents!Abort, Parents!tables,
           Parents!vars, Parents!convocationVars
  <2>. QED
    BY <2>1 DEF Parents!Suspend, Parents!WorksOnOverdue
<1>. QED
  BY <1>1, <1>2, OverdueStep, ParentsTypeInvariant, PTL
     DEF Parents!Spec, SuspensionIsDue, Parents!vars, Parents!convocationVars,
         convocationVars

(***************************************************************************)
(* Until two processes overlap, what was read is still true at the commit. *)
(***************************************************************************)

LEMMA ParentsAloneStep ==
  ASSUME Parents!TypeInv, Parents!AloneInv, [Parents!Next]_(Parents!vars)
  PROVE  Parents!AloneInv'
<1>. SUFFICES ASSUME ~overlapped, ~overlapped'
              PROVE  (Parents!OneBusy /\ Parents!RowsHeard /\ Parents!StillTrue)'
  <2>. ASSUME overlapped PROVE overlapped'
    BY DEF Parents!Next, Parents!Arrive, Parents!Serve, Parents!Environment,
           Parents!vars, Parents!convocationVars, Parents!BeginCreate, Parents!BeginConvene,
           Parents!BeginHonor,
           Parents!BeginExpire, Parents!Begin, Parents!LookupPending, Parents!Insert,
           Parents!InsertRefused, Parents!CommitHonor, Parents!CommitExpire,
           Parents!Suspend, Parents!DeadlinePasses, Parents!Reactivate, Parents!Abort
  <2>. QED
    BY DEF Parents!AloneInv
<1>0. Parents!OneBusy /\ Parents!RowsHeard /\ Parents!StillTrue
  BY DEF Parents!AloneInv
<1>1. ASSUME NEW p \in Parents!Procs, NEW r, NEW place, Parents!Begin(p, r, place),
             place = "loaded" => Parents!Open(r.row),
             place = "insert" => r.op # "convene",
             place \in {"expiring", "suspending"} =>
                 \A c \in r.rows : Parents!Open(c)
      PROVE  (Parents!OneBusy /\ Parents!RowsHeard /\ Parents!StillTrue)'
  <2>1. \A q \in Parents!Procs : pc[q] = "idle"
    BY <1>1 DEF Parents!Begin
  <2>2. /\ pc'[p] = place /\ req'[p] = r
        /\ \A q \in Parents!Procs \ {p} : pc'[q] = "idle"
    BY <1>1, <2>1 DEF Parents!Begin, Parents!Goto, Parents!TypeInv, Parents!TypeOK
  <2>3. UNCHANGED convocations
    BY <1>1 DEF Parents!Begin, Parents!tables
  <2>4. Parents!OneBusy' /\ Parents!StillTrue'
    BY <1>1, <2>2, <2>3 DEF Parents!OneBusy, Parents!StillTrue, Parents!Open
  <2>. QED
    BY <1>0, <2>3, <2>4 DEF Parents!RowsHeard, Parents!Open, Parents!Unheard
<1>2. ASSUME NEW p \in Parents!Procs, Parents!Return(p), pc[p] # "idle", Parents!RowsHeard'
      PROVE  (Parents!OneBusy /\ Parents!RowsHeard /\ Parents!StillTrue)'
  <2>1. \A q \in Parents!Procs : pc'[q] = "idle"
    BY <1>0, <1>2
       DEF Parents!Return, Parents!Goto, Parents!OneBusy, Parents!TypeInv,
           Parents!TypeOK
  <2>. QED
    BY <1>2, <2>1 DEF Parents!OneBusy, Parents!StillTrue
<1>3. UNCHANGED convocations => Parents!RowsHeard'
  BY <1>0 DEF Parents!RowsHeard, Parents!Open, Parents!Unheard
<1>4. ASSUME NEW p \in Parents!Procs, Parents!Arrive(p)
      PROVE  (Parents!OneBusy /\ Parents!RowsHeard /\ Parents!StillTrue)'
  <2>1. ASSUME NEW c \in Rows, NEW by, Parents!BeginHonor(p, c, by)
        PROVE  (Parents!OneBusy /\ Parents!RowsHeard /\ Parents!StillTrue)'
    <3>1. [Parents!NoRequest EXCEPT !.op = "honor", !.row = c, !.by = by].row = c
      BY DEF Parents!NoRequest
    <3>. QED
      BY <1>1, <2>1, <3>1 DEF Parents!BeginHonor, Parents!Open
  <2>2. ASSUME NEW s, NEW m, NEW by, Parents!BeginCreate(p, s, m, by)
        PROVE  (Parents!OneBusy /\ Parents!RowsHeard /\ Parents!StillTrue)'
    <3>1. [Parents!NoRequest EXCEPT !.op = "create", !.servant = s, !.motif = m,
                                    !.by = by].op = "create"
      BY DEF Parents!NoRequest
    <3>. QED
      BY <1>1, <2>2, <3>1 DEF Parents!BeginCreate
  <2>. QED
    BY <1>1, <1>4, <2>1, <2>2 DEF Parents!Arrive, Parents!BeginConvene
<1>5. ASSUME NEW p \in Parents!Procs, Parents!BeginExpire(p)
      PROVE  (Parents!OneBusy /\ Parents!RowsHeard /\ Parents!StillTrue)'
  <2>1. \A c \in [Parents!NoRequest EXCEPT !.op = "expire", !.rows = Parents!Expired].rows :
            Parents!Open(c)
    BY DEF Parents!NoRequest, Parents!Expired, Parents!Open
  <2>. QED
    BY <1>1, <1>5, <2>1 DEF Parents!BeginExpire
<1>6. ASSUME NEW p \in Parents!Procs, NEW place, Parents!Goto(p, place), pc[p] # "idle",
             Parents!RowsHeard', place # "loaded",
             place = "insert" =>
                 \A s, m : s = req'[p].servant /\ m = req'[p].motif =>
                               Parents!Pending(s, m)' = {},
             place \in {"expiring", "suspending"} =>
                 \A c \in req'[p].rows : Parents!Open(c)'
      PROVE  (Parents!OneBusy /\ Parents!RowsHeard /\ Parents!StillTrue)'
  <2>1. \A q \in Parents!Procs \ {p} : pc'[q] = "idle"
    BY <1>0, <1>6 DEF Parents!Goto, Parents!OneBusy, Parents!TypeInv, Parents!TypeOK
  <2>2. pc'[p] = place
    BY <1>6 DEF Parents!Goto, Parents!TypeInv, Parents!TypeOK
  <2>. QED
    BY <1>6, <2>1, <2>2 DEF Parents!OneBusy, Parents!StillTrue
<1>7. ASSUME NEW p \in Parents!Procs, Parents!LookupPending(p)
      PROVE  (Parents!OneBusy /\ Parents!RowsHeard /\ Parents!StillTrue)'
  <2>1. CASE Parents!Return(p)
    BY <1>2, <1>3, <1>7, <2>1 DEF Parents!LookupPending, Parents!tables
  <2>2. CASE /\ Parents!Pending(req[p].servant, req[p].motif) = {}
             /\ Parents!Goto(p, "insert") /\ UNCHANGED req
    <3>1. pc[p] # "idle" /\ UNCHANGED convocations
      BY <1>7 DEF Parents!LookupPending, Parents!tables
    <3>2. \A s, m : Parents!Pending(s, m)' = Parents!Pending(s, m)
      BY <3>1 DEF Parents!Pending
    <3>3. \A s, m : s = req'[p].servant /\ m = req'[p].motif =>
                        Parents!Pending(s, m)' = {}
      BY <2>2, <3>2
    <3>. QED
      BY <1>3, <1>6, <2>2, <3>1, <3>3
  <2>. QED
    BY <1>7, <2>1, <2>2 DEF Parents!LookupPending
<1>8. ASSUME NEW p \in Parents!Procs, Parents!Insert(p)
      PROVE  (Parents!OneBusy /\ Parents!RowsHeard /\ Parents!StillTrue)'
  <2>1. Parents!RowsHeard'
    BY <1>0, <1>8
       DEF Parents!Insert, Parents!RowsHeard, Parents!Open, Parents!Unheard,
           Parents!TypeInv, Parents!TypeOK
  <2>. QED
    BY <1>2, <1>8, <2>1 DEF Parents!Insert
<1>9. ASSUME NEW p \in Parents!Procs, Parents!CommitHonor(p)
      PROVE  (Parents!OneBusy /\ Parents!RowsHeard /\ Parents!StillTrue)'
  <2>1. req[p].row \in Rows
    BY <1>9 DEF Parents!CommitHonor, Parents!TypeInv, Parents!HasWork
  <2>2. /\ convocations'[req[p].row].status = "HONOREE"
        /\ \A c \in Rows \ {req[p].row} : convocations'[c] = convocations[c]
    BY <1>9, <2>1
       DEF Parents!CommitHonor, Parents!TypeInv, Parents!TypeOK, Parents!Convocation
  <2>3. Parents!RowsHeard'
    BY <1>0, <2>2 DEF Parents!RowsHeard, Parents!Open, Parents!Unheard
  <2>. QED
    BY <1>2, <1>9, <2>3 DEF Parents!CommitHonor
<1>10. ASSUME NEW p \in Parents!Procs, Parents!CommitExpire(p)
       PROVE  (Parents!OneBusy /\ Parents!RowsHeard /\ Parents!StillTrue)'
  <2>1. PICK c \in req[p].rows :
            /\ convocations' = [convocations EXCEPT ![c].status = "SANS_REPONSE"]
            /\ req' = [req EXCEPT ![p].rows = @ \ {c}, ![p].row = c]
    BY <1>10 DEF Parents!CommitExpire
  <2>2. c \in Rows /\ Parents!Open(c) /\ req[p].rows \subseteq Rows
    BY <1>0, <1>10
       DEF Parents!CommitExpire, Parents!StillTrue, Parents!TypeInv, Parents!TypeOK,
           Parents!Request
  <2>3. /\ convocations'[c].status = "SANS_REPONSE"
        /\ convocations'[c].honoredBy = convocations[c].honoredBy
        /\ \A d \in Rows \ {c} : convocations'[d] = convocations[d]
    BY <2>1, <2>2 DEF Parents!TypeInv, Parents!TypeOK, Parents!Convocation
  <2>4. req'[p].rows = req[p].rows \ {c}
    BY <2>1 DEF Parents!TypeInv, Parents!TypeOK, Parents!Request
  <2>5. \A d \in req'[p].rows : Parents!Open(d)'
    BY <1>0, <1>10, <2>2, <2>3, <2>4
       DEF Parents!CommitExpire, Parents!StillTrue, Parents!Open
  <2>6. Parents!RowsHeard'
    BY <1>0, <2>2, <2>3 DEF Parents!RowsHeard, Parents!Open, Parents!Unheard
  <2>. QED
    BY <1>6, <1>10, <2>5, <2>6 DEF Parents!CommitExpire
<1>11. ASSUME NEW p \in Parents!Procs, Parents!Suspend(p)
       PROVE  (Parents!OneBusy /\ Parents!RowsHeard /\ Parents!StillTrue)'
  <2>1. UNCHANGED convocations => \A c \in req[p].rows : Parents!Open(c)'
    BY <1>0, <1>11 DEF Parents!Suspend, Parents!StillTrue, Parents!Open
  <2>. QED
    BY <1>2, <1>3, <1>6, <1>11, <2>1 DEF Parents!Suspend
<1>12. ASSUME NEW p \in Parents!Procs, Parents!Serve(p)
       PROVE  (Parents!OneBusy /\ Parents!RowsHeard /\ Parents!StillTrue)'
  BY <1>2, <1>3, <1>7, <1>8, <1>9, <1>10, <1>11, <1>12
     DEF Parents!Serve, Parents!InsertRefused, Parents!tables
<1>13. CASE Parents!Environment \/ UNCHANGED Parents!vars
  <2>1. ASSUME NEW p \in Parents!Procs, Parents!Abort(p)
        PROVE  (Parents!OneBusy /\ Parents!RowsHeard /\ Parents!StillTrue)'
    BY <1>2, <1>3, <2>1 DEF Parents!Abort, Parents!tables
  <2>2. ASSUME UNCHANGED <<convocations, pc, req>>
        PROVE  (Parents!OneBusy /\ Parents!RowsHeard /\ Parents!StillTrue)'
    BY <1>0, <2>2
       DEF Parents!OneBusy, Parents!RowsHeard, Parents!StillTrue, Parents!Open,
           Parents!Unheard, Parents!Pending
  <2>. QED
    BY <1>13, <2>1, <2>2
       DEF Parents!Environment, Parents!DeadlinePasses, Parents!Reactivate, Parents!vars,
           Parents!convocationVars
<1>. QED
  BY <1>4, <1>5, <1>12, <1>13 DEF Parents!Next, Parents!Procs

\* Until two processes overlap, a convocation without an answer has no parent
\* who presented himself.
THEOREM UnansweredNoParent == Parents!Spec => []UnansweredHasNoParent
<1>1. Parents!Init => Parents!AloneInv
  BY DEF Parents!Init, Parents!AloneInv, Parents!OneBusy, Parents!RowsHeard,
         Parents!StillTrue, Parents!Open, Parents!Unheard
<1>2. Parents!AloneInv => UnansweredHasNoParent
  BY DEF Parents!AloneInv, Parents!RowsHeard, UnansweredHasNoParent, Parents!Unheard, Unheard
<1>. QED
  BY <1>1, <1>2, ParentsAloneStep, ParentsTypeInvariant, PTL DEF Parents!Spec

(***************************************************************************)
(* A control convenes once.                                                *)
(***************************************************************************)

LEMMA ConvenePlacesStep ==
  ASSUME Parents!TypeInv, Parents!ConvenePlaces, [Parents!Next]_(Parents!vars)
  PROVE  Parents!ConvenePlaces'
<1>1. ASSUME NEW p \in Parents!Procs, NEW r, NEW place, Parents!Begin(p, r, place),
             r.op = "convene" => place \in {"lookup", "insert"}
      PROVE  Parents!ConvenePlaces'
  BY <1>1
     DEF Parents!Begin, Parents!Goto, Parents!ConvenePlaces, Parents!TypeInv,
         Parents!TypeOK
<1>2. ASSUME NEW p \in Parents!Procs, Parents!Return(p) PROVE Parents!ConvenePlaces'
  BY <1>2
     DEF Parents!Return, Parents!Goto, Parents!NoRequest, Parents!ConvenePlaces,
         Parents!TypeInv, Parents!TypeOK
<1>3. ASSUME NEW p \in Parents!Procs, Parents!Arrive(p) \/ Parents!BeginExpire(p)
      PROVE  Parents!ConvenePlaces'
  <2>1. ASSUME NEW s, NEW m, NEW by,
               Parents!BeginCreate(p, s, m, by) \/ Parents!BeginConvene(p, s, m, by)
        PROVE  Parents!ConvenePlaces'
    BY <1>1, <2>1 DEF Parents!BeginCreate, Parents!BeginConvene
  <2>2. ASSUME NEW c, NEW by, Parents!BeginHonor(p, c, by) PROVE Parents!ConvenePlaces'
    <3>1. [Parents!NoRequest EXCEPT !.op = "honor", !.row = c, !.by = by].op = "honor"
      BY DEF Parents!NoRequest
    <3>. QED
      BY <1>1, <2>2, <3>1 DEF Parents!BeginHonor
  <2>3. ASSUME Parents!BeginExpire(p) PROVE Parents!ConvenePlaces'
    <3>1. [Parents!NoRequest EXCEPT !.op = "expire", !.rows = Parents!Expired].op = "expire"
      BY DEF Parents!NoRequest
    <3>. QED
      BY <1>1, <2>3, <3>1 DEF Parents!BeginExpire
  <2>. QED
    BY <1>3, <2>1, <2>2, <2>3 DEF Parents!Arrive
<1>4. ASSUME NEW p \in Parents!Procs, Parents!CommitExpire(p) PROVE Parents!ConvenePlaces'
  <2>1. pc[p] = "expiring" /\ req'[p].op = req[p].op
    BY <1>4 DEF Parents!CommitExpire, Parents!TypeInv, Parents!TypeOK, Parents!Request
  <2>2. \A q \in Parents!Procs \ {p} : req'[q] = req[q] /\ pc'[q] = pc[q]
    BY <1>4 DEF Parents!CommitExpire, Parents!Goto, Parents!TypeInv, Parents!TypeOK
  <2>. QED
    BY <2>1, <2>2 DEF Parents!ConvenePlaces
<1>5. ASSUME NEW p \in Parents!Procs, NEW place, Parents!Goto(p, place), UNCHANGED req,
             \/ place = "insert"
             \/ pc[p] = "suspending"
      PROVE  Parents!ConvenePlaces'
  BY <1>5 DEF Parents!Goto, Parents!ConvenePlaces, Parents!TypeInv, Parents!TypeOK
<1>6. ASSUME NEW p \in Parents!Procs, Parents!Serve(p) PROVE Parents!ConvenePlaces'
  BY <1>2, <1>4, <1>5, <1>6
     DEF Parents!Serve, Parents!LookupPending, Parents!Insert, Parents!InsertRefused,
         Parents!CommitHonor, Parents!Suspend
<1>7. CASE Parents!Environment \/ UNCHANGED Parents!vars
  BY <1>2, <1>7
     DEF Parents!Environment, Parents!DeadlinePasses, Parents!Reactivate, Parents!Abort,
         Parents!vars, Parents!convocationVars, Parents!ConvenePlaces
<1>. QED
  BY <1>3, <1>6, <1>7 DEF Parents!Next, Parents!Procs

LEMMA ConveneCommit ==
  ASSUME Parents!TypeInv, Parents!AloneInv, Parents!ConvenePlaces, [Parents!Next]_(Parents!vars),
         NEW p \in Parents!Procs,
         ~overlapped, req[p].op = "convene", convocations' # convocations
  PROVE  Parents!Pending(req[p].servant, req[p].motif) = {}
<1>1. PICK q \in Parents!Procs :
          Parents!Insert(q) \/ Parents!CommitHonor(q) \/ Parents!CommitExpire(q)
  BY DEF Parents!Next, Parents!Arrive, Parents!Serve, Parents!Environment,
         Parents!BeginCreate, Parents!BeginConvene, Parents!BeginHonor,
         Parents!BeginExpire, Parents!Begin, Parents!LookupPending,
         Parents!InsertRefused, Parents!Suspend, Parents!DeadlinePasses,
         Parents!Reactivate, Parents!Abort, Parents!tables, Parents!vars, Parents!convocationVars
<1>2. pc[q] \in {"insert", "loaded", "expiring"}
  BY <1>1 DEF Parents!Insert, Parents!CommitHonor, Parents!CommitExpire
<1>3. pc[p] \in {"lookup", "insert"}
  BY DEF Parents!ConvenePlaces
<1>4. p = q
  BY <1>2, <1>3 DEF Parents!AloneInv, Parents!OneBusy
<1>. QED
  BY <1>2, <1>3, <1>4 DEF Parents!AloneInv, Parents!StillTrue

\* Until two processes overlap, a control leaves a second convocation only when
\* none with its motif is pending.
THEOREM ConvenedOnce == Parents!Spec => ConvenesOnce
<1>1. Parents!Init => Parents!AloneInv /\ Parents!ConvenePlaces
  BY DEF Parents!Init, Parents!AloneInv, Parents!OneBusy, Parents!RowsHeard,
         Parents!StillTrue, Parents!Open, Parents!Unheard, Parents!ConvenePlaces,
         Parents!NoRequest
<1>2. Parents!TypeInv /\ Parents!AloneInv /\ Parents!ConvenePlaces
          /\ [Parents!Next]_(Parents!vars) =>
          \A p \in Procs :
              /\ ~overlapped
              /\ req[p].op = "convene" /\ pc'[p] = "idle"
              /\ convocations' # convocations
              => Pending(req[p].servant, req[p].motif) = {}
  BY ConveneCommit DEF Parents!Procs, Procs, Parents!Pending, Pending
<1>. QED
  BY <1>1, <1>2, ParentsAloneStep, ConvenePlacesStep, ParentsTypeInvariant, PTL
     DEF Parents!Spec, ConvenesOnce, Parents!vars, Parents!convocationVars, convocationVars

-----------------------------------------------------------------------------
(***************************************************************************)
(* Types.                                                                  *)
(***************************************************************************)

\* What a request has at hand at each of its places.
HasJob(w) ==
    /\ at[w] \in {"lookup", "insert", "update", "refresh", "count", "calling"} =>
           job[w].session \in Sessions /\ Held(job[w].session)
    /\ at[w] \in {"lookup", "insert", "update", "refresh", "count", "warned",
                  "summoned", "alert", "convened"} =>
           job[w].servant \in Servants
    /\ at[w] \in {"lookup", "insert", "update"} => job[w].status \in Marks
    /\ at[w] \in {"update", "refresh"} =>
           job[w].copy \in DOMAIN records[job[w].session][job[w].servant]
    /\ at[w] \in {"refresh", "count", "warned", "summoned", "alert"} =>
           job[w].by \in Managers

\* Only a session that was created has rows.
RowsHeld ==
    \A x \in Sessions, s \in Servants : DOMAIN records[x][s] # {} => Held(x)

TypeInv == TypeOK /\ RowsHeld /\ \A w \in Workers : HasJob(w)

\* Sessions and rows stay.
Grows ==
    /\ \A x \in Sessions : Held(x) => Held(x)'
    /\ \A x \in Sessions, s \in Servants :
           DOMAIN records[x][s] \subseteq DOMAIN records'[x][s]

LEMMA NoJobType == NoJob \in Job
BY DEF NoJob, Job

\* A step of one request leaves the others what they have at hand.
LEMMA MoveType ==
  ASSUME TypeInv, Grows, NEW w \in Workers, NEW j \in Job, NEW place \in Places,
         at' = [at EXCEPT ![w] = place], job' = [job EXCEPT ![w] = j],
         HasJob(w)'
  PROVE  /\ at' \in [Workers -> Places] /\ job' \in [Workers -> Job]
         /\ \A v \in Workers : HasJob(v)'
<1>1. at' \in [Workers -> Places] /\ job' \in [Workers -> Job]
  BY DEF TypeInv, TypeOK
<1>2. ASSUME NEW v \in Workers \ {w} PROVE HasJob(v)'
  <2>1. at'[v] = at[v] /\ job'[v] = job[v] /\ HasJob(v)
    BY DEF TypeInv, TypeOK
  <2>. QED
    BY <2>1 DEF HasJob, Grows
<1>. QED
  BY <1>1, <1>2

LEMMA ReturnType ==
  ASSUME TypeInv, Grows, NEW w \in Workers, Return(w)
  PROVE  /\ at' \in [Workers -> Places] /\ job' \in [Workers -> Job]
         /\ \A v \in Workers : HasJob(v)'
<1>1. "idle" \in Places /\ at'[w] = "idle"
  BY DEF Return, Goto, Places, TypeInv, TypeOK
<1>2. HasJob(w)'
  BY <1>1 DEF HasJob
<1>. QED
  BY <1>1, <1>2, NoJobType, MoveType DEF Return, Goto

LEMMA KeepsGrows == UNCHANGED marks => Grows
BY DEF marks, Grows, Held

LEMMA BeginType ==
  ASSUME TypeInv, NEW w \in Workers, NEW j \in Job,
         NEW place \in {"lookup", "update", "calling"}, Begin(w, j, place),
         j.session \in Sessions /\ Held(j.session),
         place # "calling" => j.servant \in Servants /\ j.status \in Marks,
         place = "update" => j.copy \in DOMAIN records[j.session][j.servant]
  PROVE  TypeInv'
<1>1. place \in Places /\ at'[w] = place /\ job'[w] = j
  BY DEF Begin, Goto, Places, TypeInv, TypeOK
<1>2. UNCHANGED marks /\ Grows
  BY KeepsGrows DEF Begin
<1>3. HasJob(w)'
  BY <1>1, <1>2 DEF HasJob, Held, marks
<1>4. /\ at' \in [Workers -> Places] /\ job' \in [Workers -> Job]
      /\ \A v \in Workers : HasJob(v)'
  BY <1>1, <1>2, <1>3, MoveType DEF Begin, Goto
<1>5. calls' \in 0..MaxCalls
  BY RollCallAssumption DEF Begin, TypeInv, TypeOK
<1>. QED
  BY <1>2, <1>4, <1>5
     DEF Begin, marks, notices, history, TypeInv, TypeOK, RowsHeld, Held

LEMMA ArriveType ==
  ASSUME TypeInv, active \subseteq Servants, NEW w \in Workers, Arrive(w)
  PROVE  TypeInv'
<1>1. ASSUME NEW x \in Sessions, NEW s \in Servants, NEW status \in Marks,
             BeginMark(w, x, s, status)
      PROVE  TypeInv'
  <2>. DEFINE j == [NoJob EXCEPT !.session = x, !.servant = s, !.status = status]
  <2>1. j \in Job /\ j.session = x /\ j.servant = s /\ j.status = status
    BY NoJobType DEF Job, NoJob
  <2>2. Begin(w, j, "lookup") /\ Held(x)
    BY <1>1 DEF BeginMark
  <2>. HIDE DEF j
  <2>. QED
    BY <2>1, <2>2, BeginType
<1>2. ASSUME NEW x \in Sessions, NEW s \in Servants, NEW status \in Marks,
             NEW k \in DOMAIN records[x][s], BeginUpdate(w, x, s, k, status)
      PROVE  TypeInv'
  <2>. DEFINE j == [NoJob EXCEPT !.session = x, !.servant = s, !.copy = k,
                                 !.own = records[x][s][k], !.status = status]
  <2>1. records[x][s] \in Seq(AttendanceStatus) /\ Held(x)
    BY DEF TypeInv, TypeOK, RowsHeld
  <2>2. k \in Nat /\ records[x][s][k] \in AttendanceStatus
    BY <2>1
  <2>3. /\ j \in Job /\ j.session = x /\ j.servant = s /\ j.copy = k
        /\ j.status = status
    BY <2>2, NoJobType DEF Job, NoJob
  <2>4. Begin(w, j, "update")
    BY <1>2 DEF BeginUpdate
  <2>. HIDE DEF j
  <2>. QED
    BY <2>1, <2>3, <2>4, BeginType
<1>3. ASSUME NEW x \in Sessions, BeginRollCall(w, x) PROVE TypeInv'
  <2>. DEFINE j == [NoJob EXCEPT !.session = x, !.todo = active]
  <2>1. j \in Job /\ j.session = x
    BY NoJobType DEF Job, NoJob
  <2>2. Begin(w, j, "calling") /\ Held(x)
    BY <1>3 DEF BeginRollCall
  <2>. HIDE DEF j
  <2>. QED
    BY <2>1, <2>2, BeginType
<1>. QED
  BY <1>1, <1>2, <1>3 DEF Arrive

\* A step that leaves the rows and the counters.
LEMMA QuietType ==
  ASSUME TypeInv, UNCHANGED <<marks, notices, calls, history, raced>>,
         at' \in [Workers -> Places], job' \in [Workers -> Job],
         \A v \in Workers : HasJob(v)'
  PROVE  TypeInv'
BY DEF TypeInv, TypeOK, RowsHeld, Held, marks, notices, history

\* A place reached with the same session and servant.
LEMMA GotoType ==
  ASSUME TypeInv, Grows, NEW w \in Workers, NEW place \in Places, NEW j \in Job,
         Goto(w, place), job' = [job EXCEPT ![w] = j],
         at'[w] = place /\ job'[w] = j => HasJob(w)'
  PROVE  /\ at' \in [Workers -> Places] /\ job' \in [Workers -> Job]
         /\ \A v \in Workers : HasJob(v)'
<1>1. at'[w] = place /\ job'[w] = j
  BY DEF Goto, TypeInv, TypeOK
<1>. QED
  BY <1>1, MoveType DEF Goto

LEMMA LookupType ==
  ASSUME TypeInv, NEW w \in Workers, LookupRecord(w)
  PROVE  TypeInv'
<1>1. Grows
  BY KeepsGrows DEF LookupRecord
<1>2. CASE Return(w)
  BY <1>1, <1>2, ReturnType, QuietType DEF LookupRecord
<1>3. CASE Goto(w, "insert") /\ UNCHANGED job
  <2>1. job' = [job EXCEPT ![w] = job[w]] /\ job[w] \in Job /\ "insert" \in Places
    BY <1>3 DEF TypeInv, TypeOK, Places
  <2>2. at'[w] = "insert" /\ job'[w] = job[w] => HasJob(w)'
    BY <1>1 DEF LookupRecord, TypeInv, HasJob, Grows
  <2>3. /\ at' \in [Workers -> Places] /\ job' \in [Workers -> Job]
        /\ \A v \in Workers : HasJob(v)'
    BY <1>1, <1>3, <2>1, <2>2, GotoType
  <2>. QED
    BY <2>3, QuietType DEF LookupRecord
<1>. QED
  BY <1>2, <1>3 DEF LookupRecord

\* What Marked leaves behind, once its row is stored.
LEMMA MarkedType ==
  ASSUME TypeInv, Grows, NEW w \in Workers, NEW x \in Sessions, NEW s \in Servants,
         NEW k \in DOMAIN records'[x][s], k \in Nat, Held(x), UNCHANGED sessions,
         Marked(w, x, s, k)
  PROVE  /\ at' \in [Workers -> Places] /\ job' \in [Workers -> Job]
         /\ \A v \in Workers : HasJob(v)'
<1>. DEFINE j == [NoJob EXCEPT !.session = x, !.servant = s, !.copy = k,
                               !.by = sessions[x]]
<1>1. CASE Return(w)
  BY <1>1, ReturnType
<1>2. CASE job' = [job EXCEPT ![w] = j] /\ Goto(w, "refresh")
  <2>1. sessions[x] \in Managers
    BY DEF Held, TypeInv, TypeOK
  <2>2. /\ j \in Job /\ j.session = x /\ j.servant = s /\ j.copy = k
        /\ j.by \in Managers
    BY <2>1, NoJobType DEF Job, NoJob
  <2>3. at'[w] = "refresh" /\ job'[w] = j => HasJob(w)'
    BY <2>2 DEF HasJob, Held
  <2>4. "refresh" \in Places
    BY DEF Places
  <2>. HIDE DEF j
  <2>. QED
    BY <1>2, <2>2, <2>3, <2>4, GotoType
<1>. QED
  BY <1>1, <1>2 DEF Marked

\* A step that changes the rows and leaves the counters.
LEMMA RecordsType ==
  ASSUME TypeInv, UNCHANGED <<sessions, notices, calls, lost, cleanups, raced>>,
         records' \in [Sessions -> [Servants -> Seq(AttendanceStatus)]],
         rolled' \in BOOLEAN, at' \in [Workers -> Places],
         job' \in [Workers -> Job], \A v \in Workers : HasJob(v)', RowsHeld'
  PROVE  TypeInv'
BY DEF TypeInv, TypeOK, notices

LEMMA InsertType ==
  ASSUME TypeInv, NEW w \in Workers, InsertRecord(w)
  PROVE  TypeInv'
<1>. DEFINE x == job[w].session
            s == job[w].servant
            k == Len(records[x][s]) + 1
<1>1. x \in Sessions /\ s \in Servants /\ Held(x) /\ job[w].status \in Marks
  BY DEF InsertRecord, TypeInv, HasJob
<1>2. /\ records' = [records EXCEPT ![x][s] = Append(@, job[w].status)]
      /\ Marked(w, x, s, k) /\ UNCHANGED sessions
  BY DEF InsertRecord
<1>. HIDE DEF x, s
<1>3. records[x][s] \in Seq(AttendanceStatus) /\ job[w].status \in AttendanceStatus
  BY <1>1, RollCallAssumption DEF TypeInv, TypeOK
<1>4. /\ Append(records[x][s], job[w].status) \in Seq(AttendanceStatus)
      /\ DOMAIN Append(records[x][s], job[w].status) = 1..k
      /\ DOMAIN records[x][s] \subseteq 1..k /\ k \in 1..k /\ k \in Nat
  BY <1>3
<1>5. /\ records' \in [Sessions -> [Servants -> Seq(AttendanceStatus)]]
      /\ records'[x][s] = Append(records[x][s], job[w].status)
      /\ \A y \in Sessions, r \in Servants :
             y # x \/ r # s => records'[y][r] = records[y][r]
  BY <1>1, <1>2, <1>4 DEF TypeInv, TypeOK
<1>. HIDE DEF k
<1>6. Grows /\ RowsHeld'
  BY <1>1, <1>2, <1>4, <1>5 DEF Grows, Held, TypeInv, RowsHeld
<1>7. /\ at' \in [Workers -> Places] /\ job' \in [Workers -> Job]
      /\ \A v \in Workers : HasJob(v)'
  BY <1>1, <1>2, <1>4, <1>5, <1>6, MarkedType
<1>. QED
  BY <1>5, <1>6, <1>7, RecordsType DEF InsertRecord, history, TypeInv, TypeOK

LEMMA UpdateType ==
  ASSUME TypeInv, NEW w \in Workers, CommitUpdate(w)
  PROVE  TypeInv'
<1>. DEFINE x == job[w].session
            s == job[w].servant
            k == job[w].copy
<1>1. /\ x \in Sessions /\ s \in Servants /\ Held(x)
      /\ k \in DOMAIN records[x][s] /\ job[w].status \in AttendanceStatus
  BY RollCallAssumption DEF CommitUpdate, TypeInv, HasJob
<1>2. /\ \/ UNCHANGED records
         \/ records' = [records EXCEPT ![x][s][k] = job[w].status]
      /\ Marked(w, x, s, k) /\ UNCHANGED sessions
  BY DEF CommitUpdate
<1>. HIDE DEF x, s, k
<1>3. records[x][s] \in Seq(AttendanceStatus) /\ k \in Nat
  BY <1>1 DEF TypeInv, TypeOK
<1>4. /\ [records[x][s] EXCEPT ![k] = job[w].status] \in Seq(AttendanceStatus)
      /\ DOMAIN [records[x][s] EXCEPT ![k] = job[w].status] = DOMAIN records[x][s]
  BY <1>1, <1>3, ExceptSeq
<1>5. /\ records' \in [Sessions -> [Servants -> Seq(AttendanceStatus)]]
      /\ \A y \in Sessions, r \in Servants :
             DOMAIN records'[y][r] = DOMAIN records[y][r]
  <2>1. CASE UNCHANGED records
    BY <2>1 DEF TypeInv, TypeOK
  <2>2. CASE records' = [records EXCEPT ![x][s][k] = job[w].status]
    <3>1. /\ records' \in [Sessions -> [Servants -> Seq(AttendanceStatus)]]
          /\ records'[x][s] = [records[x][s] EXCEPT ![k] = job[w].status]
          /\ \A y \in Sessions, r \in Servants :
                 y # x \/ r # s => records'[y][r] = records[y][r]
      BY <1>1, <1>4, <2>2 DEF TypeInv, TypeOK
    <3>. QED
      BY <1>4, <3>1
  <2>. QED
    BY <1>2, <2>1, <2>2
<1>6. Grows /\ RowsHeld'
  BY <1>1, <1>2, <1>5 DEF Grows, Held, TypeInv, RowsHeld
<1>7. /\ at' \in [Workers -> Places] /\ job' \in [Workers -> Job]
      /\ \A v \in Workers : HasJob(v)'
  BY <1>1, <1>2, <1>3, <1>5, <1>6, MarkedType
<1>. QED
  BY <1>5, <1>6, <1>7, RecordsType DEF CommitUpdate, history, TypeInv, TypeOK

LEMMA SeenFinite ==
  ASSUME TypeInv, NEW s \in Servants, NEW row, NEW status
  PROVE  /\ IsFiniteSet(Absences(s)) /\ IsFiniteSet(Seen(s, row, status))
         /\ Cardinality(Seen(s, row, status)) \in Nat
<1>. DEFINE Copies(x) == {i \in DOMAIN records[x][s] :
                              records[x][s][i] = "ABSENT"}
            Rows1(x) == {<<x, k>> : k \in Copies(x)}
<1>1. ASSUME NEW x \in Sessions PROVE IsFiniteSet(Rows1(x))
  <2>1. records[x][s] \in Seq(AttendanceStatus)
    BY DEF TypeInv, TypeOK
  <2>2. IsFiniteSet(1..Len(records[x][s]))
    BY <2>1, FS_Interval
  <2>3. Copies(x) \in SUBSET (1..Len(records[x][s]))
    BY <2>1
  <2>4. IsFiniteSet(Copies(x))
    BY <2>2, <2>3, FS_Subset
  <2>. HIDE DEF Copies
  <2>5. [k \in Copies(x) |-> <<x, k>>] \in Surjection(Copies(x), Rows1(x))
    BY DEF Surjection
  <2>. QED
    BY <2>4, <2>5, FS_Surjection
<1>. HIDE DEF Rows1
<1>2. IsFiniteSet({Rows1(x) : x \in Sessions})
  <2>1. [x \in Sessions |-> Rows1(x)]
            \in Surjection(Sessions, {Rows1(x) : x \in Sessions})
    BY DEF Surjection
  <2>. QED
    BY <2>1, RollCallAssumption, FS_Surjection
<1>3. IsFiniteSet(UNION {Rows1(x) : x \in Sessions})
  BY <1>1, <1>2, FS_UNION
<1>4. IsFiniteSet(Absences(s))
  BY <1>3 DEF Absences, Rows1
<1>5. IsFiniteSet(Absences(s) \ {row})
  BY <1>4, FS_RemoveElement
<1>6. IsFiniteSet((Absences(s) \ {row}) \cup {row})
  BY <1>5, FS_AddElement
<1>7. IsFiniteSet(Seen(s, row, status))
  BY <1>5, <1>6 DEF Seen
<1>. QED
  BY <1>4, <1>7, FS_CardinalityType

LEMMA RefreshType ==
  ASSUME TypeInv, NEW w \in Workers, Refresh(w)
  PROVE  TypeInv'
<1>. DEFINE row == records[job[w].session][job[w].servant][job[w].copy]
            j == [job[w] EXCEPT !.own = row]
<1>1. /\ HasJob(w) /\ at[w] = "refresh" /\ job[w] \in Job
      /\ job[w].session \in Sessions /\ job[w].servant \in Servants
      /\ job[w].copy \in DOMAIN records[job[w].session][job[w].servant]
  BY DEF Refresh, TypeInv, TypeOK, HasJob
<1>2. row \in AttendanceStatus
  BY <1>1 DEF TypeInv, TypeOK
<1>3. /\ job' = [job EXCEPT ![w] = j] /\ Goto(w, "count") /\ "count" \in Places
  BY DEF Refresh, Places, TypeInv, TypeOK
<1>. HIDE DEF row
<1>4. /\ j \in Job /\ j.session = job[w].session /\ j.servant = job[w].servant
      /\ j.by = job[w].by
  BY <1>1, <1>2 DEF Job
<1>5. Grows
  BY KeepsGrows DEF Refresh
<1>6. at'[w] = "count" /\ job'[w] = j => HasJob(w)'
  BY <1>1, <1>4, <1>5 DEF HasJob, Grows
<1>. HIDE DEF j
<1>7. /\ at' \in [Workers -> Places] /\ job' \in [Workers -> Job]
      /\ \A v \in Workers : HasJob(v)'
  BY <1>3, <1>4, <1>5, <1>6, GotoType
<1>. QED
  BY <1>7, QuietType DEF Refresh

LEMMA CountType ==
  ASSUME TypeInv, NEW w \in Workers, CountAbsences(w)
  PROVE  TypeInv'
<1>. DEFINE total == Cardinality(Seen(job[w].servant,
                         <<job[w].session, job[w].copy>>, job[w].own))
            j == [NoJob EXCEPT !.servant = job[w].servant, !.by = job[w].by,
                               !.total = total]
<1>1. job[w].servant \in Servants /\ job[w].by \in Managers
  BY DEF CountAbsences, TypeInv, HasJob
<1>2. total \in Nat
  BY <1>1, SeenFinite
<1>3. job' = [job EXCEPT ![w] = j] /\ Goto(w, "warned") /\ "warned" \in Places
  BY DEF CountAbsences, Places
<1>. HIDE DEF total
<1>4. j \in Job /\ j.servant = job[w].servant /\ j.by = job[w].by
  BY <1>1, <1>2, NoJobType DEF Job, NoJob
<1>. HIDE DEF j
<1>5. at'[w] = "warned" /\ job'[w] = j => HasJob(w)'
  BY <1>1, <1>4 DEF HasJob
<1>6. /\ at' \in [Workers -> Places] /\ job' \in [Workers -> Job]
      /\ \A v \in Workers : HasJob(v)'
  BY <1>3, <1>4, <1>5, KeepsGrows, GotoType DEF CountAbsences
<1>. QED
  BY <1>6, QuietType DEF CountAbsences

\* A step of the alerts, which keeps the servant and who conducts the session.
LEMMA AlertType ==
  ASSUME TypeInv, UNCHANGED marks, NEW w \in Workers, NEW j \in Job,
         NEW place \in {"summoned", "alert", "convened"},
         at[w] \in {"warned", "summoned", "alert"},
         Goto(w, place), job' = [job EXCEPT ![w] = j],
         j.servant = job[w].servant, j.by = job[w].by
  PROVE  /\ at' \in [Workers -> Places] /\ job' \in [Workers -> Job]
         /\ \A v \in Workers : HasJob(v)'
<1>1. job[w].servant \in Servants /\ job[w].by \in Managers
  BY DEF TypeInv, HasJob
<1>2. at'[w] = place /\ job'[w] = j => HasJob(w)'
  BY <1>1 DEF HasJob
<1>3. place \in Places
  BY DEF Places
<1>. QED
  BY <1>2, <1>3, KeepsGrows, GotoType

LEMMA NoticesType ==
  ASSUME TypeInv, NEW w \in Workers, LookupWarning(w) \/ LookupSummons(w)
  PROVE  TypeInv'
<1>0. job[w] \in Job
  BY DEF TypeInv, TypeOK
<1>1. CASE LookupWarning(w)
  <2>. DEFINE due == {a \in {"warn"} : Due(a, job[w].servant, job[w].total)}
              j == [job[w] EXCEPT !.due = due]
  <2>1. job' = [job EXCEPT ![w] = j] /\ Goto(w, "summoned")
    BY <1>1 DEF LookupWarning
  <2>2. due \subseteq {"warn"}
    OBVIOUS
  <2>. HIDE DEF due
  <2>3. j \in Job /\ j.servant = job[w].servant /\ j.by = job[w].by
    BY <1>0, <2>2 DEF Job
  <2>. HIDE DEF j
  <2>. QED
    BY <1>1, <2>1, <2>3, AlertType, QuietType DEF LookupWarning
<1>2. CASE LookupSummons(w)
  <2>. DEFINE due == job[w].due \cup
                     {a \in {"summon"} : Due(a, job[w].servant, job[w].total)}
              j == [job[w] EXCEPT !.due = due, !.total = 0]
  <2>1. CASE Return(w)
    BY <1>2, <2>1, KeepsGrows, ReturnType, QuietType DEF LookupSummons
  <2>2. CASE job' = [job EXCEPT ![w].due = due, ![w].total = 0] /\ Goto(w, "alert")
    <3>1. job' = [job EXCEPT ![w] = j]
      BY <1>0, <2>2 DEF TypeInv, TypeOK
    <3>2. due \subseteq {"warn", "summon"}
      BY <1>0 DEF Job
    <3>. HIDE DEF due
    <3>3. j \in Job /\ j.servant = job[w].servant /\ j.by = job[w].by
      BY <1>0, <3>2 DEF Job
    <3>. HIDE DEF j
    <3>. QED
      BY <1>2, <2>2, <3>1, <3>3, AlertType, QuietType DEF LookupSummons
  <2>. QED
    BY <1>2, <2>1, <2>2 DEF LookupSummons
<1>. QED
  BY <1>1, <1>2

\* A step that stores a notification.
LEMMA AlertsType ==
  ASSUME TypeInv, UNCHANGED <<marks, calls, history, raced>>,
         warnings' \in [Servants -> Nat], summons' \in [Servants -> Nat],
         at' \in [Workers -> Places], job' \in [Workers -> Job],
         \A v \in Workers : HasJob(v)'
  PROVE  TypeInv'
BY DEF TypeInv, TypeOK, RowsHeld, Held, marks, history

LEMMA SendType ==
  ASSUME TypeInv, NEW w \in Workers, Warn(w) \/ Summon(w) \/ Answer(w)
  PROVE  TypeInv'
<1>0. job[w] \in Job
  BY DEF TypeInv, TypeOK
<1>1. CASE Warn(w)
  <2>1. warnings' \in [Servants -> Nat] /\ summons' \in [Servants -> Nat]
    <3>1. job[w].servant \in Servants
      BY <1>1 DEF Warn, TypeInv, HasJob
    <3>. QED
      BY <1>1, <3>1 DEF Warn, TypeInv, TypeOK
  <2>2. CASE Return(w)
    BY <1>1, <2>1, <2>2, KeepsGrows, ReturnType, AlertsType DEF Warn
  <2>3. CASE job' = [job EXCEPT ![w].due = {"summon"}] /\ UNCHANGED at
    <3>. DEFINE j == [job[w] EXCEPT !.due = {"summon"}]
    <3>1. job' = [job EXCEPT ![w] = j]
      BY <2>3
    <3>2. j \in Job /\ j.servant = job[w].servant /\ j.by = job[w].by
      BY <1>0 DEF Job
    <3>3. Goto(w, "alert") /\ at[w] = "alert"
      BY <1>1, <2>3 DEF Warn, Goto, TypeInv, TypeOK
    <3>. HIDE DEF j
    <3>. QED
      BY <1>1, <2>1, <3>1, <3>2, <3>3, AlertType, AlertsType DEF Warn
  <2>. QED
    BY <1>1, <2>2, <2>3 DEF Warn
<1>2. CASE Summon(w)
  <2>1. warnings' \in [Servants -> Nat] /\ summons' \in [Servants -> Nat]
    <3>1. job[w].servant \in Servants
      BY <1>2 DEF Summon, TypeInv, HasJob
    <3>. QED
      BY <1>2, <3>1 DEF Summon, TypeInv, TypeOK
  <2>2. job' = [job EXCEPT ![w] = job[w]] /\ Goto(w, "convened") /\ at[w] = "alert"
    BY <1>2 DEF Summon, TypeInv, TypeOK
  <2>. QED
    BY <1>0, <1>2, <2>1, <2>2, AlertType, AlertsType DEF Summon
<1>3. CASE Answer(w)
  BY <1>3, KeepsGrows, ReturnType, QuietType DEF Answer
<1>. QED
  BY <1>1, <1>2, <1>3

LEMMA CallType ==
  ASSUME TypeInv, NEW w \in Workers, CallServant(w)
  PROVE  TypeInv'
<1>0. job[w] \in Job /\ HasJob(w) /\ at[w] = "calling"
  BY DEF CallServant, TypeInv, TypeOK
<1>1. PICK s \in job[w].todo :
          \/ Return(w)
          \/ /\ job' = [job EXCEPT ![w].todo = @ \ {s},
                     ![w].absent = IF records[job[w].session][s] = <<>>
                                   THEN @ \cup {s} ELSE @]
             /\ UNCHANGED at
  BY DEF CallServant
<1>2. CASE Return(w)
  BY <1>2, KeepsGrows, ReturnType, QuietType DEF CallServant
<1>3. CASE /\ job' = [job EXCEPT ![w].todo = @ \ {s},
                      ![w].absent = IF records[job[w].session][s] = <<>>
                                    THEN @ \cup {s} ELSE @]
           /\ UNCHANGED at
  <2>. DEFINE absent == IF records[job[w].session][s] = <<>>
                        THEN job[w].absent \cup {s} ELSE job[w].absent
              j == [job[w] EXCEPT !.todo = @ \ {s}, !.absent = absent]
  <2>1. job' = [job EXCEPT ![w] = j]
    BY <1>0, <1>3 DEF TypeInv, TypeOK
  <2>2. absent \subseteq Servants
    BY <1>0 DEF Job
  <2>. HIDE DEF absent
  <2>3. j \in Job /\ j.session = job[w].session
    BY <1>0, <2>2 DEF Job
  <2>4. Goto(w, "calling") /\ "calling" \in Places
    BY <1>0, <1>3 DEF Goto, Places, TypeInv, TypeOK
  <2>5. Grows /\ UNCHANGED sessions
    BY KeepsGrows DEF CallServant, marks
  <2>. HIDE DEF j
  <2>6. at'[w] = "calling" /\ job'[w] = j => HasJob(w)'
    BY <1>0, <2>3, <2>5 DEF HasJob, Held
  <2>7. /\ at' \in [Workers -> Places] /\ job' \in [Workers -> Job]
        /\ \A v \in Workers : HasJob(v)'
    BY <2>1, <2>3, <2>4, <2>5, <2>6, GotoType
  <2>. QED
    BY <2>7, QuietType DEF CallServant
<1>. QED
  BY <1>1, <1>2, <1>3

\* The rows after the commit of a roll call.
LEMMA RolledRows ==
  ASSUME TypeInv, NEW w \in Workers, CommitRollCall(w)
  PROVE  /\ job[w].session \in Sessions /\ Held(job[w].session)
         /\ \A y \in Sessions, r \in Servants : records'[y][r] =
                IF y = job[w].session /\ r \in job[w].absent
                THEN Append(records[y][r], "ABSENT") ELSE records[y][r]
         /\ records' \in [Sessions -> [Servants -> Seq(AttendanceStatus)]]
<1>1. job[w].session \in Sessions /\ Held(job[w].session)
  BY DEF CommitRollCall, TypeInv, HasJob
<1>. DEFINE x == job[w].session
            row(r) == IF r \in job[w].absent THEN Append(records[x][r], "ABSENT")
                                             ELSE records[x][r]
            rows == [r \in Servants |-> row(r)]
<1>2. records' = [records EXCEPT ![x] = rows]
  BY <1>1 DEF CommitRollCall, TypeInv, TypeOK
<1>3. \A r \in Servants : row(r) \in Seq(AttendanceStatus)
  BY <1>1 DEF AttendanceStatus, TypeInv, TypeOK
<1>4. \A r \in Servants : rows[r] = row(r)
  OBVIOUS
<1>5. rows \in [Servants -> Seq(AttendanceStatus)]
  BY <1>3
<1>. HIDE DEF rows
<1>6. records' \in [Sessions -> [Servants -> Seq(AttendanceStatus)]]
  BY <1>2, <1>5 DEF TypeInv, TypeOK
<1>7. /\ records'[x] = rows
      /\ \A y \in Sessions \ {x} : records'[y] = records[y]
  BY <1>1, <1>2 DEF TypeInv, TypeOK
<1>. QED
  BY <1>1, <1>4, <1>6, <1>7

LEMMA RollCallType ==
  ASSUME TypeInv, NEW w \in Workers, CommitRollCall(w)
  PROVE  TypeInv'
<1>1. \A y \in Sessions, r \in Servants : records[y][r] \in Seq(AttendanceStatus)
  BY DEF TypeInv, TypeOK
<1>2. \A y \in Sessions, r \in Servants :
          /\ DOMAIN records[y][r] \subseteq DOMAIN records'[y][r]
          /\ y # job[w].session => records'[y][r] = records[y][r]
  <2>. SUFFICES ASSUME NEW y \in Sessions, NEW r \in Servants
                PROVE  /\ DOMAIN records[y][r] \subseteq DOMAIN records'[y][r]
                       /\ y # job[w].session => records'[y][r] = records[y][r]
    OBVIOUS
  <2>1. DOMAIN records[y][r] \subseteq DOMAIN Append(records[y][r], "ABSENT")
    BY <1>1
  <2>2. records'[y][r] = IF y = job[w].session /\ r \in job[w].absent
                         THEN Append(records[y][r], "ABSENT") ELSE records[y][r]
    BY RolledRows
  <2>. QED
    BY <2>1, <2>2
<1>3. UNCHANGED sessions
  BY DEF CommitRollCall
<1>4. Grows /\ RowsHeld'
  BY <1>2, <1>3, RolledRows DEF Grows, Held, RowsHeld, TypeInv
<1>5. /\ at' \in [Workers -> Places] /\ job' \in [Workers -> Job]
      /\ \A v \in Workers : HasJob(v)'
  BY <1>4, ReturnType DEF CommitRollCall
<1>6. rolled' \in BOOLEAN
  BY DEF CommitRollCall, TypeInv, TypeOK
<1>. QED
  BY <1>4, <1>5, <1>6, RolledRows, RecordsType DEF CommitRollCall

\* Only counters, notices and sessions change.
LEMMA EnvironmentType ==
  ASSUME TypeInv, Environment
  PROVE  TypeInv'
<1>1. ASSUME NEW x \in Sessions, NEW by \in Managers, CreateSession(x, by)
      PROVE  TypeInv'
  <2>1. /\ sessions' \in [Sessions -> Managers \cup {None}] /\ UNCHANGED records
        /\ \A y \in Sessions : Held(y) => Held(y)'
    <3>1. by # None
      BY RollCallAssumption
    <3>. QED
      BY <1>1, <3>1 DEF CreateSession, Held, TypeInv, TypeOK
  <2>2. RowsHeld' /\ \A v \in Workers : HasJob(v)'
    BY <1>1, <2>1 DEF CreateSession, TypeInv, RowsHeld, HasJob
  <2>. QED
    BY <1>1, <2>1, <2>2 DEF CreateSession, notices, history, TypeInv, TypeOK
<1>2. ASSUME UNCHANGED <<marks, at, job>> PROVE RowsHeld' /\ \A v \in Workers : HasJob(v)'
  BY <1>2 DEF marks, TypeInv, RowsHeld, HasJob, Held
<1>3. ASSUME NEW s \in Servants, Cleanup(s) PROVE TypeInv'
  <2>1. warnings' \in [Servants -> Nat] /\ summons' \in [Servants -> Nat]
    BY <1>3 DEF Cleanup, TypeInv, TypeOK
  <2>2. cleanups' \in 0..MaxFaults
    BY <1>3, RollCallAssumption DEF Cleanup, TypeInv, TypeOK
  <2>. QED
    BY <1>2, <1>3, <2>1, <2>2 DEF Cleanup, marks, TypeInv, TypeOK
<1>4. ASSUME NEW w \in Workers, Lose(w) PROVE TypeInv'
  <2>1. lost' \in 0..MaxFaults
    BY <1>4, RollCallAssumption DEF Lose, TypeInv, TypeOK
  <2>2. /\ at' \in [Workers -> Places] /\ job' \in [Workers -> Job]
        /\ \A v \in Workers : HasJob(v)'
    BY <1>4, KeepsGrows, ReturnType DEF Lose
  <2>. QED
    BY <1>4, <2>1, <2>2
       DEF Lose, marks, notices, TypeInv, TypeOK, RowsHeld, Held
<1>5. CASE Convocations
  BY <1>2, <1>5 DEF Convocations, own, marks, notices, history, TypeInv, TypeOK
<1>. QED
  BY <1>1, <1>3, <1>4, <1>5 DEF Environment

LEMMA ServeType ==
  ASSUME TypeInv, NEW w \in Workers, Serve(w)
  PROVE  TypeInv'
BY LookupType, InsertType, UpdateType, RefreshType, CountType, NoticesType,
   SendType, CallType, RollCallType DEF Serve

LEMMA InitType == Init => TypeInv
<1>. SUFFICES ASSUME Init PROVE TypeInv
  OBVIOUS
<1>1. \A x \in Sessions, s \in Servants : records[x][s] = <<>>
  BY DEF Init
<1>2. records \in [Sessions -> [Servants -> Seq(AttendanceStatus)]] /\ RowsHeld
  <2>1. <<>> \in Seq(AttendanceStatus) /\ DOMAIN <<>> = {}
    OBVIOUS
  <2>. QED
    BY <1>1, <2>1 DEF Init, RowsHeld
<1>3. at \in [Workers -> Places] /\ job \in [Workers -> Job]
  BY NoJobType DEF Init, Places
<1>4. \A w \in Workers : HasJob(w)
  BY DEF Init, HasJob
<1>5. calls \in 0..MaxCalls /\ lost \in 0..MaxFaults /\ cleanups \in 0..MaxFaults
  BY RollCallAssumption DEF Init
<1>6. /\ sessions \in [Sessions -> Managers \cup {None}]
      /\ warnings \in [Servants -> Nat] /\ summons \in [Servants -> Nat]
      /\ rolled \in BOOLEAN /\ raced \in BOOLEAN
  BY DEF Init
<1>. QED
  BY <1>2, <1>3, <1>4, <1>5, <1>6 DEF TypeInv, TypeOK

(***************************************************************************)
(* The composition: the convocations take only steps of their own.         *)
(***************************************************************************)

LEMMA ConvocationsStep ==
  ASSUME TypeInv, [Next]_vars
  PROVE  [Parents!Next]_(Parents!vars)
<1>1. UNCHANGED convocationVars => UNCHANGED Parents!vars
  BY DEF convocationVars, Parents!vars, Parents!convocationVars
<1>2. CASE Convocations
  BY <1>2 DEF Convocations, Parents!Next, Parents!Procs
<1>3. ASSUME NEW w \in Workers, Summon(w) PROVE Parents!Next
  <2>1. job[w].servant \in Servants /\ job[w].by \in Managers
    BY <1>3 DEF Summon, TypeInv, HasJob
  <2>. QED
    BY <1>3, <2>1, RollCallAssumption DEF Summon, Parents!Next, Parents!Arrive
<1>4. CASE UNCHANGED vars
  BY <1>1, <1>4 DEF vars
<1>5. ASSUME NEW w \in Workers, Arrive(w) PROVE UNCHANGED convocationVars
  BY <1>5 DEF Arrive, BeginMark, BeginUpdate, BeginRollCall, Begin
<1>6. ASSUME NEW w \in Workers, Serve(w), ~Summon(w) PROVE UNCHANGED convocationVars
  BY <1>6 DEF Serve, LookupRecord, InsertRecord, CommitUpdate, Refresh,
              CountAbsences, LookupWarning, LookupSummons, Warn, Answer,
              CallServant, CommitRollCall
<1>7. CASE Environment /\ ~Convocations
  BY <1>1, <1>7 DEF Environment, CreateSession, Cleanup, Lose
<1>. QED
  BY <1>1, <1>2, <1>3, <1>4, <1>5, <1>6, <1>7 DEF Next

Whole == TypeInv /\ Parents!TypeInv

LEMMA WholeInit == Init => Whole
BY InitType, ParentsInitType DEF Init, Whole

LEMMA WholeStep == Whole /\ [Next]_vars => Whole'
<1>. SUFFICES ASSUME Whole, [Next]_vars PROVE Whole'
  OBVIOUS
<1>1. [Parents!Next]_(Parents!vars)
  BY ConvocationsStep DEF Whole
<1>2. Parents!TypeInv'
  BY <1>1, ParentsNextType DEF Whole
<1>3. active \subseteq Servants
  BY DEF Whole, Parents!TypeInv, Parents!TypeOK
<1>4. ASSUME UNCHANGED vars PROVE TypeInv'
  BY <1>4 DEF Whole, vars, own, marks, notices, history, TypeInv, TypeOK,
              RowsHeld, HasJob, Held
<1>5. ASSUME Next PROVE TypeInv'
  BY <1>3, <1>5, ArriveType, ServeType, EnvironmentType DEF Whole, Next
<1>. QED
  BY <1>2, <1>4, <1>5 DEF Whole

LEMMA WholeInvariant == Spec => []Whole
BY WholeInit, WholeStep, PTL DEF Spec

\* Every reachable state is well typed.
THEOREM TypeCorrect == Spec => []TypeOK
<1>1. Whole => TypeOK
  BY DEF Whole, TypeInv
<1>. QED
  BY <1>1, WholeInvariant, PTL

\* Together with a roll call the convocations keep their own specification.
THEOREM ConvocationsImplemented == Spec => ImplementsConvocations
<1>1. Init => Parents!Init
  BY DEF Init
<1>2. Whole /\ [Next]_vars => [Parents!Next]_(Parents!vars)
  BY ConvocationsStep DEF Whole
<1>. QED
  BY <1>1, <1>2, WholeInvariant, PTL DEF Spec, ImplementsConvocations, Parents!Spec

\* So nobody is suspended without an overdue convocation, every honored one names who
\* received the parent and a control convenes once, when it is a roll call that convenes
\* as when it is anything else.
THEOREM ConvocationsHold ==
    Spec => []HonoredIsSigned /\ SuspensionIsDue /\ []UnansweredHasNoParent /\ ConvenesOnce
<1>1. Spec => Parents!Spec
  BY ConvocationsImplemented DEF ImplementsConvocations
<1>. QED
  BY <1>1, HonoredSigned, SuspensionDue, UnansweredNoParent, ConvenedOnce, PTL

(***************************************************************************)
(* Duplicate rows.                                                         *)
(***************************************************************************)

\* The bound on one servant of one session.
Bounded(x, s) ==
    Len(records[x][s]) + Cardinality(FoundNoRecord(x, s)) <= Cardinality(Workers)

LEMMA FoundFinite ==
  ASSUME TypeInv, NEW x \in Sessions, NEW s \in Servants
  PROVE  /\ IsFiniteSet(FoundNoRecord(x, s))
         /\ Cardinality(FoundNoRecord(x, s)) \in Nat
         /\ Cardinality(FoundNoRecord(x, s)) <= Cardinality(Workers)
         /\ Cardinality(Workers) \in Nat
         /\ Len(records[x][s]) \in Nat
<1>1. FoundNoRecord(x, s) \in SUBSET Workers
  BY DEF FoundNoRecord
<1>2. records[x][s] \in Seq(AttendanceStatus)
  BY DEF TypeInv, TypeOK
<1>. QED
  BY <1>1, <1>2, RollCallAssumption, FS_Subset, FS_CardinalityType

\* The three ways in which a step can change the two sides of the bound.
LEMMA BoundKept ==
  ASSUME TypeInv, TypeInv', NEW x \in Sessions, NEW s \in Servants, Bounded(x, s),
         \/ /\ Len(records'[x][s]) = Len(records[x][s])
            /\ FoundNoRecord(x, s)' \subseteq FoundNoRecord(x, s)
         \/ Len(records'[x][s]) = 0
         \/ /\ Len(records'[x][s]) = Len(records[x][s]) + 1
            /\ \E w \in FoundNoRecord(x, s) :
                  FoundNoRecord(x, s)' \subseteq FoundNoRecord(x, s) \ {w}
  PROVE  Bounded(x, s)'
<1>. DEFINE n == Len(records[x][s])
            m == Len(records'[x][s])
            F == FoundNoRecord(x, s)
            G == FoundNoRecord(x, s)'
            all == Cardinality(Workers)
<1>1. /\ IsFiniteSet(F) /\ Cardinality(F) \in Nat /\ all \in Nat /\ n \in Nat
      /\ n + Cardinality(F) <= all
  BY FoundFinite DEF Bounded
<1>2. /\ IsFiniteSet(G) /\ Cardinality(G) \in Nat /\ m \in Nat
      /\ Cardinality(G) <= all
  <2>1. G \in SUBSET Workers
    BY DEF FoundNoRecord
  <2>2. records'[x][s] \in Seq(AttendanceStatus)
    BY DEF TypeInv, TypeOK
  <2>. QED
    BY <2>1, <2>2, RollCallAssumption, FS_Subset, FS_CardinalityType
<1>3. \/ m = n /\ G \subseteq F
      \/ m = 0
      \/ m = n + 1 /\ \E w \in F : G \subseteq F \ {w}
  OBVIOUS
<1>4. m + Cardinality(G) <= all => Bounded(x, s)'
  BY DEF Bounded
<1>. HIDE DEF F, G, n, m, all
<1>5. CASE m = n /\ G \subseteq F
  <2>1. Cardinality(G) <= Cardinality(F)
    BY <1>1, <1>5, FS_Subset
  <2>. QED
    BY <1>1, <1>2, <1>4, <1>5, <2>1
<1>6. CASE m = 0
  BY <1>2, <1>4, <1>6
<1>7. ASSUME m = n + 1, NEW w \in F, G \subseteq F \ {w}
      PROVE  Bounded(x, s)'
  <2>1. IsFiniteSet(F \ {w}) /\ Cardinality(F \ {w}) = Cardinality(F) - 1
    BY <1>1, FS_RemoveElement
  <2>2. Cardinality(G) <= Cardinality(F \ {w})
    BY <1>7, <2>1, FS_Subset
  <2>. QED
    BY <1>1, <1>2, <1>4, <1>7, <2>1, <2>2
<1>. QED
  BY <1>3, <1>5, <1>6, <1>7

\* A worker that goes to another place than insert or calling is not counted.
LEMMA FoundKept ==
  ASSUME TypeInv, NEW x \in Sessions, NEW s \in Servants, NEW w \in Workers,
         at' = [at EXCEPT ![w] = at'[w]], job' = [job EXCEPT ![w] = job'[w]],
         \/ at'[w] \notin {"insert", "calling"}
         \/ at'[w] = "calling" /\ s \notin job'[w].absent
  PROVE  FoundNoRecord(x, s)' \subseteq FoundNoRecord(x, s) \ {w}
<1>1. w \notin FoundNoRecord(x, s)'
  BY DEF FoundNoRecord
<1>2. \A v \in Workers \ {w} : at'[v] = at[v] /\ job'[v] = job[v]
  BY DEF TypeInv, TypeOK
<1>. QED
  BY <1>1, <1>2 DEF FoundNoRecord

LEMMA BoundedArrive ==
  ASSUME TypeInv, TypeInv', NEW x \in Sessions, NEW s \in Servants, Bounded(x, s),
         NEW w \in Workers, Arrive(w)
  PROVE  Bounded(x, s)'
<1>1. ASSUME NEW j, NEW place, Begin(w, j, place), place # "insert",
             place = "calling" => j.absent = {}
      PROVE  Bounded(x, s)'
  <2>1. /\ at' = [at EXCEPT ![w] = place] /\ at'[w] = place
        /\ job' = [job EXCEPT ![w] = j] /\ job'[w] = j
    BY <1>1 DEF Begin, Goto, TypeInv, TypeOK
  <2>2. UNCHANGED records
    BY <1>1 DEF Begin, marks
  <2>3. FoundNoRecord(x, s)' \subseteq FoundNoRecord(x, s) \ {w}
    BY <1>1, <2>1, FoundKept
  <2>. QED
    BY <2>2, <2>3, BoundKept
<1>2. ASSUME NEW y \in Sessions, BeginRollCall(w, y) PROVE Bounded(x, s)'
  <2>1. [NoJob EXCEPT !.session = y, !.todo = active].absent = {}
    BY DEF NoJob
  <2>. QED
    BY <1>1, <1>2, <2>1 DEF BeginRollCall
<1>. QED
  BY <1>1, <1>2 DEF Arrive, BeginMark, BeginUpdate

LEMMA BoundedServe ==
  ASSUME TypeInv, TypeInv', NEW x \in Sessions, NEW s \in Servants, Bounded(x, s),
         NEW w \in Workers, Serve(w)
  PROVE  Bounded(x, s)'
<1>0. at \in [Workers -> Places] /\ job \in [Workers -> Job]
  BY DEF TypeInv, TypeOK
<1>1. ASSUME UNCHANGED records, NEW place, Goto(w, place),
             NEW j, job' = [job EXCEPT ![w] = j], place \notin {"insert", "calling"}
      PROVE  Bounded(x, s)'
  <2>1. at' = [at EXCEPT ![w] = at'[w]] /\ at'[w] = place
    BY <1>0, <1>1 DEF Goto
  <2>2. job' = [job EXCEPT ![w] = job'[w]]
    BY <1>0, <1>1
  <2>. QED
    BY <1>1, <2>1, <2>2, FoundKept, BoundKept
<1>2. ASSUME UNCHANGED records, Return(w) PROVE Bounded(x, s)'
  <2>1. Goto(w, "idle") /\ job' = [job EXCEPT ![w] = NoJob]
    BY <1>2 DEF Return
  <2>2. "idle" \notin {"insert", "calling"}
    OBVIOUS
  <2>. QED
    BY <1>1, <1>2, <2>1, <2>2
<1>3. CASE LookupRecord(w)
  <2>1. CASE Goto(w, "insert") /\ UNCHANGED job /\ records[job[w].session][job[w].servant] = <<>>
    <3>1. UNCHANGED records
      BY <1>3 DEF LookupRecord, marks
    <3>2. CASE x = job[w].session /\ s = job[w].servant
      BY <2>1, <3>1, <3>2, BoundKept
    <3>3. CASE x # job[w].session \/ s # job[w].servant
      <4>1. at'[w] = "insert" /\ \A v \in Workers \ {w} : at'[v] = at[v]
        BY <1>0, <2>1 DEF Goto
      <4>2. FoundNoRecord(x, s)' \subseteq FoundNoRecord(x, s)
        BY <2>1, <3>3, <4>1 DEF FoundNoRecord
      <4>. QED
        BY <3>1, <4>2, BoundKept
    <3>. QED
      BY <3>2, <3>3
  <2>. QED
    BY <1>2, <1>3, <2>1 DEF LookupRecord, marks
\* A step of Marked leaves the place where no record was found.
<1>4. ASSUME NEW y, NEW r, NEW k, Marked(w, y, r, k)
      PROVE  FoundNoRecord(x, s)' \subseteq FoundNoRecord(x, s) \ {w}
  <2>1. /\ at' = [at EXCEPT ![w] = at'[w]] /\ at'[w] \in {"idle", "refresh"}
        /\ job' = [job EXCEPT ![w] = job'[w]]
    BY <1>0, <1>4 DEF Marked, Return, Goto
  <2>. QED
    BY <2>1, FoundKept
<1>5. CASE InsertRecord(w)
  <2>1. /\ job[w].session \in Sessions /\ job[w].servant \in Servants
        /\ at[w] = "insert"
    BY <1>5 DEF InsertRecord, TypeInv, HasJob
  <2>a. job[w].status \in AttendanceStatus
    BY <2>1, RollCallAssumption DEF TypeInv, HasJob
  <2>b. records[x][s] \in Seq(AttendanceStatus)
    BY DEF TypeInv, TypeOK
  <2>2. FoundNoRecord(x, s)' \subseteq FoundNoRecord(x, s) \ {w}
    BY <1>4, <1>5 DEF InsertRecord
  <2>3. records' = [records EXCEPT ![job[w].session][job[w].servant] =
                        Append(@, job[w].status)]
    BY <1>5 DEF InsertRecord
  <2>4. CASE x = job[w].session /\ s = job[w].servant
    <3>1. records'[x][s] = Append(records[x][s], job[w].status)
      BY <2>1, <2>3, <2>4 DEF TypeInv, TypeOK
    <3>2. Len(records'[x][s]) = Len(records[x][s]) + 1
      BY <2>a, <2>b, <3>1
    <3>3. w \in FoundNoRecord(x, s)
      BY <2>1, <2>4 DEF FoundNoRecord
    <3>. QED
      BY <2>2, <3>2, <3>3, BoundKept
  <2>5. CASE x # job[w].session \/ s # job[w].servant
    <3>1. records'[x][s] = records[x][s]
      BY <2>1, <2>3, <2>5 DEF TypeInv, TypeOK
    <3>. QED
      BY <2>2, <3>1, BoundKept
  <2>. QED
    BY <2>4, <2>5
<1>6. CASE CommitUpdate(w)
  <2>1. /\ job[w].session \in Sessions /\ job[w].servant \in Servants
        /\ job[w].copy \in DOMAIN records[job[w].session][job[w].servant]
        /\ job[w].status \in AttendanceStatus
    BY <1>6, RollCallAssumption DEF CommitUpdate, TypeInv, HasJob
  <2>2. FoundNoRecord(x, s)' \subseteq FoundNoRecord(x, s) \ {w}
    BY <1>4, <1>6 DEF CommitUpdate
  <2>3. records[x][s] \in Seq(AttendanceStatus)
    BY DEF TypeInv, TypeOK
  <2>4. \/ records'[x][s] = records[x][s]
        \/ /\ job[w].copy \in DOMAIN records[x][s]
           /\ records'[x][s] = [records[x][s] EXCEPT ![job[w].copy] = job[w].status]
    BY <1>6, <2>1 DEF CommitUpdate, TypeInv, TypeOK
  <2>5. Len(records'[x][s]) = Len(records[x][s])
    BY <2>1, <2>3, <2>4, ExceptSeq
  <2>. QED
    BY <2>2, <2>5, BoundKept
<1>7. CASE Refresh(w) \/ CountAbsences(w) \/ LookupWarning(w) \/ LookupSummons(w)
  <2>1. UNCHANGED records /\ \E j : job' = [job EXCEPT ![w] = j]
    BY <1>0, <1>7 DEF Refresh, CountAbsences, LookupWarning, LookupSummons,
                      Return, marks
  <2>2. \E place : Goto(w, place) /\ place \notin {"insert", "calling"}
    BY <1>7 DEF Refresh, CountAbsences, LookupWarning, LookupSummons, Return
  <2>. QED
    BY <1>1, <2>1, <2>2
<1>8. CASE Warn(w) \/ Summon(w) \/ Answer(w)
  <2>1. UNCHANGED records /\ \E j : job' = [job EXCEPT ![w] = j]
    BY <1>0, <1>8 DEF Warn, Summon, Answer, Return, marks
  <2>2. \E place : Goto(w, place) /\ place \notin {"insert", "calling"}
    BY <1>0, <1>8 DEF Warn, Summon, Answer, Return, Goto
  <2>. QED
    BY <1>1, <2>1, <2>2
<1>9. CASE CallServant(w)
  <2>1. UNCHANGED records /\ at[w] = "calling"
    BY <1>9 DEF CallServant, marks
  <2>2. PICK r \in job[w].todo :
            \/ Return(w)
            \/ /\ job' = [job EXCEPT ![w].todo = @ \ {r},
                       ![w].absent = IF records[job[w].session][r] = <<>>
                                     THEN @ \cup {r} ELSE @]
               /\ UNCHANGED at
    BY <1>9 DEF CallServant
  <2>3. CASE /\ job' = [job EXCEPT ![w].todo = @ \ {r},
                       ![w].absent = IF records[job[w].session][r] = <<>>
                                     THEN @ \cup {r} ELSE @]
            /\ UNCHANGED at
    <3>1. /\ job'[w].session = job[w].session
          /\ job'[w].absent = IF records[job[w].session][r] = <<>>
                              THEN job[w].absent \cup {r} ELSE job[w].absent
          /\ \A v \in Workers \ {w} : job'[v] = job[v]
      BY <1>0, <2>3 DEF Job
    <3>2. CASE records[x][s] = <<>>
      BY <2>1, <3>2, BoundKept
    <3>3. CASE records[x][s] # <<>>
      <4>1. FoundNoRecord(x, s)' \subseteq FoundNoRecord(x, s)
        <5>1. ASSUME w \in FoundNoRecord(x, s)' PROVE w \in FoundNoRecord(x, s)
          BY <2>1, <2>3, <3>1, <3>3, <5>1 DEF FoundNoRecord
        <5>2. ASSUME NEW v \in Workers \ {w}, v \in FoundNoRecord(x, s)'
              PROVE  v \in FoundNoRecord(x, s)
          BY <2>3, <3>1, <5>2 DEF FoundNoRecord
        <5>. QED
          BY <5>1, <5>2 DEF FoundNoRecord
      <4>. QED
        BY <2>1, <4>1, BoundKept
    <3>. QED
      BY <3>2, <3>3
  <2>. QED
    BY <1>2, <2>1, <2>2, <2>3
<1>10. CASE CommitRollCall(w)
  <2>1. /\ at' = [at EXCEPT ![w] = "idle"] /\ at[w] = "calling"
        /\ job' = [job EXCEPT ![w] = NoJob]
    BY <1>10 DEF CommitRollCall, Return, Goto
  <2>2. at'[w] = "idle" /\ job'[w] = NoJob
    BY <1>0, <2>1
  <2>3. FoundNoRecord(x, s)' \subseteq FoundNoRecord(x, s) \ {w}
    BY <2>1, <2>2, FoundKept
  <2>4. records'[x][s] = IF x = job[w].session /\ s \in job[w].absent
                         THEN Append(records[x][s], "ABSENT") ELSE records[x][s]
    BY <1>10, RolledRows
  <2>5. CASE x = job[w].session /\ s \in job[w].absent
    <3>1. w \in FoundNoRecord(x, s)
      BY <2>1, <2>5 DEF FoundNoRecord
    <3>2. Len(records'[x][s]) = Len(records[x][s]) + 1
      <4>1. records[x][s] \in Seq(AttendanceStatus) /\ "ABSENT" \in AttendanceStatus
        BY DEF TypeInv, TypeOK, AttendanceStatus
      <4>. QED
        BY <2>4, <2>5, <4>1
    <3>. QED
      BY <2>3, <3>1, <3>2, BoundKept
  <2>. QED
    BY <2>3, <2>4, <2>5, BoundKept
<1>. QED
  BY <1>3, <1>5, <1>6, <1>7, <1>8, <1>9, <1>10 DEF Serve

LEMMA BoundedEnvironment ==
  ASSUME TypeInv, TypeInv', NEW x \in Sessions, NEW s \in Servants, Bounded(x, s),
         Environment \/ UNCHANGED vars
  PROVE  Bounded(x, s)'
<1>1. CASE UNCHANGED <<records, at, job>>
  BY <1>1 DEF Bounded, FoundNoRecord
<1>2. ASSUME NEW w \in Workers, Lose(w) PROVE Bounded(x, s)'
  <2>1. /\ at' = [at EXCEPT ![w] = "idle"] /\ job' = [job EXCEPT ![w] = NoJob]
        /\ at'[w] = "idle" /\ job'[w] = NoJob
    BY <1>2 DEF Lose, Return, Goto, TypeInv, TypeOK
  <2>2. UNCHANGED records
    BY <1>2 DEF Lose, marks
  <2>. QED
    BY <2>1, <2>2, FoundKept, BoundKept
<1>. QED
  BY <1>1, <1>2 DEF Environment, CreateSession, Cleanup, Convocations, own,
                    marks, vars

\* A race leaves no more rows of one servant in a session than there are
\* requests in flight.
THEOREM DuplicatesBounded == Spec => []RecordsBounded
<1>1. Init => RecordsBounded
  <2>. SUFFICES ASSUME Init, NEW x \in Sessions, NEW s \in Servants
                PROVE  Bounded(x, s)
    BY DEF RecordsBounded, Bounded
  <2>1. TypeInv /\ Len(records[x][s]) = 0
    BY InitType DEF Init
  <2>. QED
    BY <2>1, FoundFinite DEF Bounded
<1>2. Whole /\ Whole' /\ RecordsBounded /\ [Next]_vars => RecordsBounded'
  <2>. SUFFICES ASSUME TypeInv, TypeInv', RecordsBounded, [Next]_vars,
                       NEW x \in Sessions, NEW s \in Servants
                PROVE  Bounded(x, s)'
    BY DEF RecordsBounded, Bounded, Whole
  <2>1. Bounded(x, s)
    BY DEF RecordsBounded, Bounded
  <2>. QED
    BY <2>1, BoundedArrive, BoundedServe, BoundedEnvironment DEF Next
<1>. QED
  BY <1>1, <1>2, WholeInvariant, PTL DEF Spec

(***************************************************************************)
(* A summons leaves a convocation on record.                               *)
(***************************************************************************)

OnRecord(s) == \E c \in Rows : /\ convocations[c].status # "UNUSED"
                               /\ convocations[c].servant = s
                               /\ convocations[c].motif = AbsenceMotif

\* The request is about to look for a convocation or to insert one that the
\* foreign key accepts.
AtWork(p, s) == /\ pc[p] \in {"lookup", "insert"}
                /\ req[p].servant = s /\ req[p].motif = AbsenceMotif
                /\ req[p].by \in Accounts

\* A request that convenes is at work on it, or it has succeeded.
Convening ==
    \A w \in Workers :
        at[w] = "convened" => AtWork(w, job[w].servant) \/ OnRecord(job[w].servant)

Promised(s) == \E w \in Workers : at[w] = "convened" /\ job[w].servant = s

SummonInv ==
    aborts = 0 =>
        /\ Convening
        /\ \A s \in Servants : summons[s] > 0 => OnRecord(s) \/ Promised(s)

\* A row is never taken back, and keeps its servant and its motif.
LEMMA RowsStay ==
  ASSUME Whole, [Next]_vars, NEW s, OnRecord(s)
  PROVE  OnRecord(s)'
<1>1. [Parents!Next]_(Parents!vars)
  BY ConvocationsStep DEF Whole
<1>2. convocations \in [Rows -> Parents!Convocation] /\ Parents!TypeInv
  BY DEF Whole, Parents!TypeInv, Parents!TypeOK
<1>3. CASE UNCHANGED convocations
  BY <1>3 DEF OnRecord
<1>4. ASSUME NEW p \in Parents!Procs, Parents!Insert(p) PROVE OnRecord(s)'
  BY <1>2, <1>4 DEF Parents!Insert, OnRecord
<1>5. ASSUME NEW c \in Rows, NEW r \in Parents!Convocation,
             convocations' = [convocations EXCEPT ![c] = r],
             r.status # "UNUSED", r.servant = convocations[c].servant,
             r.motif = convocations[c].motif
      PROVE  OnRecord(s)'
  BY <1>2, <1>5 DEF OnRecord
<1>6. ASSUME NEW p \in Parents!Procs, Parents!CommitHonor(p) PROVE OnRecord(s)'
  <2>1. req[p].row \in Rows /\ req[p].by \in Managers
    BY <1>2, <1>6 DEF Parents!CommitHonor, Parents!TypeInv, Parents!HasWork
  <2>. DEFINE r == [convocations[req[p].row] EXCEPT !.status = "HONOREE",
                                                    !.honoredBy = req[p].by]
  <2>2. convocations' = [convocations EXCEPT ![req[p].row] = r]
    BY <1>2, <1>6, <2>1 DEF Parents!CommitHonor
  <2>3. /\ r \in Parents!Convocation /\ r.status = "HONOREE"
        /\ r.servant = convocations[req[p].row].servant
        /\ r.motif = convocations[req[p].row].motif
    BY <1>2, <2>1 DEF Parents!Convocation, Parents!Status
  <2>. HIDE DEF r
  <2>. QED
    BY <1>5, <2>1, <2>2, <2>3
<1>7. ASSUME NEW p \in Parents!Procs, Parents!CommitExpire(p) PROVE OnRecord(s)'
  <2>1. PICK c \in req[p].rows :
            convocations' = [convocations EXCEPT ![c].status = "SANS_REPONSE"]
    BY <1>7 DEF Parents!CommitExpire
  <2>2. c \in Rows
    BY <1>2, <1>7 DEF Parents!TypeInv, Parents!TypeOK, Parents!Request
  <2>. DEFINE r == [convocations[c] EXCEPT !.status = "SANS_REPONSE"]
  <2>3. convocations' = [convocations EXCEPT ![c] = r]
    BY <2>1
  <2>4. /\ r \in Parents!Convocation /\ r.status = "SANS_REPONSE"
        /\ r.servant = convocations[c].servant
        /\ r.motif = convocations[c].motif
    BY <1>2, <2>2 DEF Parents!Convocation, Parents!Status
  <2>. HIDE DEF r
  <2>. QED
    BY <1>5, <2>2, <2>3, <2>4
<1>. QED
  BY <1>1, <1>3, <1>4, <1>6, <1>7
     DEF Parents!Next, Parents!Arrive, Parents!Serve, Parents!Environment,
         Parents!BeginCreate, Parents!BeginConvene, Parents!BeginHonor,
         Parents!BeginExpire, Parents!Begin, Parents!LookupPending,
         Parents!InsertRefused, Parents!Suspend, Parents!DeadlinePasses,
         Parents!Reactivate, Parents!Abort, Parents!tables, Parents!vars, Parents!convocationVars

\* Its own request finds a convocation, inserts one, or dies.
LEMMA WorkGoesOn ==
  ASSUME Whole, Convocations, aborts' = 0, NEW w \in Workers,
         NEW s \in Servants, at[w] = "convened", AtWork(w, s)
  PROVE  aborts = 0 /\ (AtWork(w, s)' \/ OnRecord(s)')
<1>1. /\ convocations \in [Rows -> Parents!Convocation]
      /\ pc \in [Parents!Procs -> Parents!Places]
      /\ req \in [Parents!Procs -> Parents!Request] /\ aborts \in Nat
      /\ w \in Parents!Procs
  BY RollCallAssumption
     DEF Whole, Parents!TypeInv, Parents!TypeOK, Parents!Procs, Parents!Places,
         Parents!Request, Parents!Ops, Parents!Convocation, Parents!Status,
         Parents!Procs, Parents!Places, Parents!Request, Parents!Ops,
         Parents!Convocation, Parents!Status
<1>2. ASSUME UNCHANGED <<pc, req>> PROVE AtWork(w, s)'
  BY <1>2 DEF AtWork
<1>3. ASSUME NEW p \in Parents!Procs, p # w,
             NEW place, Parents!Goto(p, place),
             \E r : req' = [req EXCEPT ![p] = r]
      PROVE  AtWork(w, s)'
  BY <1>1, <1>3 DEF Parents!Goto, AtWork
<1>4. CASE Parents!Environment
  <2>1. ASSUME NEW p \in Parents!Procs, Parents!Abort(p) PROVE FALSE
    BY <1>1, <2>1 DEF Parents!Abort
  <2>. QED
    BY <1>2, <1>4, <2>1
       DEF Parents!Environment, Parents!DeadlinePasses, Parents!Reactivate
<1>5. ASSUME NEW p \in Parents!Procs, p # w,
             Parents!Arrive(p) \/ Parents!BeginExpire(p)
      PROVE  aborts' = aborts /\ AtWork(w, s)'
  BY <1>3, <1>5 DEF Parents!Arrive, Parents!BeginExpire, Parents!BeginCreate,
       Parents!BeginConvene, Parents!BeginHonor, Parents!Begin
<1>6. ASSUME NEW p \in Parents!Procs, Parents!Serve(p)
      PROVE  aborts' = aborts
  BY <1>6 DEF Parents!Serve, Parents!LookupPending, Parents!Insert,
       Parents!InsertRefused, Parents!CommitHonor, Parents!CommitExpire,
       Parents!Suspend
<1>7. ASSUME NEW p \in Parents!Procs, p # w, Parents!Serve(p)
      PROVE  AtWork(w, s)'
  <2>1. \E r : req' = [req EXCEPT ![p] = r]
    BY <1>1, <1>7 DEF Parents!Serve, Parents!LookupPending, Parents!Insert,
       Parents!InsertRefused, Parents!CommitHonor, Parents!CommitExpire,
       Parents!Suspend, Parents!Return
  <2>2. \E place : Parents!Goto(p, place)
    BY <1>7 DEF Parents!Serve, Parents!LookupPending, Parents!Insert,
       Parents!InsertRefused, Parents!CommitHonor, Parents!CommitExpire,
       Parents!Suspend, Parents!Return
  <2>. QED
    BY <1>3, <1>7, <2>1, <2>2
<1>8. CASE Parents!Serve(w)
  <2>1. CASE Parents!LookupPending(w)
    <3>1. CASE Parents!Pending(s, AbsenceMotif) # {}
      <4>1. OnRecord(s)
        BY <3>1 DEF Parents!Pending, OnRecord
      <4>2. UNCHANGED convocations
        BY <2>1 DEF Parents!LookupPending, Parents!tables
      <4>. QED
        BY <1>6, <1>8, <1>1, <4>1, <4>2 DEF OnRecord
    <3>2. CASE Parents!Pending(s, AbsenceMotif) = {}
      <4>1. Parents!Goto(w, "insert") /\ UNCHANGED req
        BY <2>1, <3>2 DEF Parents!LookupPending, AtWork
      <4>. QED
        BY <1>1, <1>6, <1>8, <4>1 DEF Parents!Goto, AtWork
    <3>. QED
      BY <3>1, <3>2
  <2>2. CASE Parents!Insert(w)
    <3>1. PICK c \in Rows :
              convocations' = [convocations EXCEPT ![c] =
                  [servant |-> s, motif |-> AbsenceMotif,
                   status |-> "EN_ATTENTE", convenedBy |-> req[w].by,
                   honoredBy |-> None]]
      BY <2>2 DEF Parents!Insert, AtWork
    <3>2. OnRecord(s)'
      BY <1>1, <3>1 DEF OnRecord
    <3>. QED
      BY <1>1, <1>6, <1>8, <3>2
  <2>3. CASE Parents!InsertRefused(w)
    BY <2>3 DEF Parents!InsertRefused, AtWork
  <2>. QED
    BY <1>8, <2>1, <2>2, <2>3
       DEF Parents!Serve, Parents!CommitHonor, Parents!CommitExpire,
           Parents!Suspend, AtWork
<1>9. Convocations => \/ Parents!Environment
                      \/ \E p \in Parents!Procs : p # w /\ Parents!Arrive(p)
                      \/ \E p \in Parents!Procs : p # w /\ Parents!BeginExpire(p)
                      \/ \E p \in Parents!Procs : Parents!Serve(p)
  <2>1. ASSUME NEW p \in Workers \cup Tasks,
               Parents!BeginExpire(p) PROVE p # w
    BY <2>1 DEF Parents!BeginExpire, Parents!Begin, AtWork
  <2>2. ASSUME NEW p \in Workers, at[p] = "idle" PROVE p # w
    BY <2>2
  <2>. QED
    BY <2>1, <2>2 DEF Convocations, Parents!Procs
<1>. QED
  <2>1. aborts' = aborts \/ Parents!Environment
    BY <1>5, <1>6, <1>9
  <2>2. Parents!Environment => aborts = 0
    BY <1>1 DEF Parents!Environment, Parents!DeadlinePasses,
                Parents!Reactivate, Parents!Abort
  <2>. QED
    BY <1>4, <1>5, <1>7, <1>8, <1>9, <2>1, <2>2

\* A step of a request that convenes neither before nor after it.
LEMMA OtherStep ==
  ASSUME Whole, SummonInv, [Next]_vars, UNCHANGED convocationVars,
         NEW w \in Workers, at[w] # "convened", at'[w] # "convened",
         at' = [at EXCEPT ![w] = at'[w]], job' = [job EXCEPT ![w] = job'[w]],
         \A s \in Servants : summons'[s] > 0 => summons[s] > 0
  PROVE  SummonInv'
<1>1. \A v \in Workers : at'[v] = "convened" =>
          v # w /\ at[v] = "convened" /\ job'[v] = job[v]
  BY DEF Whole, TypeInv, TypeOK
<1>2. \A s \in Servants : Promised(s) => Promised(s)'
  BY DEF Promised, Whole, TypeInv, TypeOK
<1>3. UNCHANGED <<convocations, pc, req, aborts>>
  BY DEF convocationVars
<1>4. \A s : (OnRecord(s) => OnRecord(s)') /\ \A v : AtWork(v, s) => AtWork(v, s)'
  BY <1>3 DEF OnRecord, AtWork
<1>. QED
  BY <1>1, <1>2, <1>3, <1>4 DEF SummonInv, Convening

LEMMA SummonStep ==
  ASSUME Whole, SummonInv, [Next]_vars
  PROVE  SummonInv'
<1>0. /\ at \in [Workers -> Places] /\ job \in [Workers -> Job]
      /\ summons \in [Servants -> Nat]
  BY DEF Whole, TypeInv, TypeOK
<1>1. ASSUME NEW w \in Workers, Arrive(w) PROVE SummonInv'
  <2>1. ASSUME NEW j, NEW place, Begin(w, j, place), place # "convened"
        PROVE  SummonInv'
    <3>1. /\ at' = [at EXCEPT ![w] = place] /\ job' = [job EXCEPT ![w] = j]
          /\ at'[w] = place /\ job'[w] = j /\ at[w] = "idle"
      BY <1>0, <2>1 DEF Begin, Goto
    <3>2. UNCHANGED convocationVars /\ UNCHANGED summons
      BY <2>1 DEF Begin, notices
    <3>. QED
      BY <2>1, <3>1, <3>2, OtherStep
  <2>. QED
    BY <1>1, <2>1 DEF Arrive, BeginMark, BeginUpdate, BeginRollCall
<1>2. ASSUME NEW w \in Workers, at[w] # "convened", Serve(w), ~Summon(w)
      PROVE  SummonInv'
  <2>1. UNCHANGED convocationVars /\ UNCHANGED summons
    BY <1>2 DEF Serve, LookupRecord, InsertRecord, CommitUpdate, Refresh,
         CountAbsences, LookupWarning, LookupSummons, Warn, Answer,
         CallServant, CommitRollCall, notices
  <2>2. \E j : job' = [job EXCEPT ![w] = j]
    BY <1>0, <1>2 DEF Serve, LookupRecord, InsertRecord, CommitUpdate, Marked,
         Refresh, CountAbsences, LookupWarning, LookupSummons, Warn, Answer,
         CallServant, CommitRollCall, Return
  <2>3. \E place : at' = [at EXCEPT ![w] = place] /\ place # "convened"
    BY <1>0, <1>2 DEF Serve, LookupRecord, InsertRecord, CommitUpdate, Marked,
         Refresh, CountAbsences, LookupWarning, LookupSummons, Warn, Answer,
         CallServant, CommitRollCall, Return, Goto
  <2>4. /\ at' = [at EXCEPT ![w] = at'[w]] /\ at'[w] # "convened"
        /\ job' = [job EXCEPT ![w] = job'[w]]
    BY <1>0, <2>2, <2>3
  <2>. QED
    BY <1>2, <2>1, <2>4, OtherStep
<1>3. ASSUME NEW w \in Workers, Answer(w) PROVE SummonInv'
  <2>1. /\ at' = [at EXCEPT ![w] = "idle"] /\ job' = [job EXCEPT ![w] = NoJob]
        /\ at[w] = "convened" /\ pc[w] = "idle"
        /\ UNCHANGED <<convocations, pc, req, aborts, summons>>
    BY <1>3 DEF Answer, Return, Goto, notices, convocationVars
  <2>2. \A v \in Workers \ {w} : at'[v] = at[v] /\ job'[v] = job[v]
    BY <1>0, <2>1
  <2>3. at'[w] = "idle"
    BY <1>0, <2>1
  <2>4. \A s : (OnRecord(s) => OnRecord(s)') /\ \A v : AtWork(v, s) => AtWork(v, s)'
    BY <2>1 DEF OnRecord, AtWork
  <2>5. aborts = 0 => OnRecord(job[w].servant)
    BY <2>1 DEF SummonInv, Convening, AtWork
  <2>6. aborts = 0 => Convening'
    BY <2>2, <2>3, <2>4 DEF SummonInv, Convening
  <2>7. ASSUME aborts = 0, NEW s \in Servants, summons[s] > 0
        PROVE  OnRecord(s)' \/ Promised(s)'
    BY <2>2, <2>4, <2>5, <2>7 DEF SummonInv, Promised
  <2>. QED
    BY <2>1, <2>6, <2>7 DEF SummonInv
<1>4. ASSUME NEW w \in Workers, Summon(w) PROVE SummonInv'
  <2>. DEFINE s == job[w].servant
  <2>1. /\ at[w] = "alert" /\ s \in Servants /\ job[w].by \in Accounts
    BY <1>4, RollCallAssumption DEF Summon, Whole, TypeInv, HasJob
  <2>2. /\ at' = [at EXCEPT ![w] = "convened"] /\ UNCHANGED job
        /\ summons' = [summons EXCEPT ![s] = @ + 1]
        /\ UNCHANGED <<convocations, aborts>>
        /\ pc[w] = "idle"
        /\ pc' = [pc EXCEPT ![w] = "lookup"]
        /\ req' = [req EXCEPT ![w] = [Parents!NoRequest EXCEPT !.op = "convene",
                 !.servant = s, !.motif = AbsenceMotif, !.by = job[w].by]]
    BY <1>4 DEF Summon, Goto, Parents!BeginConvene, Parents!Begin,
                Parents!Goto, Parents!tables
  <2>3. DOMAIN pc = Parents!Procs /\ DOMAIN req = Parents!Procs /\ w \in Parents!Procs
    BY DEF Whole, Parents!TypeInv, Parents!TypeOK, Parents!Procs
  <2>4. AtWork(w, s)'
    BY <2>1, <2>2, <2>3 DEF AtWork, Parents!NoRequest
  <2>5. \A r : /\ OnRecord(r) => OnRecord(r)'
               /\ \A v \in Workers \ {w} : AtWork(v, r) => AtWork(v, r)'
    BY <2>2, <2>3 DEF OnRecord, AtWork, Parents!Procs
  <2>6. \A v \in Workers \ {w} : at'[v] = at[v]
    BY <1>0, <2>2
  <2>7. at'[w] = "convened"
    BY <1>0, <2>2
  <2>8. aborts = 0 => Convening'
    BY <2>2, <2>4, <2>5, <2>6 DEF SummonInv, Convening
  <2>9. ASSUME aborts = 0, NEW r \in Servants, summons'[r] > 0
        PROVE  OnRecord(r)' \/ Promised(r)'
    <3>1. CASE r = s
      BY <2>2, <2>7, <3>1 DEF Promised
    <3>2. CASE r # s
      <4>1. summons'[r] = summons[r]
        BY <1>0, <2>1, <2>2, <3>2
      <4>. QED
        BY <2>1, <2>2, <2>5, <2>6, <2>9, <4>1 DEF SummonInv, Promised
    <3>. QED
      BY <3>1, <3>2
  <2>. QED
    BY <2>2, <2>8, <2>9 DEF SummonInv
<1>5. CASE Convocations
  <2>1. UNCHANGED <<at, job, summons>>
    BY <1>5 DEF Convocations, own, notices
  <2>. SUFFICES ASSUME aborts' = 0 PROVE SummonInv'
    BY DEF SummonInv
  <2>2. \A w \in Workers : at[w] = "convened" => job[w].servant \in Servants
    BY DEF Whole, TypeInv, HasJob
  <2>3. aborts = 0
    <3>1. ASSUME NEW p \in Parents!Procs,
                 Parents!Arrive(p) \/ Parents!BeginExpire(p) \/ Parents!Serve(p)
          PROVE  aborts' = aborts
      BY <3>1 DEF Parents!Arrive, Parents!Serve, Parents!BeginCreate,
         Parents!BeginConvene, Parents!BeginHonor, Parents!BeginExpire,
         Parents!Begin, Parents!LookupPending, Parents!Insert,
         Parents!InsertRefused, Parents!CommitHonor, Parents!CommitExpire,
         Parents!Suspend
    <3>2. CASE Parents!Environment
      <4>1. aborts \in Nat
        BY RollCallAssumption DEF Whole, Parents!TypeInv, Parents!TypeOK
      <4>. QED
        BY <3>2, <4>1 DEF Parents!Environment, Parents!DeadlinePasses,
           Parents!Reactivate, Parents!Abort
    <3>. QED
      BY <1>5, <3>1, <3>2 DEF Convocations, Parents!Procs
  <2>4. \A s \in Servants : OnRecord(s) => OnRecord(s)'
    BY RowsStay
  <2>5. Convening'
    BY <1>5, <2>1, <2>2, <2>3, <2>4, WorkGoesOn DEF SummonInv, Convening
  <2>6. \A s \in Servants : summons'[s] > 0 => OnRecord(s)' \/ Promised(s)'
    BY <2>1, <2>3, <2>4 DEF SummonInv, Promised
  <2>. QED
    BY <2>5, <2>6 DEF SummonInv
<1>6. ASSUME NEW w \in Workers, Lose(w) PROVE SummonInv'
  <2>1. /\ at' = [at EXCEPT ![w] = "idle"] /\ job' = [job EXCEPT ![w] = NoJob]
        /\ at'[w] = "idle" /\ job'[w] = NoJob /\ at[w] # "convened"
        /\ UNCHANGED convocationVars /\ UNCHANGED summons
    BY <1>0, <1>6 DEF Lose, Return, Goto, notices
  <2>. QED
    BY <2>1, OtherStep
<1>7. ASSUME UNCHANGED <<at, job, convocationVars>>,
             \A s \in Servants : summons'[s] > 0 => summons[s] > 0
      PROVE  SummonInv'
  BY <1>7 DEF SummonInv, Convening, Promised, OnRecord, AtWork, convocationVars
<1>8. ASSUME NEW s \in Servants, Cleanup(s) PROVE SummonInv'
  <2>1. \A r \in Servants : summons'[r] > 0 => summons[r] > 0
    BY <1>0, <1>8 DEF Cleanup
  <2>. QED
    BY <1>7, <1>8, <2>1 DEF Cleanup
<1>9. ASSUME NEW x \in Sessions, NEW by \in Managers, CreateSession(x, by)
      PROVE  SummonInv'
  BY <1>7, <1>9 DEF CreateSession, notices
<1>10. CASE UNCHANGED vars
  BY <1>7, <1>10 DEF vars, own, notices
<1>11. ASSUME NEW w \in Workers, Serve(w), at[w] = "convened" PROVE Answer(w)
  BY <1>11 DEF Serve, LookupRecord, InsertRecord, CommitUpdate, Refresh,
       CountAbsences, LookupWarning, LookupSummons, Warn, Summon, CallServant,
       CommitRollCall
<1>. QED
  BY <1>1, <1>2, <1>3, <1>4, <1>5, <1>6, <1>8, <1>9, <1>10, <1>11
     DEF Next, Environment

\* A summons leaves a convocation on record, unless its request died.
THEOREM SummonsRecorded == Spec => []SummonsOnRecord
<1>1. Init => SummonInv
  BY DEF Init, SummonInv, Convening
<1>2. SummonInv => SummonsOnRecord
  BY DEF SummonInv, SummonsOnRecord, Promised, OnRecord
<1>3. Whole /\ SummonInv /\ [Next]_vars => SummonInv'
  BY SummonStep
<1>. QED
  BY <1>1, <1>2, <1>3, WholeInvariant, PTL DEF Spec

(***************************************************************************)
(* Each alert once, until requests overlap or a notification is deleted.   *)
(***************************************************************************)

OneBusy ==
    \A v, w \in Workers : at[v] # "idle" /\ at[w] # "idle" => v = w

AtMostOne ==
    \A s \in Servants : warnings[s] \in {0, 1} /\ summons[s] \in {0, 1}

\* What w has found to be due has still not been sent.
StillDue(w) ==
    at[w] \in {"summoned", "alert"} =>
        /\ "warn" \in job[w].due => warnings[job[w].servant] = 0
        /\ "summon" \in job[w].due => summons[job[w].servant] = 0

AloneInv ==
    ~raced /\ cleanups = 0 =>
        OneBusy /\ AtMostOne /\ \A w \in Workers : StillDue(w)

\* The only busy request goes on: the others are idle.
LEMMA OthersIdle ==
  ASSUME TypeInv, OneBusy, NEW w \in Workers, at[w] # "idle", NEW place,
         Goto(w, place) \/ UNCHANGED at
  PROVE  OneBusy' /\ \A v \in Workers \ {w} : StillDue(v)'
<1>1. \A v \in Workers \ {w} : at'[v] = "idle"
  BY DEF Goto, TypeInv, TypeOK, OneBusy
<1>. QED
  BY <1>1 DEF OneBusy, StillDue

LEMMA AlertsOnceServe ==
  ASSUME TypeInv, OneBusy, AtMostOne, NEW w \in Workers, StillDue(w), Serve(w)
  PROVE  OneBusy' /\ AtMostOne' /\ \A v \in Workers : StillDue(v)'
<1>0. /\ job[w] \in Job /\ at[w] \in Places
      /\ warnings \in [Servants -> Nat] /\ summons \in [Servants -> Nat]
  BY DEF TypeInv, TypeOK
<1>1. CASE \/ LookupRecord(w) \/ InsertRecord(w) \/ CommitUpdate(w)
           \/ Refresh(w) \/ CountAbsences(w) \/ Answer(w)
           \/ CallServant(w) \/ CommitRollCall(w)
  <2>1. /\ at[w] # "idle" /\ UNCHANGED notices
        /\ \/ UNCHANGED at /\ at[w] = "calling"
           \/ \E place \in {"idle", "insert", "refresh", "count", "warned"} :
                 Goto(w, place)
    <3>1. CASE LookupRecord(w) \/ Refresh(w) \/ CountAbsences(w) \/ Answer(w)
      BY <3>1 DEF LookupRecord, Refresh, CountAbsences, Answer, Return
    <3>2. CASE InsertRecord(w) \/ CommitUpdate(w)
      BY <3>2 DEF InsertRecord, CommitUpdate, Marked, Return
    <3>3. CASE CallServant(w) \/ CommitRollCall(w)
      BY <3>3 DEF CallServant, CommitRollCall, Return
    <3>. QED
      BY <1>1, <3>1, <3>2, <3>3
  <2>2. OneBusy' /\ \A v \in Workers \ {w} : StillDue(v)'
    BY <2>1, OthersIdle
  <2>3. StillDue(w)'
    BY <2>1 DEF StillDue, Goto, TypeInv, TypeOK
  <2>. QED
    BY <2>1, <2>2, <2>3 DEF notices, AtMostOne
<1>2. CASE LookupWarning(w)
  <2>1. /\ at[w] # "idle" /\ Goto(w, "summoned") /\ UNCHANGED notices
        /\ job'[w].servant = job[w].servant
        /\ job'[w].due = {a \in {"warn"} : Due(a, job[w].servant, job[w].total)}
    BY <1>0, <1>2 DEF LookupWarning, Job, TypeInv, TypeOK
  <2>2. OneBusy' /\ \A v \in Workers \ {w} : StillDue(v)'
    BY <2>1, OthersIdle
  <2>3. StillDue(w)'
    BY <2>1 DEF StillDue, Due, notices
  <2>. QED
    BY <2>1, <2>2, <2>3 DEF notices, AtMostOne
<1>3. CASE LookupSummons(w)
  <2> DEFINE due == job[w].due \cup
                    {a \in {"summon"} : Due(a, job[w].servant, job[w].total)}
  <2>1. /\ at[w] = "summoned" /\ UNCHANGED notices
        /\ \/ Goto(w, "idle")
           \/ /\ Goto(w, "alert")
              /\ job'[w].servant = job[w].servant /\ job'[w].due = due
    BY <1>0, <1>3 DEF LookupSummons, Return, Job, TypeInv, TypeOK
  <2>2. OneBusy' /\ \A v \in Workers \ {w} : StillDue(v)'
    BY <2>1, OthersIdle
  <2>3. /\ "warn" \in due => warnings[job[w].servant] = 0
        /\ "summon" \in due => summons[job[w].servant] = 0
    BY <2>1 DEF StillDue, Due
  <2>4. StillDue(w)'
    <3>1. CASE Goto(w, "idle")
      BY <3>1 DEF Goto, StillDue, TypeInv, TypeOK
    <3>2. CASE Goto(w, "alert") /\ ~Goto(w, "idle")
      BY <2>1, <2>3, <3>2 DEF StillDue, notices
    <3>. QED
      BY <2>1, <3>1, <3>2
  <2>. QED
    BY <2>1, <2>2, <2>4 DEF notices, AtMostOne
<1>4. CASE Warn(w)
  <2>1. /\ at[w] = "alert" /\ job[w].servant \in Servants
        /\ warnings[job[w].servant] = 0 /\ UNCHANGED summons
        /\ warnings' = [warnings EXCEPT ![job[w].servant] = @ + 1]
    BY <1>4 DEF Warn, StillDue, TypeInv, HasJob
  <2>2. AtMostOne'
    BY <1>0, <2>1 DEF AtMostOne
  <2>3. \/ Goto(w, "idle")
        \/ UNCHANGED at /\ job' = [job EXCEPT ![w].due = {"summon"}]
              /\ "summon" \in job[w].due
    BY <1>0, <1>4 DEF Warn, Return, Job
  <2>4. OneBusy' /\ \A v \in Workers \ {w} : StillDue(v)'
    BY <2>1, <2>3, OthersIdle
  <2>5. StillDue(w)'
    <3>1. CASE Goto(w, "idle")
      BY <3>1 DEF Goto, StillDue, TypeInv, TypeOK
    <3>2. CASE /\ job' = [job EXCEPT ![w].due = {"summon"}]
               /\ "summon" \in job[w].due
      <4>1. job'[w].servant = job[w].servant /\ job'[w].due = {"summon"}
        BY <1>0, <3>2 DEF Job, TypeInv, TypeOK
      <4>. QED
        BY <2>1, <3>2, <4>1 DEF StillDue
    <3>. QED
      BY <2>3, <3>1, <3>2
  <2>. QED
    BY <2>2, <2>4, <2>5
<1>5. CASE Summon(w)
  <2>1. /\ at[w] = "alert" /\ job[w].servant \in Servants
        /\ summons[job[w].servant] = 0 /\ UNCHANGED warnings
        /\ summons' = [summons EXCEPT ![job[w].servant] = @ + 1]
        /\ Goto(w, "convened")
    BY <1>5 DEF Summon, StillDue, TypeInv, HasJob
  <2>2. AtMostOne'
    BY <1>0, <2>1 DEF AtMostOne
  <2>3. OneBusy' /\ \A v \in Workers \ {w} : StillDue(v)'
    BY <2>1, OthersIdle
  <2>4. StillDue(w)'
    BY <2>1 DEF Goto, StillDue, TypeInv, TypeOK
  <2>. QED
    BY <2>2, <2>3, <2>4
<1>. QED
  BY <1>1, <1>2, <1>3, <1>4, <1>5 DEF Serve

LEMMA AlertsOnceArrive ==
  ASSUME TypeInv, AtMostOne, NEW w \in Workers, Arrive(w), ~raced'
  PROVE  OneBusy' /\ AtMostOne' /\ \A v \in Workers : StillDue(v)'
<1>1. PICK place \in {"lookup", "update", "calling"} : \E j : Begin(w, j, place)
  BY DEF Arrive, BeginMark, BeginUpdate, BeginRollCall
<1>2. /\ \A v \in Workers : at[v] = "idle"
      /\ at' = [at EXCEPT ![w] = place] /\ UNCHANGED notices
  BY <1>1 DEF Begin, Goto
<1>3. \A v \in Workers : at'[v] = IF v = w THEN place ELSE "idle"
  BY <1>2 DEF TypeInv, TypeOK
<1>. QED
  BY <1>2, <1>3 DEF OneBusy, AtMostOne, StillDue, notices

LEMMA AlertsOnceAround ==
  ASSUME TypeInv, OneBusy, AtMostOne, \A w \in Workers : StillDue(w),
         Environment, cleanups' = 0
  PROVE  OneBusy' /\ AtMostOne' /\ \A w \in Workers : StillDue(w)'
<1>1. UNCHANGED <<notices, at, job>> =>
          OneBusy' /\ AtMostOne' /\ \A w \in Workers : StillDue(w)'
  BY DEF OneBusy, AtMostOne, StillDue, notices
<1>2. ASSUME NEW s \in Servants, Cleanup(s) PROVE FALSE
  <2>1. cleanups \in Nat /\ cleanups' = cleanups + 1
    BY <1>2, RollCallAssumption DEF Cleanup, TypeInv, TypeOK
  <2>. QED
    BY <2>1
<1>3. ASSUME NEW w \in Workers, Lose(w)
      PROVE  OneBusy' /\ AtMostOne' /\ \A v \in Workers : StillDue(v)'
  <2>1. at[w] # "idle" /\ Goto(w, "idle") /\ UNCHANGED notices
    BY <1>3 DEF Lose, Return
  <2>2. StillDue(w)'
    BY <2>1 DEF Goto, StillDue, TypeInv, TypeOK
  <2>. QED
    BY <2>1, <2>2, OthersIdle DEF notices, AtMostOne
<1>. QED
  BY <1>1, <1>2, <1>3 DEF Environment, CreateSession, Convocations, own

\* No step forgets that requests have overlapped or a notification is gone.
LEMMA HistoryKept ==
  ASSUME TypeInv, [Next]_vars
  PROVE  /\ raced => raced'
         /\ cleanups' = 0 => cleanups = 0
<1>1. ASSUME NEW w \in Workers, Arrive(w)
      PROVE  (raced => raced') /\ UNCHANGED cleanups
  <2>1. PICK j, place : Begin(w, j, place)
    BY <1>1 DEF Arrive, BeginMark, BeginUpdate, BeginRollCall
  <2>. QED
    BY <2>1 DEF Begin, history
<1>2. ASSUME NEW w \in Workers, Serve(w) PROVE UNCHANGED <<raced, cleanups>>
  BY <1>2 DEF Serve, LookupRecord, InsertRecord, CommitUpdate, Refresh,
     CountAbsences, LookupWarning, LookupSummons, Warn, Summon, Answer,
     CallServant, CommitRollCall, history
<1>3. ASSUME NEW s \in Servants, Cleanup(s)
      PROVE  UNCHANGED raced /\ cleanups' # 0
  <2>1. cleanups \in Nat /\ cleanups' = cleanups + 1
    BY <1>3, RollCallAssumption DEF Cleanup, TypeInv, TypeOK
  <2>. QED
    BY <1>3, <2>1 DEF Cleanup
<1>4. ASSUME Environment PROVE (raced => raced') /\ (cleanups' = 0 => cleanups = 0)
  BY <1>3, <1>4 DEF Environment, CreateSession, Lose, Convocations, own, history
<1>. QED
  BY <1>1, <1>2, <1>4 DEF Next, vars, own, history

LEMMA AloneStep ==
  ASSUME TypeInv, AloneInv, [Next]_vars
  PROVE  AloneInv'
<1>. SUFFICES ASSUME ~raced', cleanups' = 0
              PROVE  OneBusy' /\ AtMostOne' /\ \A w \in Workers : StillDue(w)'
  BY DEF AloneInv
<1>1. OneBusy /\ AtMostOne /\ \A w \in Workers : StillDue(w)
  BY HistoryKept DEF AloneInv
<1>2. CASE UNCHANGED vars
  BY <1>1, <1>2 DEF vars, own, notices, OneBusy, AtMostOne, StillDue
<1>3. CASE Next
  BY <1>1, <1>3, AlertsOnceServe, AlertsOnceArrive, AlertsOnceAround DEF Next
<1>. QED
  BY <1>2, <1>3

\* Until roll call requests overlap or a notification is deleted, nobody is
\* warned, or has his parents summoned, twice.
THEOREM AlertedOnce == Spec => []AlertsOnce
<1>1. Init => AloneInv
  BY DEF Init, AloneInv, OneBusy, AtMostOne, StillDue
<1>2. Whole /\ AloneInv /\ [Next]_vars => AloneInv'
  BY AloneStep DEF Whole
<1>3. AloneInv => AlertsOnce
  <2>. SUFFICES ASSUME AtMostOne
                PROVE  \A s \in Servants : warnings[s] <= 1 /\ summons[s] <= 1
    BY DEF AloneInv, AlertsOnce
  <2>1. ASSUME NEW n \in {0, 1} PROVE n <= 1
    OBVIOUS
  <2>. QED
    BY <2>1 DEF AtMostOne
<1>. QED
  BY <1>1, <1>2, <1>3, WholeInvariant, PTL DEF Spec

(***************************************************************************)
(* No threshold is missed: who reaches it, or who comes last, sees it.     *)
(***************************************************************************)

Alerts == {"warn", "summon"}
Threshold(a) == IF a = "warn" THEN WarnAt ELSE SummonAt
Sent(a, s)   == (IF a = "warn" THEN warnings[s] ELSE summons[s]) # 0

\* Request w is on its way to send alert a to s, or to find it was sent.
Waits(a, w, s) ==
    /\ job[w].servant = s
    /\ \/ at[w] = "refresh"
       \/ /\ at[w] = "count"
          /\ Absences(s) \subseteq
                 Seen(s, <<job[w].session, job[w].copy>>, job[w].own)
       \/ at[w] = "warned" /\ job[w].total >= Threshold(a)
       \/ /\ at[w] = "summoned"
          /\ IF a = "warn" THEN "warn" \in job[w].due
                           ELSE job[w].total >= SummonAt
       \/ at[w] = "alert" /\ a \in job[w].due

Reached(a, s) == Cardinality(Absences(s)) >= Threshold(a)
Covered(a, s) ==
    Reached(a, s) => Sent(a, s) \/ \E w \in Workers : Waits(a, w, s)

MissInv ==
    lost = 0 /\ cleanups = 0 /\ ~rolled =>
        \A a \in Alerts, s \in Servants : Covered(a, s)

\* One step of request w, which leaves the records as they are.
LEMMA QuietCovered ==
  ASSUME NEW a, NEW s, Covered(a, s), UNCHANGED records,
         Sent(a, s) => Sent(a, s)', NEW w,
         \A v \in Workers \ {w} : at'[v] = at[v] /\ job'[v] = job[v],
         Reached(a, s) /\ Waits(a, w, s) => Waits(a, w, s)' \/ Sent(a, s)'
  PROVE  Covered(a, s)'
<1>1. Absences(s)' = Absences(s)
  BY DEF Absences
<1>2. ASSUME NEW v \in Workers, Waits(a, v, s), v # w PROVE Waits(a, v, s)'
  BY <1>1, <1>2 DEF Waits, Seen
<1>3. Reached(a, s)' => Reached(a, s)
  BY <1>1 DEF Reached, Threshold
<1>. QED
  BY <1>2, <1>3 DEF Covered

\* A row is written: whoever adds an absence goes on to count.
LEMMA WriteCovered ==
  ASSUME TypeInv, NEW a \in Alerts, NEW s \in Servants, Covered(a, s),
         UNCHANGED notices, NEW w \in Workers, at[w] \in {"insert", "update"},
         \A v \in Workers \ {w} : at'[v] = at[v] /\ job'[v] = job[v],
         \/ job'[w].servant = s /\ at'[w] = "refresh"
         \/ Absences(s)' \subseteq Absences(s)
  PROVE  Covered(a, s)'
<1>1. CASE job'[w].servant = s /\ at'[w] = "refresh"
  BY <1>1 DEF Covered, Waits
<1>2. CASE Absences(s)' \subseteq Absences(s)
  <2>1. Sent(a, s)' <=> Sent(a, s)
    BY DEF notices, Sent
  <2>2. ASSUME NEW v \in Workers, Waits(a, v, s) PROVE Waits(a, v, s)'
    <3>1. at'[v] = at[v] /\ job'[v] = job[v]
      BY <2>2 DEF Waits
    <3>2. \A row, status : Absences(s) \subseteq Seen(s, row, status) =>
              Absences(s)' \subseteq
                  (Absences(s)' \ {row})
                      \cup (IF status = "ABSENT" THEN {row} ELSE {})
      BY <1>2 DEF Seen
    <3>. QED
      BY <2>2, <3>1, <3>2 DEF Waits, Seen
  <2>3. Reached(a, s)' => Reached(a, s)
    <3>1. IsFiniteSet(Absences(s))
      BY SeenFinite
    <3>2. /\ Cardinality(Absences(s)') <= Cardinality(Absences(s))
          /\ IsFiniteSet(Absences(s)')
      BY <1>2, <3>1, FS_Subset
    <3>3. /\ Cardinality(Absences(s)) \in Nat
          /\ Cardinality(Absences(s)') \in Nat
      BY <3>1, <3>2, FS_CardinalityType
    <3>4. Threshold(a) \in Nat
      BY RollCallAssumption DEF Threshold
    <3>. HIDE DEF Absences
    <3>. QED
      BY <3>2, <3>3, <3>4 DEF Reached, Threshold
  <2>. QED
    BY <2>1, <2>2, <2>3 DEF Covered
<1>. QED
  BY <1>1, <1>2

\* A mark of absence goes on to count; the other requests stay where they are.
LEMMA MarkedGoesOn ==
  ASSUME TypeInv, NEW w \in Workers, NEW x, NEW u, NEW k, Marked(w, x, u, k)
  PROVE  /\ \A v \in Workers \ {w} : at'[v] = at[v] /\ job'[v] = job[v]
         /\ job[w].status = "ABSENT" => job'[w].servant = u /\ at'[w] = "refresh"
<1> DEFINE j == [NoJob EXCEPT !.session = x, !.servant = u, !.copy = k,
                              !.by = sessions[x]]
<1>1. j.servant = u
  BY DEF NoJob
<1>. HIDE DEF j
<1>2. CASE job[w].status = "ABSENT"
  <2>1. job' = [job EXCEPT ![w] = j] /\ at' = [at EXCEPT ![w] = "refresh"]
    BY <1>2 DEF Marked, Goto, j
  <2>. QED
    BY <1>1, <2>1 DEF TypeInv, TypeOK
<1>3. CASE job[w].status # "ABSENT"
  BY <1>3 DEF Marked, Return, Goto, TypeInv, TypeOK
<1>. QED
  BY <1>2, <1>3

\* A row that is added or changed is an absence of one servant or of nobody.
LEMMA InsertCovered ==
  ASSUME TypeInv, NEW a \in Alerts, NEW s \in Servants, Covered(a, s),
         NEW w \in Workers, InsertRecord(w)
  PROVE  Covered(a, s)'
<1> DEFINE x == job[w].session  u == job[w].servant  n == job[w].status
<1>1. /\ at[w] = "insert" /\ x \in Sessions /\ u \in Servants
      /\ records[x] \in [Servants -> Seq(AttendanceStatus)]
      /\ records[x][u] \in Seq(AttendanceStatus)
      /\ records' = [records EXCEPT ![x][u] = Append(@, n)]
  BY DEF InsertRecord, TypeInv, TypeOK, HasJob
<1>2. /\ \A v \in Workers \ {w} : at'[v] = at[v] /\ job'[v] = job[v]
      /\ UNCHANGED notices
      /\ n = "ABSENT" => job'[w].servant = u /\ at'[w] = "refresh"
  BY MarkedGoesOn DEF InsertRecord
<1>3. ASSUME n # "ABSENT" \/ u # s PROVE Absences(s)' \subseteq Absences(s)
  <2>1. ASSUME NEW y \in Sessions, NEW k \in DOMAIN records'[y][s],
               records'[y][s][k] = "ABSENT"
        PROVE  k \in DOMAIN records[y][s] /\ records[y][s][k] = "ABSENT"
    <3>1. CASE y = x /\ s = u
      <4>1. records'[y][s] = Append(records[y][s], n) /\ n # "ABSENT"
        BY <1>1, <1>3, <3>1 DEF TypeInv, TypeOK
      <4>2. records[y][s] \in Seq(AttendanceStatus)
        BY <1>1, <3>1
      <4>3. DOMAIN records'[y][s] = 1..Len(records[y][s]) + 1
        BY <4>1, <4>2
      <4>4. k # Len(records[y][s]) + 1
        BY <2>1, <4>1, <4>2
      <4>5. k \in 1..Len(records[y][s])
        BY <2>1, <4>2, <4>3, <4>4
      <4>. QED
        BY <2>1, <4>1, <4>2, <4>5
    <3>2. CASE y # x \/ s # u
      BY <1>1, <2>1, <3>2 DEF TypeInv, TypeOK
    <3>. QED
      BY <3>1, <3>2
  <2>. QED
    BY <2>1 DEF Absences
<1>. QED
  BY <1>1, <1>2, <1>3, WriteCovered

LEMMA UpdateCovered ==
  ASSUME TypeInv, NEW a \in Alerts, NEW s \in Servants, Covered(a, s),
         NEW w \in Workers, CommitUpdate(w)
  PROVE  Covered(a, s)'
<1> DEFINE x == job[w].session  u == job[w].servant  n == job[w].status
           k == job[w].copy
<1>1. /\ at[w] = "update" /\ x \in Sessions /\ u \in Servants
      /\ \/ records' = records
         \/ records' = [records EXCEPT ![x][u][k] = n]
  BY DEF CommitUpdate, TypeInv, HasJob
<1>2. /\ \A v \in Workers \ {w} : at'[v] = at[v] /\ job'[v] = job[v]
      /\ UNCHANGED notices
      /\ n = "ABSENT" => job'[w].servant = u /\ at'[w] = "refresh"
  BY MarkedGoesOn DEF CommitUpdate
<1>3. ASSUME n # "ABSENT" \/ u # s PROVE Absences(s)' \subseteq Absences(s)
  <2>1. CASE records' = records
    BY <2>1 DEF Absences
  <2>2. CASE records' = [records EXCEPT ![x][u][k] = n]
    <3>1. ASSUME NEW y \in Sessions, NEW i \in DOMAIN records'[y][s],
                 records'[y][s][i] = "ABSENT"
          PROVE  i \in DOMAIN records[y][s] /\ records[y][s][i] = "ABSENT"
      <4>1. /\ records[y] \in [Servants -> Seq(AttendanceStatus)]
            /\ records[y][s] \in Seq(AttendanceStatus)
        BY DEF TypeInv, TypeOK
      <4>2. CASE y = x /\ s = u
        <5>1. records'[y][s] = [records[y][s] EXCEPT ![k] = n]
          BY <1>1, <2>2, <4>2 DEF TypeInv, TypeOK
        <5>. QED
          BY <1>3, <3>1, <4>1, <4>2, <5>1
      <4>3. CASE y # x \/ s # u
        <5>1. records'[y][s] = records[y][s]
          BY <1>1, <2>2, <4>3 DEF TypeInv, TypeOK
        <5>. QED
          BY <3>1, <5>1
      <4>. QED
        BY <4>2, <4>3
    <3>. QED
      BY <3>1 DEF Absences
  <2>. QED
    BY <1>1, <2>1, <2>2
<1>. QED
  BY <1>1, <1>2, <1>3, WriteCovered

LEMMA CountCovered ==
  ASSUME TypeInv, NEW a \in Alerts, NEW s \in Servants, Covered(a, s),
         NEW w \in Workers, Refresh(w) \/ CountAbsences(w)
  PROVE  Covered(a, s)'
<1>0. /\ UNCHANGED records /\ (Sent(a, s) => Sent(a, s)')
      /\ \A v \in Workers \ {w} : at'[v] = at[v] /\ job'[v] = job[v]
      /\ job[w] \in Job
  BY DEF Refresh, CountAbsences, marks, notices, Sent, Goto, TypeInv, TypeOK
<1>1. ASSUME Reached(a, s), Waits(a, w, s) PROVE Waits(a, w, s)'
  <2>1. CASE Refresh(w)
    <3> DEFINE row == <<job[w].session, job[w].copy>>
               held == records[job[w].session][s][job[w].copy]
    <3>1. /\ job[w].servant = s
          /\ job'[w].servant = s /\ job'[w].session = job[w].session
          /\ job'[w].copy = job[w].copy /\ job'[w].own = held
          /\ at'[w] = "count"
      BY <1>0, <1>1, <2>1 DEF Refresh, Goto, Waits, TypeInv, TypeOK, Job
    <3>2. row \in Absences(s) => held = "ABSENT"
      BY DEF Absences
    <3>3. Absences(s) \subseteq Seen(s, row, held)
      BY <3>2 DEF Seen
    <3>4. Absences(s)' = Absences(s) /\ Seen(s, row, held)' = Seen(s, row, held)'
      BY <1>0 DEF Absences
    <3>5. Absences(s)' \subseteq (Absences(s)' \ {row})
                 \cup (IF held = "ABSENT" THEN {row} ELSE {})
      BY <3>3, <3>4 DEF Seen
    <3>. HIDE DEF held
    <3>. QED
      BY <3>1, <3>5 DEF Waits, Seen
  <2>2. CASE CountAbsences(w)
    <3> DEFINE seen == Seen(s, <<job[w].session, job[w].copy>>, job[w].own)
    <3>1. /\ job[w].servant = s /\ Absences(s) \subseteq seen
          /\ job'[w].servant = s /\ job'[w].total = Cardinality(seen)
          /\ at'[w] = "warned"
      BY <1>0, <1>1, <2>2 DEF CountAbsences, Goto, Waits, TypeInv, TypeOK, NoJob
    <3>2. IsFiniteSet(seen)
      BY SeenFinite
    <3>3. /\ Cardinality(Absences(s)) <= Cardinality(seen)
          /\ Cardinality(Absences(s)) \in Nat /\ Cardinality(seen) \in Nat
      BY <3>1, <3>2, FS_Subset, FS_CardinalityType
    <3>4. Threshold(a) \in Nat
      BY RollCallAssumption DEF Threshold
    <3>. HIDE DEF seen
    <3>5. job'[w].total >= Threshold(a)
      BY <1>1, <3>1, <3>3, <3>4 DEF Reached
    <3>. QED
      BY <3>1, <3>5 DEF Waits, Threshold
  <2>. QED
    BY <2>1, <2>2
<1>. QED
  BY <1>0, <1>1, QuietCovered

LEMMA LookupCovered ==
  ASSUME TypeInv, NEW a \in Alerts, NEW s \in Servants, Covered(a, s),
         NEW w \in Workers, LookupWarning(w) \/ LookupSummons(w)
  PROVE  Covered(a, s)'
<1>0. /\ UNCHANGED records /\ (Sent(a, s) <=> Sent(a, s)')
      /\ \A v \in Workers \ {w} : at'[v] = at[v] /\ job'[v] = job[v]
      /\ job[w] \in Job
  BY DEF LookupWarning, LookupSummons, Return, marks, notices, Sent, Goto,
         TypeInv, TypeOK
<1>1. ASSUME Waits(a, w, s), ~Sent(a, s) PROVE Waits(a, w, s)'
  <2>1. CASE LookupWarning(w)
    <3>1. /\ job[w].servant = s /\ job[w].total >= Threshold(a)
          /\ job'[w].servant = s /\ job'[w].total = job[w].total
          /\ job'[w].due = {b \in {"warn"} : Due(b, s, job[w].total)}
          /\ at'[w] = "summoned"
      BY <1>0, <1>1, <2>1 DEF LookupWarning, Goto, Waits, TypeInv, TypeOK, Job
    <3>2. a = "warn" => "warn" \in job'[w].due
      BY <1>1, <3>1 DEF Due, Sent, Threshold
    <3>. QED
      BY <3>1, <3>2 DEF Waits, Threshold
  <2>2. CASE LookupSummons(w)
    <3> DEFINE due == job[w].due \cup
                      {b \in {"summon"} : Due(b, s, job[w].total)}
    <3>1. /\ at[w] = "summoned" /\ job[w].servant = s
          /\ IF due = {} THEN Return(w)
             ELSE /\ job' = [job EXCEPT ![w].due = due, ![w].total = 0]
                  /\ Goto(w, "alert")
      BY <1>1, <2>2 DEF LookupSummons, Waits
    <3>2. a \in due
      BY <1>1, <3>1 DEF Waits, Due, Sent, Alerts
    <3>3. /\ job'[w].servant = s /\ job'[w].due = due /\ at'[w] = "alert"
      BY <1>0, <3>1, <3>2 DEF Goto, TypeInv, TypeOK, Job
    <3>. QED
      BY <3>2, <3>3 DEF Waits
  <2>. QED
    BY <2>1, <2>2
<1>. QED
  BY <1>0, <1>1, QuietCovered

LEMMA SendCovered ==
  ASSUME TypeInv, NEW a \in Alerts, NEW s \in Servants, Covered(a, s),
         NEW w \in Workers, Warn(w) \/ Summon(w)
  PROVE  Covered(a, s)'
<1>0. /\ UNCHANGED records /\ at[w] = "alert"
      /\ \A v \in Workers \ {w} : at'[v] = at[v] /\ job'[v] = job[v]
      /\ job[w] \in Job /\ job[w].servant \in Servants
      /\ warnings \in [Servants -> Nat] /\ summons \in [Servants -> Nat]
  BY DEF Warn, Summon, Return, marks, Goto, TypeInv, TypeOK, HasJob
<1>1. Sent(a, s) => Sent(a, s)'
  BY <1>0 DEF Warn, Summon, Sent
<1>2. ASSUME Waits(a, w, s) PROVE Waits(a, w, s)' \/ Sent(a, s)'
  <2>1. job[w].servant = s /\ a \in job[w].due
    BY <1>0, <1>2 DEF Waits
  <2>2. CASE Warn(w) /\ a = "warn"
    BY <1>0, <2>1, <2>2 DEF Warn, Sent
  <2>3. CASE Warn(w) /\ a = "summon"
    <3>1. job' = [job EXCEPT ![w].due = {"summon"}] /\ UNCHANGED at
      BY <2>1, <2>3 DEF Warn
    <3>2. job'[w].servant = s /\ job'[w].due = {"summon"}
      BY <1>0, <2>1, <3>1 DEF TypeInv, TypeOK, Job
    <3>. QED
      BY <1>0, <2>3, <3>1, <3>2 DEF Waits
  <2>4. CASE Summon(w)
    BY <1>0, <2>1, <2>4 DEF Summon, Sent
  <2>. QED
    BY <2>2, <2>3, <2>4 DEF Alerts
<1>. QED
  BY <1>0, <1>1, <1>2, QuietCovered

\* The steps of a request that does not count, and what happens around it.
LEMMA OtherCovered ==
  ASSUME TypeInv, NEW a \in Alerts, NEW s \in Servants, Covered(a, s),
         UNCHANGED <<records, notices>>,
         \A v \in Workers : \/ at'[v] = at[v] /\ job'[v] = job[v]
                            \/ at[v] \in {"idle", "lookup", "convened", "calling"}
  PROVE  Covered(a, s)'
<1>1. Sent(a, s) => Sent(a, s)'
  BY DEF notices, Sent
<1>2. \A v \in Workers : Waits(a, v, s) => at'[v] = at[v] /\ job'[v] = job[v]
  BY DEF Waits
<1>3. Absences(s)' = Absences(s)
  BY DEF Absences
<1>4. \A v \in Workers : Waits(a, v, s) => Waits(a, v, s)'
  BY <1>2, <1>3 DEF Waits, Seen
<1>5. Reached(a, s)' => Reached(a, s)
  BY <1>3 DEF Reached, Threshold
<1>. QED
  BY <1>1, <1>4, <1>5 DEF Covered

LEMMA StepCovered ==
  ASSUME TypeInv, NEW a \in Alerts, NEW s \in Servants, Covered(a, s),
         Next, lost' = 0, cleanups' = 0, ~rolled'
  PROVE  Covered(a, s)'
<1>1. ASSUME NEW w \in Workers, Arrive(w) PROVE Covered(a, s)'
  <2>1. PICK j, place : Begin(w, j, place)
    BY <1>1 DEF Arrive, BeginMark, BeginUpdate, BeginRollCall
  <2>2. /\ at[w] = "idle" /\ UNCHANGED <<records, notices>>
        /\ \A v \in Workers \ {w} : at'[v] = at[v] /\ job'[v] = job[v]
    BY <2>1 DEF Begin, Goto, marks, TypeInv, TypeOK
  <2>. QED
    BY <2>2, OtherCovered
<1>2. ASSUME NEW w \in Workers, LookupRecord(w) \/ Answer(w) \/ CallServant(w)
      PROVE  Covered(a, s)'
  <2>1. /\ at[w] \in {"lookup", "convened", "calling"}
        /\ UNCHANGED <<records, notices>>
        /\ \A v \in Workers \ {w} : at'[v] = at[v] /\ job'[v] = job[v]
    BY <1>2 DEF LookupRecord, Answer, CallServant, Return, Goto, marks, TypeInv,
       TypeOK
  <2>. QED
    BY <2>1, OtherCovered
<1>3. ASSUME NEW w \in Workers, CommitRollCall(w) PROVE Covered(a, s)'
  <2> DEFINE j == job[w]
  <2>1. /\ at[w] = "calling" /\ j.absent = {} /\ UNCHANGED notices
        /\ \A v \in Workers \ {w} : at'[v] = at[v] /\ job'[v] = job[v]
    BY <1>3 DEF CommitRollCall, Return, Goto, TypeInv, TypeOK
  <2>2. \A x \in Sessions : records'[x] = records[x]
    BY <1>3, <2>1 DEF CommitRollCall, TypeInv, TypeOK
  <2>3. records' = records
    BY <1>3, <2>2 DEF CommitRollCall, TypeInv, TypeOK
  <2>. QED
    BY <2>1, <2>3, OtherCovered
<1>4. ASSUME NEW w \in Workers, Serve(w) PROVE Covered(a, s)'
  BY <1>2, <1>3, <1>4, InsertCovered, UpdateCovered, CountCovered,
     LookupCovered, SendCovered DEF Serve
<1>5. ASSUME NEW w \in Workers, Lose(w) PROVE FALSE
  BY <1>5, RollCallAssumption DEF Lose, TypeInv, TypeOK
<1>6. ASSUME NEW u \in Servants, Cleanup(u) PROVE FALSE
  BY <1>6, RollCallAssumption DEF Cleanup, TypeInv, TypeOK
<1>7. ASSUME Environment PROVE Covered(a, s)'
  <2>1. UNCHANGED <<records, notices, at, job>>
    BY <1>5, <1>6, <1>7 DEF Environment, CreateSession, Convocations, own, marks
  <2>. QED
    BY <2>1, OtherCovered
<1>. QED
  BY <1>1, <1>4, <1>7 DEF Next

\* Once a request has died, a notification is gone or a roll call has marked
\* somebody, it stays so.
LEMMA FaultsKept ==
  ASSUME TypeInv, Next, lost' = 0, cleanups' = 0, ~rolled'
  PROVE  lost = 0 /\ cleanups = 0 /\ ~rolled
<1>1. ASSUME NEW w \in Workers, Arrive(w) PROVE UNCHANGED history
  <2>1. PICK j, place : Begin(w, j, place)
    BY <1>1 DEF Arrive, BeginMark, BeginUpdate, BeginRollCall
  <2>. QED
    BY <2>1 DEF Begin, history
<1>2. ASSUME NEW w \in Workers, Serve(w)
      PROVE  UNCHANGED <<lost, cleanups>> /\ (rolled => rolled')
  <2>1. CASE CommitRollCall(w)
    BY <2>1 DEF CommitRollCall
  <2>2. CASE ~CommitRollCall(w)
    <3>1. UNCHANGED history
      BY <1>2, <2>2, Zenon
      DEF Serve, LookupRecord, InsertRecord, CommitUpdate, Refresh,
          CountAbsences, LookupWarning, LookupSummons, Warn, Summon, Answer,
          CallServant
    <3>. QED
      BY <3>1 DEF history
  <2>. QED
    BY <2>1, <2>2
<1>3. ASSUME NEW w \in Workers, Lose(w) PROVE FALSE
  BY <1>3, RollCallAssumption DEF Lose, TypeInv, TypeOK
<1>4. ASSUME NEW u \in Servants, Cleanup(u) PROVE FALSE
  BY <1>4, RollCallAssumption DEF Cleanup, TypeInv, TypeOK
<1>5. ASSUME Environment PROVE UNCHANGED history
  BY <1>3, <1>4, <1>5 DEF Environment, CreateSession, Convocations, own, history
<1>. QED
  BY <1>1, <1>2, <1>5 DEF Next, history

LEMMA MissInit == Init => MissInv
<1>. SUFFICES ASSUME Init, NEW a \in Alerts, NEW s \in Servants
              PROVE  ~Reached(a, s)
  BY DEF MissInv, Covered
<1>1. \A x \in Sessions : records[x][s] = <<>>
  BY DEF Init
<1>2. Absences(s) = {}
  BY <1>1 DEF Absences
<1>3. Cardinality({}) = 0
  BY FS_EmptySet
<1>4. Threshold(a) \in Nat \ {0}
  BY RollCallAssumption DEF Threshold
<1>. QED
  BY <1>2, <1>3, <1>4 DEF Reached

\* Marks of absence that race never both miss a threshold they reach together.
THEOREM AlertsNotMissed == Spec => []NoMissedAlert
<1>1. Whole /\ MissInv /\ [Next]_vars => MissInv'
  <2>1. ASSUME Whole, MissInv, Next PROVE MissInv'
    BY <2>1, StepCovered, FaultsKept DEF Whole, MissInv
  <2>2. ASSUME MissInv, UNCHANGED vars PROVE MissInv'
    BY <2>2 DEF vars, own, marks, notices, history, MissInv, Covered, Reached,
       Threshold, Sent, Waits, Absences, Seen
  <2>. QED
    BY <2>1, <2>2
<1>2. Whole /\ MissInv => NoMissedAlert
  <2>. SUFFICES ASSUME Whole, \A a \in Alerts, s \in Servants : Covered(a, s),
                       NEW s \in Servants, Settled(s)
                PROVE  /\ Reached("warn", s) => warnings[s] > 0
                       /\ Reached("summon", s) => summons[s] > 0
    BY DEF MissInv, NoMissedAlert, Reached, Threshold
  <2>1. \A a \in Alerts, w \in Workers : ~Waits(a, w, s)
    BY DEF Settled, Waits
  <2>2. \A a \in Alerts : Reached(a, s) => Sent(a, s)
    BY <2>1 DEF Covered
  <2>3. warnings[s] \in Nat /\ summons[s] \in Nat
    BY DEF Whole, TypeInv, TypeOK
  <2>4. /\ Reached("warn", s) => warnings[s] # 0
        /\ Reached("summon", s) => summons[s] # 0
    BY <2>2 DEF Sent, Alerts
  <2>. QED
    BY <2>3, <2>4
<1>. QED
  BY <1>1, <1>2, MissInit, WholeInvariant, PTL DEF Spec
=============================================================================
