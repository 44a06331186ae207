----------------------- MODULE DisciplineCouncilProofs -----------------------
(***************************************************************************)
(* Proofs about DisciplineCouncil, for any number of requests, cases,      *)
(* servants and seats.                                                     *)
(***************************************************************************)
EXTENDS DisciplineCouncil, FiniteSetTheorems, TLAPS

(***************************************************************************)
(* Types.                                                                  *)
(***************************************************************************)

LEMMA NoRequestType == NoRequest \in Request
<1>1. PICK c \in Cases : c = CHOOSE d \in Cases : TRUE
  BY CouncilAssumption
<1>2. PICK s \in Servants : s = CHOOSE t \in Servants : TRUE
  BY CouncilAssumption
<1>3. "AUCUNE" \in Sanctions
  BY CouncilAssumption
<1>. QED
  BY <1>1, <1>2, <1>3 DEF NoRequest, Request, CaseRow, Deciders, Ops

\* What an ORM flush leaves is again a row.
LEMMA FlushType ==
  ASSUME NEW read \in CaseRow, NEW new \in CaseRow, NEW row \in CaseRow
  PROVE  Flush(read, new, row) \in CaseRow
BY DEF Flush, Column, CaseRow

\* A verdict makes a row of a row.
LEMMA JudgedType ==
  ASSUME NEW row \in CaseRow, NEW x \in Sanctions, NEW by \in Deciders
  PROVE  Judged(row, x, by) \in CaseRow
BY DEF Judged, CaseRow, CaseStatus

LEMMA StoreType ==
  ASSUME TypeOK, NEW w \in Workers, NEW new \in CaseRow, Store(w, new)
  PROVE  cases' \in [Cases -> CaseRow]
<1>1. req[w] \in Request /\ req[w].case \in Cases /\ req[w].row \in CaseRow
  BY DEF TypeOK, Request
<1>2. Flush(req[w].row, new, cases[req[w].case]) \in CaseRow
  BY <1>1, FlushType DEF TypeOK
<1>. QED
  BY <1>1, <1>2 DEF Store, TypeOK

LEMMA ReturnType ==
  ASSUME TypeOK, NEW w \in Workers, Return(w)
  PROVE  pc' \in [Workers -> Places] /\ req' \in [Workers -> Request]
BY NoRequestType DEF TypeOK, Return, Goto, Places

LEMMA LoadType ==
  ASSUME TypeOK, NEW w \in Workers, NEW op \in Ops, NEW c \in Cases,
         NEW by \in Deciders, NEW x \in Sanctions, NEW from,
         Load(w, op, c, by, x, from)
  PROVE  TypeOK'
<1>1. [op |-> op, case |-> c, by |-> by, sanction |-> x, row |-> cases[c],
       existing |-> FALSE, quorum |-> {}] \in Request
  BY DEF TypeOK, Request
<1>2. overlapped' \in BOOLEAN
  BY DEF Load, TypeOK
<1>. QED
  BY <1>1, <1>2 DEF Load, tables, TypeOK, Goto, Places

LEMMA PronounceType ==
  ASSUME TypeOK, NEW w \in Workers, Pronounce(w)
  PROVE  TypeOK'
<1>1. /\ req[w] \in Request /\ req[w].case \in Cases /\ req[w].row \in CaseRow
      /\ req[w].sanction \in Sanctions /\ req[w].by \in Deciders
  BY DEF TypeOK, Request
<1>2. cases' \in [Cases -> CaseRow]
  BY <1>1, JudgedType, StoreType DEF Pronounce
<1>3. issued' \in [Cases -> SUBSET [sanction : Sanctions, by : Deciders]]
  BY <1>1 DEF Pronounce, TypeOK
<1>4. pc' \in [Workers -> Places] /\ req' \in [Workers -> Request]
  BY ReturnType DEF Pronounce
<1>. QED
  BY <1>2, <1>3, <1>4 DEF Pronounce, TypeOK

LEMMA CommitStatusType ==
  ASSUME TypeOK, NEW w \in Workers, NEW op, NEW status \in CaseStatus,
         CommitStatus(w, op, status)
  PROVE  TypeOK'
<1>1. [req[w].row EXCEPT !.status = status] \in CaseRow
  BY ZenonT(40) DEF TypeOK, Request, CaseRow
<1>2. cases' \in [Cases -> CaseRow]
  BY <1>1, StoreType DEF CommitStatus
<1>3. pc' \in [Workers -> Places] /\ req' \in [Workers -> Request]
  BY ReturnType DEF CommitStatus
<1>. QED
  BY <1>2, <1>3 DEF CommitStatus, TypeOK

LEMMA InitType == Init => TypeOK
<1>. SUFFICES ASSUME Init PROVE TypeOK
  OBVIOUS
<1>1. NoRequest \in Request /\ NoRequest.row \in CaseRow
  BY NoRequestType DEF Request
<1>2. overlapped \in BOOLEAN
  BY DEF Init
<1>. QED
  BY <1>1, <1>2, CouncilAssumption DEF Init, TypeOK, Places

LEMMA ArriveType ==
  ASSUME TypeOK, NEW w \in Workers, Arrive(w)
  PROVE  TypeOK'
<1>0. "AUCUNE" \in Sanctions /\ NoOne \in Deciders /\ Seats \subseteq Deciders
  BY CouncilAssumption DEF Deciders
<1>. PICK c \in Cases :
        \/ BeginConvoke(w, c)
        \/ BeginHearing(w, c)
        \/ \E by \in Deciders, x \in Sanctions : BeginVerdict(w, c, by, x)
        \/ \E seat \in Seats, x \in Sanctions : BeginVote(w, c, seat, x)
        \/ BeginExecute(w, c)
        \/ \E by \in Deciders : BeginDismiss(w, c, by)
  BY DEF Arrive
<1>1. CASE BeginConvoke(w, c)
  BY <1>0, <1>1, LoadType DEF BeginConvoke, Ops
<1>2. CASE BeginHearing(w, c)
  BY <1>0, <1>2, LoadType DEF BeginHearing, Ops
<1>3. ASSUME NEW by \in Deciders, NEW x \in Sanctions, BeginVerdict(w, c, by, x)
      PROVE  TypeOK'
  BY <1>3, LoadType DEF BeginVerdict, Ops
<1>4. ASSUME NEW s \in Seats, NEW x \in Sanctions, BeginVote(w, c, s, x)
      PROVE  TypeOK'
  BY <1>0, <1>4, LoadType DEF BeginVote, Ops
<1>5. CASE BeginExecute(w, c)
  BY <1>0, <1>5, LoadType DEF BeginExecute, Ops
<1>6. ASSUME NEW by \in Deciders, BeginDismiss(w, c, by)
      PROVE  TypeOK'
  BY <1>0, <1>6, LoadType DEF BeginDismiss, Ops
<1>. QED
  BY <1>1, <1>2, <1>3, <1>4, <1>5, <1>6

LEMMA ServeType ==
  ASSUME TypeOK, NEW w \in Workers, Serve(w)
  PROVE  TypeOK'
<1>0. /\ req[w] \in Request /\ req[w].case \in Cases /\ req[w].row \in CaseRow
      /\ req[w].sanction \in Sanctions
  BY DEF TypeOK, Request
<1>1. CASE CommitConvoke(w)
  BY <1>1, CommitStatusType DEF CommitConvoke, CaseStatus, OpenStatus
<1>2. CASE CommitHearing(w)
  BY <1>2, CommitStatusType DEF CommitHearing, CaseStatus, OpenStatus
<1>3. CASE CommitVerdict(w) \/ CommitCouncilVerdict(w)
  BY <1>3, PronounceType DEF CommitVerdict, CommitCouncilVerdict
<1>4. CASE SelectVote(w) \/ ReadQuorum(w) \/ TallyDecides(w)
  <2>1. pc' \in [Workers -> Places] /\ req' \in [Workers -> Request]
    <3>1. PICK e \in BOOLEAN, q \in SUBSET Seats, x \in Sanctions :
            \/ req' = [req EXCEPT ![w].existing = e]
            \/ req' = [req EXCEPT ![w].quorum = q]
            \/ req' = [req EXCEPT ![w].sanction = x]
      BY <1>0, <1>4 DEF SelectVote, tables, ReadQuorum, TallyDecides, TypeOK
    <3>2. /\ [req[w] EXCEPT !.existing = e] \in Request
          /\ [req[w] EXCEPT !.quorum = q] \in Request
          /\ [req[w] EXCEPT !.sanction = x] \in Request
      BY <1>0 DEF Request
    <3>3. req' \in [Workers -> Request]
      BY <3>1, <3>2 DEF TypeOK
    <3>. QED
      BY <1>4, <3>3 DEF SelectVote, tables, ReadQuorum, TallyDecides, TypeOK, Goto, Places
  <2>. QED
    BY <1>4, <2>1 DEF SelectVote, tables, ReadQuorum, TallyDecides, TypeOK
<1>5. CASE UpsertVote(w)
  BY <1>0, <1>5 DEF UpsertVote, TypeOK, Goto, Places
<1>6. CASE VoteConflict(w) \/ TallyUndecided(w)
  BY <1>6, ReturnType DEF VoteConflict, tables, TallyUndecided, TypeOK
<1>7. CASE CommitExecute(w)
  <2>1. [req[w].row EXCEPT !.status = "EXECUTE"] \in CaseRow
    BY <1>0 DEF CaseRow, CaseStatus, ClosedStatus
  <2>2. cases' \in [Cases -> CaseRow]
    BY <1>7, <2>1, StoreType DEF CommitExecute
  <2>3. active' \in SUBSET Servants
    BY <1>7 DEF CommitExecute, TypeOK
  <2>. QED
    BY <1>7, <2>2, <2>3, ReturnType DEF CommitExecute, TypeOK
<1>8. CASE CommitDismiss(w)
  <2>1. [req[w].row EXCEPT !.status = "CLASSE", !.sanction = "AUCUNE"] \in CaseRow
    BY <1>0, CouncilAssumption DEF CaseRow, CaseStatus, ClosedStatus
  <2>2. cases' \in [Cases -> CaseRow]
    BY <1>8, <2>1, StoreType DEF CommitDismiss
  <2>. QED
    BY <1>8, <2>2, ReturnType DEF CommitDismiss, TypeOK
<1>. QED
  BY <1>1, <1>2, <1>3, <1>4, <1>5, <1>6, <1>7, <1>8 DEF Serve

LEMMA EnvironmentType ==
  ASSUME TypeOK, Environment
  PROVE  TypeOK'
<1>1. ASSUME NEW c \in Cases, NEW s \in Servants, OpenCase(c, s)
      PROVE  TypeOK'
  <2>1. cases' \in [Cases -> CaseRow]
    BY <1>1, ZenonT(40) DEF OpenCase, TypeOK, CaseRow, CaseStatus, OpenStatus
  <2>. QED
    BY <1>1, <2>1 DEF OpenCase, TypeOK
<1>2. ASSUME NEW s \in Seats, Reseat(s)
      PROVE  TypeOK'
  BY <1>2, CouncilAssumption DEF Reseat, TypeOK
<1>3. ASSUME NEW s \in Servants, Reactivate(s)
      PROVE  TypeOK'
  BY <1>3 DEF Reactivate, TypeOK
<1>4. ASSUME NEW w \in Workers, Abort(w)
      PROVE  TypeOK'
  BY <1>4, ReturnType, CouncilAssumption DEF Abort, tables, TypeOK
<1>. QED
  BY <1>1, <1>2, <1>3, <1>4 DEF Environment

\* Type correctness: TypeOK holds in every reachable state.
THEOREM TypeCorrect == Spec => []TypeOK
<1>1. TypeOK /\ [Next]_vars => TypeOK'
  <2>. SUFFICES ASSUME TypeOK, [Next]_vars PROVE TypeOK'
    OBVIOUS
  <2>1. CASE UNCHANGED vars
    BY <2>1 DEF vars, TypeOK
  <2>2. CASE Next
    BY <2>2, EnvironmentType, ArriveType, ServeType DEF Next
  <2>. QED
    BY <2>1, <2>2
<1>. QED
  BY <1>1, InitType, PTL DEF Spec

-----------------------------------------------------------------------------
(***************************************************************************)
(* What every interleaving keeps.  verdict_by and the suspension columns   *)
(* are only ever filled, so what a request saw filled is still filled when *)
(* it writes its row back.                                                 *)
(***************************************************************************)

\* What a request in flight knows of its row.
Snapshot(w) ==
    LET r == req[w] IN
    pc[w] # "idle" =>
        /\ r.row.verdictBy # NoOne => cases[r.case].verdictBy # NoOne
        /\ r.row.suspended => cases[r.case].suspended
        /\ r.row.sanction = "SUSPENSION_TEMPORAIRE" => r.row.suspended
        /\ r.op = "execute" => r.row.verdictBy # NoOne
        /\ r.op \in {"verdict", "vote"} => r.by # NoOne

RaceInv ==
    /\ DecidedIsSigned
    /\ SuspensionHasPeriod
    /\ \A w \in Workers : Snapshot(w)

\* No case loses its decider or its suspension period.
Grows ==
    \A c \in Cases :
        /\ cases[c].verdictBy # NoOne => cases'[c].verdictBy # NoOne
        /\ cases[c].suspended => cases'[c].suspended

LEMMA OthersKeepSnapshot ==
  ASSUME TypeOK, RaceInv, Grows, NEW w \in Workers,
         \A v \in Workers \ {w} : pc'[v] = pc[v] /\ req'[v] = req[v]
  PROVE  \A v \in Workers \ {w} : Snapshot(v)'
<1>. SUFFICES ASSUME NEW v \in Workers \ {w} PROVE Snapshot(v)'
  OBVIOUS
<1>1. req[v].case \in Cases /\ Snapshot(v)
  BY DEF TypeOK, Request, RaceInv
<1>. QED
  BY <1>1 DEF Snapshot, Grows

\* A handler that only fills the two columns, and signs what it decides, keeps
\* the invariant when it stores its row and returns.
LEMMA StoreRace ==
  ASSUME TypeOK, RaceInv, NEW w \in Workers, pc[w] # "idle",
         NEW new \in CaseRow, Store(w, new), Return(w),
         new.verdictBy = req[w].row.verdictBy \/ new.verdictBy # NoOne,
         new.suspended = req[w].row.suspended \/ new.suspended,
         new.status \in {"VERDICT_RENDU", "EXECUTE"} => new.verdictBy # NoOne,
         new.sanction = "SUSPENSION_TEMPORAIRE" => new.suspended
  PROVE  RaceInv' /\ Grows
<1> DEFINE r == req[w]  c == r.case  old == cases[c]
<1>1. /\ c \in Cases /\ r.row \in CaseRow /\ old \in CaseRow /\ r \in Request
  BY DEF TypeOK, Request
<1>2. /\ old.verdictBy \in Deciders /\ old.suspended \in BOOLEAN
      /\ new.suspended \in BOOLEAN /\ r.row.suspended \in BOOLEAN
  BY <1>1 DEF CaseRow
<1>3. Snapshot(w)
  BY DEF RaceInv
<1>4. /\ cases'[c] = Flush(r.row, new, old)
      /\ \A d \in Cases \ {c} : cases'[d] = cases[d]
  BY <1>1 DEF Store, TypeOK
<1>5. /\ cases'[c].status    = Column(r.row.status, new.status, old.status)
      /\ cases'[c].sanction  = Column(r.row.sanction, new.sanction, old.sanction)
      /\ cases'[c].verdictBy = Column(r.row.verdictBy, new.verdictBy, old.verdictBy)
      /\ cases'[c].suspended = Column(r.row.suspended, new.suspended, old.suspended)
  BY <1>4 DEF Flush
<1>6. Grows
  <2>1. old.verdictBy # NoOne => cases'[c].verdictBy # NoOne
    BY <1>5 DEF Column
  <2>2. old.suspended => cases'[c].suspended
    BY <1>2, <1>5 DEF Column
  <2>. QED
    BY <1>4, <2>1, <2>2 DEF Grows
<1>7. DecidedIsSigned'
  <2>1. new.verdictBy # NoOne => cases'[c].verdictBy # NoOne
    BY <1>3, <1>5 DEF Column, Snapshot
  <2>2. cases'[c].status \in {"VERDICT_RENDU", "EXECUTE"} =>
            cases'[c].verdictBy # NoOne
    BY <1>1, <1>5, <1>6, <2>1 DEF Column, RaceInv, DecidedIsSigned, Grows
  <2>. QED
    BY <1>4, <2>2 DEF RaceInv, DecidedIsSigned
<1>8. SuspensionHasPeriod'
  <2>1. new.suspended => cases'[c].suspended
    BY <1>2, <1>3, <1>5 DEF Column, Snapshot
  <2>2. cases'[c].sanction = "SUSPENSION_TEMPORAIRE" => cases'[c].suspended
    BY <1>1, <1>5, <1>6, <2>1 DEF Column, RaceInv, SuspensionHasPeriod, Grows
  <2>. QED
    BY <1>4, <2>2 DEF RaceInv, SuspensionHasPeriod
<1>9. \A v \in Workers : Snapshot(v)'
  <2>1. pc'[w] = "idle"
    BY DEF Return, Goto, TypeOK
  <2>2. Snapshot(w)'
    BY <2>1 DEF Snapshot
  <2>3. \A v \in Workers \ {w} : pc'[v] = pc[v] /\ req'[v] = req[v]
    BY DEF Return, Goto, TypeOK
  <2>. QED
    BY <1>6, <2>2, <2>3, OthersKeepSnapshot
<1>. QED
  BY <1>6, <1>7, <1>8, <1>9 DEF RaceInv

LEMMA LoadRace ==
  ASSUME TypeOK, RaceInv, NEW w \in Workers, NEW op, NEW c \in Cases,
         NEW by, NEW x, NEW from, Load(w, op, c, by, x, from),
         op = "execute" => from = {"VERDICT_RENDU"},
         op \in {"verdict", "vote"} => by # NoOne
  PROVE  RaceInv' /\ Grows
<1>1. cases' = cases /\ Grows
  BY DEF Load, tables, Grows
<1>2. \A v \in Workers \ {w} : pc'[v] = pc[v] /\ req'[v] = req[v]
  BY DEF Load, tables, Goto, TypeOK
<1>3. Snapshot(w)'
  <2>1. /\ req'[w].row = cases[c] /\ req'[w].case = c
        /\ req'[w].op = op /\ req'[w].by = by
    BY DEF Load, tables, TypeOK
  <2>2. op = "execute" => cases[c].verdictBy # NoOne
    BY DEF Load, tables, RaceInv, DecidedIsSigned
  <2>3. cases[c].sanction = "SUSPENSION_TEMPORAIRE" => cases[c].suspended
    BY DEF RaceInv, SuspensionHasPeriod
  <2>. QED
    BY <1>1, <2>1, <2>2, <2>3 DEF Snapshot
<1>4. \A v \in Workers : Snapshot(v)'
  BY <1>1, <1>2, <1>3, OthersKeepSnapshot
<1>. QED
  BY <1>1, <1>4 DEF RaceInv, DecidedIsSigned, SuspensionHasPeriod

\* A step that leaves the files alone and, for the worker that takes it, either
\* returns or keeps what the invariant reads of its request.
LEMMA QuietRace ==
  ASSUME TypeOK, RaceInv, NEW w \in Workers, cases' = cases,
         \A v \in Workers \ {w} : pc'[v] = pc[v] /\ req'[v] = req[v],
         \/ pc'[w] = "idle"
         \/ /\ pc[w] # "idle" /\ req'[w].op = req[w].op
            /\ req'[w].case = req[w].case /\ req'[w].by = req[w].by
            /\ req'[w].row = req[w].row
  PROVE  RaceInv' /\ Grows
<1>1. Grows
  BY DEF Grows
<1>2. Snapshot(w)'
  BY DEF RaceInv, Snapshot
<1>3. \A v \in Workers : Snapshot(v)'
  BY <1>1, <1>2, OthersKeepSnapshot
<1>. QED
  BY <1>1, <1>3 DEF RaceInv, DecidedIsSigned, SuspensionHasPeriod

LEMMA PronounceRace ==
  ASSUME TypeOK, RaceInv, NEW w \in Workers, pc[w] # "idle",
         req[w].op \in {"verdict", "vote"}, Pronounce(w)
  PROVE  RaceInv' /\ Grows /\ cases'[req[w].case].verdictBy # NoOne
<1> DEFINE new == Judged(req[w].row, req[w].sanction, req[w].by)
<1>1. /\ req[w].row \in CaseRow /\ req[w].sanction \in Sanctions
      /\ req[w].by \in Deciders /\ req[w].case \in Cases
      /\ req[w].row.suspended \in BOOLEAN
  BY DEF TypeOK, Request, CaseRow
<1>2. new \in CaseRow
  BY <1>1, JudgedType
<1>3. req[w].by # NoOne
  BY DEF RaceInv, Snapshot
<1>4. /\ new.verdictBy = req[w].by /\ new.sanction = req[w].sanction
      /\ new.suspended = (req[w].sanction = "SUSPENSION_TEMPORAIRE"
                             \/ req[w].row.suspended)
  BY <1>1 DEF Judged, CaseRow
<1>5. RaceInv' /\ Grows
  <2>. HIDE DEF new
  <2>1. new.suspended = req[w].row.suspended \/ new.suspended
    BY <1>1, <1>4
  <2>2. new.sanction = "SUSPENSION_TEMPORAIRE" => new.suspended
    BY <1>4
  <2>3. Store(w, new) /\ Return(w)
    BY DEF Pronounce, new
  <2>. QED
    BY <1>2, <1>3, <1>4, <2>1, <2>2, <2>3, StoreRace
<1>6. cases'[req[w].case].verdictBy # NoOne
  <2>1. cases'[req[w].case].verdictBy =
            Column(req[w].row.verdictBy, req[w].by, cases[req[w].case].verdictBy)
    BY <1>1, <1>4 DEF Pronounce, Store, Flush, TypeOK
  <2>. QED
    BY <1>3, <2>1 DEF Column, RaceInv, Snapshot
<1>. QED
  BY <1>5, <1>6

LEMMA CommitStatusRace ==
  ASSUME TypeOK, RaceInv, NEW w \in Workers, NEW op,
         NEW status \in {"CONVOQUE", "EN_AUDIENCE"}, CommitStatus(w, op, status)
  PROVE  RaceInv' /\ Grows
<1> DEFINE new == [req[w].row EXCEPT !.status = status]
<1>1. req[w].row \in CaseRow
  BY DEF TypeOK, Request
<1>2. /\ new \in CaseRow /\ new.status \notin {"VERDICT_RENDU", "EXECUTE"}
      /\ new.verdictBy = req[w].row.verdictBy
      /\ new.suspended = req[w].row.suspended
      /\ new.sanction = req[w].row.sanction
  BY <1>1 DEF CaseRow, CaseStatus, OpenStatus
<1>3. pc[w] # "idle" /\ Store(w, new) /\ Return(w)
  BY DEF CommitStatus, At
<1>4. new.sanction = "SUSPENSION_TEMPORAIRE" => new.suspended
  BY <1>2, <1>3 DEF RaceInv, Snapshot
<1>. QED
  <2>. HIDE DEF new
  <2>. QED
    BY <1>2, <1>3, <1>4, StoreRace

LEMMA ExecuteRace ==
  ASSUME TypeOK, RaceInv, NEW w \in Workers, CommitExecute(w)
  PROVE  RaceInv' /\ Grows
<1> DEFINE new == [req[w].row EXCEPT !.status = "EXECUTE"]
<1>1. req[w].row \in CaseRow
  BY DEF TypeOK, Request
<1>2. /\ new \in CaseRow
      /\ new.verdictBy = req[w].row.verdictBy
      /\ new.suspended = req[w].row.suspended
      /\ new.sanction = req[w].row.sanction
  BY <1>1 DEF CaseRow, CaseStatus, ClosedStatus
<1>3. /\ pc[w] # "idle" /\ req[w].op = "execute"
      /\ Store(w, new) /\ Return(w)
  BY DEF CommitExecute, At
<1>4. /\ new.sanction = "SUSPENSION_TEMPORAIRE" => new.suspended
      /\ new.verdictBy # NoOne
  BY <1>2, <1>3 DEF RaceInv, Snapshot
<1>. QED
  <2>. HIDE DEF new
  <2>. QED
    BY <1>2, <1>3, <1>4, StoreRace

LEMMA DismissRace ==
  ASSUME TypeOK, RaceInv, NEW w \in Workers, CommitDismiss(w)
  PROVE  RaceInv' /\ Grows
<1> DEFINE new == [req[w].row EXCEPT !.status = "CLASSE", !.sanction = "AUCUNE"]
<1>1. req[w].row \in CaseRow /\ "AUCUNE" \in Sanctions
  BY CouncilAssumption DEF TypeOK, Request
<1>2. /\ new \in CaseRow /\ new.status = "CLASSE" /\ new.sanction = "AUCUNE"
      /\ new.verdictBy = req[w].row.verdictBy
      /\ new.suspended = req[w].row.suspended
  BY <1>1 DEF CaseRow, CaseStatus, ClosedStatus
<1>3. pc[w] # "idle" /\ Store(w, new) /\ Return(w)
  BY DEF CommitDismiss, At
<1>. QED
  <2>. HIDE DEF new
  <2>. QED
    BY <1>2, <1>3, StoreRace

LEMMA ServeRace ==
  ASSUME TypeOK, RaceInv, NEW w \in Workers, Serve(w)
  PROVE  RaceInv' /\ Grows
<1>1. CASE CommitConvoke(w)
  BY <1>1, CommitStatusRace DEF CommitConvoke
<1>2. CASE CommitHearing(w)
  BY <1>2, CommitStatusRace DEF CommitHearing
<1>3. CASE CommitVerdict(w) \/ CommitCouncilVerdict(w)
  BY <1>3, PronounceRace DEF CommitVerdict, CommitCouncilVerdict, At
<1>4. CASE SelectVote(w) \/ ReadQuorum(w) \/ TallyDecides(w)
  <2>1. req[w] \in Request
    BY DEF TypeOK
  <2>2. /\ cases' = cases /\ pc[w] # "idle"
        /\ req'[w].op = req[w].op /\ req'[w].case = req[w].case
        /\ req'[w].by = req[w].by /\ req'[w].row = req[w].row
    BY <1>4, <2>1
    DEF SelectVote, tables, ReadQuorum, TallyDecides, At, TypeOK, Request
  <2>3. \A v \in Workers \ {w} : pc'[v] = pc[v] /\ req'[v] = req[v]
    BY <1>4 DEF SelectVote, tables, ReadQuorum, TallyDecides, Goto, TypeOK
  <2>. QED
    BY <2>2, <2>3, QuietRace
<1>5. CASE UpsertVote(w)
  BY <1>5, QuietRace DEF UpsertVote, At, Goto, TypeOK
<1>6. CASE VoteConflict(w) \/ TallyUndecided(w)
  BY <1>6, QuietRace DEF VoteConflict, tables, TallyUndecided, Return, Goto, TypeOK
<1>7. CASE CommitExecute(w)
  BY <1>7, ExecuteRace
<1>8. CASE CommitDismiss(w)
  BY <1>8, DismissRace
<1>. QED
  BY <1>1, <1>2, <1>3, <1>4, <1>5, <1>6, <1>7, <1>8 DEF Serve

LEMMA ArriveRace ==
  ASSUME TypeOK, RaceInv, NEW w \in Workers, Arrive(w)
  PROVE  RaceInv' /\ Grows
<1>0. NoOne \notin Seats /\ NoOne # "AUMONIER"
  BY CouncilAssumption DEF CouncilPostes, NoOne
<1>. PICK c \in Cases :
        \/ BeginConvoke(w, c)
        \/ BeginHearing(w, c)
        \/ \E by \in Deciders, x \in Sanctions : BeginVerdict(w, c, by, x)
        \/ \E seat \in Seats, x \in Sanctions : BeginVote(w, c, seat, x)
        \/ BeginExecute(w, c)
        \/ \E by \in Deciders : BeginDismiss(w, c, by)
  BY DEF Arrive
<1>1. CASE BeginConvoke(w, c)
  BY <1>1, LoadRace DEF BeginConvoke
<1>2. CASE BeginHearing(w, c)
  BY <1>2, LoadRace DEF BeginHearing
<1>3. ASSUME NEW by \in Deciders, NEW x \in Sanctions, BeginVerdict(w, c, by, x)
      PROVE  RaceInv' /\ Grows
  <2>1. by # NoOne
    BY <1>0, <1>3 DEF BeginVerdict, CheckVerdictAuthority, TypeOK
  <2>. QED
    BY <1>3, <2>1, LoadRace DEF BeginVerdict
<1>4. ASSUME NEW s \in Seats, NEW x \in Sanctions, BeginVote(w, c, s, x)
      PROVE  RaceInv' /\ Grows
  BY <1>0, <1>4, LoadRace DEF BeginVote
<1>5. CASE BeginExecute(w, c)
  BY <1>5, LoadRace DEF BeginExecute
<1>6. ASSUME NEW by \in Deciders, BeginDismiss(w, c, by)
      PROVE  RaceInv' /\ Grows
  BY <1>6, LoadRace DEF BeginDismiss
<1>. QED
  BY <1>1, <1>2, <1>3, <1>4, <1>5, <1>6

LEMMA EnvironmentRace ==
  ASSUME TypeOK, RaceInv, Environment
  PROVE  RaceInv' /\ Grows
<1>1. ASSUME NEW c \in Cases, NEW s \in Servants, OpenCase(c, s)
      PROVE  RaceInv' /\ Grows
  <2>1. \A d \in Cases : /\ cases'[d].verdictBy = cases[d].verdictBy
                         /\ cases'[d].suspended = cases[d].suspended
                         /\ cases'[d].sanction = cases[d].sanction
                         /\ cases'[d].status \in {cases[d].status, "SIGNALE"}
    BY <1>1 DEF OpenCase, TypeOK, CaseRow
  <2>2. pc' = pc /\ req' = req
    BY <1>1 DEF OpenCase
  <2>3. \A w \in Workers : Snapshot(w)'
    <3>. SUFFICES ASSUME NEW w \in Workers PROVE Snapshot(w)'
      OBVIOUS
    <3>. req[w].case \in Cases /\ Snapshot(w)
      BY DEF TypeOK, Request, RaceInv
    <3>. QED
      BY <2>1, <2>2 DEF Snapshot
  <2>. QED
    BY <2>1, <2>3 DEF RaceInv, DecidedIsSigned, SuspensionHasPeriod, Grows
<1>2. ASSUME NEW s \in Seats, Reseat(s)
      PROVE  RaceInv' /\ Grows
  BY <1>2 DEF Reseat, Grows, RaceInv, DecidedIsSigned, SuspensionHasPeriod, Snapshot
<1>3. ASSUME NEW s \in Servants, Reactivate(s)
      PROVE  RaceInv' /\ Grows
  BY <1>3 DEF Reactivate, Grows, RaceInv, DecidedIsSigned, SuspensionHasPeriod, Snapshot
<1>4. ASSUME NEW w \in Workers, Abort(w)
      PROVE  RaceInv' /\ Grows
  BY <1>4, QuietRace DEF Abort, tables, Return, Goto, TypeOK
<1>. QED
  BY <1>1, <1>2, <1>3, <1>4 DEF Environment

LEMMA InitRace == Init => RaceInv
<1>. SUFFICES ASSUME Init PROVE RaceInv
  OBVIOUS
<1>1. \A c \in Cases : cases[c].status = "ABSENT" /\ cases[c].sanction = "AUCUNE"
  BY DEF Init, NoRequest
<1>2. \A w \in Workers : pc[w] = "idle"
  BY DEF Init
<1>. QED
  BY <1>1, <1>2 DEF RaceInv, DecidedIsSigned, SuspensionHasPeriod, Snapshot

LEMMA StepRace == TypeOK /\ RaceInv /\ [Next]_vars => RaceInv' /\ Grows
<1>. SUFFICES ASSUME TypeOK, RaceInv, [Next]_vars PROVE RaceInv' /\ Grows
  OBVIOUS
<1>1. CASE UNCHANGED vars
  BY <1>1 DEF vars, Grows, RaceInv, DecidedIsSigned, SuspensionHasPeriod, Snapshot
<1>2. CASE Next
  BY <1>2, EnvironmentRace, ArriveRace, ServeRace DEF Next
<1>. QED
  BY <1>1, <1>2

THEOREM RaceInvariant == Spec => []RaceInv
BY TypeCorrect, InitRace, StepRace, PTL DEF Spec

\* However requests interleave, a case in VERDICT_RENDU or EXECUTE names its
\* decider.
THEOREM AlwaysSigned == Spec => []DecidedIsSigned
<1>1. RaceInv => DecidedIsSigned
  BY DEF RaceInv
<1>. QED
  BY <1>1, RaceInvariant, PTL

\* However requests interleave, a suspension on file has its period.
THEOREM AlwaysPeriod == Spec => []SuspensionHasPeriod
<1>1. RaceInv => SuspensionHasPeriod
  BY DEF RaceInv
<1>. QED
  BY <1>1, RaceInvariant, PTL

-----------------------------------------------------------------------------
(***************************************************************************)
(* No majority is missed.  A vote is committed before its tally reads the  *)
(* votes, so the tally of the last vote of a majority sees all of it.      *)
(***************************************************************************)

CountInv ==
    reseats = 0 /\ aborts = 0 =>
        /\ \A c \in Cases, x \in Sanctions :
              HasMajority(c, x, filled) =>
                  cases[c].verdictBy # NoOne \/ Counting(c)
        /\ \A w \in Workers :
              req[w].op = "vote" /\ pc[w] = "counted" => req[w].quorum = filled

\* Worker w is counting the votes of its case.
CountingAt(w) == req[w].op = "vote" /\ pc[w] \in {"voted", "counted", "decided"}

\* A step of w that leaves the votes and the seats alone keeps the invariant if
\* w was not counting, or goes on counting, or signed its case, or found that
\* nothing has a majority.
LEMMA StepCount ==
  ASSUME TypeOK, CountInv, Grows, NEW w \in Workers,
         votes' = votes, filled' = filled,
         reseats' = reseats, aborts' = aborts,
         \A v \in Workers \ {w} : pc'[v] = pc[v] /\ req'[v] = req[v],
         \/ ~CountingAt(w)
         \/ CountingAt(w)' /\ req'[w].case = req[w].case
         \/ cases'[req[w].case].verdictBy # NoOne
         \/ reseats = 0 /\ aborts = 0 =>
               ~ \E x \in Sanctions : HasMajority(req[w].case, x, filled),
         \/ pc'[w] # "counted"
         \/ req'[w].quorum = filled
  PROVE  CountInv'
<1>. SUFFICES ASSUME reseats' = 0, aborts' = 0
              PROVE  /\ \A c \in Cases, x \in Sanctions :
                          HasMajority(c, x, filled)' =>
                              cases'[c].verdictBy # NoOne \/ Counting(c)'
                     /\ \A v \in Workers :
                          req'[v].op = "vote" /\ pc'[v] = "counted" =>
                              req'[v].quorum = filled'
  BY DEF CountInv
<1>0. reseats = 0 /\ aborts = 0
  OBVIOUS
<1>1. ASSUME NEW c \in Cases, NEW x \in Sanctions, HasMajority(c, x, filled)'
      PROVE  cases'[c].verdictBy # NoOne \/ Counting(c)'
  <2>1. HasMajority(c, x, filled)
    BY <1>1 DEF HasMajority, SeatsFor, MajorityRequired
  <2>2. CASE cases[c].verdictBy # NoOne
    BY <2>2 DEF Grows
  <2>3. CASE Counting(c)
    <3>1. PICK v \in Workers : CountingAt(v) /\ req[v].case = c
      BY <2>3 DEF Counting, CountingAt
    <3>2. CASE v # w
      BY <3>1, <3>2 DEF Counting, CountingAt
    <3>3. CASE v = w
      BY <1>0, <2>1, <3>1, <3>3 DEF Counting, CountingAt
    <3>. QED
      BY <3>2, <3>3
  <2>. QED
    BY <1>0, <2>1, <2>2, <2>3 DEF CountInv
<1>2. ASSUME NEW v \in Workers, req'[v].op = "vote", pc'[v] = "counted"
      PROVE  req'[v].quorum = filled'
  BY <1>0, <1>2 DEF CountInv
<1>. QED
  BY <1>1, <1>2

LEMMA UpsertCount ==
  ASSUME TypeOK, CountInv, Grows, NEW w \in Workers, UpsertVote(w)
  PROVE  CountInv'
<1>1. req[w].case \in Cases /\ req[w].op = "vote"
  BY DEF TypeOK, Request, UpsertVote, At
<1>2. \A v \in Workers : pc'[v] = IF v = w THEN "voted" ELSE pc[v]
  BY DEF UpsertVote, Goto, TypeOK
<1>3. /\ req' = req /\ filled' = filled
      /\ reseats' = reseats /\ aborts' = aborts
  BY DEF UpsertVote
<1>. SUFFICES ASSUME reseats = 0, aborts = 0
              PROVE  /\ \A c \in Cases, x \in Sanctions :
                          HasMajority(c, x, filled)' =>
                              cases'[c].verdictBy # NoOne \/ Counting(c)'
                     /\ \A v \in Workers :
                          req'[v].op = "vote" /\ pc'[v] = "counted" =>
                              req'[v].quorum = filled'
  BY <1>3 DEF CountInv
<1>5. ASSUME NEW c \in Cases, NEW x \in Sanctions, c # req[w].case,
             HasMajority(c, x, filled)'
      PROVE  cases'[c].verdictBy # NoOne \/ Counting(c)'
  <2>1. votes'[c] = votes[c]
    BY <1>5 DEF UpsertVote, TypeOK
  <2>2. HasMajority(c, x, filled)
    BY <1>3, <1>5, <2>1 DEF HasMajority, SeatsFor, MajorityRequired
  <2>3. Counting(c) => Counting(c)'
    BY <1>2, <1>3 DEF Counting
  <2>. QED
    BY <2>2, <2>3 DEF CountInv, Grows
<1>6. \A v \in Workers : req'[v].op = "vote" /\ pc'[v] = "counted" =>
                              req'[v].quorum = filled'
  BY <1>2, <1>3 DEF CountInv
<1>7. ASSUME NEW c \in Cases, c = req[w].case
      PROVE  Counting(c)'
  BY <1>1, <1>2, <1>3, <1>7 DEF Counting
<1>. QED
  BY <1>5, <1>6, <1>7

LEMMA ServeCount ==
  ASSUME TypeOK, RaceInv, CountInv, Grows, NEW w \in Workers, Serve(w)
  PROVE  CountInv'
<1>1. CASE \/ CommitConvoke(w) \/ CommitHearing(w) \/ CommitVerdict(w)
           \/ VoteConflict(w) \/ CommitExecute(w) \/ CommitDismiss(w)
  <2>1. ~CountingAt(w) /\ pc'[w] # "counted"
    BY <1>1 DEF CommitConvoke, CommitHearing, CommitStatus, CommitVerdict,
                Pronounce, VoteConflict, tables, CommitExecute, CommitDismiss, At,
                CountingAt, Return, Goto, TypeOK
  <2>2. \A v \in Workers \ {w} : pc'[v] = pc[v] /\ req'[v] = req[v]
    BY <1>1 DEF CommitConvoke, CommitHearing, CommitStatus, CommitVerdict,
                Pronounce, VoteConflict, tables, CommitExecute, CommitDismiss,
                Return, Goto, TypeOK
  <2>3. /\ votes' = votes /\ filled' = filled
        /\ reseats' = reseats /\ aborts' = aborts
    BY <1>1 DEF CommitConvoke, CommitHearing, CommitStatus, CommitVerdict,
                Pronounce, VoteConflict, tables, CommitExecute, CommitDismiss
  <2>. QED
    BY <2>1, <2>2, <2>3, StepCount
<1>2. CASE SelectVote(w)
  <2>1. ~CountingAt(w) /\ pc'[w] # "counted"
    BY <1>2 DEF SelectVote, tables, At, CountingAt, Goto, TypeOK
  <2>. QED
    BY <1>2, <2>1, StepCount DEF SelectVote, tables, Goto, TypeOK
<1>3. CASE UpsertVote(w)
  BY <1>3, UpsertCount
<1>4. CASE ReadQuorum(w)
  <2>1. /\ CountingAt(w)' /\ req'[w].case = req[w].case
        /\ req'[w].quorum = filled
    <3>. req[w] \in Request
      BY DEF TypeOK
    <3>. QED
      BY <1>4 DEF ReadQuorum, tables, At, CountingAt, Goto, TypeOK, Request
  <2>. QED
    BY <1>4, <2>1, StepCount DEF ReadQuorum, tables, Goto, TypeOK
<1>5. CASE TallyDecides(w)
  <2>1. /\ CountingAt(w)' /\ req'[w].case = req[w].case /\ pc'[w] # "counted"
    <3>. req[w] \in Request
      BY DEF TypeOK
    <3>. QED
      BY <1>5 DEF TallyDecides, tables, At, CountingAt, Goto, TypeOK, Request
  <2>. QED
    BY <1>5, <2>1, StepCount DEF TallyDecides, tables, Goto, TypeOK
<1>6. CASE TallyUndecided(w)
  <2>1. reseats = 0 /\ aborts = 0 =>
            ~ \E x \in Sanctions : HasMajority(req[w].case, x, filled)
    BY <1>6 DEF TallyUndecided, tables, At, CountInv
  <2>2. pc'[w] # "counted"
    BY <1>6 DEF TallyUndecided, tables, Return, Goto, TypeOK
  <2>. QED
    BY <1>6, <2>1, <2>2, StepCount DEF TallyUndecided, tables, Return, Goto, TypeOK
<1>7. CASE CommitCouncilVerdict(w)
  <2>1. cases'[req[w].case].verdictBy # NoOne
    BY <1>7, PronounceRace DEF CommitCouncilVerdict, At
  <2>2. pc'[w] # "counted"
    BY <1>7 DEF CommitCouncilVerdict, Pronounce, Return, Goto, TypeOK
  <2>. QED
    BY <1>7, <2>1, <2>2, StepCount
    DEF CommitCouncilVerdict, Pronounce, Return, Goto, TypeOK
<1>. QED
  BY <1>1, <1>2, <1>3, <1>4, <1>5, <1>6, <1>7 DEF Serve

LEMMA ArriveCount ==
  ASSUME TypeOK, CountInv, Grows, NEW w \in Workers, Arrive(w)
  PROVE  CountInv'
<1>1. PICK op, c, by, x, from :
           /\ op \in Ops /\ c \in Cases /\ by \in Deciders \cup Seats
           /\ Load(w, op, c, by, x, from)
  BY Zenon DEF Arrive, BeginConvoke, BeginHearing, BeginVerdict, BeginVote,
         BeginExecute, BeginDismiss, Ops, Deciders
<1>2. ~CountingAt(w) /\ pc'[w] # "counted"
  BY <1>1 DEF Load, tables, CountingAt, Goto, TypeOK
<1>. QED
  BY <1>1, <1>2, StepCount DEF Load, tables, Goto, TypeOK

LEMMA EnvironmentCount ==
  ASSUME TypeOK, CountInv, Grows, Environment
  PROVE  CountInv'
<1>1. ASSUME NEW c \in Cases, NEW s \in Servants,
             OpenCase(c, s) \/ Reactivate(s)
      PROVE  CountInv'
  BY <1>1 DEF OpenCase, Reactivate, CountInv, Grows, HasMajority, SeatsFor,
              MajorityRequired, Counting
<1>2. ASSUME NEW s \in Seats, Reseat(s)
      PROVE  CountInv'
  BY <1>2, CouncilAssumption DEF Reseat, CountInv, TypeOK
<1>3. ASSUME NEW w \in Workers, Abort(w)
      PROVE  CountInv'
  BY <1>3, CouncilAssumption DEF Abort, tables, CountInv, TypeOK
<1>4. ASSUME NEW s \in Servants, Reactivate(s)
      PROVE  CountInv'
  BY <1>1, <1>4, CouncilAssumption
<1>. QED
  BY <1>1, <1>2, <1>3, <1>4 DEF Environment

LEMMA InitCount == Init => CountInv
<1>. SUFFICES ASSUME Init PROVE CountInv
  OBVIOUS
<1>1. ASSUME NEW c \in Cases, NEW x \in Sanctions
      PROVE  ~HasMajority(c, x, filled)
  <2>1. x # NoVote
    BY CouncilAssumption DEF SanctionType, NoVote
  <2>2. SeatsFor(c, x, filled) = {}
    BY <2>1 DEF Init, SeatsFor
  <2>3. Cardinality(filled) \in Nat
    BY FS_CardinalityType, FS_Subset, CouncilAssumption DEF Init
  <2>4. Cardinality({}) = 0
    BY FS_EmptySet
  <2>. QED
    BY <2>2, <2>3, <2>4 DEF HasMajority, MajorityRequired
<1>. QED
  BY <1>1 DEF Init, CountInv

\* Two seats voting at the same time never both miss the majority they form:
\* as long as no seat changes and no request dies, an agreeing majority whose
\* tally is over has signed the case.
THEOREM MajorityIsSeen == Spec => []NoMissedMajority
<1>1. TypeOK /\ RaceInv /\ CountInv /\ [Next]_vars => CountInv'
  <2>. SUFFICES ASSUME TypeOK, RaceInv, CountInv, [Next]_vars PROVE CountInv'
    OBVIOUS
  <2>1. Grows
    BY StepRace
  <2>2. CASE UNCHANGED vars
    BY <2>2 DEF vars, CountInv, HasMajority, SeatsFor, MajorityRequired, Counting
  <2>3. CASE Next
    BY <2>1, <2>3, EnvironmentCount, ArriveCount, ServeCount DEF Next
  <2>. QED
    BY <2>2, <2>3
<1>2. CountInv => NoMissedMajority
  BY DEF CountInv, NoMissedMajority
<1>. QED
  BY <1>1, <1>2, InitCount, TypeCorrect, RaceInvariant, PTL DEF Spec

-----------------------------------------------------------------------------
(***************************************************************************)
(* Requests that have not overlapped: what a request read is what is       *)
(* stored, and every column it assigns is written.                         *)
(***************************************************************************)

\* One request at a time.
OneBusy ==
    \A v, w \in Workers : pc[v] # "idle" /\ pc[w] # "idle" => v = w

\* The statuses each handler accepts.
From(op) ==
    CASE op = "convoke" -> {"SIGNALE"}
      [] op = "hearing" -> {"CONVOQUE"}
      [] op \in {"verdict", "vote"} -> OpenStatus
      [] op = "execute" -> {"VERDICT_RENDU"}
      [] op = "dismiss" -> CaseStatus \ ClosedStatus
      [] OTHER -> {}

Fresh(w) ==
    pc[w] # "idle" => /\ req[w].row = cases[req[w].case]
                      /\ req[w].row.status \in From(req[w].op)

Undecided == OpenStatus \cup {"ABSENT"}

DismissedClean ==
    \A c \in Cases : cases[c].status = "CLASSE" => cases[c].sanction = "AUCUNE"

AuditExact ==
    \A c \in Cases : cases[c].status \in {"VERDICT_RENDU", "EXECUTE"} =>
        issued[c] = {[sanction |-> cases[c].sanction, by |-> cases[c].verdictBy]}

FilesInv ==
    /\ DismissedClean
    /\ AuditExact
    /\ \A c \in Cases : cases[c].status \in Undecided => issued[c] = {}

SeqInv == FilesInv /\ OneBusy /\ \A w \in Workers : Fresh(w)

AloneInv == ~overlapped => SeqInv

\* What one step may do to the files.
Legal ==
    \A c \in Cases :
        /\ cases[c].status # "EXECUTE" /\ cases'[c].status = "EXECUTE"
        /\ cases'[c].sanction = "EXCLUSION_DEFINITIVE"
        => cases'[c].accused \notin active'

\* A handler whose row is fresh stores exactly the row it built.
LEMMA FreshStore ==
  ASSUME TypeOK, SeqInv, NEW w \in Workers, pc[w] # "idle",
         NEW new \in CaseRow, new.accused = req[w].row.accused, Store(w, new)
  PROVE  cases' = [cases EXCEPT ![req[w].case] = new]
<1> DEFINE row == req[w].row
<1>1. req[w].case \in Cases /\ row \in CaseRow /\ row = cases[req[w].case]
  BY DEF TypeOK, Request, SeqInv, Fresh
<1>2. Flush(row, new, row) =
        [status |-> new.status, accused |-> new.accused,
         sanction |-> new.sanction, verdictBy |-> new.verdictBy,
         suspended |-> new.suspended]
  BY <1>1 DEF Flush, Column
<1>3. Flush(row, new, row) = new
  BY <1>2 DEF CaseRow
<1>. QED
  BY <1>1, <1>3 DEF Store

LEMMA Returned ==
  ASSUME TypeOK, OneBusy, NEW w \in Workers, pc[w] # "idle", Return(w)
  PROVE  OneBusy' /\ \A v \in Workers : Fresh(v)'
<1>1. \A v \in Workers : pc'[v] = "idle"
  BY DEF Return, Goto, TypeOK, OneBusy
<1>. QED
  BY <1>1 DEF OneBusy, Fresh

LEMMA LoadSeq ==
  ASSUME TypeOK, SeqInv, NEW w \in Workers, NEW op, NEW c \in Cases,
         NEW by, NEW x, Load(w, op, c, by, x, From(op)), ~overlapped'
  PROVE  SeqInv' /\ Legal
<1>1. cases' = cases /\ issued' = issued
  BY DEF Load, tables
<1>2. req'[w].row = cases[c] /\ req'[w].case = c /\ req'[w].op = op
  BY DEF Load, tables, TypeOK
<1>3. \A v \in Workers : v # w => pc'[v] = "idle"
  BY DEF Load, Goto, TypeOK
<1>4. OneBusy' /\ \A v \in Workers : Fresh(v)'
  BY <1>1, <1>2, <1>3 DEF Load, OneBusy, Fresh
<1>. QED
  BY <1>1, <1>4
  DEF SeqInv, FilesInv, DismissedClean, AuditExact, Legal

LEMMA ArriveSeq ==
  ASSUME TypeOK, SeqInv, NEW w \in Workers, Arrive(w), ~overlapped'
  PROVE  SeqInv' /\ Legal
<1>. PICK c \in Cases :
        \/ BeginConvoke(w, c)
        \/ BeginHearing(w, c)
        \/ \E by \in Deciders, x \in Sanctions : BeginVerdict(w, c, by, x)
        \/ \E seat \in Seats, x \in Sanctions : BeginVote(w, c, seat, x)
        \/ BeginExecute(w, c)
        \/ \E by \in Deciders : BeginDismiss(w, c, by)
  BY DEF Arrive
<1>0. /\ From("convoke") = {"SIGNALE"} /\ From("hearing") = {"CONVOQUE"}
      /\ From("verdict") = OpenStatus /\ From("vote") = OpenStatus
      /\ From("execute") = {"VERDICT_RENDU"}
      /\ From("dismiss") = CaseStatus \ ClosedStatus
  BY DEF From
<1>1. CASE BeginConvoke(w, c)
  BY <1>0, <1>1, LoadSeq DEF BeginConvoke
<1>2. CASE BeginHearing(w, c)
  BY <1>0, <1>2, LoadSeq DEF BeginHearing
<1>3. ASSUME NEW by \in Deciders, NEW x \in Sanctions, BeginVerdict(w, c, by, x)
      PROVE  SeqInv' /\ Legal
  BY <1>0, <1>3, LoadSeq DEF BeginVerdict
<1>4. ASSUME NEW s \in Seats, NEW x \in Sanctions, BeginVote(w, c, s, x)
      PROVE  SeqInv' /\ Legal
  BY <1>0, <1>4, LoadSeq DEF BeginVote
<1>5. CASE BeginExecute(w, c)
  BY <1>0, <1>5, LoadSeq DEF BeginExecute
<1>6. ASSUME NEW by \in Deciders, BeginDismiss(w, c, by)
      PROVE  SeqInv' /\ Legal
  BY <1>0, <1>6, LoadSeq DEF BeginDismiss
<1>. QED
  BY <1>1, <1>2, <1>3, <1>4, <1>5, <1>6

LEMMA CommitStatusSeq ==
  ASSUME TypeOK, SeqInv, NEW w \in Workers, NEW op,
         NEW status \in {"CONVOQUE", "EN_AUDIENCE"}, CommitStatus(w, op, status),
         op \in {"convoke", "hearing"}
  PROVE  SeqInv' /\ Legal
<1> DEFINE c == req[w].case  new == [req[w].row EXCEPT !.status = status]
<1>1. /\ c \in Cases /\ req[w].row \in CaseRow
      /\ req[w].row = cases[c] /\ cases[c].status \in OpenStatus
  BY DEF TypeOK, Request, SeqInv, Fresh, CommitStatus, At, From, OpenStatus
<1>2. new \in CaseRow /\ new.accused = req[w].row.accused /\ new.status = status
  BY <1>1 DEF CaseRow, CaseStatus, OpenStatus
<1>3. cases' = [cases EXCEPT ![c] = new] /\ issued' = issued
  BY <1>1, <1>2, FreshStore DEF CommitStatus, At
<1>4. cases'[c].status = status /\ \A d \in Cases \ {c} : cases'[d] = cases[d]
  BY <1>1, <1>2, <1>3 DEF TypeOK
<1>5. FilesInv' /\ Legal
  BY <1>1, <1>3, <1>4 DEF SeqInv, FilesInv, DismissedClean,
     AuditExact, Legal, Undecided, OpenStatus, ClosedStatus
<1>. QED
  BY <1>5, Returned DEF CommitStatus, At, SeqInv

LEMMA PronounceSeq ==
  ASSUME TypeOK, SeqInv, NEW w \in Workers, pc[w] # "idle",
         req[w].op \in {"verdict", "vote"}, Pronounce(w)
  PROVE  SeqInv' /\ Legal
<1> DEFINE r == req[w]  c == r.case  new == Judged(r.row, r.sanction, r.by)
<1>1. /\ c \in Cases /\ r.row \in CaseRow /\ r.row = cases[c]
      /\ r.sanction \in Sanctions /\ r.by \in Deciders
      /\ cases[c].status \in OpenStatus
  BY DEF TypeOK, Request, SeqInv, Fresh, From
<1>2. /\ new \in CaseRow /\ new.accused = r.row.accused
      /\ new.status = "VERDICT_RENDU"
      /\ new.sanction = r.sanction /\ new.verdictBy = r.by
  BY <1>1, JudgedType DEF Judged, CaseRow
<1>3. cases' = [cases EXCEPT ![c] = new]
  BY <1>1, <1>2, FreshStore DEF Pronounce
<1>4. /\ cases'[c].status = "VERDICT_RENDU"
      /\ cases'[c].sanction = r.sanction /\ cases'[c].verdictBy = r.by
      /\ \A d \in Cases \ {c} : cases'[d] = cases[d]
  BY <1>1, <1>2, <1>3 DEF TypeOK
<1>5. /\ issued'[c] = {[sanction |-> r.sanction, by |-> r.by]}
      /\ \A d \in Cases \ {c} : issued'[d] = issued[d]
  BY <1>1 DEF Pronounce, TypeOK, SeqInv, FilesInv, Undecided
<1>6. FilesInv' /\ Legal
  BY <1>1, <1>4, <1>5 DEF SeqInv, FilesInv, DismissedClean,
     AuditExact, Legal, Undecided, OpenStatus, ClosedStatus
<1>. QED
  BY <1>6, Returned DEF Pronounce, SeqInv

LEMMA ExecuteSeq ==
  ASSUME TypeOK, SeqInv, NEW w \in Workers, CommitExecute(w)
  PROVE  SeqInv' /\ Legal
<1> DEFINE c == req[w].case  new == [req[w].row EXCEPT !.status = "EXECUTE"]
<1>1. /\ c \in Cases /\ req[w].row \in CaseRow /\ req[w].row = cases[c]
      /\ cases[c].status = "VERDICT_RENDU" /\ pc[w] # "idle"
  BY DEF TypeOK, Request, SeqInv, Fresh, CommitExecute, At, From
<1>2. /\ new \in CaseRow /\ new.accused = req[w].row.accused
      /\ new.status = "EXECUTE" /\ new.sanction = req[w].row.sanction
      /\ new.verdictBy = req[w].row.verdictBy
  BY <1>1 DEF CaseRow, CaseStatus, ClosedStatus
<1>3. cases' = [cases EXCEPT ![c] = new] /\ issued' = issued
  BY <1>1, <1>2, FreshStore DEF CommitExecute
<1>4. /\ cases'[c] = new
      /\ \A d \in Cases \ {c} : cases'[d] = cases[d]
  BY <1>1, <1>3 DEF TypeOK
<1>5. cases'[c].sanction = "EXCLUSION_DEFINITIVE" => cases'[c].accused \notin active'
  BY <1>2, <1>4 DEF CommitExecute
<1>6. FilesInv' /\ Legal
  <2>. HIDE DEF new
  <2>. QED
    BY <1>1, <1>2, <1>3, <1>4, <1>5 DEF SeqInv, FilesInv, DismissedClean,
       AuditExact, Legal, Undecided, OpenStatus, ClosedStatus
<1>. QED
  BY <1>6, Returned DEF CommitExecute, At, SeqInv

LEMMA DismissSeq ==
  ASSUME TypeOK, SeqInv, NEW w \in Workers, CommitDismiss(w)
  PROVE  SeqInv' /\ Legal
<1> DEFINE c == req[w].case
           new == [req[w].row EXCEPT !.status = "CLASSE", !.sanction = "AUCUNE"]
<1>1. /\ c \in Cases /\ req[w].row \in CaseRow /\ req[w].row = cases[c]
      /\ cases[c].status \notin ClosedStatus /\ pc[w] # "idle"
  BY DEF TypeOK, Request, SeqInv, Fresh, CommitDismiss, At, From
<1>2. /\ new \in CaseRow /\ new.accused = req[w].row.accused
      /\ new.status = "CLASSE" /\ new.sanction = "AUCUNE"
  BY <1>1, CouncilAssumption DEF CaseRow, CaseStatus, ClosedStatus
<1>3. cases' = [cases EXCEPT ![c] = new] /\ issued' = issued
  BY <1>1, <1>2, FreshStore DEF CommitDismiss
<1>4. /\ cases'[c] = new
      /\ \A d \in Cases \ {c} : cases'[d] = cases[d]
  BY <1>1, <1>3 DEF TypeOK
<1>5. FilesInv' /\ Legal
  <2>. HIDE DEF new
  <2>. QED
    BY <1>1, <1>2, <1>3, <1>4 DEF SeqInv, FilesInv, DismissedClean,
       AuditExact, Legal, Undecided, OpenStatus, ClosedStatus
<1>. QED
  BY <1>5, Returned DEF CommitDismiss, At, SeqInv

LEMMA ServeSeq ==
  ASSUME TypeOK, SeqInv, NEW w \in Workers, Serve(w)
  PROVE  SeqInv' /\ Legal
<1>1. CASE CommitConvoke(w) \/ CommitHearing(w)
  BY <1>1, CommitStatusSeq DEF CommitConvoke, CommitHearing
<1>2. CASE CommitVerdict(w) \/ CommitCouncilVerdict(w)
  BY <1>2, PronounceSeq DEF CommitVerdict, CommitCouncilVerdict, At
<1>3. CASE SelectVote(w) \/ ReadQuorum(w) \/ TallyDecides(w) \/ UpsertVote(w)
  <2>1. req[w] \in Request
    BY DEF TypeOK
  <2>2. /\ cases' = cases /\ issued' = issued /\ pc[w] # "idle"
        /\ req'[w].op = req[w].op /\ req'[w].case = req[w].case
        /\ req'[w].row = req[w].row
    BY <1>3, <2>1
    DEF SelectVote, tables, ReadQuorum, TallyDecides, UpsertVote, At, TypeOK, Request
  <2>3. \A v \in Workers : v # w => pc'[v] = "idle"
    BY <1>3, <2>2 DEF SelectVote, ReadQuorum, TallyDecides, UpsertVote, Goto,
                      TypeOK, SeqInv, OneBusy
  <2>4. OneBusy' /\ \A v \in Workers : Fresh(v)'
    BY <2>2, <2>3 DEF SeqInv, OneBusy, Fresh
  <2>. QED
    BY <2>2, <2>4
    DEF SeqInv, FilesInv, DismissedClean, AuditExact, Legal
<1>4. CASE VoteConflict(w) \/ TallyUndecided(w)
  BY <1>4, Returned DEF VoteConflict, tables, TallyUndecided, At,
     SeqInv, FilesInv, DismissedClean, AuditExact, Legal
<1>5. CASE CommitExecute(w)
  BY <1>5, ExecuteSeq
<1>6. CASE CommitDismiss(w)
  BY <1>6, DismissSeq
<1>. QED
  BY <1>1, <1>2, <1>3, <1>4, <1>5, <1>6 DEF Serve

LEMMA EnvironmentSeq ==
  ASSUME TypeOK, SeqInv, Environment
  PROVE  SeqInv' /\ Legal
<1>1. ASSUME NEW c \in Cases, NEW s \in Servants, OpenCase(c, s)
      PROVE  SeqInv' /\ Legal
  <2>1. /\ cases[c].status = "ABSENT" /\ cases'[c].status = "SIGNALE"
        /\ \A d \in Cases \ {c} : cases'[d] = cases[d]
        /\ issued' = issued /\ pc' = pc /\ req' = req
    BY <1>1 DEF OpenCase, TypeOK, CaseRow
  <2>2. FilesInv' /\ Legal
    BY <2>1 DEF SeqInv, FilesInv, DismissedClean, AuditExact,
       Legal, Undecided, OpenStatus, ClosedStatus
  <2>3. ASSUME NEW w \in Workers
        PROVE  Fresh(w)'
    <3>1. req[w].case \in Cases /\ Fresh(w)
      BY DEF TypeOK, Request, SeqInv
    <3>2. pc[w] # "idle" => req[w].case # c
      BY <2>1, <3>1
      DEF Fresh, From, OpenStatus, CaseStatus, ClosedStatus
    <3>. QED
      BY <2>1, <3>1, <3>2 DEF Fresh
  <2>4. OneBusy'
    BY <2>1 DEF SeqInv, OneBusy
  <2>. QED
    BY <2>2, <2>3, <2>4 DEF SeqInv
<1>2. ASSUME NEW s, Reseat(s) \/ Reactivate(s)
      PROVE  SeqInv' /\ Legal
  BY <1>2 DEF Reseat, Reactivate, SeqInv, OneBusy, FilesInv, DismissedClean,
     AuditExact, Legal, Fresh
<1>3. ASSUME NEW w \in Workers, Abort(w)
      PROVE  SeqInv' /\ Legal
  BY <1>3, Returned DEF Abort, tables, SeqInv, FilesInv, DismissedClean,
     AuditExact, Legal
<1>. QED
  BY <1>1, <1>2, <1>3 DEF Environment

LEMMA InitSeq == Init => SeqInv
<1>. SUFFICES ASSUME Init PROVE SeqInv
  OBVIOUS
<1>1. \A c \in Cases : cases[c].status = "ABSENT" /\ issued[c] = {}
  BY DEF Init, NoRequest
<1>. QED
  BY <1>1 DEF Init, SeqInv, OneBusy, FilesInv, DismissedClean,
     AuditExact, Fresh

\* No step forgets that requests have overlapped.
LEMMA OverlapKept ==
  ASSUME [Next]_vars
  PROVE  overlapped => overlapped'
<1>1. ASSUME NEW w \in Workers, Arrive(w)
      PROVE  overlapped => overlapped'
  BY <1>1 DEF Arrive, BeginConvoke, BeginHearing, BeginVerdict, BeginVote,
              BeginExecute, BeginDismiss, Load
<1>2. ASSUME NEW w \in Workers, Serve(w)
      PROVE  UNCHANGED overlapped
  BY <1>2 DEF Serve, CommitConvoke, CommitHearing, CommitStatus, CommitVerdict,
              CommitCouncilVerdict, Pronounce, SelectVote, UpsertVote,
              VoteConflict, ReadQuorum, TallyDecides, TallyUndecided,
              CommitExecute, CommitDismiss
<1>3. CASE Environment
  BY <1>3 DEF Environment, OpenCase, Reseat, Reactivate, Abort
<1>. QED
  BY <1>1, <1>2, <1>3 DEF Next, vars

LEMMA StepSeq ==
  ASSUME TypeOK, AloneInv, [Next]_vars
  PROVE  AloneInv' /\ (~overlapped' => Legal)
<1>. SUFFICES ASSUME ~overlapped' PROVE SeqInv' /\ Legal
  BY DEF AloneInv
<1>0. SeqInv
  BY OverlapKept DEF AloneInv
<1>1. CASE UNCHANGED vars
  BY <1>0, <1>1 DEF vars, SeqInv, OneBusy, FilesInv, DismissedClean,
     AuditExact, Legal, Fresh
<1>2. CASE Next
  BY <1>0, <1>2, EnvironmentSeq, ArriveSeq, ServeSeq DEF Next
<1>. QED
  BY <1>1, <1>2

LEMMA AloneInvariant == Spec => []AloneInv
<1>1. Init => AloneInv
  BY InitSeq DEF AloneInv
<1>2. TypeOK /\ AloneInv /\ [Next]_vars => AloneInv'
  BY StepSeq
<1>. QED
  BY <1>1, <1>2, TypeCorrect, PTL DEF Spec

\* Until requests overlap, the audit trail matches the file.
THEOREM AuditAlone == Spec => []AuditMatchesFile
<1>1. AloneInv => AuditMatchesFile
  BY DEF AloneInv, SeqInv, FilesInv, AuditExact, AuditMatchesFile
<1>. QED
  BY <1>1, AloneInvariant, PTL

\* Until requests overlap, a dismissed file carries no sanction.
THEOREM DismissalAlone == Spec => []DismissedHasNoSanction
<1>1. AloneInv => DismissedHasNoSanction
  BY DEF AloneInv, SeqInv, FilesInv, DismissedClean, DismissedHasNoSanction
<1>. QED
  BY <1>1, AloneInvariant, PTL

\* Until requests overlap, executing an exclusion closes the account.
THEOREM ExclusionAlone == Spec => ExclusionDeactivates
<1>1. ASSUME TypeOK, AloneInv, [Next]_vars
      PROVE  [\A c \in Cases :
                 /\ cases[c].status # "EXECUTE" /\ cases'[c].status = "EXECUTE"
                 /\ cases'[c].sanction = "EXCLUSION_DEFINITIVE" /\ ~overlapped
                 => cases'[c].accused \notin active']_vars
  <2>1. CASE ~overlapped'
    BY <1>1, <2>1, StepSeq DEF Legal
  <2>2. CASE overlapped' /\ ~overlapped
    <3>1. PICK w \in Workers : Arrive(w)
      BY <1>1, <2>2
         DEF Next, Serve, CommitConvoke, CommitHearing, CommitStatus,
             CommitVerdict, CommitCouncilVerdict, Pronounce, SelectVote,
             UpsertVote, VoteConflict, ReadQuorum, TallyDecides,
             TallyUndecided, CommitExecute, CommitDismiss, Environment,
             OpenCase, Reseat, Reactivate, Abort, vars
    <3>2. UNCHANGED cases
      BY <3>1 DEF Arrive, BeginConvoke, BeginHearing, BeginVerdict, BeginVote,
                  BeginExecute, BeginDismiss, Load, tables
    <3>. QED
      BY <3>2
  <2>. QED
    BY <2>1, <2>2
<1>. QED
  BY <1>1, AloneInvariant, TypeCorrect, PTL DEF Spec, ExclusionDeactivates

-----------------------------------------------------------------------------
(***************************************************************************)
(* Who may sign what: alone, within a scope; beyond it, with a majority.   *)
(***************************************************************************)

Backed(c, by, x) ==
    by \in Seats /\ x \notin VerdictScope(by) => HasMajority(c, x, filled)

FilesBacked ==
    \A c \in Cases : cases[c].status \in {"VERDICT_RENDU", "EXECUTE"} =>
                        Backed(c, cases[c].verdictBy, cases[c].sanction)

\* What request w is about to pronounce is backed.
Ready(w) ==
    /\ At(w, "verdict", "loaded") /\ req[w].by \in Seats =>
           req[w].sanction \in VerdictScope(req[w].by)
    /\ At(w, "vote", "counted") => req[w].quorum = filled
    /\ At(w, "vote", "decided") =>
           HasMajority(req[w].case, req[w].sanction, filled)

BackedInv ==
    reseats = 0 /\ ~overlapped => FilesBacked /\ \A w \in Workers : Ready(w)

\* A step of the only busy request that returns leaves every worker idle.
LEMMA ReturnedReady ==
  ASSUME TypeOK, OneBusy, NEW w \in Workers, pc[w] # "idle", Return(w)
  PROVE  \A v \in Workers : Ready(v)'
<1>1. \A v \in Workers : pc'[v] = "idle"
  BY DEF Return, Goto, TypeOK, OneBusy
<1>. QED
  BY <1>1 DEF Ready, At

\* A case whose row is stored needs backing only when it is decided by it.
LEMMA StoreBacked ==
  ASSUME TypeOK, SeqInv, FilesBacked, NEW w \in Workers, pc[w] # "idle",
         NEW new \in CaseRow, new.accused = req[w].row.accused, Store(w, new),
         UNCHANGED <<votes, filled>>,
         new.status \in {"VERDICT_RENDU", "EXECUTE"} =>
             Backed(req[w].case, new.verdictBy, new.sanction)
  PROVE  FilesBacked'
<1> DEFINE c == req[w].case
<1>1. cases' = [cases EXCEPT ![c] = new]
  BY FreshStore
<1>2. c \in Cases
  BY DEF TypeOK, Request
<1>3. cases'[c] = new /\ \A d \in Cases \ {c} : cases'[d] = cases[d]
  BY <1>1, <1>2 DEF TypeOK
<1>4. \A d \in Cases : cases'[d].status \in {"VERDICT_RENDU", "EXECUTE"} =>
          \/ cases'[d].verdictBy \notin Seats
          \/ cases'[d].sanction \in VerdictScope(cases'[d].verdictBy)
          \/ HasMajority(d, cases'[d].sanction, filled)
  BY <1>3 DEF FilesBacked, Backed
<1>. QED
  BY <1>4 DEF FilesBacked, Backed, HasMajority, SeatsFor, MajorityRequired

LEMMA PronounceBacked ==
  ASSUME TypeOK, SeqInv, FilesBacked, NEW w \in Workers, Ready(w), Pronounce(w),
         At(w, "verdict", "loaded") \/ At(w, "vote", "decided")
  PROVE  FilesBacked'
<1> DEFINE r == req[w]  new == Judged(r.row, r.sanction, r.by)
<1>1. /\ r.row \in CaseRow /\ r.sanction \in Sanctions /\ r.by \in Deciders
      /\ pc[w] # "idle"
  BY DEF TypeOK, Request, At
<1>2. /\ new \in CaseRow /\ new.accused = r.row.accused
      /\ new.sanction = r.sanction /\ new.verdictBy = r.by
  BY <1>1, JudgedType DEF Judged, CaseRow
<1>3. Backed(r.case, r.by, r.sanction)
  BY DEF Ready, Backed
<1>4. Store(w, new) /\ UNCHANGED <<votes, filled>>
  BY DEF Pronounce
<1>. HIDE DEF new
<1>. QED
  BY <1>1, <1>2, <1>3, <1>4, StoreBacked

LEMMA CommitBacked ==
  ASSUME TypeOK, SeqInv, FilesBacked, NEW w \in Workers,
         \/ CommitConvoke(w) \/ CommitHearing(w)
         \/ CommitExecute(w) \/ CommitDismiss(w)
  PROVE  FilesBacked'
<1>0. /\ req[w].row \in CaseRow /\ req[w].case \in Cases /\ pc[w] # "idle"
  BY DEF TypeOK, Request, CommitConvoke, CommitHearing, CommitStatus,
         CommitExecute, CommitDismiss, At
<1>. "AUCUNE" \in Sanctions
  BY CouncilAssumption
<1>1. ASSUME NEW op, NEW status \in {"CONVOQUE", "EN_AUDIENCE"},
             CommitStatus(w, op, status)
      PROVE  FilesBacked'
  <2>1. /\ [req[w].row EXCEPT !.status = status] \in CaseRow
        /\ [req[w].row EXCEPT !.status = status].accused = req[w].row.accused
        /\ [req[w].row EXCEPT !.status = status].status = status
    BY <1>0 DEF CaseRow, CaseStatus, OpenStatus
  <2>. QED
    BY <1>0, <1>1, <2>1, StoreBacked DEF CommitStatus
<1>2. CASE CommitExecute(w)
  <2> DEFINE new == [req[w].row EXCEPT !.status = "EXECUTE"]
  <2>1. /\ new \in CaseRow /\ new.accused = req[w].row.accused
        /\ new.sanction = req[w].row.sanction
        /\ new.verdictBy = req[w].row.verdictBy
    BY <1>0 DEF CaseRow, CaseStatus, ClosedStatus
  <2>2. req[w].row = cases[req[w].case] /\ req[w].row.status = "VERDICT_RENDU"
    BY <1>0, <1>2 DEF CommitExecute, At, SeqInv, Fresh, From
  <2>3. Backed(req[w].case, new.verdictBy, new.sanction)
    BY <1>0, <2>1, <2>2 DEF FilesBacked
  <2>4. Store(w, new) /\ UNCHANGED <<votes, filled>>
    BY <1>2 DEF CommitExecute
  <2>. HIDE DEF new
  <2>. QED
    BY <1>0, <2>1, <2>3, <2>4, StoreBacked
<1>3. CASE CommitDismiss(w)
  <2> DEFINE new == [req[w].row EXCEPT !.status = "CLASSE", !.sanction = "AUCUNE"]
  <2>1. /\ new \in CaseRow /\ new.accused = req[w].row.accused
        /\ new.status = "CLASSE"
    BY <1>0, "AUCUNE" \in Sanctions, ZenonT(40)
    DEF CaseRow, CaseStatus, ClosedStatus
  <2>2. Store(w, new) /\ UNCHANGED <<votes, filled>>
    BY <1>3 DEF CommitDismiss
  <2>. HIDE DEF new
  <2>. QED
    BY <1>0, <2>1, <2>2, StoreBacked
<1>. QED
  BY <1>1, <1>2, <1>3 DEF CommitConvoke, CommitHearing

LEMMA ServeBacked ==
  ASSUME TypeOK, SeqInv, FilesBacked, \A v \in Workers : Ready(v),
         NEW w \in Workers, Serve(w)
  PROVE  FilesBacked' /\ \A v \in Workers : Ready(v)'
<1>1. CASE CommitConvoke(w) \/ CommitHearing(w) \/ CommitExecute(w)
           \/ CommitDismiss(w)
  <2>1. Return(w) /\ pc[w] # "idle"
    BY <1>1 DEF CommitConvoke, CommitHearing, CommitStatus, CommitExecute,
       CommitDismiss, At
  <2>2. \A v \in Workers : Ready(v)'
    BY <2>1, ReturnedReady DEF SeqInv
  <2>. QED
    BY <1>1, <2>2, CommitBacked
<1>2. CASE CommitVerdict(w) \/ CommitCouncilVerdict(w)
  <2>1. Return(w) /\ Pronounce(w) /\ pc[w] # "idle"
    BY <1>2 DEF CommitVerdict, CommitCouncilVerdict, Pronounce, At
  <2>2. \A v \in Workers : Ready(v)'
    BY <2>1, ReturnedReady DEF SeqInv
  <2>. QED
    BY <1>2, <2>1, <2>2, PronounceBacked DEF CommitVerdict, CommitCouncilVerdict
<1>3. CASE VoteConflict(w) \/ TallyUndecided(w)
  <2>1. Return(w) /\ pc[w] # "idle" /\ UNCHANGED tables
    BY <1>3 DEF VoteConflict, TallyUndecided, At
  <2>. QED
    BY <2>1, ReturnedReady DEF tables, SeqInv, FilesBacked, Backed, HasMajority,
       SeatsFor, MajorityRequired
<1>4. CASE SelectVote(w) \/ ReadQuorum(w) \/ TallyDecides(w)
  <2>1. UNCHANGED tables /\ req[w] \in Request /\ pc[w] # "idle"
    BY <1>4 DEF SelectVote, ReadQuorum, TallyDecides, TypeOK, At
  <2>2. \A v \in Workers : v # w => pc'[v] = "idle"
    BY <1>4, <2>1 DEF SelectVote, ReadQuorum, TallyDecides, Goto, TypeOK,
                      SeqInv, OneBusy
  <2>3. Ready(w)'
    <3>1. CASE SelectVote(w)
      BY <3>1, <2>1 DEF SelectVote, Goto, TypeOK, Ready, At
    <3>2. CASE ReadQuorum(w)
      BY <3>2, <2>1 DEF ReadQuorum, Goto, TypeOK, Ready, At, Request, tables
    <3>3. CASE TallyDecides(w)
      <4>1. PICK x \in Sanctions :
              /\ HasMajority(req[w].case, x, filled)
              /\ req' = [req EXCEPT ![w].sanction = x]
        BY <3>3 DEF TallyDecides, Ready
      <4>2. /\ req'[w].case = req[w].case /\ req'[w].sanction = x
            /\ req'[w].op = "vote" /\ pc'[w] = "decided"
        BY <3>3, <4>1, <2>1 DEF TallyDecides, Goto, TypeOK, Request, At
      <4>. QED
        BY <4>1, <4>2, <2>1 DEF Ready, At, HasMajority, SeatsFor,
           MajorityRequired, tables
    <3>. QED
      BY <1>4, <3>1, <3>2, <3>3
  <2>. QED
    BY <2>1, <2>2, <2>3 DEF Ready, At, tables, FilesBacked, Backed, HasMajority,
       SeatsFor, MajorityRequired
<1>5. CASE UpsertVote(w)
  <2>1. /\ UNCHANGED <<cases, filled>>
        /\ req[w].case \in Cases /\ req[w].by \in Deciders /\ pc[w] # "idle"
        /\ cases[req[w].case].status \in OpenStatus
    BY <1>5 DEF UpsertVote, At, TypeOK, Request, SeqInv, Fresh, From
  <2>2. \A v \in Workers : pc'[v] \in {"idle", "voted"}
    BY <1>5, <2>1 DEF UpsertVote, Goto, TypeOK, SeqInv, OneBusy
  <2>3. \A c \in Cases \ {req[w].case} : votes'[c] = votes[c]
    BY <1>5, <2>1 DEF UpsertVote, TypeOK
  <2>4. \A c \in Cases : cases[c].status \in {"VERDICT_RENDU", "EXECUTE"} =>
            c # req[w].case
    BY <2>1 DEF OpenStatus
  <2>. QED
    BY <2>1, <2>2, <2>3, <2>4 DEF Ready, At, FilesBacked, Backed, HasMajority,
       SeatsFor, MajorityRequired
<1>. QED
  BY <1>1, <1>2, <1>3, <1>4, <1>5 DEF Serve

LEMMA ArriveBacked ==
  ASSUME TypeOK, FilesBacked, \A v \in Workers : Ready(v),
         NEW w \in Workers, Arrive(w)
  PROVE  FilesBacked' /\ \A v \in Workers : Ready(v)'
<1>1. PICK op, c, by, x, from : /\ Load(w, op, c, by, x, from)
                                /\ op = "verdict" => CheckVerdictAuthority(by, x)
  BY DEF Arrive, BeginConvoke, BeginHearing, BeginVerdict, BeginVote,
         BeginExecute, BeginDismiss
<1>2. /\ UNCHANGED tables /\ pc'[w] = "loaded"
      /\ req'[w].op = op /\ req'[w].by = by /\ req'[w].sanction = x
      /\ \A v \in Workers : v # w => req'[v] = req[v] /\ pc'[v] = pc[v]
  BY <1>1 DEF Load, Goto, TypeOK
<1>3. CheckVerdictAuthority(by, x) => (by \in Seats => x \in VerdictScope(by))
  BY CouncilAssumption DEF CheckVerdictAuthority, CouncilPostes
<1>4. Ready(w)'
  BY <1>1, <1>2, <1>3 DEF Ready, At
<1>. QED
  BY <1>2, <1>4 DEF Ready, At, tables, FilesBacked, Backed, HasMajority,
     SeatsFor, MajorityRequired

LEMMA EnvironmentBacked ==
  ASSUME TypeOK, SeqInv, FilesBacked, \A v \in Workers : Ready(v), Environment,
         reseats = 0, reseats' = 0
  PROVE  FilesBacked' /\ \A v \in Workers : Ready(v)'
<1>1. ASSUME NEW c \in Cases, NEW s \in Servants, OpenCase(c, s)
      PROVE  FilesBacked' /\ \A v \in Workers : Ready(v)'
  <2>1. /\ cases'[c].status = "SIGNALE"
        /\ \A d \in Cases \ {c} : cases'[d] = cases[d]
        /\ UNCHANGED <<votes, filled, pc, req>>
    BY <1>1 DEF OpenCase, TypeOK, CaseRow
  <2>. QED
    BY <2>1 DEF Ready, At, FilesBacked, Backed, HasMajority, SeatsFor,
       MajorityRequired
<1>2. ASSUME NEW s, Reactivate(s)
      PROVE  FilesBacked' /\ \A v \in Workers : Ready(v)'
  BY <1>2 DEF Reactivate, Ready, At, FilesBacked, Backed, HasMajority,
     SeatsFor, MajorityRequired
<1>3. ASSUME NEW w \in Workers, Abort(w)
      PROVE  FilesBacked' /\ \A v \in Workers : Ready(v)'
  BY <1>3, ReturnedReady DEF Abort, tables, SeqInv, FilesBacked, Backed,
     HasMajority, SeatsFor, MajorityRequired
<1>. QED
  BY <1>1, <1>2, <1>3 DEF Environment, Reseat

\* No step takes back a change of seat holders.
LEMMA ReseatsKept ==
  ASSUME TypeOK, [Next]_vars
  PROVE  reseats' = 0 => reseats = 0
<1>1. ASSUME NEW w \in Workers, Arrive(w)
      PROVE  UNCHANGED reseats
  BY <1>1 DEF Arrive, BeginConvoke, BeginHearing, BeginVerdict, BeginVote,
              BeginExecute, BeginDismiss, Load
<1>2. ASSUME NEW w \in Workers, Serve(w)
      PROVE  UNCHANGED reseats
  BY <1>2 DEF Serve, CommitConvoke, CommitHearing, CommitStatus, CommitVerdict,
              CommitCouncilVerdict, Pronounce, SelectVote, UpsertVote,
              VoteConflict, ReadQuorum, TallyDecides, TallyUndecided,
              CommitExecute, CommitDismiss
<1>3. ASSUME NEW s, Reseat(s)
      PROVE  reseats' # 0
  <2>1. reseats \in Nat /\ reseats' = reseats + 1
    BY <1>3, CouncilAssumption DEF Reseat, TypeOK
  <2>. QED
    BY <2>1
<1>4. CASE Environment
  BY <1>3, <1>4 DEF Environment, OpenCase, Reactivate, Abort
<1>. QED
  BY <1>1, <1>2, <1>4 DEF Next, vars

LEMMA StepBacked ==
  ASSUME TypeOK, AloneInv, BackedInv, [Next]_vars
  PROVE  BackedInv'
<1>. SUFFICES ASSUME reseats' = 0, ~overlapped'
              PROVE  FilesBacked' /\ \A w \in Workers : Ready(w)'
  BY DEF BackedInv
<1>0. /\ reseats = 0 /\ SeqInv
      /\ FilesBacked /\ \A w \in Workers : Ready(w)
  BY OverlapKept, ReseatsKept DEF AloneInv, BackedInv
<1>1. CASE UNCHANGED vars
  BY <1>0, <1>1 DEF vars, Ready, At, FilesBacked, Backed, HasMajority, SeatsFor,
     MajorityRequired
<1>2. CASE Next
  BY <1>0, <1>2, EnvironmentBacked, ArriveBacked, ServeBacked DEF Next
<1>. QED
  BY <1>1, <1>2

\* Until requests overlap or seats change hands, a seat holder signs beyond his
\* scope only what a majority of the filled seats voted for.
THEOREM CollegialAlone == Spec => []CollegialOrEmpowered
<1>1. Init => BackedInv
  BY DEF Init, NoRequest, BackedInv, FilesBacked, Ready, At
<1>2. TypeOK /\ AloneInv /\ BackedInv /\ [Next]_vars => BackedInv'
  BY StepBacked
<1>3. TypeOK /\ BackedInv => CollegialOrEmpowered
  <2>. SUFFICES ASSUME TypeOK, FilesBacked, NEW c \in Cases,
                       cases[c].status \in {"VERDICT_RENDU", "EXECUTE"},
                       cases[c].verdictBy \in Seats,
                       cases[c].sanction \notin VerdictScope(cases[c].verdictBy)
                PROVE  2 * Cardinality(SeatsFor(c, cases[c].sanction, filled))
                           > Cardinality(filled)
    BY DEF BackedInv, CollegialOrEmpowered
  <2>1. HasMajority(c, cases[c].sanction, filled)
    BY DEF FilesBacked, Backed
  <2>2. IsFiniteSet(filled) /\ IsFiniteSet(SeatsFor(c, cases[c].sanction, filled))
    BY FS_Subset, CouncilAssumption DEF TypeOK, SeatsFor
  <2>3. /\ Cardinality(filled) \in Nat
        /\ Cardinality(SeatsFor(c, cases[c].sanction, filled)) \in Nat
    BY <2>2, FS_CardinalityType
  <2>. HIDE DEF SeatsFor
  <2>. QED
    BY <2>1, <2>3 DEF HasMajority, MajorityRequired
<1>. QED
  BY <1>1, <1>2, <1>3, TypeCorrect, AloneInvariant, PTL DEF Spec
=============================================================================
