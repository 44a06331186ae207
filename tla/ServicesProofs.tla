--------------------------- MODULE ServicesProofs ----------------------------
(***************************************************************************)
(* The services that are built on Requests, proved for any number of       *)
(* requests in flight, of rows and of calls.  One section is one service:  *)
(* its invariant Inv holds at first (Init), is kept by a step of the       *)
(* service (Next) and by a step that changes nothing of it (Stays).        *)
(* Constants is what is assumed of its constants, Other what a request     *)
(* that does not move still knows after the step of another, Move the step *)
(* of a request that changes no row.  The last section puts them together. *)
(***************************************************************************)
EXTENDS Services, Sequences, FiniteSetTheorems, TLAPS

-----------------------------------------------------------------------------
\* Classements

LEMMA PlansConstants ==
    /\ MaxCalls \in Nat /\ FewCalls \in Nat /\ ManyCalls \in Nat /\ Logged \in Nat
    /\ None \notin Plans!Classement
    /\ Gone \notin Plans!Classement
BY ServicesAssumption

LEMMA PlansInit == Plans!Init => Plans!Inv
BY PlansConstants
   DEF Plans!Init, Plans!Inv, Plans!TypeOK, Plans!InitFlights, Plans!FlightsOK, Plans!NoRequest,
   Plans!Exists, Plans!Advancing, Plans!Deleting, Plans!Unaware

LEMMA PlansNext == Plans!Inv /\ Plans!Next => Plans!Inv' /\ Plans!PublishedStands
<1> SUFFICES ASSUME Plans!Inv, Plans!Next PROVE Plans!Inv' /\ Plans!PublishedStands
  OBVIOUS
<1> USE PlansConstants
    DEF Plans!Inv, Plans!TypeOK, Plans!FlightsOK, Plans!PublishedStands, Plans!Exists,
        Plans!Classement, Plans!ClassementStatus, Plans!flights,
        Plans!classementVars, Plans!Advancing, Plans!Deleting, Plans!Unaware, Plans!Published,
        Plans!NoRequest
<1>1. ASSUME NEW c \in Ones, NEW says \in Others, Plans!UpdateClassement(c, says)
      PROVE  Plans!Inv' /\ Plans!PublishedStands
  BY <1>1 DEF Plans!UpdateClassement
<1>2. ASSUME NEW c \in Ones, NEW says \in Others, Plans!CreateClassement(c, says)
      PROVE  Plans!Inv' /\ Plans!PublishedStands
  BY <1>2 DEF Plans!CreateClassement, Plans!NewClassement
<1>3. ASSUME NEW c \in Ones, NEW w \in Workers, Plans!AdvanceStatus(w, c)
      PROVE  Plans!Inv' /\ Plans!PublishedStands
  BY <1>3 DEF Plans!AdvanceStatus, Plans!Begin, Plans!At, Plans!Transitions
<1>4. ASSUME NEW c \in Ones, NEW w \in Workers, Plans!DeleteClassement(w, c)
      PROVE  Plans!Inv' /\ Plans!PublishedStands
  BY <1>4 DEF Plans!DeleteClassement, Plans!Begin, Plans!At
<1>5. ASSUME NEW w \in Workers, Plans!CommitStatus(w)
      PROVE  Plans!Inv' /\ Plans!PublishedStands
  <2> USE <1>5 DEF Plans!CommitStatus, Plans!Return, Plans!Continue, Plans!At
  <2>1. Plans!Advancing(w)
    BY DEF Plans!NoRequest
  <2> DEFINE c == req[w].row
  <2>2. c \in Ones /\ req[w].next \in {"FINALISE", "PUBLIE"} 
    BY <2>1
  <2>3. \A v \in Workers \ {w} : pc'[v] = pc[v] /\ req'[v] = req[v]
    OBVIOUS
  <2>4. pc'[w] = "idle" /\ req'[w] = [op |-> "none"]
    OBVIOUS
  <2>5. CASE Plans!Exists(x1[c])
    <3>1. x1'[c].status = req[w].next /\ x1'[c] \in Plans!Classement
      BY <2>5, <2>2
    <3>2. \A d \in Ones \ {c} : x1'[d] = x1[d]
      BY <2>5, <2>2
    <3>3. \A v \in Workers \ {w} : Plans!Unaware(v) /\ req[v].row = c => c \in x2'
      BY <2>2, <2>5 DEF Plans!Meet, Plans!Alongside
    <3>4. x2 \subseteq x2' /\ x2' \subseteq Ones
      BY <2>2, <2>5 DEF Plans!Meet
    <3> HIDE <1>5 DEF c
    <3>5. x1' \in [Ones -> Plans!Classement \cup {None, Gone}] /\ Plans!FlightsOK'
      BY <1>5, <2>5
    <3>6. \A v \in Workers : pc'[v] = "idle" \/ Plans!Advancing(v)' \/ Plans!Deleting(v)'
      BY <2>3, <2>4
    <3>7. ASSUME NEW v \in Workers, Plans!Unaware(v)', x1'[req'[v].row] \notin {None, Gone},
                 x1'[req'[v].row].status = "PUBLIE"
          PROVE  req'[v].row \in x2'
      <4>1. v # w /\ Plans!Unaware(v) /\ req'[v] = req[v] /\ req[v].row \in Ones
        BY <3>7, <2>3, <2>4
      <4>2. CASE req[v].row = c
        BY <4>1, <4>2, <3>3
      <4>3. CASE req[v].row # c
        <5>1. x1'[req[v].row] = x1[req[v].row]
          BY <4>1, <4>3, <3>2
        <5>2. Plans!Published(req[v].row)
          BY <5>1, <4>1, <3>7
        <5> QED
          BY <5>2, <4>1, <3>4
      <4> QED
        BY <4>2, <4>3
    <3>8. Plans!PublishedStands
      BY <2>1, <2>2, <2>5, <3>1, <3>2, <3>4 DEF c
    <3>9. \A v \in Workers : Plans!Unaware(v)' /\ Plans!Published(req[v].row)' => req'[v].row \in x2'
      BY <3>7
    <3> QED
      BY <3>4, <3>5, <3>6, <3>8, <3>9
  <2>6. CASE ~Plans!Exists(x1[c])
    BY <2>6, <2>3, <2>4
  <2> QED
    BY <2>5, <2>6
<1>6. ASSUME NEW w \in Workers, Plans!RemoveClassement(w)
      PROVE  Plans!Inv' /\ Plans!PublishedStands
  BY <1>6
     DEF Plans!RemoveClassement, Plans!Return, Plans!Continue, Plans!At, Plans!Meet, Plans!Alongside
<1>7. ASSUME NEW w \in Workers, Plans!AbortClassement(w)
      PROVE  Plans!Inv' /\ Plans!PublishedStands
  BY <1>7 DEF Plans!AbortClassement, Plans!Die, Plans!Return, Plans!Continue, Plans!At
<1> QED
  BY <1>1, <1>2, <1>3, <1>4, <1>5, <1>6, <1>7 DEF Plans!Next, Plans!EditDesk, Plans!StatusDesk

LEMMA PlansStays == Plans!Inv /\ UNCHANGED <<x1, x2, pc, req, sent>> => Plans!Inv'
BY
   DEF Plans!Inv, Plans!TypeOK, Plans!FlightsOK, Plans!Advancing, Plans!Deleting, Plans!Unaware,
          Plans!Published, Plans!Exists

-----------------------------------------------------------------------------
\* Lockout

LEMMA LocksConstants ==
    /\ IsFiniteSet(Workers)
    /\ MaxCalls \in Nat /\ FewCalls \in Nat /\ ManyCalls \in Nat /\ Logged \in Nat
BY ServicesAssumption

LEMMA Durations == \A n \in Nat : Locks!Duration(n) \in {0, 1, 5, 15, 30}
<1> SUFFICES ASSUME NEW n \in Nat PROVE Locks!Duration(n) \in {0, 1, 5, 15, 30}
  OBVIOUS
<1> DEFINE R == Locks!Reached(n)
<1>1. \A t : t \in R <=> /\ t \in {<<5, 1>>, <<10, 5>>, <<15, 15>>, <<20, 30>>}
                         /\ n >= t[1]
  BY DEF Locks!Reached, Locks!Tiers
<1>2. \A t \in R : t \in {<<5, 1>>, <<10, 5>>, <<15, 15>>, <<20, 30>>}
  BY <1>1
<1>3. CASE R = {}
  BY <1>3 DEF Locks!Duration
<1>4. CASE R # {}
  <2>1. \E t \in R : \A u \in R : u[1] <= t[1]
    <3> HIDE DEF R
    <3>1. ASSUME NEW t \in {<<5, 1>>, <<10, 5>>, <<15, 15>>, <<20, 30>>}, n >= t[1],
                 \A u \in R : u[1] <= t[1]
          PROVE  \E v \in R : \A u \in R : u[1] <= v[1]
      BY <1>1, <3>1
    <3>2. CASE n >= 20
      BY <1>2, <3>1, <3>2
    <3>3. CASE n < 20 /\ n >= 15
      BY <1>1, <3>1, <3>3
    <3>4. CASE n < 15 /\ n >= 10
      BY <1>1, <3>1, <3>4
    <3>5. CASE n < 10
      BY <1>1, <1>4, <3>1, <3>5
    <3> QED
      BY <3>2, <3>3, <3>4, <3>5
  <2> DEFINE t == CHOOSE t \in R : \A u \in R : u[1] <= t[1]
  <2>2. t \in R
    BY <2>1
  <2>3. Locks!Duration(n) = t[2]
    BY <1>4 DEF Locks!Duration
  <2> QED
    BY <2>2, <2>3, <1>2
<1> QED
  BY <1>3, <1>4

\* The instance has a Cardinality of its own.
LEMMA LocksCardinality == \A S : Locks!Cardinality(S) = Cardinality(S)
BY DEF Locks!Cardinality, Cardinality

LEMMA LocksInit == Locks!Init => Locks!Inv
<1> SUFFICES ASSUME Locks!Init PROVE Locks!Inv
  OBVIOUS
<1> USE LocksConstants DEF Locks!Init, Locks!InitFlights
<1>1. Locks!Checking = {}
  BY DEF Locks!Checking
<1>2. Cardinality(Locks!Checking) = 0
  BY <1>1, FS_EmptySet
<1> QED
  BY <1>1, <1>2, LocksCardinality DEF Locks!Inv, Locks!TypeOK, Locks!FlightsOK, Locks!NoRequest

\* A request that ends is one less that checks a password, one that comes in one more.
LEMMA LocksChecking ==
    ASSUME Locks!TypeOK, NEW w \in Workers
    PROVE  /\ Cardinality(Locks!Checking) \in Nat
           /\ pc[w] = "checking" /\ Locks!Return(w) =>
                /\ Locks!Checking' = Locks!Checking \ {w}
                /\ Cardinality(Locks!Checking') \in Nat
                /\ Cardinality(Locks!Checking') = Cardinality(Locks!Checking) - 1
           /\ Locks!Begin(w, [op |-> "login"], "checking") =>
                /\ Locks!Checking' = Locks!Checking \cup {w}
                /\ Cardinality(Locks!Checking') = Cardinality(Locks!Checking) + 1
<1> USE DEF Locks!TypeOK, Locks!FlightsOK
<1>1. IsFiniteSet(Locks!Checking)
  BY LocksConstants, FS_Subset DEF Locks!Checking
<1>2. ASSUME pc[w] = "checking", Locks!Return(w)
      PROVE  Locks!Checking' = Locks!Checking \ {w} /\ w \in Locks!Checking
  BY <1>2 DEF Locks!Return, Locks!Continue, Locks!At, Locks!Checking
<1>3. ASSUME Locks!Begin(w, [op |-> "login"], "checking")
      PROVE  Locks!Checking' = Locks!Checking \cup {w} /\ w \notin Locks!Checking
  BY <1>3 DEF Locks!Begin, Locks!At, Locks!Checking
<1>4. \A S \in SUBSET Locks!Checking : Cardinality(S) \in Nat
  BY <1>1, FS_Subset, FS_CardinalityType
<1>5. \A v \in Locks!Checking : Cardinality(Locks!Checking \ {v}) = Cardinality(Locks!Checking) - 1
  BY <1>1, FS_RemoveElement
<1>6. \A v : v \notin Locks!Checking =>
                Cardinality(Locks!Checking \cup {v}) = Cardinality(Locks!Checking) + 1
  BY <1>1, FS_AddElement
<1> QED
  BY <1>2, <1>3, <1>4, <1>5, <1>6

LEMMA LocksNext ==
    Locks!Inv /\ Locks!Next => Locks!Inv' /\ Locks!LockHolds /\ Locks!LockEndsInTime
<1> SUFFICES ASSUME Locks!Inv, Locks!Next
             PROVE  Locks!Inv' /\ Locks!LockHolds /\ Locks!LockEndsInTime
  OBVIOUS
<1> DEFINE Goal == Locks!Inv' /\ Locks!LockHolds /\ Locks!LockEndsInTime
<1> USE LocksConstants, LocksCardinality
    DEF Locks!Inv, Locks!TypeOK, Locks!FlightsOK, Locks!NoRequest, Locks!LockHolds,
           Locks!LockEndsInTime,
        Locks!Return, Locks!Continue, Locks!Begin, Locks!At, Locks!flights, Locks!lock
<1>1. CASE Locks!Minute
  BY <1>1 DEF Locks!Minute, Locks!Checking
<1>2. CASE Locks!Forget
  <2>1. Locks!Checking' = Locks!Checking /\ Cardinality(Locks!Checking) \in Nat
    BY <1>2, LocksConstants, FS_Subset, FS_CardinalityType DEF Locks!Forget, Locks!Checking
  <2> QED
    BY <1>2, <2>1 DEF Locks!Forget
<1>3. ASSUME NEW w \in Workers, Locks!Login(w)
      PROVE  Goal
  <2>1. Locks!Begin(w, [op |-> "login"], "checking")
    BY <1>3 DEF Locks!Login
  <2>2. /\ Cardinality(Locks!Checking) \in Nat
        /\ Cardinality(Locks!Checking') = Cardinality(Locks!Checking) + 1
    BY <2>1, LocksChecking
  <2> QED
    BY <1>3, <2>2 DEF Locks!Login
<1>4. ASSUME NEW w \in Workers, Locks!RecordFailure(w)
      PROVE  Goal
  <2>1. x2' \in 0 .. 30 /\ (x2' > 0 => x2 > 0 \/ Locks!Duration(x1 + 1) > 0)
    BY <1>4, Durations DEF Locks!RecordFailure
  <2>2. /\ Locks!Checking' = Locks!Checking \ {w}
        /\ Cardinality(Locks!Checking) \in Nat
        /\ Cardinality(Locks!Checking') \in Nat
        /\ Cardinality(Locks!Checking') = Cardinality(Locks!Checking) - 1
    BY <1>4, LocksChecking DEF Locks!RecordFailure
  <2>3. x2' > 0 => Locks!Checking' \subseteq x3'
    BY <1>4, <2>1, <2>2 DEF Locks!RecordFailure, Locks!Checking
  <2>4. x3' \subseteq Workers
    BY <1>4 DEF Locks!RecordFailure
  <2>5. x1' + Cardinality(Locks!Checking') <= sent' /\ x1' \in 0 .. Logged
    BY <1>4, <2>2 DEF Locks!RecordFailure
  <2>6. Locks!FlightsOK' /\ \A v \in Workers : pc'[v] \in {"idle", "checking"}
    BY <1>4 DEF Locks!RecordFailure
  <2>7. x2 > 0 => \E v \in x3 : pc[v] = "checking" /\ pc'[v] = "idle"
    BY <1>4 DEF Locks!RecordFailure, Locks!Checking
  <2>8. x2 > 0 => x2' # 0
    BY <1>4, Durations DEF Locks!RecordFailure
  <2> QED
    BY <2>1, <2>3, <2>4, <2>5, <2>6, <2>7, <2>8
<1>5. ASSUME NEW w \in Workers, Locks!RecordSuccess(w)
      PROVE  Goal
  <2>1. /\ Locks!Checking' = Locks!Checking \ {w}
        /\ Cardinality(Locks!Checking) \in Nat
        /\ Cardinality(Locks!Checking') \in Nat
        /\ Cardinality(Locks!Checking') = Cardinality(Locks!Checking) - 1
    BY <1>5, LocksChecking DEF Locks!RecordSuccess
  <2>2. x2 > 0 => \E v \in x3 : pc[v] = "checking" /\ pc'[v] = "idle"
    BY <1>5 DEF Locks!RecordSuccess, Locks!Checking
  <2> QED
    BY <1>5, <2>1, <2>2 DEF Locks!RecordSuccess
<1>6. ASSUME NEW w \in Workers, Locks!AbortLogin(w)
      PROVE  Goal
  <2>1. /\ Locks!Checking' = Locks!Checking \ {w}
        /\ Cardinality(Locks!Checking) \in Nat
        /\ Cardinality(Locks!Checking') \in Nat
        /\ Cardinality(Locks!Checking') = Cardinality(Locks!Checking) - 1
    BY <1>6, LocksChecking DEF Locks!AbortLogin, Locks!Die
  <2> QED
    BY <1>6, <2>1 DEF Locks!AbortLogin, Locks!Die
<1> QED
  BY <1>1, <1>2, <1>3, <1>4, <1>5, <1>6 DEF Locks!Next

LEMMA LocksStays == Locks!Inv /\ UNCHANGED <<x1, x2, x3, pc, req, sent>> => Locks!Inv'
BY DEF Locks!Inv, Locks!TypeOK, Locks!FlightsOK, Locks!Checking

-----------------------------------------------------------------------------
\* Training

LEMMA CoursesConstants ==
    /\ IsFiniteSet(Workers) /\ IsFiniteSet(Rows)
    /\ MaxCalls \in Nat /\ FewCalls \in Nat /\ ManyCalls \in Nat /\ Logged \in Nat
    /\ Limits \subseteq Nat
    /\ None \notin Courses!TrainingSession /\ Gone \notin Courses!TrainingSession
    /\ None \notin Courses!TrainingParticipation /\ Gone \notin Courses!TrainingParticipation
    /\ None # Gone /\ None \notin Limits /\ None \notin Others
BY ServicesAssumption

LEMMA CoursesCardinality == \A S : Courses!Cardinality(S) = Cardinality(S)
BY DEF Courses!Cardinality, Cardinality

\* The registrations of a session are finitely many.
LEMMA CoursesOf ==
    ASSUME NEW s
    PROVE  /\ Courses!Cardinality(Courses!Of(s)) \in Nat
           /\ Courses!Of(s)' \subseteq Courses!Of(s) =>
                 /\ Courses!Cardinality(Courses!Of(s)') \in Nat
                 /\ Courses!Cardinality(Courses!Of(s)') <= Courses!Cardinality(Courses!Of(s))
           /\ \A p : Courses!Of(s)' = Courses!Of(s) \cup {p} =>
                 /\ Courses!Cardinality(Courses!Of(s)') \in Nat
                 /\ Courses!Cardinality(Courses!Of(s)') <= Courses!Cardinality(Courses!Of(s)) + 1
<1> DEFINE S == Courses!Of(s)
<1>1. IsFiniteSet(S)
  BY CoursesConstants, FS_Subset DEF Courses!Of
<1> HIDE DEF S
<1>2. \A T : T \subseteq S => Cardinality(T) \in Nat /\ Cardinality(T) <= Cardinality(S)
  BY <1>1, FS_Subset, FS_CardinalityType
<1>3. \A p : /\ IsFiniteSet(S \cup {p})
             /\ Cardinality(S \cup {p}) = IF p \in S THEN Cardinality(S) ELSE Cardinality(S) + 1
  BY <1>1, FS_AddElement
<1>4. \A p : Cardinality(S \cup {p}) \in Nat /\ Cardinality(S \cup {p}) <= Cardinality(S) + 1
  BY <1>2, <1>3
<1> QED
  BY <1>2, <1>4, CoursesCardinality DEF S

LEMMA CoursesNoRequest == \A r : r.op # "none" => r # Courses!NoRequest
BY DEF Courses!NoRequest

LEMMA CoursesInit == Courses!Init => Courses!Inv
<1> SUFFICES ASSUME Courses!Init PROVE Courses!Inv
  OBVIOUS
<1> QED
  BY CoursesConstants
     DEF Courses!Init, Courses!InitFlights, Courses!Inv, Courses!TypeOK, Courses!FlightsOK,
            Courses!NoRequest,
   Courses!CapacityHeld, Courses!SessionsExist, Courses!Of, Courses!Sound, Courses!Exists

\* What keeps a request as it should be: its place, and of its session that the row and its
\* limit stand, and that nobody registers without meeting it.
LEMMA CoursesOther ==
    ASSUME Courses!Inv, NEW v \in Workers,
           pc'[v] = pc[v] /\ req'[v] = req[v],
           x3 \subseteq x3' /\ x4 \subseteq x4',
           \A t \in Ones : x1[t] # None =>
               /\ x1'[t] # None
               /\ Courses!Exists(x1'[t]) =>
                     Courses!Exists(x1[t]) /\ (x1'[t].max = x1[t].max \/ t \in x4'),
           "session" \in DOMAIN req[v] =>
               req[v].session \in x3' \/ Courses!Of(req[v].session)' \subseteq Courses!Of(req[v].session)
    PROVE  Courses!Sound(v)'
<1> DEFINE s == req[v].session
<1>1. CASE pc[v] = "idle"
  BY <1>1 DEF Courses!Sound
<1>2. CASE Courses!Deleting(v) /\ (Courses!Of(s) = {} \/ s \in x3)
  <2>1. s \in x3' \/ Courses!Of(s)' = {}
    BY <1>2 DEF Courses!Deleting
  <2> QED
    BY <1>2, <2>1 DEF Courses!Sound, Courses!Deleting
<1>3. CASE Courses!Registering(v) /\ pc[v] = "reading"
  BY <1>3 DEF Courses!Sound, Courses!Registering
<1>4. CASE Courses!Registering(v) /\ Courses!HasRead(v)
  <2>1. s \in Ones /\ x1[s] # None /\ req[v].max \in Nat /\ "session" \in DOMAIN req[v]
    BY <1>4, CoursesConstants DEF Courses!Registering, Courses!HasRead
  <2>2. Courses!Exists(x1'[s]) => x1'[s].max = req[v].max \/ s \in x4'
    BY <1>4, <2>1 DEF Courses!HasRead
  <2>3. s \notin x3' =>
           /\ Courses!Cardinality(Courses!Of(s)) \in Nat
           /\ Courses!Cardinality(Courses!Of(s)') \in Nat
           /\ Courses!Cardinality(Courses!Of(s)') <= Courses!Cardinality(Courses!Of(s))
    BY <2>1, CoursesOf
  <2>4. pc[v] = "inserting" /\ req[v].max > 0 =>
           s \in x3' \/ Courses!Cardinality(Courses!Of(s)') < req[v].max
    BY <1>4, <2>1, <2>3 DEF Courses!HasRead
  <2>5. Courses!HasRead(v)'
    BY <1>4, <2>1, <2>2, <2>4 DEF Courses!HasRead, Courses!Exists
  <2> QED
    BY <1>4, <2>5 DEF Courses!Sound, Courses!Registering
<1> QED
  BY <1>1, <1>2, <1>3, <1>4 DEF Courses!Inv, Courses!Sound

\* A step that changes no row and the place of one request alone.
LEMMA CoursesMove ==
    ASSUME Courses!Inv, NEW w \in Workers, UNCHANGED <<Courses!trainingTables, Courses!trainingHistory>>,
           NEW r, NEW place, Courses!At(w, r, place), sent' \in 0 .. FewCalls,
           place = "idle" <=> r = Courses!NoRequest,
           Courses!Sound(w)'
    PROVE  Courses!Inv' /\ Courses!RegistrationsKept
<1>1. \A s : Courses!Of(s)' = Courses!Of(s)
  BY DEF Courses!Of, Courses!trainingTables, Courses!Exists
<1>2. Courses!FlightsOK'
  BY DEF Courses!Inv, Courses!TypeOK, Courses!FlightsOK, Courses!At
<1>3. Courses!TypeOK'
  BY <1>2 DEF Courses!Inv, Courses!TypeOK, Courses!trainingTables, Courses!trainingHistory
<1>4. Courses!CapacityHeld'
  BY <1>1
     DEF Courses!Inv, Courses!CapacityHeld, Courses!trainingTables, Courses!trainingHistory,
            Courses!Exists
<1>5. ASSUME NEW v \in Workers, v # w PROVE Courses!Sound(v)'
  BY <1>1, <1>5, CoursesOther DEF Courses!Inv, Courses!TypeOK, Courses!FlightsOK, Courses!At,
     Courses!trainingTables, Courses!trainingHistory, Courses!Exists
<1>6. Courses!RegistrationsKept
  BY CoursesConstants DEF Courses!RegistrationsKept, Courses!trainingTables, Courses!Exists
<1>7. Courses!SessionsExist'
  BY <1>1 DEF Courses!Inv, Courses!SessionsExist, Courses!trainingTables, Courses!Exists
<1> QED
  BY <1>3, <1>4, <1>5, <1>6, <1>7 DEF Courses!Inv

\* The next of a batch, or the answer.
LEMMA CoursesNextServant ==
    ASSUME Courses!Inv, NEW w \in Workers, Courses!NextServant(w), Courses!Registering(w)
    PROVE  /\ \E r, place : /\ Courses!Continue(w, r, place)
                            /\ place = "idle" <=> r = Courses!NoRequest
           /\ Courses!FlightsOK' /\ Courses!Sound(w)'
           /\ \A v \in Workers \ {w} : pc'[v] = pc[v] /\ req'[v] = req[v]
<1> DEFINE r == [req[w] EXCEPT !.servant = None, !.max = None]
<1>1. PICK s, place : /\ Courses!Continue(w, s, place)
                      /\ place = "idle" <=> s = Courses!NoRequest
                      /\ \/ place = "idle"
                         \/ /\ place = "reading"
                            /\ s \in [op : {"one", "batch"}, session : Ones, todo : SUBSET Others,
                                      servant : Others \cup {None}, max : Limits \cup {None}]
  <2>1. CASE req[w].op = "batch"
    <3>1. /\ r \in [op : {"one", "batch"}, session : Ones, todo : SUBSET Others,
                     servant : Others \cup {None}, max : Limits \cup {None}]
          /\ r.op # "none"
      BY DEF Courses!Registering
    <3>2. Courses!Continue(w, r, "reading")
      BY <2>1 DEF Courses!NextServant
    <3> HIDE DEF r
    <3>3. r # Courses!NoRequest
      BY <3>1, CoursesNoRequest
    <3> QED
      BY <3>1, <3>2, <3>3
  <2>2. CASE req[w].op # "batch"
    BY <2>2 DEF Courses!NextServant, Courses!Return
  <2> QED
    BY <2>1, <2>2
<1>2. /\ pc'[w] = place /\ req'[w] = s
      /\ \A v \in Workers \ {w} : pc'[v] = pc[v] /\ req'[v] = req[v]
      /\ Courses!FlightsOK'
  BY <1>1 DEF Courses!Inv, Courses!TypeOK, Courses!FlightsOK, Courses!Continue, Courses!At
<1>3. Courses!Sound(w)'
  BY <1>1, <1>2 DEF Courses!Sound, Courses!Registering
<1> QED
  BY <1>1, <1>2, <1>3

\* The actions that only look: the request goes on, with what it has read.
LEMMA CoursesLooks ==
    ASSUME Courses!Inv, NEW w \in Workers
    PROVE  \/ \E s \in Ones : Courses!TrainingRequest(w, s)
           \/ Courses!ReadSession(w) \/ Courses!LookForServant(w) \/ Courses!CountParticipants(w)
           \/ Courses!RegistrationRefused(w) \/ Courses!BatchDone(w) \/ Courses!AbortTraining(w)
           => Courses!Inv' /\ Courses!RegistrationsKept
<1> DEFINE Goal == Courses!Inv' /\ Courses!RegistrationsKept
<1> USE DEF Courses!Begin, Courses!Continue, Courses!Return
<1>0. /\ Courses!FlightsOK /\ Courses!Sound(w) /\ sent \in 0 .. FewCalls
      /\ x1 \in [Ones -> Courses!TrainingSession \cup {None, Gone}]
  BY DEF Courses!Inv, Courses!TypeOK, Courses!FlightsOK
<1>1. ASSUME UNCHANGED <<Courses!trainingTables, Courses!trainingHistory>>, UNCHANGED sent,
             Courses!At(w, Courses!NoRequest, "idle")
      PROVE  Goal
  <2>1. Courses!Sound(w)'
    BY <1>0, <1>1 DEF Courses!At, Courses!FlightsOK, Courses!Sound
  <2> QED
    BY <1>0, <1>1, <2>1, CoursesMove
<1>2. ASSUME UNCHANGED <<Courses!trainingTables, Courses!trainingHistory>>, sent' \in 0 .. FewCalls,
             NEW r, NEW place, Courses!At(w, r, place), place # "idle", r # Courses!NoRequest,
             Courses!Sound(w)'
      PROVE  Goal
  BY <1>2, CoursesMove
<1>3. ASSUME NEW s \in Ones, Courses!DeleteSession(w, s)
      PROVE  Goal
  <2> DEFINE r == [op |-> "delete", session |-> s]
  <2>1. Courses!At(w, r, "deleting") /\ sent' \in 0 .. FewCalls
    BY <1>0, <1>3, CoursesConstants DEF Courses!DeleteSession
  <2>2. pc'[w] = "deleting" /\ req'[w] = r /\ Courses!Of(s)' = {}
    BY <1>0, <1>3, <2>1
       DEF Courses!DeleteSession, Courses!At, Courses!FlightsOK, Courses!Of, Courses!Exists,
              Courses!trainingTables
  <2>3. Courses!Sound(w)'
    BY <2>2 DEF Courses!Sound, Courses!Deleting
  <2>4. r # Courses!NoRequest
    BY DEF Courses!NoRequest
  <2> QED
    BY <1>3, <2>1, <2>3, <2>4, <1>2 DEF Courses!DeleteSession
<1>4. ASSUME NEW s \in Ones, NEW batch \in BOOLEAN, NEW servants \in SUBSET Others, Courses!Register(w, s, batch, servants)
      PROVE  Goal
  <2> DEFINE r == [op |-> IF batch THEN "batch" ELSE "one", session |-> s,
                 todo |-> servants, servant |-> None, max |-> None]
  <2>1. Courses!At(w, r, "reading") /\ sent' \in 0 .. FewCalls
    BY <1>0, <1>4, CoursesConstants DEF Courses!Register
  <2>2. pc'[w] = "reading" /\ req'[w] = r
    BY <1>0, <2>1 DEF Courses!At, Courses!FlightsOK
  <2>3. Courses!Sound(w)'
    BY <2>2 DEF Courses!Sound, Courses!Registering
  <2>4. r # Courses!NoRequest
    BY DEF Courses!NoRequest
  <2> QED
    BY <1>4, <2>1, <2>3, <2>4, <1>2 DEF Courses!Register
<1>5. CASE Courses!ReadSession(w)
  <2>1. pc[w] = "reading" /\ Courses!Registering(w)
    BY <1>0, <1>5 DEF Courses!ReadSession, Courses!Sound, Courses!Deleting
  <2>2. PICK v \in req[w].todo :
          LET rest == [req[w] EXCEPT !.todo = @ \ {v}] IN
          IF Courses!Exists(x1[req[w].session]) /\ x1[req[w].session].open
          THEN Courses!Continue(w, [rest EXCEPT !.servant = v, !.max = x1[req[w].session].max], "looking")
          ELSE IF req[w].op = "batch" THEN Courses!Continue(w, rest, "reading") ELSE Courses!Return(w)
    BY <1>5 DEF Courses!ReadSession
  <2> DEFINE rest == [req[w] EXCEPT !.todo = @ \ {v}]
             found == [rest EXCEPT !.servant = v, !.max = x1[req[w].session].max]
  <2>3. /\ rest \in [op : {"one", "batch"}, session : Ones, todo : SUBSET Others,
                      servant : Others \cup {None}, max : Limits \cup {None}]
        /\ rest.op # "none" /\ v \in Others
    BY <2>1 DEF Courses!Registering
  <2>4. CASE Courses!Exists(x1[req[w].session]) /\ x1[req[w].session].open
    <3>1. x1[req[w].session] \in Courses!TrainingSession
      BY <1>0, <2>1, <2>4 DEF Courses!Exists, Courses!Registering
    <3>0. x1[req[w].session] # None
      BY <2>4 DEF Courses!Exists
    <3>2. /\ found \in [op : {"one", "batch"}, session : Ones, todo : SUBSET Others,
                      servant : Others \cup {None}, max : Limits \cup {None}]
          /\ found.servant = v /\ found.max = x1[req[w].session].max /\ found.max \in Limits
          /\ found.session = req[w].session /\ found.op # "none"
      BY <2>1, <2>3, <3>1 DEF Courses!TrainingSession, Courses!Registering
    <3> HIDE DEF found
    <3>3. Courses!At(w, found, "looking") /\ UNCHANGED sent
      BY <2>2, <2>4 DEF found
    <3>4. pc'[w] = "looking" /\ req'[w] = found
      BY <1>0, <3>3 DEF Courses!At, Courses!FlightsOK
    <3>5. Courses!Sound(w)'
      BY <1>5, <2>3, <3>0, <3>2, <3>4
         DEF Courses!ReadSession, Courses!trainingTables, Courses!trainingHistory, Courses!Sound,
                Courses!Registering, Courses!HasRead
    <3>6. found # Courses!NoRequest
      BY <3>2, CoursesNoRequest
    <3> QED
      BY <1>0, <1>2, <1>5, <3>3, <3>5, <3>6 DEF Courses!ReadSession
  <2>5. CASE ~(Courses!Exists(x1[req[w].session]) /\ x1[req[w].session].open) /\ req[w].op = "batch"
    <3> HIDE DEF rest
    <3>1. Courses!At(w, rest, "reading") /\ UNCHANGED sent
      BY <2>2, <2>5 DEF rest
    <3>2. pc'[w] = "reading" /\ req'[w] = rest
      BY <1>0, <3>1 DEF Courses!At, Courses!FlightsOK
    <3>3. Courses!Sound(w)'
      BY <2>3, <3>2 DEF Courses!Sound, Courses!Registering
    <3>4. rest # Courses!NoRequest
      BY <2>3, CoursesNoRequest
    <3> QED
      BY <1>0, <1>2, <1>5, <3>1, <3>3, <3>4 DEF Courses!ReadSession
  <2>6. CASE ~(Courses!Exists(x1[req[w].session]) /\ x1[req[w].session].open) /\ req[w].op # "batch"
    BY <1>1, <1>5, <2>2, <2>6 DEF Courses!ReadSession
  <2> QED
    BY <2>4, <2>5, <2>6
<1>6. ASSUME Courses!NextServant(w), Courses!Registering(w),
             UNCHANGED <<Courses!trainingTables, Courses!trainingHistory>>
      PROVE  Goal
  <2>1. PICK r, place : /\ Courses!Continue(w, r, place)
                        /\ place = "idle" <=> r = Courses!NoRequest
                        /\ Courses!Sound(w)'
    BY <1>6, CoursesNextServant
  <2> QED
    BY <1>0, <1>6, <2>1, CoursesMove
<1>7. CASE Courses!LookForServant(w) \/ Courses!CountParticipants(w)
  <2>1. /\ pc[w] \in {"looking", "counting"} /\ Courses!Registering(w) /\ Courses!HasRead(w)
        /\ UNCHANGED <<Courses!trainingTables, Courses!trainingHistory>>
    BY <1>0, <1>7
       DEF Courses!LookForServant, Courses!CountParticipants, Courses!Sound, Courses!Deleting
  <2>2. CASE Courses!NextServant(w)
    BY <1>6, <2>1, <2>2
  <2>3. ASSUME NEW place \in {"counting", "inserting"}, Courses!Continue(w, req[w], place),
               place = "inserting" /\ req[w].max > 0 =>
                  Courses!Cardinality(Courses!Of(req[w].session)) < req[w].max
        PROVE  Goal
    <3>1. pc'[w] = place /\ req'[w] = req[w]
      BY <1>0, <2>3 DEF Courses!At, Courses!FlightsOK
    <3>2. Courses!Of(req[w].session)' = Courses!Of(req[w].session)
      BY <2>1, <3>1 DEF Courses!Of, Courses!Exists, Courses!trainingTables
    <3>3. Courses!HasRead(w)'
      BY <2>1, <2>3, <3>1, <3>2
         DEF Courses!HasRead, Courses!trainingTables, Courses!trainingHistory, Courses!Exists
    <3>4. Courses!Sound(w)'
      BY <2>1, <2>3, <3>1, <3>3 DEF Courses!Sound, Courses!Registering
    <3>5. req[w] # Courses!NoRequest
      BY <2>1 DEF Courses!NoRequest, Courses!Registering
    <3> QED
      BY <1>0, <1>2, <2>1, <2>3, <3>4, <3>5
  <2>4. Courses!Cardinality(Courses!Of(req[w].session)) \in Nat /\ req[w].max \in Nat
    BY <2>1, CoursesOf, CoursesConstants DEF Courses!HasRead
  <2> QED
    BY <1>7, <2>2, <2>3, <2>4 DEF Courses!LookForServant, Courses!CountParticipants
<1>8. CASE Courses!RegistrationRefused(w) \/ Courses!BatchDone(w) \/ Courses!AbortTraining(w)
  BY <1>1, <1>8
     DEF Courses!RegistrationRefused, Courses!BatchDone, Courses!AbortTraining, Courses!Die
<1> QED
  BY <1>3, <1>4, <1>5, <1>6, <1>7, <1>8 DEF Courses!TrainingRequest

\* The sessions: one is made, or changed.
LEMMA CoursesSessions ==
    ASSUME Courses!Inv, NEW s \in Ones, Courses!NewSession(s) \/ Courses!SessionDesk(s)
    PROVE  Courses!Inv' /\ Courses!RegistrationsKept
<1>1. PICK open \in BOOLEAN, max \in Limits :
         /\ x1' = [x1 EXCEPT ![s] = [open |-> open, max |-> max]]
         /\ x4 \subseteq x4' /\ x4' \subseteq Ones
         /\ x1[s] = None \/ (Courses!Exists(x1[s]) /\ (max = x1[s].max \/ s \in x4'))
         /\ UNCHANGED <<x2, x3, x5, Courses!flights>>
  <2>1. ASSUME NEW max \in Limits, Courses!CreateSession(s, max)
        PROVE  /\ x1' = [x1 EXCEPT ![s] = [open |-> TRUE, max |-> max]]
               /\ x1[s] = None /\ UNCHANGED <<x2, x3, x4, x5, Courses!flights>>
    BY <2>1 DEF Courses!CreateSession, Courses!trainingHistory
  <2>2. ASSUME NEW open \in BOOLEAN, NEW max \in Limits, Courses!UpdateSession(s, open, max)
        PROVE  /\ x1' = [x1 EXCEPT ![s] = [open |-> open, max |-> max]]
               /\ x4 \subseteq x4' /\ x4' \subseteq x4 \cup {s}
               /\ Courses!Exists(x1[s]) /\ (max = x1[s].max \/ s \in x4')
               /\ UNCHANGED <<x2, x3, x5, Courses!flights>>
    BY <2>2 DEF Courses!UpdateSession
  <2>3. x4 \subseteq Ones
    BY DEF Courses!Inv, Courses!TypeOK
  <2>4. CASE Courses!NewSession(s)
    <3>1. PICK max \in Limits : Courses!CreateSession(s, max)
      BY <2>4 DEF Courses!NewSession
    <3>2. /\ x1' = [x1 EXCEPT ![s] = [open |-> TRUE, max |-> max]]
          /\ x1[s] = None /\ UNCHANGED <<x2, x3, x4, x5, Courses!flights>>
      BY <2>1, <3>1
    <3>3. \A t : t \subseteq t
      OBVIOUS
    <3>4. /\ x1' = [x1 EXCEPT ![s] = [open |-> TRUE, max |-> max]]
          /\ x4 \subseteq x4' /\ x4' \subseteq Ones
          /\ x1[s] = None \/ (Courses!Exists(x1[s]) /\ (max = x1[s].max \/ s \in x4'))
          /\ UNCHANGED <<x2, x3, x5, Courses!flights>>
      BY <2>3, <3>2, <3>3
    <3> QED
      BY <3>4
  <2>5. CASE Courses!SessionDesk(s)
    BY <2>2, <2>3, <2>5 DEF Courses!SessionDesk
  <2> QED
    BY <2>4, <2>5
<1>2. \A t : Courses!Of(t)' = Courses!Of(t)
  BY <1>1 DEF Courses!Of, Courses!Exists
<1>3. /\ [open |-> open, max |-> max] \in Courses!TrainingSession
      /\ x1' \in [Ones -> Courses!TrainingSession \cup {None, Gone}]
      /\ x1'[s].max = max /\ Courses!Exists(x1'[s])
      /\ \A t \in Ones \ {s} : x1'[t] = x1[t]
  BY <1>1, CoursesConstants DEF Courses!Inv, Courses!TypeOK, Courses!TrainingSession, Courses!Exists
<1>4. Courses!TypeOK'
  BY <1>1, <1>3 DEF Courses!Inv, Courses!TypeOK, Courses!FlightsOK, Courses!flights
<1>5. Courses!CapacityHeld'
  <2>1. x1[s] = None => Courses!Of(s)' = {}
    BY <1>2 DEF Courses!Inv, Courses!SessionsExist, Courses!Exists
  <2>2. Courses!Cardinality({}) = 0 /\ max \in Nat
    BY FS_EmptySet, CoursesCardinality, CoursesConstants
  <2>3. ASSUME NEW t \in Ones, Courses!Exists(x1'[t]), x1'[t].max > 0, ~(t \in x3' \cup x4')
        PROVE  Courses!Cardinality(Courses!Of(t)') <= x1'[t].max
    <3>1. CASE t # s \/ x1[s] # None
      BY <1>1, <1>2, <1>3, <2>3, <3>1 DEF Courses!Inv, Courses!CapacityHeld
    <3>2. CASE t = s /\ x1[s] = None
      BY <1>3, <2>1, <2>2, <3>2
    <3> QED
      BY <3>1, <3>2
  <2> QED
    BY <2>3 DEF Courses!CapacityHeld, Courses!Exists
<1>6. ASSUME NEW v \in Workers PROVE Courses!Sound(v)'
  <2>1. ASSUME NEW t \in Ones, x1[t] # None
        PROVE  /\ x1'[t] # None
               /\ Courses!Exists(x1'[t]) =>
                     Courses!Exists(x1[t]) /\ (x1'[t].max = x1[t].max \/ t \in x4')
    BY <1>1, <1>3, <2>1 DEF Courses!Exists
  <2> QED
    BY <1>1, <1>2, <1>6, <2>1, CoursesOther DEF Courses!flights
<1>7. Courses!SessionsExist'
  BY <1>1, <1>2, <1>3 DEF Courses!Inv, Courses!SessionsExist, Courses!Exists
<1>8. Courses!RegistrationsKept
  BY <1>1, CoursesConstants DEF Courses!RegistrationsKept, Courses!Exists
<1> QED
  BY <1>4, <1>5, <1>6, <1>7, <1>8 DEF Courses!Inv

\* A registration is called off, or marked.
LEMMA CoursesRegistrations ==
    ASSUME Courses!Inv, NEW p \in Rows, Courses!ParticipationDesk(p)
    PROVE  Courses!Inv' /\ Courses!RegistrationsKept
<1>1. PICK row \in Courses!TrainingParticipation \cup {Gone} :
         /\ x2' = [x2 EXCEPT ![p] = row]
         /\ Courses!Exists(x2[p])
         /\ row # Gone => row.session = x2[p].session
         /\ row = Gone => p \in x5'
         /\ x5' \subseteq Rows
         /\ UNCHANGED <<x1, x3, x4, Courses!flights>>
  <2>1. x2[p] \in Courses!TrainingParticipation
    BY
       DEF Courses!Inv, Courses!TypeOK, Courses!ParticipationDesk, Courses!CancelRegistration,
              Courses!MarkAttendance, Courses!EvaluateParticipant, Courses!Exists
  <2>2. ASSUME NEW marked \in BOOLEAN, Courses!MarkAttendance(p, marked) \/ Courses!EvaluateParticipant(p, marked)
        PROVE  \E row \in Courses!TrainingParticipation : x2' = [x2 EXCEPT ![p] = row] /\ row.session = x2[p].session
    <3>1. [x2[p] EXCEPT !.marked = marked] \in Courses!TrainingParticipation /\ [x2[p] EXCEPT !.certificate = marked] \in Courses!TrainingParticipation
          /\ [x2[p] EXCEPT !.marked = marked].session = x2[p].session
          /\ [x2[p] EXCEPT !.certificate = marked].session = x2[p].session
      BY <2>1 DEF Courses!TrainingParticipation
    <3>2. x2' = [x2 EXCEPT ![p] = [x2[p] EXCEPT !.marked = marked]] \/ x2' = [x2 EXCEPT ![p] = [x2[p] EXCEPT !.certificate = marked]]
      BY <2>2 DEF Courses!MarkAttendance, Courses!EvaluateParticipant
    <3> QED
      BY <3>1, <3>2
  <2>3. CASE Courses!CancelRegistration(p)
    BY <2>3, CoursesConstants DEF Courses!CancelRegistration, Courses!Inv, Courses!TypeOK
  <2>4. CASE \E marked \in BOOLEAN : Courses!MarkAttendance(p, marked) \/ Courses!EvaluateParticipant(p, marked)
    BY <2>2, <2>4, CoursesConstants
       DEF Courses!MarkAttendance, Courses!EvaluateParticipant, Courses!Inv, Courses!TypeOK,
              Courses!trainingHistory
  <2> QED
    BY <2>3, <2>4 DEF Courses!ParticipationDesk
<1>2. \A t : Courses!Of(t)' \subseteq Courses!Of(t)
  BY <1>1 DEF Courses!Of, Courses!Exists, Courses!Inv, Courses!TypeOK
<1>3. \A t : Courses!Cardinality(Courses!Of(t)) \in Nat /\ Courses!Cardinality(Courses!Of(t)') \in Nat
             /\ Courses!Cardinality(Courses!Of(t)') <= Courses!Cardinality(Courses!Of(t))
  BY <1>2, CoursesOf
<1>4. Courses!TypeOK'
  BY <1>1 DEF Courses!Inv, Courses!TypeOK, Courses!FlightsOK, Courses!flights
<1>5. Courses!CapacityHeld'
  <2>1. ASSUME NEW t \in Ones, Courses!Exists(x1[t]) PROVE x1[t].max \in Nat
    BY <2>1, CoursesConstants
       DEF Courses!Inv, Courses!TypeOK, Courses!TrainingSession, Courses!Exists
  <2> QED
    BY <1>1, <1>3, <2>1 DEF Courses!Inv, Courses!CapacityHeld, Courses!Exists
<1>6. ASSUME NEW v \in Workers PROVE Courses!Sound(v)'
  BY <1>1, <1>2, <1>6, CoursesOther DEF Courses!flights
<1>7. Courses!SessionsExist'
  BY <1>1, <1>2 DEF Courses!Inv, Courses!SessionsExist, Courses!Exists
<1>8. Courses!RegistrationsKept
  BY <1>1, CoursesConstants
     DEF Courses!Inv, Courses!TypeOK, Courses!RegistrationsKept, Courses!Exists
<1> QED
  BY <1>4, <1>5, <1>6, <1>7, <1>8 DEF Courses!Inv

\* A session goes, and with it what came in since its participants were looked at.
LEMMA CoursesRemove ==
    ASSUME Courses!Inv, NEW w \in Workers, Courses!RemoveSession(w)
    PROVE  Courses!Inv' /\ Courses!RegistrationsKept
<1> DEFINE s == req[w].session
<1>1. /\ Courses!Deleting(w) /\ s \in Ones /\ (Courses!Of(s) = {} \/ s \in x3)
      /\ pc[w] = "deleting"
  BY DEF Courses!Inv, Courses!RemoveSession, Courses!Sound, Courses!Deleting, Courses!Registering
<1>2. /\ Courses!At(w, Courses!NoRequest, "idle") /\ UNCHANGED <<sent, x4, x5>>
  BY DEF Courses!RemoveSession, Courses!Return, Courses!Continue
<1>3. Courses!FlightsOK' /\ pc'[w] = "idle" /\ (\A v \in Workers \ {w} : pc'[v] = pc[v] /\ req'[v] = req[v])
  BY <1>2 DEF Courses!Inv, Courses!TypeOK, Courses!FlightsOK, Courses!At
<1>4. CASE ~Courses!Exists(x1[s])
  <2>1. UNCHANGED <<Courses!trainingTables, Courses!trainingHistory>>
    BY <1>2, <1>4 DEF Courses!RemoveSession, Courses!trainingTables, Courses!trainingHistory
  <2>2. Courses!Sound(w)'
    BY <1>3 DEF Courses!Sound
  <2> QED
    BY <1>2, <2>1, <2>2, CoursesMove DEF Courses!Inv, Courses!TypeOK, Courses!FlightsOK
<1>5. CASE Courses!Exists(x1[s])
  <2>1. /\ x1' = [x1 EXCEPT ![s] = Gone]
        /\ x2' = [p \in Rows |-> IF p \in Courses!Of(s) THEN Gone ELSE x2[p]]
        /\ x3 \subseteq x3' /\ x3' \subseteq Ones
    BY <1>1, <1>5 DEF Courses!RemoveSession, Courses!Meet, Courses!Inv, Courses!TypeOK
  <2>2. \A t : Courses!Of(t)' = IF t = s THEN {} ELSE Courses!Of(t)
    BY <2>1 DEF Courses!Of, Courses!Exists
  <2>3. /\ x1'[s] = Gone /\ ~Courses!Exists(x1'[s])
        /\ \A t \in Ones \ {s} : x1'[t] = x1[t]
        /\ x1' \in [Ones -> Courses!TrainingSession \cup {None, Gone}]
    BY <1>1, <2>1 DEF Courses!Inv, Courses!TypeOK, Courses!Exists
  <2>4. x2' \in [Rows -> Courses!TrainingParticipation \cup {None, Gone}]
    BY <2>1 DEF Courses!Inv, Courses!TypeOK
  <2>5. Courses!TypeOK'
    BY <1>2, <1>3, <2>1, <2>3, <2>4 DEF Courses!Inv, Courses!TypeOK
  <2>6. Courses!CapacityHeld'
    BY <1>2, <2>1, <2>2, <2>3 DEF Courses!Inv, Courses!CapacityHeld, Courses!Exists
  <2>7. Courses!SessionsExist'
    BY <2>2, <2>3 DEF Courses!Inv, Courses!SessionsExist, Courses!Exists
  <2>8. Courses!RegistrationsKept
    BY <1>1, <2>1, CoursesConstants DEF Courses!RegistrationsKept, Courses!Of, Courses!Exists
  <2>9. ASSUME NEW v \in Workers PROVE Courses!Sound(v)'
    <3>1. CASE v = w
      BY <1>3, <3>1 DEF Courses!Sound
    <3>2. CASE v # w
      BY <1>2, <1>3, <2>1, <2>2, <2>3, <3>2, CoursesOther, CoursesConstants
    <3> QED
      BY <3>1, <3>2
  <2> QED
    BY <2>5, <2>6, <2>7, <2>8, <2>9 DEF Courses!Inv
<1> QED
  BY <1>4, <1>5

\* A registration takes a place: whoever is alongside is met.
LEMMA CoursesInsert ==
    ASSUME Courses!Inv, NEW w \in Workers, Courses!InsertRegistration(w)
    PROVE  Courses!Inv' /\ Courses!RegistrationsKept
<1>0. PICK s \in Ones : s = req[w].session
  BY
     DEF Courses!Inv, Courses!InsertRegistration, Courses!Sound, Courses!Deleting,
            Courses!Registering
<1>1. /\ Courses!Registering(w) /\ Courses!HasRead(w) /\ pc[w] = "inserting"
      /\ Courses!Exists(x1[s])
  BY <1>0
     DEF Courses!Inv, Courses!InsertRegistration, Courses!Sound, Courses!Deleting,
            Courses!Registering
<1>2. PICK p \in Rows :
         /\ x2[p] = None
         /\ x2' = [x2 EXCEPT ![p] = [session |-> s, servant |-> req[w].servant,
                                      marked |-> FALSE, certificate |-> FALSE]]
  BY <1>0 DEF Courses!InsertRegistration
<1>3. /\ UNCHANGED <<x1, x4, x5>>
      /\ x3' = IF Courses!Alongside(w, "session", s) THEN x3 \cup {s} ELSE x3
      /\ Courses!NextServant(w)
  BY <1>0 DEF Courses!InsertRegistration, Courses!Meet
<1> DEFINE row == [session |-> s, servant |-> req[w].servant, marked |-> FALSE, certificate |-> FALSE]
<1>4. row \in Courses!TrainingParticipation /\ row.session = s
  BY <1>1 DEF Courses!TrainingParticipation, Courses!HasRead
<1> HIDE DEF row
<1>5. x2' = [x2 EXCEPT ![p] = row] /\ Courses!Exists(row)
  BY <1>2, <1>4, CoursesConstants DEF row, Courses!Exists
<1>6. x2' \in [Rows -> Courses!TrainingParticipation \cup {None, Gone}]
  BY <1>4, <1>5 DEF Courses!Inv, Courses!TypeOK
<1>7. \A q \in Rows : x2'[q] = IF q = p THEN row ELSE x2[q]
  BY <1>5 DEF Courses!Inv, Courses!TypeOK
<1>8. \A t : Courses!Of(t)' = IF t = s THEN Courses!Of(t) \cup {p} ELSE Courses!Of(t)
  BY <1>2, <1>4, <1>5, <1>7 DEF Courses!Of, Courses!Exists
<1>9. Courses!FlightsOK' /\ Courses!Sound(w)'
  BY <1>1, <1>3, CoursesNextServant
<1>10. \A v \in Workers \ {w} : pc'[v] = pc[v] /\ req'[v] = req[v]
  BY <1>3
     DEF Courses!NextServant, Courses!Continue, Courses!Return, Courses!At, Courses!Inv,
            Courses!TypeOK, Courses!FlightsOK
<1>11. Courses!TypeOK'
  BY <1>3, <1>6, <1>9 DEF Courses!Inv, Courses!TypeOK
<1>12. Courses!SessionsExist'
  BY <1>1, <1>3, <1>8 DEF Courses!Inv, Courses!SessionsExist, Courses!Exists
<1>13. Courses!CapacityHeld'
  <2>1. ASSUME x1[s].max > 0 PROVE Courses!Cardinality(Courses!Of(s)') <= x1[s].max \/ s \in x3' \cup x4'
    <3>1. req[w].max \in Nat /\ (x1[s].max = req[w].max \/ s \in x4)
      BY <1>0, <1>1, CoursesConstants DEF Courses!HasRead
    <3>2. /\ Courses!Cardinality(Courses!Of(s)) \in Nat
          /\ Courses!Cardinality(Courses!Of(s)') \in Nat
          /\ Courses!Cardinality(Courses!Of(s)') <= Courses!Cardinality(Courses!Of(s)) + 1
      BY <1>8, CoursesOf
    <3>3. req[w].max > 0 => Courses!Cardinality(Courses!Of(s)) < req[w].max \/ s \in x3
      BY <1>0, <1>1 DEF Courses!HasRead
    <3> QED
      BY <1>3, <2>1, <3>1, <3>2, <3>3
  <2> QED
    BY <1>3, <1>8, <2>1 DEF Courses!Inv, Courses!CapacityHeld, Courses!Exists
<1>14. Courses!RegistrationsKept
  BY <1>2, <1>5, CoursesConstants
     DEF Courses!RegistrationsKept, Courses!Exists, Courses!Inv, Courses!TypeOK
<1>15. ASSUME NEW v \in Workers, v # w PROVE Courses!Sound(v)'
  <2>1. "session" \in DOMAIN req[v] /\ req[v].session = s => s \in x3'
    BY <1>3, <1>15 DEF Courses!Alongside
  <2> QED
    BY <1>3, <1>8, <1>10, <1>15, <2>1, CoursesOther
<1> QED
  BY <1>9, <1>11, <1>12, <1>13, <1>14, <1>15 DEF Courses!Inv

LEMMA CoursesNext ==
    Courses!Inv /\ Courses!Next => Courses!Inv' /\ Courses!RegistrationsKept
BY CoursesLooks, CoursesSessions, CoursesRegistrations, CoursesRemove, CoursesInsert
   DEF Courses!Next, Courses!ServeTraining

LEMMA CoursesStays == Courses!Inv /\ UNCHANGED <<x1, x2, x3, x4, x5, pc, req, sent>> => Courses!Inv'
<1> SUFFICES ASSUME Courses!Inv, UNCHANGED <<x1, x2, x3, x4, x5, pc, req, sent>> PROVE Courses!Inv'
  OBVIOUS
<1>1. \A s : Courses!Of(s)' = Courses!Of(s)
  BY DEF Courses!Of, Courses!Exists
<1>2. Courses!TypeOK'
  BY DEF Courses!Inv, Courses!TypeOK, Courses!FlightsOK
<1>3. Courses!CapacityHeld' /\ Courses!SessionsExist'
  BY <1>1 DEF Courses!Inv, Courses!CapacityHeld, Courses!SessionsExist, Courses!Exists
<1>4. ASSUME NEW v \in Workers PROVE Courses!Sound(v)'
  <2>1. pc'[v] = pc[v] /\ req'[v] = req[v]
    OBVIOUS
  <2> QED
    BY <1>1, <2>1, CoursesOther DEF Courses!Exists
<1> QED
  BY <1>2, <1>3, <1>4 DEF Courses!Inv

-----------------------------------------------------------------------------
\* SportCulture

LEMMA SportConstants ==
    /\ IsFiniteSet(Workers) /\ IsFiniteSet(Rows) /\ IsFiniteSet(Others)
    /\ MaxCalls \in Nat /\ FewCalls \in Nat /\ ManyCalls \in Nat /\ Logged \in Nat
    /\ Limits \subseteq Nat
    /\ None # Gone
    /\ None \notin Limits /\ None \notin Others
    /\ None \notin Sport!SportCultureEvent /\ Gone \notin Sport!SportCultureEvent
    /\ None \notin Sport!EventParticipation /\ Gone \notin Sport!EventParticipation
BY ServicesAssumption

LEMMA SportCardinality == \A S : Sport!Cardinality(S) = Cardinality(S)
BY DEF Sport!Cardinality, Cardinality

\* The inscriptions to an event are finitely many.
LEMMA SportOf ==
    ASSUME NEW e
    PROVE  /\ Sport!CountByEvent(e) \in Nat
           /\ Sport!Of(e)' \subseteq Sport!Of(e) =>
                 Sport!CountByEvent(e)' \in Nat /\ Sport!CountByEvent(e)' <= Sport!CountByEvent(e)
           /\ \A T \in SUBSET Rows : Sport!Of(e)' = Sport!Of(e) \cup T =>
                 /\ Sport!CountByEvent(e)' \in Nat /\ Sport!Cardinality(T) \in Nat
                 /\ Sport!CountByEvent(e)' <= Sport!CountByEvent(e) + Sport!Cardinality(T)
<1> DEFINE S == Sport!Of(e)
<1>1. IsFiniteSet(S)
  BY SportConstants, FS_Subset DEF Sport!Of
<1> HIDE DEF S
<1>2. \A T : T \subseteq S => Cardinality(T) \in Nat /\ Cardinality(T) <= Cardinality(S)
  BY <1>1, FS_Subset, FS_CardinalityType
<1>3. ASSUME NEW T \in SUBSET Rows
      PROVE  /\ Cardinality(T) \in Nat /\ Cardinality(S \cup T) \in Nat
             /\ Cardinality(S \cup T) <= Cardinality(S) + Cardinality(T)
  <2>1. IsFiniteSet(T)
    BY SportConstants, FS_Subset
  <2>2. IsFiniteSet(S \cup T) /\ IsFiniteSet(S \cap T)
    BY <1>1, <2>1, FS_Union, FS_Subset
  <2>3. Cardinality(S \cup T) = Cardinality(S) + Cardinality(T) - Cardinality(S \cap T)
    BY <1>1, <2>1, FS_Union
  <2> QED
    BY <1>1, <2>1, <2>2, <2>3, FS_CardinalityType
<1> QED
  BY <1>2, <1>3, SportCardinality DEF S, Sport!CountByEvent

LEMMA SportNoRequest == \A r : r.op # "none" => r # Sport!NoRequest
BY DEF Sport!NoRequest

LEMMA SportSome ==
    \A S \in SUBSET Others, n \in Nat : \A T \in SUBSET S :
        Sport!Cardinality(S) <= n => Sport!Cardinality(T) <= n
<1> SUFFICES ASSUME NEW S \in SUBSET Others, NEW n \in Nat, NEW T \in SUBSET S, Cardinality(S) <= n
             PROVE  Cardinality(T) <= n
  BY SportCardinality
<1> QED
  BY SportConstants, FS_Subset, FS_CardinalityType

LEMMA SportInit == Sport!Init => Sport!Inv
BY SportConstants
   DEF Sport!Init, Sport!InitFlights, Sport!NoRequest, Sport!Exists, Sport!Of, Sport!Inv,
          Sport!TypeOK,
       Sport!FlightsOK, Sport!PlacesHeld, Sport!EventsExist, Sport!Sound

\* What keeps a request as it should be: its place, and of its event that the row and its
\* limit stand, and that nobody is inscribed without meeting it.
LEMMA SportOther ==
    ASSUME Sport!Inv, NEW v \in Workers,
           pc'[v] = pc[v] /\ req'[v] = req[v],
           x3 \subseteq x3' /\ x4 \subseteq x4',
           \A t \in Ones : x1[t] # None =>
               /\ x1'[t] # None
               /\ Sport!Exists(x1'[t]) =>
                     Sport!Exists(x1[t]) /\ (x1'[t].max = x1[t].max \/ t \in x4'),
           "event" \in DOMAIN req[v] =>
               req[v].event \in x3' \/ Sport!Of(req[v].event)' \subseteq Sport!Of(req[v].event)
    PROVE  Sport!Sound(v)'
<1>1. CASE pc[v] = "idle"
  BY <1>1 DEF Sport!Sound
<1>2. CASE Sport!Deleting(v) /\ (Sport!Of(req[v].event) = {} \/ req[v].event \in x3)
  BY <1>2 DEF Sport!Sound, Sport!Deleting
<1>3. CASE Sport!Inscribing(v) /\ Sport!HasRead(v)
  <2> DEFINE e == req[v].event
  <2>1. /\ e \in Ones /\ x1[e] # None /\ req[v].max \in Nat /\ req[v].size \in Nat
        /\ "event" \in DOMAIN req[v]
    BY <1>3, SportConstants DEF Sport!Inscribing, Sport!HasRead
  <2>2. Sport!Exists(x1'[e]) => x1'[e].max = req[v].max \/ e \in x4'
    BY <1>3, <2>1 DEF Sport!HasRead
  <2>3. Sport!CountByEvent(e) \in Nat
    BY SportOf
  <2>4. e \notin x3' => Sport!CountByEvent(e)' \in Nat /\ Sport!CountByEvent(e)' <= Sport!CountByEvent(e)
    BY <2>1, SportOf
  <2>5. Sport!HasRead(v)'
    BY <1>3, <2>1, <2>2, <2>3, <2>4 DEF Sport!HasRead, Sport!HasCounted, Sport!Exists
  <2> QED
    BY <1>3, <2>5 DEF Sport!Sound, Sport!Inscribing
<1> QED
  BY <1>1, <1>2, <1>3 DEF Sport!Inv, Sport!Sound

\* A step that changes no row and the place of one request alone.
LEMMA SportMove ==
    ASSUME Sport!Inv, NEW w \in Workers, UNCHANGED <<Sport!sportTables, Sport!sportHistory>>,
           NEW r, NEW place, Sport!At(w, r, place), sent' \in 0 .. FewCalls,
           place = "idle" <=> r = Sport!NoRequest,
           pc'[w] = place /\ req'[w] = r => Sport!Sound(w)'
    PROVE  Sport!Inv' /\ Sport!InscriptionsKept
<1> USE DEF Sport!sportTables, Sport!sportHistory
<1>1. (\A e : Sport!Of(e)' = Sport!Of(e)) /\ (\A row : Sport!Exists(row)' <=> Sport!Exists(row))
  BY DEF Sport!Of, Sport!Exists
<1>2. /\ Sport!FlightsOK' /\ pc'[w] = place /\ req'[w] = r
      /\ \A v \in Workers \ {w} : pc'[v] = pc[v] /\ req'[v] = req[v]
  BY DEF Sport!Inv, Sport!TypeOK, Sport!FlightsOK, Sport!At
<1>3. Sport!TypeOK' /\ Sport!EventsExist'
  BY <1>1, <1>2 DEF Sport!Inv, Sport!TypeOK, Sport!EventsExist, Sport!Exists
<1>4. Sport!PlacesHeld'
  BY <1>1 DEF Sport!Inv, Sport!PlacesHeld, Sport!CountByEvent, Sport!Exists
<1>5. ASSUME NEW v \in Workers, v # w PROVE Sport!Sound(v)'
  BY <1>1, <1>2, <1>5, SportOther DEF Sport!Exists
<1>6. Sport!InscriptionsKept
  BY SportConstants DEF Sport!InscriptionsKept, Sport!Exists
<1> QED
  BY <1>2, <1>3, <1>4, <1>5, <1>6 DEF Sport!Inv

\* Who asks for something carries it, and has read the limit.
LEMMA SportAsks ==
    ASSUME Sport!Inv, NEW w \in Workers, NEW e \in Ones, Sport!SportRequest(w, e)
    PROVE  Sport!Inv' /\ Sport!InscriptionsKept
<1>0. /\ Sport!Exists(x1[e]) /\ sent < FewCalls /\ sent' = sent + 1
      /\ UNCHANGED <<Sport!sportTables, Sport!sportHistory>>
  BY DEF Sport!SportRequest, Sport!DeleteEvent, Sport!RegisterOne, Sport!RegisterBatch, Sport!Begin
<1>1. /\ sent' \in 0 .. FewCalls
      /\ UNCHANGED <<Sport!sportTables, Sport!sportHistory>>
      /\ Sport!Exists(x1[e]) /\ x1[e].max \in Limits /\ x1[e] # None
  BY <1>0, SportConstants
     DEF Sport!Inv, Sport!TypeOK, Sport!FlightsOK, Sport!SportCultureEvent, Sport!Exists
<1>2. Sport!Of(e)' = Sport!Of(e) /\ Sport!Exists(x1'[e]) /\ x1' = x1
  BY <1>1 DEF Sport!Of, Sport!Exists, Sport!sportTables
<1>3. CASE Sport!DeleteEvent(w, e)
  <2> DEFINE r == [op |-> "delete", event |-> e]
  <2>1. Sport!At(w, r, "deleting") /\ Sport!Of(e) = {}
    BY <1>3 DEF Sport!DeleteEvent, Sport!Begin
  <2>2. r # Sport!NoRequest
    BY DEF Sport!NoRequest
  <2>3. pc'[w] = "deleting" /\ req'[w] = r => Sport!Sound(w)'
    BY <1>2, <2>1 DEF Sport!Sound, Sport!Deleting
  <2> QED
    BY <1>1, <2>1, <2>2, <2>3, SportMove
<1>4. ASSUME NEW op \in {"one", "batch"}, NEW size \in Nat, NEW twice \in Others \cup {None},
             NEW todo \in SUBSET Others, Sport!Cardinality(todo) <= size,
             NEW place \in {"looking", "counting"},
             place = "looking" => op = "one" \/ x1[e].max = 0,
             Sport!At(w, [op |-> op, event |-> e, max |-> x1[e].max, size |-> size,
                          twice |-> twice, todo |-> todo, new |-> {}], place)
      PROVE  Sport!Inv' /\ Sport!InscriptionsKept
  <2> DEFINE r == [op |-> op, event |-> e, max |-> x1[e].max, size |-> size,
                   twice |-> twice, todo |-> todo, new |-> {}]
  <2>1. /\ r \in [op : {"one", "batch"}, event : Ones, max : Limits, size : Nat,
                  twice : Others \cup {None}, todo : SUBSET Others, new : SUBSET Others]
        /\ r.op = op /\ r.event = e /\ r.max = x1[e].max /\ r.size = size
        /\ r.todo \cup r.new = todo
    BY <1>1, <1>4
  <2>2. r # Sport!NoRequest
    BY DEF Sport!NoRequest
  <2> HIDE DEF r
  <2>3. ASSUME pc'[w] = place, req'[w] = r PROVE Sport!Sound(w)'
    <3>1. Sport!Inscribing(w)'
      BY <1>4, <2>1, <2>3 DEF Sport!Inscribing
    <3>2. r.max > 0 => ~Sport!HasCounted(w)'
      BY <1>1, <1>4, <2>1, <2>3, SportConstants DEF Sport!HasCounted
    <3>3. Sport!HasRead(w)'
      BY <1>1, <1>2, <1>4, <2>1, <2>3, <3>2 DEF Sport!HasRead
    <3> QED
      BY <3>1, <3>3 DEF Sport!Sound
  <2>4. Sport!At(w, r, place)
    BY <1>4 DEF r
  <2> QED
    BY <1>1, <1>4, <2>2, <2>3, <2>4, SportMove
<1>5. ASSUME NEW v \in Others, Sport!RegisterOne(w, e, v)
      PROVE  Sport!Inv' /\ Sport!InscriptionsKept
  <2>1. Sport!Cardinality({v}) <= 1
    BY FS_Singleton, SportCardinality
  <2> QED
    BY <1>4, <1>5, <2>1 DEF Sport!RegisterOne, Sport!Begin
<1>6. ASSUME NEW servants \in SUBSET Others, NEW twice \in servants \cup {None},
             Sport!RegisterBatch(w, e, servants, twice)
      PROVE  Sport!Inv' /\ Sport!InscriptionsKept
  <2>1. Sport!Cardinality(servants) \in Nat
    BY SportConstants, FS_Subset, FS_CardinalityType, SportCardinality
  <2>2. x1[e].max \in Nat
    BY <1>1, SportConstants
  <2> DEFINE size == Sport!Cardinality(servants) + IF twice = None THEN 0 ELSE 1
  <2>3. size \in Nat /\ Sport!Cardinality(servants) <= size
    BY <2>1
  <2>4. Sport!At(w, [op |-> "batch", event |-> e, max |-> x1[e].max, size |-> size,
                     twice |-> twice, todo |-> servants, new |-> {}],
                 IF x1[e].max > 0 THEN "counting" ELSE "looking")
    BY <1>6 DEF Sport!RegisterBatch, Sport!Begin
  <2> HIDE DEF size
  <2>5. twice \in Others \cup {None}
    OBVIOUS
  <2>6. CASE x1[e].max > 0
    BY <1>4, <2>3, <2>4, <2>5, <2>6
  <2>7. CASE x1[e].max = 0
    BY <1>4, <2>3, <2>4, <2>5, <2>7
  <2> QED
    BY <2>2, <2>6, <2>7
<1> QED
  BY <1>3, <1>5, <1>6 DEF Sport!SportRequest

\* The places are counted, each name is looked for, and a request may end at any place.
LEMMA SportLooks ==
    ASSUME Sport!Inv, NEW w \in Workers
    PROVE  (\/ Sport!CountPlaces(w) \/ Sport!LookForInscription(w)
            \/ Sport!InscriptionsRefused(w) \/ Sport!AbortSport(w))
           => Sport!Inv' /\ Sport!InscriptionsKept
<1> USE DEF Sport!Continue, Sport!Return
<1>1. ASSUME UNCHANGED <<Sport!sportTables, Sport!sportHistory>>, Sport!Return(w)
      PROVE  Sport!Inv' /\ Sport!InscriptionsKept
  <2>1. pc'[w] = "idle" => Sport!Sound(w)'
    BY DEF Sport!Sound
  <2> QED
    BY <1>1, <2>1, SportMove DEF Sport!Inv, Sport!TypeOK, Sport!FlightsOK
<1>2. ASSUME UNCHANGED <<Sport!sportTables, Sport!sportHistory>>,
             NEW r, NEW place \in {"looking", "inserting", "counting"}, Sport!Continue(w, r, place),
             pc[w] \in {"looking", "counting"},
             Sport!Inscribing(w), Sport!HasRead(w),
             r \in [op : {"one", "batch"}, event : Ones, max : Limits, size : Nat,
                  twice : Others \cup {None}, todo : SUBSET Others, new : SUBSET Others],
             r.op = req[w].op, r.event = req[w].event, r.max = req[w].max, r.size = req[w].size,
             r.todo \cup r.new \subseteq req[w].todo \cup req[w].new,
             place = "inserting" \/ (place = "looking" /\ r.op = "batch") =>
                \/ r.max = 0 \/ Sport!HasCounted(w)
                \/ Sport!CountByEvent(r.event) + r.size <= r.max
      PROVE  Sport!Inv' /\ Sport!InscriptionsKept
  <2>1. r # Sport!NoRequest
    BY <1>2, SportNoRequest
  <2>2. Sport!CountByEvent(r.event)' = Sport!CountByEvent(r.event) /\ x1' = x1 /\ x3' = x3 /\ x4' = x4
    BY <1>2 DEF Sport!Of, Sport!CountByEvent, Sport!Exists, Sport!sportTables, Sport!sportHistory
  <2>3. Sport!Cardinality(r.todo \cup r.new) <= r.size
    BY <1>2, SportSome DEF Sport!HasRead, Sport!Inscribing
  <2>4. pc'[w] = place /\ req'[w] = r => Sport!Inscribing(w)' /\ Sport!HasRead(w)'
    BY <1>2, <2>2, <2>3, SportConstants
       DEF Sport!HasRead, Sport!Inscribing, Sport!HasCounted, Sport!Exists
  <2> QED
    BY <1>2, <2>1, <2>4, SportMove DEF Sport!Inv, Sport!TypeOK, Sport!FlightsOK, Sport!Sound
<1>3. CASE Sport!CountPlaces(w)
  <2>1. /\ UNCHANGED <<Sport!sportTables, Sport!sportHistory>>
        /\ pc[w] = "counting" /\ Sport!Inscribing(w) /\ Sport!HasRead(w)
    BY <1>3 DEF Sport!CountPlaces, Sport!Inv, Sport!Sound, Sport!Deleting
  <2>2. CASE Sport!CountByEvent(req[w].event) + req[w].size > req[w].max
    BY <1>1, <1>3, <2>1, <2>2 DEF Sport!CountPlaces
  <2>3. CASE ~(Sport!CountByEvent(req[w].event) + req[w].size > req[w].max)
    <3>1. /\ Sport!CountByEvent(req[w].event) \in Nat /\ req[w].size \in Nat /\ req[w].max \in Nat
          /\ req[w].op \in {"one", "batch"}
      BY <2>1, SportOf, SportConstants DEF Sport!Inscribing
    <3>2. Sport!Continue(w, req[w], IF req[w].op = "batch" THEN "looking" ELSE "inserting")
      BY <1>3, <2>3 DEF Sport!CountPlaces
    <3> QED
      BY <1>2, <2>1, <2>3, <3>1, <3>2 DEF Sport!Inscribing
  <2> QED
    BY <2>2, <2>3
<1>4. CASE Sport!LookForInscription(w)
  <2>1. /\ UNCHANGED <<Sport!sportTables, Sport!sportHistory>>
        /\ pc[w] = "looking" /\ Sport!Inscribing(w) /\ Sport!HasRead(w)
        /\ req[w].max \in Nat
    BY <1>4, SportConstants
       DEF Sport!LookForInscription, Sport!Inv, Sport!Sound, Sport!Deleting, Sport!Inscribing
  <2>2. PICK v \in req[w].todo, new \in SUBSET Others :
          LET rest == [req[w] EXCEPT !.todo = @ \ {v}, !.new = new] IN
          /\ new \subseteq req[w].new \cup {v}
          /\ \/ Sport!Return(w)
             \/ Sport!Continue(w, rest, "counting")
             \/ /\ req[w].op = "batch" \/ req[w].max = 0
                /\ Sport!Continue(w, rest, IF rest.todo = {} THEN "inserting" ELSE "looking")
    BY <1>4, <2>1 DEF Sport!LookForInscription, Sport!Inscribing
  <2> DEFINE rest == [req[w] EXCEPT !.todo = @ \ {v}, !.new = new]
  <2>3. /\ rest \in [op : {"one", "batch"}, event : Ones, max : Limits, size : Nat,
                     twice : Others \cup {None}, todo : SUBSET Others, new : SUBSET Others]
        /\ rest.op = req[w].op /\ rest.event = req[w].event /\ rest.max = req[w].max
        /\ rest.size = req[w].size
        /\ rest.todo \cup rest.new \subseteq req[w].todo \cup req[w].new
    BY <2>1, <2>2 DEF Sport!Inscribing
  <2>4. \/ Sport!Return(w)
        \/ Sport!Continue(w, rest, "counting")
        \/ (req[w].op = "batch" \/ req[w].max = 0) /\ Sport!Continue(w, rest, "inserting")
        \/ (req[w].op = "batch" \/ req[w].max = 0) /\ Sport!Continue(w, rest, "looking")
    BY <2>2
  <2> HIDE DEF rest
  <2>5. req[w].op = "batch" => Sport!HasCounted(w)
    BY <2>1 DEF Sport!HasCounted
  <2>6. ASSUME NEW place \in {"looking", "inserting", "counting"}, Sport!Continue(w, rest, place),
               place # "counting" => req[w].op = "batch" \/ req[w].max = 0
        PROVE  Sport!Inv' /\ Sport!InscriptionsKept
    BY <1>2, <2>1, <2>3, <2>5, <2>6
  <2> QED
    BY <1>1, <2>1, <2>4, <2>6
<1> QED
  BY <1>1, <1>3, <1>4 DEF Sport!InscriptionsRefused, Sport!AbortSport, Sport!Die

\* An event is made, or its limit is changed.
LEMMA SportEvents ==
    ASSUME Sport!Inv, NEW e \in Ones, Sport!EventDesk(e)
    PROVE  Sport!Inv' /\ Sport!InscriptionsKept
<1>1. PICK max \in Limits :
         /\ x1' = [x1 EXCEPT ![e] = [max |-> max]]
         /\ x4 \subseteq x4' /\ x4' \subseteq Ones
         /\ x1[e] = None \/ (Sport!Exists(x1[e]) /\ e \in x4')
         /\ UNCHANGED <<x2, x3, x5, Sport!flights>>
  <2>1. ASSUME NEW max \in Limits, Sport!UpdateEvent(e, max)
        PROVE  x1' = [x1 EXCEPT ![e] = [max |-> max]]
    <3>1. x1[e] \in Sport!SportCultureEvent
      BY <2>1 DEF Sport!UpdateEvent, Sport!Inv, Sport!TypeOK, Sport!Exists
    <3>2. [x1[e] EXCEPT !.max = max] = [max |-> max]
      BY <3>1 DEF Sport!SportCultureEvent
    <3> QED
      BY <2>1, <3>2 DEF Sport!UpdateEvent
  <2>2. PICK max \in Limits : Sport!CreateEvent(e, max) \/ Sport!UpdateEvent(e, max)
    BY DEF Sport!EventDesk
  <2>3. x4 \subseteq Ones
    BY DEF Sport!Inv, Sport!TypeOK
  <2> QED
    BY <2>1, <2>2, <2>3 DEF Sport!CreateEvent, Sport!UpdateEvent, Sport!sportHistory
<1>2. \A t : Sport!Of(t)' = Sport!Of(t)
  BY <1>1 DEF Sport!Of, Sport!Exists
<1>3. /\ x1' \in [Ones -> Sport!SportCultureEvent \cup {None, Gone}]
      /\ x1'[e].max = max /\ Sport!Exists(x1'[e])
      /\ \A t \in Ones \ {e} : x1'[t] = x1[t]
  BY <1>1, SportConstants DEF Sport!Inv, Sport!TypeOK, Sport!SportCultureEvent, Sport!Exists
<1>4. Sport!TypeOK'
  BY <1>1, <1>3 DEF Sport!Inv, Sport!TypeOK, Sport!FlightsOK, Sport!flights
<1>5. Sport!PlacesHeld'
  <2>1. x1[e] = None => Sport!CountByEvent(e)' = 0
    <3>1. x1[e] = None => Sport!Of(e)' = {}
      BY <1>2 DEF Sport!Inv, Sport!EventsExist, Sport!Exists
    <3> QED
      BY <3>1, FS_EmptySet, SportCardinality DEF Sport!CountByEvent
  <2>2. max \in Nat
    BY SportConstants
  <2> QED
    BY <1>1, <1>2, <1>3, <2>1, <2>2
       DEF Sport!Inv, Sport!PlacesHeld, Sport!CountByEvent, Sport!Exists
<1>6. ASSUME NEW v \in Workers PROVE Sport!Sound(v)'
  <2>1. ASSUME NEW t \in Ones, x1[t] # None
        PROVE  /\ x1'[t] # None
               /\ Sport!Exists(x1'[t]) =>
                     Sport!Exists(x1[t]) /\ (x1'[t].max = x1[t].max \/ t \in x4')
    BY <1>1, <1>3, <2>1 DEF Sport!Exists
  <2> QED
    BY <1>1, <1>2, <1>6, <2>1, SportOther DEF Sport!flights
<1>7. Sport!EventsExist'
  BY <1>1, <1>2, <1>3 DEF Sport!Inv, Sport!EventsExist, Sport!Exists
<1>8. Sport!InscriptionsKept
  BY <1>1, SportConstants DEF Sport!InscriptionsKept, Sport!Exists
<1> QED
  BY <1>4, <1>5, <1>6, <1>7, <1>8 DEF Sport!Inv

\* An inscription is called off, or marked.
LEMMA SportInscriptions ==
    ASSUME Sport!Inv, NEW p \in Rows, Sport!InscriptionDesk(p)
    PROVE  Sport!Inv' /\ Sport!InscriptionsKept
<1>1. PICK row \in Sport!EventParticipation \cup {Gone} :
         /\ x2' = [x2 EXCEPT ![p] = row]
         /\ Sport!Exists(x2[p])
         /\ row # Gone => row.event = x2[p].event
         /\ row = Gone => p \in x5'
         /\ x5' \subseteq Rows
         /\ UNCHANGED <<x1, x3, x4, Sport!flights>>
  <2>1. Sport!Exists(x2[p]) => x2[p] \in Sport!EventParticipation
    BY DEF Sport!Inv, Sport!TypeOK, Sport!Exists
  <2>2. ASSUME NEW b \in BOOLEAN, Sport!Exists(x2[p])
        PROVE  /\ [x2[p] EXCEPT !.marked = b] \in Sport!EventParticipation
               /\ [x2[p] EXCEPT !.marked = b].event = x2[p].event
               /\ [x2[p] EXCEPT !.paid = b] \in Sport!EventParticipation
               /\ [x2[p] EXCEPT !.paid = b].event = x2[p].event
    BY <2>1, <2>2 DEF Sport!EventParticipation
  <2>3. CASE Sport!CancelInscription(p)
    BY <2>3, SportConstants DEF Sport!CancelInscription, Sport!Inv, Sport!TypeOK
  <2>4. ASSUME NEW b \in BOOLEAN, Sport!MarkAttendance(p, b) \/ Sport!MarkPayment(p, b)
        PROVE  /\ Sport!Exists(x2[p]) /\ x5' \subseteq Rows /\ UNCHANGED <<x1, x3, x4, Sport!flights>>
               /\ \/ x2' = [x2 EXCEPT ![p] = [x2[p] EXCEPT !.marked = b]]
                  \/ x2' = [x2 EXCEPT ![p] = [x2[p] EXCEPT !.paid = b]]
    BY <2>4 DEF Sport!MarkAttendance, Sport!MarkPayment, Sport!Inv, Sport!TypeOK, Sport!sportHistory
  <2>5. CASE \E b \in BOOLEAN : Sport!MarkAttendance(p, b) \/ Sport!MarkPayment(p, b)
    BY <2>2, <2>4, <2>5, SportConstants
  <2> QED
    BY <2>3, <2>5 DEF Sport!InscriptionDesk
<1>2. \A t : Sport!Of(t)' \subseteq Sport!Of(t)
  BY <1>1 DEF Sport!Of, Sport!Exists, Sport!Inv, Sport!TypeOK
<1>3. \A t : /\ Sport!CountByEvent(t) \in Nat /\ Sport!CountByEvent(t)' \in Nat
             /\ Sport!CountByEvent(t)' <= Sport!CountByEvent(t)
  BY <1>2, SportOf
<1>4. Sport!TypeOK'
  BY <1>1 DEF Sport!Inv, Sport!TypeOK, Sport!FlightsOK, Sport!flights
<1>5. Sport!PlacesHeld'
  <2>1. ASSUME NEW t \in Ones, Sport!Exists(x1[t]) PROVE x1[t].max \in Nat
    BY <2>1, SportConstants DEF Sport!Inv, Sport!TypeOK, Sport!SportCultureEvent, Sport!Exists
  <2> QED
    BY <1>1, <1>3, <2>1 DEF Sport!Inv, Sport!PlacesHeld, Sport!Exists
<1>6. ASSUME NEW v \in Workers PROVE Sport!Sound(v)'
  BY <1>1, <1>2, <1>6, SportOther DEF Sport!flights
<1>7. Sport!EventsExist'
  BY <1>1, <1>2 DEF Sport!Inv, Sport!EventsExist, Sport!Exists
<1>8. Sport!InscriptionsKept
  BY <1>1, SportConstants DEF Sport!Inv, Sport!TypeOK, Sport!InscriptionsKept, Sport!Exists
<1> QED
  BY <1>4, <1>5, <1>6, <1>7, <1>8 DEF Sport!Inv

\* An event goes, and with it what came in since its participants were looked for.
LEMMA SportRemove ==
    ASSUME Sport!Inv, NEW w \in Workers, Sport!RemoveEvent(w)
    PROVE  Sport!Inv' /\ Sport!InscriptionsKept
<1>0. PICK e \in Ones : e = req[w].event
  BY DEF Sport!Inv, Sport!RemoveEvent, Sport!Sound, Sport!Deleting, Sport!Inscribing
<1>1. Sport!Deleting(w) /\ (Sport!Of(e) = {} \/ e \in x3) /\ pc[w] = "deleting"
  BY <1>0 DEF Sport!Inv, Sport!RemoveEvent, Sport!Sound, Sport!Deleting, Sport!Inscribing
<1>2. Sport!At(w, Sport!NoRequest, "idle") /\ UNCHANGED <<sent, x4, x5>>
  BY DEF Sport!RemoveEvent, Sport!Return, Sport!Continue
<1>3. Sport!FlightsOK' /\ pc'[w] = "idle" /\ (\A v \in Workers \ {w} : pc'[v] = pc[v] /\ req'[v] = req[v])
  BY <1>2 DEF Sport!Inv, Sport!TypeOK, Sport!FlightsOK, Sport!At
<1>4. CASE ~Sport!Exists(x1[e])
  <2>1. UNCHANGED <<Sport!sportTables, Sport!sportHistory>>
    BY <1>0, <1>2, <1>4 DEF Sport!RemoveEvent, Sport!sportTables, Sport!sportHistory
  <2>2. Sport!Sound(w)'
    BY <1>3 DEF Sport!Sound
  <2> QED
    BY <1>2, <2>1, <2>2, SportMove DEF Sport!Inv, Sport!TypeOK, Sport!FlightsOK
<1>5. CASE Sport!Exists(x1[e])
  <2>1. /\ x1' = [x1 EXCEPT ![e] = Gone]
        /\ x2' = [p \in Rows |-> IF p \in Sport!Of(e) THEN Gone ELSE x2[p]]
        /\ x3 \subseteq x3' /\ x3' \subseteq Ones
    BY <1>0, <1>1, <1>5 DEF Sport!RemoveEvent, Sport!Meet, Sport!Inv, Sport!TypeOK
  <2>2. \A t : Sport!Of(t)' = IF t = e THEN {} ELSE Sport!Of(t)
    BY <2>1 DEF Sport!Of, Sport!Exists
  <2>3. /\ x1'[e] = Gone /\ ~Sport!Exists(x1'[e])
        /\ \A t \in Ones \ {e} : x1'[t] = x1[t]
        /\ x1' \in [Ones -> Sport!SportCultureEvent \cup {None, Gone}]
        /\ x2' \in [Rows -> Sport!EventParticipation \cup {None, Gone}]
    BY <2>1 DEF Sport!Inv, Sport!TypeOK, Sport!Exists
  <2>5. Sport!TypeOK'
    BY <1>2, <1>3, <2>1, <2>3 DEF Sport!Inv, Sport!TypeOK
  <2>6. Sport!PlacesHeld'
    BY <1>2, <2>1, <2>2, <2>3 DEF Sport!Inv, Sport!PlacesHeld, Sport!CountByEvent, Sport!Exists
  <2>7. Sport!EventsExist'
    BY <2>2, <2>3 DEF Sport!Inv, Sport!EventsExist, Sport!Exists
  <2>8. Sport!InscriptionsKept
    BY <1>1, <2>1, SportConstants DEF Sport!InscriptionsKept, Sport!Of, Sport!Exists
  <2>9. Sport!Sound(w)'
    BY <1>3 DEF Sport!Sound
  <2>10. ASSUME NEW v \in Workers, v # w PROVE Sport!Sound(v)'
    BY <1>2, <1>3, <2>1, <2>2, <2>3, <2>10, SportOther, SportConstants
  <2> QED
    BY <2>5, <2>6, <2>7, <2>8, <2>9, <2>10 DEF Sport!Inv
<1> QED
  BY <1>4, <1>5

\* Inscriptions take their places: whoever is alongside is met.
LEMMA SportInsert ==
    ASSUME Sport!Inv, NEW w \in Workers, Sport!InsertInscriptions(w)
    PROVE  Sport!Inv' /\ Sport!InscriptionsKept
<1>0. PICK e \in Ones : e = req[w].event
  BY DEF Sport!Inv, Sport!InsertInscriptions, Sport!Sound, Sport!Deleting, Sport!Inscribing
<1>1. /\ Sport!Inscribing(w) /\ Sport!HasRead(w) /\ pc[w] = "inserting"
      /\ Sport!Exists(x1[e])
  BY <1>0
     DEF Sport!Inv, Sport!InsertInscriptions, Sport!Insertable, Sport!Sound, Sport!Deleting,
            Sport!Inscribing
<1>2. PICK rows \in SUBSET {p \in Rows : x2[p] = None} : \E who \in [rows -> req[w].new] :
         /\ Sport!Cardinality(rows) = Sport!Cardinality(req[w].new)
         /\ x2' = [p \in Rows |-> IF p \in rows
                      THEN [event |-> req[w].event, servant |-> who[p], marked |-> FALSE, paid |-> FALSE]
                      ELSE x2[p]]
  BY <1>0 DEF Sport!InsertInscriptions
<1>3. /\ UNCHANGED <<x1, x4, x5>>
      /\ x3' = IF Sport!Alongside(w, "event", e) THEN x3 \cup {e} ELSE x3
      /\ Sport!At(w, Sport!NoRequest, "idle") /\ UNCHANGED sent
  BY <1>0 DEF Sport!InsertInscriptions, Sport!Meet, Sport!Return, Sport!Continue
<1>14. PICK who \in [rows -> req[w].new] :
         x2' = [p \in Rows |-> IF p \in rows
                  THEN [event |-> req[w].event, servant |-> who[p], marked |-> FALSE, paid |-> FALSE]
                  ELSE x2[p]]
  BY <1>2
<1>15. rows \subseteq Rows
  BY <1>2
<1>4. /\ \A p \in rows : x2[p] = None /\ x2'[p] \in Sport!EventParticipation /\ x2'[p].event = e
      /\ \A p \in Rows \ rows : x2'[p] = x2[p]
      /\ DOMAIN x2' = Rows /\ rows \subseteq Rows
  <2>1. req[w].new \subseteq Others
    BY <1>1 DEF Sport!Inscribing
  <2>2. \A p \in rows : who[p] \in Others /\ p \in Rows /\ x2[p] = None
    BY <2>1
  <2> QED
    BY <1>0, <1>14, <1>15, <2>2 DEF Sport!EventParticipation
<1>5. x2' \in [Rows -> Sport!EventParticipation \cup {None, Gone}]
  BY <1>2, <1>4 DEF Sport!Inv, Sport!TypeOK
<1>6. \A t : Sport!Of(t)' = IF t = e THEN Sport!Of(t) \cup rows ELSE Sport!Of(t)
  BY <1>4, SportConstants DEF Sport!Of, Sport!Exists
<1>7. /\ Sport!FlightsOK' /\ pc'[w] = "idle"
      /\ \A v \in Workers \ {w} : pc'[v] = pc[v] /\ req'[v] = req[v]
  BY <1>3 DEF Sport!Inv, Sport!TypeOK, Sport!FlightsOK, Sport!At
<1>8. Sport!TypeOK'
  BY <1>3, <1>5, <1>7 DEF Sport!Inv, Sport!TypeOK
<1>9. Sport!EventsExist'
  BY <1>1, <1>3, <1>6 DEF Sport!Inv, Sport!EventsExist, Sport!Exists
<1>10. Sport!PlacesHeld'
  <2>1. /\ req[w].max \in Nat /\ (x1[e].max = req[w].max \/ e \in x4) /\ req[w].size \in Nat
        /\ req[w].max > 0 => Sport!CountByEvent(e) + req[w].size <= req[w].max \/ e \in x3
    BY <1>0, <1>1, SportConstants DEF Sport!HasRead, Sport!HasCounted, Sport!Inscribing
  <2>2. Sport!Cardinality(rows) <= req[w].size
    <3>1. Sport!Cardinality(req[w].new) <= req[w].size
      BY <1>1, <2>1, SportSome DEF Sport!HasRead, Sport!Inscribing
    <3> QED
      BY <1>2, <3>1
  <2>3. /\ Sport!CountByEvent(e) \in Nat /\ Sport!CountByEvent(e)' \in Nat /\ Sport!Cardinality(rows) \in Nat
        /\ Sport!CountByEvent(e)' <= Sport!CountByEvent(e) + Sport!Cardinality(rows)
    BY <1>4, <1>6, SportOf
  <2>4. x1[e].max > 0 => Sport!CountByEvent(e)' <= x1[e].max \/ e \in x3' \cup x4'
    BY <1>3, <2>1, <2>2, <2>3
  <2>5. \A t : t # e => Sport!CountByEvent(t)' = Sport!CountByEvent(t)
    BY <1>6 DEF Sport!CountByEvent
  <2> QED
    BY <1>3, <2>4, <2>5 DEF Sport!Inv, Sport!PlacesHeld, Sport!Exists
<1>11. Sport!InscriptionsKept
  BY <1>4, SportConstants DEF Sport!InscriptionsKept, Sport!Exists
<1>12. Sport!Sound(w)'
  BY <1>7 DEF Sport!Sound
<1>13. ASSUME NEW v \in Workers, v # w PROVE Sport!Sound(v)'
  <2>1. "event" \in DOMAIN req[v] /\ req[v].event = e => e \in x3'
    BY <1>3, <1>13 DEF Sport!Alongside
  <2> QED
    BY <1>3, <1>6, <1>7, <1>13, <2>1, SportOther
<1> QED
  BY <1>8, <1>9, <1>10, <1>11, <1>12, <1>13 DEF Sport!Inv

LEMMA SportNext ==
    Sport!Inv /\ Sport!Next => Sport!Inv' /\ Sport!InscriptionsKept
BY SportEvents, SportAsks, SportInscriptions, SportLooks, SportRemove, SportInsert
   DEF Sport!Next, Sport!ServeSport

LEMMA SportStays == Sport!Inv /\ UNCHANGED <<x1, x2, x3, x4, x5, pc, req, sent>> => Sport!Inv'
<1> SUFFICES ASSUME Sport!Inv, UNCHANGED <<x1, x2, x3, x4, x5, pc, req, sent>> PROVE Sport!Inv'
  OBVIOUS
<1>1. \A e : Sport!Of(e)' = Sport!Of(e)
  BY DEF Sport!Of, Sport!Exists
<1>2. Sport!TypeOK'
  BY DEF Sport!Inv, Sport!TypeOK, Sport!FlightsOK
<1>3. Sport!PlacesHeld' /\ Sport!EventsExist'
  BY <1>1 DEF Sport!Inv, Sport!PlacesHeld, Sport!CountByEvent, Sport!EventsExist, Sport!Exists
<1>4. ASSUME NEW v \in Workers PROVE Sport!Sound(v)'
  <2>1. pc'[v] = pc[v] /\ req'[v] = req[v]
    OBVIOUS
  <2> QED
    BY <1>1, <2>1, SportOther DEF Sport!Exists
<1> QED
  BY <1>2, <1>3, <1>4 DEF Sport!Inv

-----------------------------------------------------------------------------
\* Reports

LEMMA MinutesConstants ==
    /\ MaxCalls \in Nat /\ FewCalls \in Nat /\ ManyCalls \in Nat /\ Logged \in Nat
    /\ None # Gone /\ None \notin Thirds
    /\ None \notin Minutes!Report /\ Gone \notin Minutes!Report
BY ServicesAssumption

LEMMA MinutesInit == Minutes!Init => Minutes!Inv
BY MinutesConstants
   DEF Minutes!Init, Minutes!InitFlights, Minutes!NoRequest, Minutes!Exists, Minutes!Inv,
          Minutes!TypeOK,
       Minutes!FlightsOK, Minutes!DraftsArePrivate, Minutes!Publicised, Minutes!FilesHeld,
       Minutes!Sound

\* Another request stays sound when its report is still a draft, or they have met on it.
LEMMA MinutesOther ==
    ASSUME Minutes!Inv, NEW v \in Workers,
           pc'[v] = pc[v] /\ req'[v] = req[v], x7 \subseteq x7',
           \A p \in Ones : Minutes!IsDraft(x1[p]) =>
               Minutes!IsDraft(x1'[p]) \/ ("report" \in DOMAIN req[v] /\ req[v].report = p => p \in x7')
    PROVE  Minutes!Sound(v)'
BY DEF Minutes!Inv, Minutes!Sound, Minutes!Writing, Minutes!Uploading, Minutes!Attaching,
       Minutes!Request, Minutes!IsDraft, Minutes!Exists

\* A step of one request that changes no row; the file it stores is on its way.
LEMMA MinutesMove ==
    ASSUME Minutes!Inv, NEW w \in Workers, UNCHANGED <<x1, x2, x4, x5, x7>>,
           NEW r, NEW place, Minutes!At(w, r, place), sent' \in 0 .. MaxCalls,
           place = "idle" <=> r = Minutes!NoRequest,
           x3 \cup x6' \subseteq Thirds /\ x6 \subseteq x6',
           x3' = x3 \/ (place = "checking" /\ r.arg \in Thirds /\ x3' = x3 \cup {r.arg}),
           pc[w] \in {"checking", "attaching", "detaching"} =>
               \/ place \in {"checking", "attaching", "detaching"} /\ r.arg = req[w].arg
               \/ req[w].arg \in x6',
           pc'[w] = place /\ req'[w] = r => Minutes!Sound(w)'
    PROVE  Minutes!Inv' /\ Minutes!PublishedStands
<1>1. /\ Minutes!FlightsOK' /\ pc'[w] = place /\ req'[w] = r
      /\ \A v \in Workers \ {w} : pc'[v] = pc[v] /\ req'[v] = req[v]
  BY DEF Minutes!Inv, Minutes!TypeOK, Minutes!FlightsOK, Minutes!At
<1>2. Minutes!TypeOK' /\ Minutes!DraftsArePrivate' /\ Minutes!Publicised'
  BY <1>1
     DEF Minutes!Inv, Minutes!TypeOK, Minutes!DraftsArePrivate, Minutes!Publicised, Minutes!Exists
<1>3. Minutes!FilesHeld'
  <2>1. ASSUME NEW f \in x3, ~(\E p \in Ones : <<p, f>> \in x2), f \notin x6'
        PROVE  \E v \in Workers : pc'[v] \in {"checking", "attaching", "detaching"} /\ req'[v].arg = f
    <3>1. PICK v \in Workers : pc[v] \in {"checking", "attaching", "detaching"} /\ req[v].arg = f
      BY <2>1 DEF Minutes!Inv, Minutes!FilesHeld
    <3> QED
      BY <1>1, <2>1, <3>1
  <2> QED
    BY <1>1, <2>1 DEF Minutes!FilesHeld
<1>4. ASSUME NEW v \in Workers, v # w PROVE Minutes!Sound(v)'
  BY <1>1, <1>4, MinutesOther DEF Minutes!IsDraft, Minutes!Exists
<1>5. Minutes!PublishedStands
  BY MinutesConstants DEF Minutes!PublishedStands, Minutes!Attached, Minutes!Exists
<1> QED
  BY <1>1, <1>2, <1>3, <1>4, <1>5 DEF Minutes!Inv

\* Who asks for something has read the report as it is.
LEMMA MinutesAsks ==
    ASSUME Minutes!Inv, NEW w \in Workers, NEW p \in Ones,
           Minutes!WriteDesk(w, p) \/ Minutes!StatusDesk(w, p) \/ Minutes!AttachmentDesk(w, p)
    PROVE  Minutes!Inv' /\ Minutes!PublishedStands
<1>1. ASSUME NEW op, NEW arg, NEW place, Minutes!Exists(x1[p]),
             Minutes!Begin(w, [op |-> op, report |-> p, read |-> x1[p], arg |-> arg], place),
             UNCHANGED <<Minutes!reportTables, Minutes!reportHistory>>,
             \/ /\ place = "writing"
                /\ (op = "update" /\ arg \in Others) \/ (op \in {"delete", "publish", "archive"} /\ arg = None)
                /\ x1[p].status = IF op = "archive" THEN "PUBLIE" ELSE "BROUILLON"
             \/ place = "uploading" /\ op = "upload" /\ arg = None
             \/ /\ place \in {"attaching", "detaching"} /\ op \in {"attach", "detach"} /\ arg \in Thirds
                /\ x1[p].status = "BROUILLON"
      PROVE  Minutes!Inv' /\ Minutes!PublishedStands
  <2> DEFINE r == [op |-> op, report |-> p, read |-> x1[p], arg |-> arg]
  <2>1. /\ r.op = op /\ r.report = p /\ r.read = x1[p] /\ r.arg = arg
        /\ \A ops, args : op \in ops /\ arg \in args /\ x1[p] \in Minutes!Report =>
              r \in [op : ops, report : Ones, read : Minutes!Report, arg : args]
    OBVIOUS
  <2>2. r # Minutes!NoRequest /\ Minutes!Begin(w, r, place)
    BY <1>1 DEF Minutes!NoRequest
  <2> HIDE DEF r
  <2>3. x1[p] \in Minutes!Report /\ UNCHANGED <<x1, x2, x3, x4, x5, x6, x7>>
    BY <1>1
       DEF Minutes!Inv, Minutes!TypeOK, Minutes!Exists, Minutes!reportTables, Minutes!reportHistory
  <2>4. pc'[w] = place /\ req'[w] = r => Minutes!Sound(w)'
    BY <1>1, <2>1, <2>3
       DEF Minutes!Sound, Minutes!Writing, Minutes!Uploading, Minutes!Attaching, Minutes!Request,
              Minutes!IsDraft
  <2>5. pc[w] = "idle" /\ Minutes!At(w, r, place) /\ sent' \in 0 .. MaxCalls /\ x3 \cup x6' \subseteq Thirds
    BY <2>2, <2>3, MinutesConstants
       DEF Minutes!Begin, Minutes!Inv, Minutes!TypeOK, Minutes!FlightsOK
  <2> QED
    BY <1>1, <2>2, <2>3, <2>4, <2>5, MinutesMove
<1>2. ASSUME Minutes!UploadAttachment(w, p) PROVE Minutes!Inv' /\ Minutes!PublishedStands
  BY <1>1, <1>2 DEF Minutes!UploadAttachment
<1>3. ASSUME NEW f \in Thirds, Minutes!AddAttachment(w, p, f) \/ Minutes!DeleteAttachment(w, p, f)
      PROVE  Minutes!Inv' /\ Minutes!PublishedStands
  BY <1>1, <1>3 DEF Minutes!AddAttachment, Minutes!DeleteAttachment, Minutes!ReadReport
<1>4. ASSUME NEW says \in Others, Minutes!UpdateReport(w, p, says) PROVE Minutes!Inv' /\ Minutes!PublishedStands
  BY <1>1, <1>4 DEF Minutes!UpdateReport, Minutes!ReadReport
<1>5. ASSUME Minutes!DeleteReport(w, p) \/ Minutes!PublishReport(w, p) \/ Minutes!ArchiveReport(w, p)
      PROVE  Minutes!Inv' /\ Minutes!PublishedStands
  BY <1>1, <1>5
     DEF Minutes!DeleteReport, Minutes!PublishReport, Minutes!ArchiveReport, Minutes!ReadReport
<1> QED
  BY <1>2, <1>3, <1>4, <1>5 DEF Minutes!WriteDesk, Minutes!StatusDesk, Minutes!AttachmentDesk

\* A file is stored, refused, or found to be of a draft; the report is gone; or the request ends.
LEMMA MinutesLooks ==
    ASSUME Minutes!Inv, NEW w \in Workers,
           \/ Minutes!StoreAttachment(w) \/ Minutes!RefuseAttachment(w) \/ Minutes!CheckDraft(w)
           \/ Minutes!ReportIsGone(w) \/ Minutes!AbortReport(w)
    PROVE  Minutes!Inv' /\ Minutes!PublishedStands
<1> USE DEF Minutes!Continue, Minutes!reportTables, Minutes!reportHistory
<1>1. x3 \subseteq Thirds /\ x6 \subseteq Thirds /\ sent \in 0 .. MaxCalls
  BY DEF Minutes!Inv, Minutes!TypeOK, Minutes!FlightsOK
<1>2. ASSUME Minutes!Return(w), UNCHANGED <<x1, x2, x3, x4, x5, x7>>, x6' \in {x6, x6 \cup {req[w].arg}},
             x6' = x6 \/ req[w].arg \in Thirds,
             pc[w] \in {"checking", "attaching", "detaching"} => req[w].arg \in x6'
      PROVE  Minutes!Inv' /\ Minutes!PublishedStands
  BY <1>1, <1>2, MinutesMove DEF Minutes!Return, Minutes!Sound
<1>3. CASE Minutes!StoreAttachment(w)
  <2>1. Minutes!Uploading(w) /\ pc[w] = "uploading"
    BY <1>3
       DEF Minutes!StoreAttachment, Minutes!Inv, Minutes!Sound, Minutes!Writing, Minutes!Attaching
  <2>2. PICK f \in Thirds : x3' = x3 \cup {f} /\ Minutes!Continue(w, [req[w] EXCEPT !.arg = f], "checking")
    BY <1>3 DEF Minutes!StoreAttachment
  <2> DEFINE r == [req[w] EXCEPT !.arg = f]
  <2>3. /\ r \in [op : {"upload"}, report : Ones, read : Minutes!Report, arg : Thirds]
        /\ r.arg = f /\ r.report = req[w].report /\ r.read = req[w].read /\ r # Minutes!NoRequest
    BY <2>1 DEF Minutes!Uploading, Minutes!Request, Minutes!NoRequest
  <2> HIDE DEF r
  <2>4. Minutes!At(w, r, "checking") /\ UNCHANGED <<x1, x2, x4, x5, x6, x7, sent>>
    BY <1>3, <2>2 DEF r, Minutes!StoreAttachment
  <2>5. pc'[w] = "checking" /\ req'[w] = r => Minutes!Sound(w)'
    BY <2>1, <2>3, <2>4
       DEF Minutes!Inv, Minutes!Sound, Minutes!Uploading, Minutes!Request, Minutes!IsDraft,
              Minutes!Exists
  <2> QED
    BY <1>1, <2>1, <2>2, <2>3, <2>4, <2>5, MinutesMove
<1>4. CASE Minutes!CheckDraft(w)
  <2>1. Minutes!Uploading(w) /\ pc[w] = "checking"
    BY <1>4 DEF Minutes!CheckDraft, Minutes!Inv, Minutes!Sound, Minutes!Writing, Minutes!Attaching
  <2>2. CASE Minutes!Exists(x1[req[w].report]) /\ req[w].read.status = "BROUILLON"
    <3>1. Minutes!At(w, req[w], "attaching") /\ UNCHANGED <<x1, x2, x3, x4, x5, x6, x7, sent>>
      BY <1>4, <2>2 DEF Minutes!CheckDraft
    <3>2. pc'[w] = "attaching" /\ req'[w] = req[w] => Minutes!Sound(w)'
      BY <2>1, <2>2, <3>1
         DEF Minutes!Inv, Minutes!Sound, Minutes!Uploading, Minutes!Attaching, Minutes!Request,
                Minutes!IsDraft, Minutes!Exists
    <3>3. req[w] # Minutes!NoRequest
      BY <2>1 DEF Minutes!Inv, Minutes!TypeOK, Minutes!FlightsOK
    <3> QED
      BY <1>1, <3>1, <3>2, <3>3, MinutesMove
  <2>3. CASE ~(Minutes!Exists(x1[req[w].report]) /\ req[w].read.status = "BROUILLON")
    BY <1>2, <1>4, <2>1, <2>3 DEF Minutes!CheckDraft, Minutes!Uploading, Minutes!Request
  <2> QED
    BY <2>2, <2>3
<1>5. CASE Minutes!AbortReport(w)
  <2>1. pc[w] \in {"checking", "attaching", "detaching"} => req[w].arg \in Thirds
    BY
       DEF Minutes!Inv, Minutes!Sound, Minutes!Writing, Minutes!Uploading, Minutes!Attaching,
              Minutes!Request
  <2> QED
    BY <1>2, <1>5, <2>1 DEF Minutes!AbortReport, Minutes!Die
<1>6. CASE Minutes!RefuseAttachment(w) \/ Minutes!ReportIsGone(w)
  BY <1>2, <1>6 DEF Minutes!RefuseAttachment, Minutes!ReportIsGone
<1> QED
  BY <1>3, <1>4, <1>5, <1>6

\* A report is drafted, or shown.
LEMMA MinutesPages ==
    ASSUME Minutes!Inv, NEW p \in Ones,
           Minutes!ShowReport(p) \/ \E says \in Others : Minutes!CreateReport(p, says)
    PROVE  Minutes!Inv' /\ Minutes!PublishedStands
<1> USE DEF Minutes!reportTables, Minutes!reportHistory, Minutes!flights
<1>1. CASE Minutes!ShowReport(p)
  <2>1. /\ <<p, x1[p].says>> \in x5 /\ x4' = x4 \cup {<<p, x1[p].says>>}
        /\ UNCHANGED <<x1, x2, x3, x5, x6, x7, pc, req, sent>>
    BY <1>1 DEF Minutes!ShowReport, Minutes!Inv, Minutes!Publicised
  <2>2. Minutes!TypeOK' /\ Minutes!DraftsArePrivate' /\ Minutes!Publicised' /\ Minutes!FilesHeld'
    BY <2>1 DEF Minutes!Inv, Minutes!TypeOK, Minutes!FlightsOK, Minutes!DraftsArePrivate,
                Minutes!Publicised, Minutes!FilesHeld, Minutes!Exists
  <2>3. (\A v \in Workers : Minutes!Sound(v)') /\ Minutes!PublishedStands
    BY <2>1, MinutesOther
       DEF Minutes!IsDraft, Minutes!Exists, Minutes!PublishedStands, Minutes!Attached
  <2> QED
    BY <2>2, <2>3 DEF Minutes!Inv
<1>2. ASSUME NEW says \in Others, Minutes!CreateReport(p, says)
      PROVE  Minutes!Inv' /\ Minutes!PublishedStands
  <2>1. /\ x1[p] = None /\ x1' = [x1 EXCEPT ![p] = [status |-> "BROUILLON", says |-> says]]
        /\ UNCHANGED <<x2, x3, x4, x5, x6, x7, pc, req, sent>>
    BY <1>2 DEF Minutes!CreateReport, Minutes!NewReport
  <2>2. Minutes!TypeOK' /\ Minutes!DraftsArePrivate' /\ Minutes!FilesHeld' /\ Minutes!Publicised'
    BY <2>1 DEF Minutes!Inv, Minutes!TypeOK, Minutes!FlightsOK, Minutes!DraftsArePrivate,
                Minutes!Publicised, Minutes!FilesHeld, Minutes!Exists, Minutes!Report,
                Minutes!ReportStatus
  <2>3. \A q \in Ones : q # p => x1'[q] = x1[q]
    BY <2>1 DEF Minutes!Inv, Minutes!TypeOK
  <2>4. x1'[p].status = "BROUILLON" /\ ~Minutes!Exists(x1[p])
    BY <2>1 DEF Minutes!Inv, Minutes!TypeOK, Minutes!Exists
  <2>5. (\A v \in Workers : Minutes!Sound(v)') /\ Minutes!PublishedStands
    BY <2>1, <2>3, <2>4, MinutesOther
       DEF Minutes!IsDraft, Minutes!Exists, Minutes!PublishedStands, Minutes!Attached
  <2> QED
    BY <2>2, <2>5 DEF Minutes!Inv
<1> QED
  BY <1>1, <1>2

\* A row is written as it was read and changed: what is no draft changes its status
\* alone, unless those who had read the draft meet.
LEMMA MinutesCommit ==
    ASSUME Minutes!Inv, NEW w \in Workers, Minutes!CommitReport(w)
    PROVE  Minutes!Inv' /\ Minutes!PublishedStands
<1>1. PICK p \in Ones : p = req[w].report
  BY DEF Minutes!CommitReport, Minutes!Inv, Minutes!Sound, Minutes!Writing, Minutes!Uploading,
         Minutes!Attaching, Minutes!Request
<1>2. /\ Minutes!Writing(w) /\ Minutes!Exists(x1[p]) /\ x1[p] \in Minutes!Report
      /\ req[w].read.status = "BROUILLON" => x1[p].status = "BROUILLON" \/ p \in x7
  BY <1>1 DEF Minutes!CommitReport, Minutes!Inv, Minutes!Sound, Minutes!Writing, Minutes!Uploading,
              Minutes!Attaching, Minutes!Exists, Minutes!IsDraft, Minutes!TypeOK
<1>3. PICK row \in Minutes!Report \cup {Gone} :
        /\ x1' = [x1 EXCEPT ![p] = row]
        /\ row = Gone => req[w].op = "delete"
        /\ row # Gone => /\ req[w].op = "update" \/ row.says = x1[p].says
                         /\ req[w].op \in {"update", "delete"} => row.status = x1[p].status
                         /\ req[w].op = "archive" => row.status = "ARCHIVE"
        /\ x2' = IF row = Gone THEN x2 \ Minutes!Attached(p) ELSE x2
        /\ x6' = IF row = Gone THEN x6 \cup {a[2] : a \in Minutes!Attached(p)} ELSE x6
        /\ Minutes!Publicise(p, row)
  <2>1. CASE req[w].op = "delete"
    BY <1>1, <2>1, MinutesConstants DEF Minutes!CommitReport
  <2>2. CASE req[w].op # "delete"
    <3> DEFINE row == Minutes!Flush(x1[p], req[w].read, Minutes!Written(req[w]))
    <3>1. /\ row \in Minutes!Report
          /\ req[w].op = "update" \/ row.says = x1[p].says
          /\ req[w].op = "update" => row.status = x1[p].status
          /\ req[w].op = "archive" => row.status = "ARCHIVE"
      BY <1>2, <2>2 DEF Minutes!Flush, Minutes!Written, Minutes!Writing, Minutes!Request,
                        Minutes!Report, Minutes!ReportStatus
    <3> HIDE DEF row
    <3>2. /\ x1' = [x1 EXCEPT ![p] = row] /\ Minutes!Publicise(p, row)
          /\ x2' = IF row = Gone THEN x2 \ Minutes!Attached(p) ELSE x2
          /\ x6' = IF row = Gone THEN x6 \cup {a[2] : a \in Minutes!Attached(p)} ELSE x6
      BY <1>1, <2>2 DEF Minutes!CommitReport, row
    <3> QED
      BY <2>2, <3>1, <3>2, MinutesConstants
  <2> QED
    BY <2>1, <2>2
<1>4. /\ x7' = IF Minutes!Alongside(w, "report", p) THEN x7 \cup {p} ELSE x7
      /\ pc[w] = "writing" /\ Minutes!At(w, Minutes!NoRequest, "idle") /\ UNCHANGED <<x3, x4, sent>>
  BY <1>1 DEF Minutes!CommitReport, Minutes!MeetOn, Minutes!Return, Minutes!Continue
<1>5. /\ x1'[p] = row /\ (\A q \in Ones \ {p} : x1'[q] = x1[q])
      /\ x1' \in [Ones -> Minutes!Report \cup {None, Gone}]
      /\ Minutes!Exists(row) <=> row # Gone
  BY <1>3, MinutesConstants DEF Minutes!Inv, Minutes!TypeOK, Minutes!Exists
<1>6. /\ Minutes!FlightsOK' /\ pc'[w] = "idle"
      /\ \A v \in Workers \ {w} : pc'[v] = pc[v] /\ req'[v] = req[v]
  BY <1>4 DEF Minutes!Inv, Minutes!TypeOK, Minutes!FlightsOK, Minutes!At
<1>7. /\ x5 \subseteq x5' /\ x5' \subseteq x5 \cup {<<p, row.says>>}
      /\ Minutes!Exists(row) /\ row.status = "PUBLIE" => <<p, row.says>> \in x5'
      /\ x5' # x5 => row \in Minutes!Report
  BY <1>3, MinutesConstants DEF Minutes!Publicise, Minutes!Exists
<1>8. /\ x2' \subseteq x2 /\ x6 \subseteq x6' /\ x6' \subseteq Thirds /\ x7 \subseteq x7' /\ x7' \subseteq Ones
      /\ \A f \in Thirds : \A q \in Ones : <<q, f>> \in x2 => <<q, f>> \in x2' \/ f \in x6'
  BY <1>3, <1>4 DEF Minutes!Attached, Minutes!Inv, Minutes!TypeOK
<1>9. Minutes!TypeOK'
  BY <1>4, <1>5, <1>6, <1>7, <1>8 DEF Minutes!Inv, Minutes!TypeOK, Minutes!Report
<1>10. Minutes!DraftsArePrivate' /\ Minutes!Publicised'
  BY <1>4, <1>5, <1>7 DEF Minutes!Inv, Minutes!DraftsArePrivate, Minutes!Publicised, Minutes!Exists
<1>11. Minutes!FilesHeld'
  <2>1. ASSUME NEW f \in x3, ~(\E q \in Ones : <<q, f>> \in x2'), f \notin x6'
        PROVE  \E v \in Workers : pc'[v] \in {"checking", "attaching", "detaching"} /\ req'[v].arg = f
    BY <1>4, <1>6, <1>8, <2>1 DEF Minutes!Inv, Minutes!FilesHeld, Minutes!TypeOK
  <2> QED
    BY <1>4, <2>1 DEF Minutes!FilesHeld
<1>12. ASSUME NEW v \in Workers, v # w PROVE Minutes!Sound(v)'
  <2>1. "report" \in DOMAIN req[v] /\ req[v].report = p => p \in x7'
    BY <1>4, <1>12 DEF Minutes!Alongside
  <2> QED
    BY <1>5, <1>6, <1>8, <1>12, <2>1, MinutesOther
<1>13. Minutes!PublishedStands
  <2>1. CASE x1[p].status = "BROUILLON" \/ p \in x7
    BY <1>3, <1>5, <1>8, <2>1 DEF Minutes!PublishedStands, Minutes!Attached, Minutes!Exists
  <2>2. CASE x1[p].status # "BROUILLON" /\ p \notin x7
    <3>1. req[w].op = "archive" /\ row # Gone
      BY <1>2, <1>3, <2>2 DEF Minutes!Writing, Minutes!Request
    <3>2. row.says = x1[p].says /\ (x1[p].status = "ARCHIVE" => row = x1[p]) /\ x2' = x2
      BY <1>2, <1>3, <3>1 DEF Minutes!Report
    <3> QED
      BY <1>5, <3>1, <3>2 DEF Minutes!PublishedStands, Minutes!Attached, Minutes!Exists
  <2> QED
    BY <2>1, <2>2
<1>14. Minutes!Sound(w)'
  BY <1>6 DEF Minutes!Sound
<1> QED
  BY <1>9, <1>10, <1>11, <1>12, <1>13, <1>14 DEF Minutes!Inv

\* An attachment comes or goes: of a draft, or of a report on which they have met.
LEMMA MinutesAttachments ==
    ASSUME Minutes!Inv, NEW w \in Workers, Minutes!InsertAttachment(w) \/ Minutes!RemoveAttachment(w)
    PROVE  Minutes!Inv' /\ Minutes!PublishedStands
<1>1. PICK p \in Ones, f \in Thirds : p = req[w].report /\ f = req[w].arg /\ Minutes!Attaching(w)
  BY
     DEF Minutes!InsertAttachment, Minutes!RemoveAttachment, Minutes!Inv, Minutes!Sound,
            Minutes!Writing,
         Minutes!Uploading, Minutes!Attaching, Minutes!Request
<1>2. Minutes!IsDraft(x1[p]) \/ p \in x7
  BY <1>1 DEF Minutes!Inv, Minutes!Sound, Minutes!Attaching
<1>3. /\ Minutes!At(w, Minutes!NoRequest, "idle") /\ UNCHANGED <<x1, x3, x4, x5, sent>>
      /\ \/ ~Minutes!Exists(x1[p]) /\ x6' = x6 \cup {f} /\ UNCHANGED <<x2, x7>>
         \/ /\ x7' = IF Minutes!Alongside(w, "report", p) THEN x7 \cup {p} ELSE x7
            /\ \/ x2' = x2 \cup {<<p, f>>} /\ x6' = x6
               \/ x2' = x2 \ {<<p, f>>} /\ x6' = x6 \cup {f}
  BY <1>1
     DEF Minutes!InsertAttachment, Minutes!RemoveAttachment, Minutes!MeetOn, Minutes!Return,
            Minutes!Continue
<1>4. /\ Minutes!FlightsOK' /\ pc'[w] = "idle"
      /\ \A v \in Workers \ {w} : pc'[v] = pc[v] /\ req'[v] = req[v]
  BY <1>3 DEF Minutes!Inv, Minutes!TypeOK, Minutes!FlightsOK, Minutes!At
<1>5. /\ x7 \subseteq x7' /\ x7' \subseteq Ones /\ x6 \subseteq x6' /\ x6' \subseteq Thirds
      /\ x2' \subseteq Ones \X Thirds
      /\ f \in x6' \/ <<p, f>> \in x2'
      /\ \A q \in Ones, g \in Thirds : <<q, g>> \in x2 => <<q, g>> \in x2' \/ g \in x6'
  BY <1>3 DEF Minutes!Inv, Minutes!TypeOK
<1>6. Minutes!TypeOK' /\ Minutes!DraftsArePrivate' /\ Minutes!Publicised'
  BY <1>3, <1>4, <1>5
     DEF Minutes!Inv, Minutes!TypeOK, Minutes!DraftsArePrivate, Minutes!Publicised, Minutes!Exists
<1>7. Minutes!FilesHeld'
  <2>1. ASSUME NEW g \in x3, ~(\E q \in Ones : <<q, g>> \in x2'), g \notin x6'
        PROVE  \E v \in Workers : pc'[v] \in {"checking", "attaching", "detaching"} /\ req'[v].arg = g
    BY <1>1, <1>4, <1>5, <2>1 DEF Minutes!Inv, Minutes!FilesHeld, Minutes!TypeOK
  <2> QED
    BY <1>3, <2>1 DEF Minutes!FilesHeld
<1>8. ASSUME NEW v \in Workers, v # w PROVE Minutes!Sound(v)'
  BY <1>3, <1>4, <1>5, <1>8, MinutesOther DEF Minutes!IsDraft, Minutes!Exists
<1>9. Minutes!Sound(w)'
  BY <1>4 DEF Minutes!Sound
<1>10. Minutes!PublishedStands
  <2>1. \A q \in Ones \ {p} : {a \in x2' : a[1] = q} = {a \in x2 : a[1] = q}
    BY <1>3
  <2>2. Minutes!Exists(x1[p]) /\ x1[p].status # "BROUILLON" => p \in x7'
    BY <1>2, <1>5 DEF Minutes!IsDraft
  <2> QED
    BY <1>3, <2>1, <2>2 DEF Minutes!PublishedStands, Minutes!Attached, Minutes!Exists
<1> QED
  BY <1>6, <1>7, <1>8, <1>9, <1>10 DEF Minutes!Inv

LEMMA MinutesNext ==
    Minutes!Inv /\ Minutes!Next => Minutes!Inv' /\ Minutes!PublishedStands
BY MinutesPages, MinutesAsks, MinutesCommit, MinutesLooks, MinutesAttachments
   DEF Minutes!Next, Minutes!ServeReport

LEMMA MinutesStays == Minutes!Inv /\ UNCHANGED <<x1, x2, x3, x4, x5, x6, x7, pc, req, sent>> => Minutes!Inv'
<1> SUFFICES ASSUME Minutes!Inv, UNCHANGED <<x1, x2, x3, x4, x5, x6, x7, pc, req, sent>> PROVE Minutes!Inv'
  OBVIOUS
<1>1. Minutes!TypeOK' /\ Minutes!DraftsArePrivate' /\ Minutes!Publicised'
  BY
     DEF Minutes!Inv, Minutes!TypeOK, Minutes!FlightsOK, Minutes!DraftsArePrivate,
            Minutes!Publicised, Minutes!Exists
<1>2. Minutes!FilesHeld'
  BY DEF Minutes!Inv, Minutes!FilesHeld
<1>3. ASSUME NEW v \in Workers PROVE Minutes!Sound(v)'
  BY MinutesOther DEF Minutes!IsDraft, Minutes!Exists
<1> QED
  BY <1>1, <1>2, <1>3 DEF Minutes!Inv

-----------------------------------------------------------------------------
\* Notifications

LEMMA NewsConstants ==
    /\ MaxCalls \in Nat /\ FewCalls \in Nat /\ ManyCalls \in Nat /\ Logged \in Nat
    /\ None # Gone /\ None \notin Rows /\ None # Elsewhere
    /\ None \notin News!Notification /\ Gone \notin News!Notification
BY ServicesAssumption

LEMMA NewsSettledInit == News!Init => News!Settled
<1> SUFFICES ASSUME News!Init PROVE News!Settled
  OBVIOUS
<1> USE NewsConstants DEF News!Init, News!InitFlights
<1>1. News!FlightsOK /\ \A w \in Workers : News!Sound(w)
  BY DEF News!NoRequest, News!FlightsOK, News!Sound
<1>2. x1 \in [Rows -> News!Notification \cup {None, Gone}]
  OBVIOUS
<1>3. x3 \in [{Elsewhere} -> (SUBSET (Ones \cup Thirds)) \cup {None}]
  <2>1. \A D, R : None \in R => [b \in D |-> None] \in [D -> R]
    OBVIOUS
  <2> QED
    BY <2>1
<1> QED
  BY <1>1, <1>2, <1>3 DEF News!Settled, News!TypeOK

LEMMA NewsSettled == News!Settled /\ News!Next => News!Settled' /\ News!ReadStays
<1> SUFFICES ASSUME News!Settled, News!Next PROVE News!Settled' /\ News!ReadStays
  OBVIOUS
<1> DEFINE Goal == News!Settled' /\ News!ReadStays
<1> USE DEF News!noticeTables, News!noticeHistory
\* A request moves on, and of no notification is its reading forgotten.
<1>1. ASSUME NEW w \in Workers, NEW r, NEW place, News!At(w, r, place), sent' \in 0 .. FewCalls,
             place = "idle" <=> r = News!NoRequest,
             x1' \in [Rows -> News!Notification \cup {None, Gone}],
             x3' \in [{Elsewhere} -> (SUBSET (Ones \cup Thirds)) \cup {None}],
             x4' \subseteq ({Elsewhere} \cup {None}) \X (Ones \cup Thirds),
             UNCHANGED <<x2, x5>>,
             \A n \in Rows : \/ x1'[n] = x1[n]
                             \/ x1[n] = None /\ News!Exists(x1'[n]) /\ x1'[n].status = "PENDING"
                             \/ pc[w] = "sending" /\ n = req[w].notice /\ News!Exists(x1'[n]),
             pc'[w] = place /\ req'[w] = r =>
                place = "idle" \/ (place = "creating" /\ News!Carrying(w)')
                \/ (place = "sending" /\ News!Carrying(w)' /\ r.notice \in Rows /\ x1[r.notice] = None
                                                           /\ x1'[r.notice] # x1[r.notice])
      PROVE  Goal
  <2>1. /\ News!FlightsOK' /\ pc'[w] = place /\ req'[w] = r
        /\ \A v \in Workers \ {w} : pc'[v] = pc[v] /\ req'[v] = req[v]
    BY <1>1 DEF News!Settled, News!TypeOK, News!FlightsOK, News!At
  <2>2. News!TypeOK'
    BY <1>1, <2>1 DEF News!Settled, News!TypeOK
  <2>3. ASSUME NEW v \in Workers PROVE News!Sound(v)'
    <3>1. CASE v = w
      <4>1. \A u \in Workers : pc[u] = "sending" => x1[req[u].notice] # None
        BY DEF News!Settled, News!Sound, News!Sending
      <4>2. CASE place = "sending"
        <5>1. r.notice \in Rows /\ x1[r.notice] = None /\ x1'[r.notice] # None /\ News!Carrying(w)'
              /\ (News!Exists(x1'[r.notice]) => x1'[r.notice].status = "PENDING")
          BY <1>1, <2>1, <4>1, <4>2 DEF News!Exists
        <5>3. \A u \in Workers \ {w} : pc'[u] = "sending" => req'[u].notice # r.notice
          BY <2>1, <4>1, <5>1
        <5>2. News!Sending(w)'
          BY <2>1, <5>1, <5>3 DEF News!Sending, News!Exists
        <5> QED
          BY <2>1, <3>1, <4>2, <5>1, <5>2 DEF News!Sound
      <4> QED
        BY <1>1, <2>1, <3>1, <4>2 DEF News!Sound
    <3>2. CASE v # w
      <4>1. pc'[v] = pc[v] /\ req'[v] = req[v] /\ News!Sound(v)
        BY <2>1, <3>2 DEF News!Settled
      <4>2. CASE pc[v] # "sending"
        BY <4>1, <4>2 DEF News!Sound, News!Carrying
      <4>3. CASE pc[v] = "sending"
        <5>1. PICK n \in Rows : n = req[v].notice
          BY <4>1, <4>3 DEF News!Sound, News!Sending
        <5>2. /\ x1[n] # None /\ (News!Exists(x1[n]) => x1[n].status = "PENDING" \/ n \in x5)
              /\ \A u \in Workers \ {v} : pc[u] = "sending" => req[u].notice # n
          BY <4>1, <4>3, <5>1 DEF News!Sound, News!Sending
        <5>3. x1'[n] = x1[n]
          BY <1>1, <3>2, <5>2
        <5>4. \A u \in Workers \ {v} : pc'[u] = "sending" => req'[u].notice # n
          BY <1>1, <2>1, <5>2, <5>3
        <5>5. News!Sending(v)'
          BY <1>1, <4>1, <5>1, <5>2, <5>3, <5>4 DEF News!Sending, News!Exists
        <5> QED
          BY <4>1, <4>3, <5>5 DEF News!Sound, News!Carrying
      <4> QED
        BY <4>2, <4>3
    <3> QED
      BY <3>1, <3>2
  <2>4. News!ReadStays
    BY <1>1 DEF News!ReadStays, News!Settled, News!Sound, News!Sending, News!Exists
  <2> QED
    BY <2>2, <2>3, <2>4 DEF News!Settled
<1>2. ASSUME NEW w \in Workers, NEW op \in {"send", "broadcast"}, NEW b \in {Elsewhere} \cup {None},
             op = "broadcast" => b = Elsewhere,
             NEW all \in SUBSET (Ones \cup Thirds), NEW left \in Seq(Ones \cup Thirds),
             News!Begin(w, [op |-> op, broadcast |-> b, all |-> all, left |-> left, notice |-> None], "creating"),
             UNCHANGED <<News!noticeTables, News!noticeHistory>>
      PROVE  Goal
  <2> DEFINE r == [op |-> op, broadcast |-> b, all |-> all, left |-> left, notice |-> None]
  <2>1. /\ r \in [op : {"send", "broadcast"}, broadcast : {Elsewhere} \cup {None},
                  all : SUBSET (Ones \cup Thirds), left : Seq(Ones \cup Thirds), notice : Rows \cup {None}]
        /\ r.op = "broadcast" => r.broadcast \in {Elsewhere}
        /\ r # News!NoRequest
    BY <1>2 DEF News!NoRequest
  <2>2. News!Begin(w, r, "creating")
    BY <1>2
  <2> HIDE DEF r
  <2> QED
    BY <1>1, <1>2, <2>1, <2>2, NewsConstants
       DEF News!Begin, News!Carrying, News!Settled, News!TypeOK, News!FlightsOK
<1>3. ASSUME NEW w \in Workers, NEW u \in Ones \cup Thirds, News!SendNotification(w, u) PROVE Goal
  <2>1. {u} \in SUBSET (Ones \cup Thirds) /\ <<u>> \in Seq(Ones \cup Thirds)
    OBVIOUS
  <2> QED
    BY <1>2, <1>3, <2>1 DEF News!SendNotification
<1>4. ASSUME NEW w \in Workers, NEW b \in {Elsewhere}, NEW list \in News!Found, News!Broadcast(w, b, list)
      PROVE  Goal
  <2>1. list \in Seq(Ones \cup Thirds)
    <3>1. x2 \subseteq Ones \cup Thirds
      BY DEF News!Settled, News!TypeOK
    <3>2. \A u \in x2 : <<u>> \in Seq(Ones \cup Thirds)
      BY <3>1
    <3>3. \A l \in x2 \X x2 : l \in Seq(Ones \cup Thirds)
      <4>1. \A a \in x2, b2 \in x2 : <<a, b2>> \in Seq(Ones \cup Thirds)
        BY <3>1
      <4>2. \A l \in x2 \X x2 : \E a \in x2, b2 \in x2 : l = <<a, b2>>
        OBVIOUS
      <4> QED
        BY <4>1, <4>2, Zenon
    <3>4. <<>> \in Seq(Ones \cup Thirds)
      OBVIOUS
    <3> QED
      BY <3>2, <3>3, <3>4 DEF News!Found
  <2>2. {list[i] : i \in DOMAIN list} \in SUBSET (Ones \cup Thirds)
    BY <2>1
  <2> QED
    BY <1>2, <1>4, <2>1, <2>2 DEF News!Broadcast
\* A request ends, or is refused.
<1>5. ASSUME NEW w \in Workers, News!Return(w), UNCHANGED <<x1, x2, x4, x5>>,
             x3' \in [{Elsewhere} -> (SUBSET (Ones \cup Thirds)) \cup {None}]
      PROVE  Goal
  BY <1>1, <1>5 DEF News!Return, News!Continue, News!Settled, News!TypeOK, News!FlightsOK
<1>6. ASSUME NEW w \in Workers, \/ News!CreationFails(w) \/ News!MarkFails(w) \/ News!AbortNotification(w)
                                \/ News!AllSent(w)
      PROVE  Goal
  <2>1. CASE News!AllSent(w)
    <3>1. req[w].all \in SUBSET (Ones \cup Thirds) /\ (req[w].op = "broadcast" => req[w].broadcast = Elsewhere)
      BY <2>1 DEF News!AllSent, News!Settled, News!Sound, News!Carrying
    <3> QED
      BY <1>5, <2>1, <3>1 DEF News!AllSent, News!Settled, News!TypeOK
  <2> QED
    BY <1>5, <1>6, <2>1
       DEF News!CreationFails, News!MarkFails, News!AbortNotification, News!Die, News!Settled,
              News!TypeOK
<1>7. ASSUME NEW w \in Workers, News!CreateNotification(w) PROVE Goal
  <2>1. /\ News!Carrying(w) /\ req[w].left # <<>>
        /\ Head(req[w].left) \in Ones \cup Thirds /\ Tail(req[w].left) \in Seq(Ones \cup Thirds)
    <3>1. News!Carrying(w) /\ req[w].left # <<>>
      BY <1>7 DEF News!CreateNotification, News!Settled, News!Sound
    <3> QED
      BY <3>1 DEF News!Carrying
  <2>2. PICK n \in Rows :
          /\ x1[n] = None
          /\ x1' = [x1 EXCEPT ![n] = [to |-> Head(req[w].left), broadcast |-> req[w].broadcast, status |-> "PENDING"]]
          /\ News!Continue(w, [req[w] EXCEPT !.left = Tail(@), !.notice = n], "sending")
    BY <1>7 DEF News!CreateNotification
  <2> DEFINE row == [to |-> Head(req[w].left), broadcast |-> req[w].broadcast, status |-> "PENDING"]
             r == [req[w] EXCEPT !.left = Tail(@), !.notice = n]
  <2>3. row \in News!Notification /\ row.status = "PENDING"
    BY <2>1 DEF News!Notification, News!NotificationStatus, News!Carrying
  <2>4. /\ r \in [op : {"send", "broadcast"}, broadcast : {Elsewhere} \cup {None},
                  all : SUBSET (Ones \cup Thirds), left : Seq(Ones \cup Thirds), notice : Rows \cup {None}]
        /\ r.op = "broadcast" => r.broadcast \in {Elsewhere}
        /\ r # News!NoRequest /\ r.notice = n
    BY <2>1 DEF News!NoRequest, News!Carrying
  <2>5. x1' = [x1 EXCEPT ![n] = row] /\ News!Continue(w, r, "sending")
    BY <2>2
  <2> HIDE DEF row, r
  <2>6. /\ x1' \in [Rows -> News!Notification \cup {None, Gone}] /\ x1'[n] = row
        /\ \A m \in Rows \ {n} : x1'[m] = x1[m]
    BY <2>3, <2>5 DEF News!Settled, News!TypeOK
  <2>7. News!Exists(row)
    BY <2>3, NewsConstants DEF News!Exists
  <2> QED
    BY <1>1, <1>7, <2>2, <2>3, <2>4, <2>5, <2>6, <2>7
       DEF News!CreateNotification, News!Continue, News!Carrying, News!Settled, News!TypeOK,
              News!FlightsOK, News!Exists
<1>8. ASSUME NEW w \in Workers, News!MarkSent(w) PROVE Goal
  <2>1. News!Carrying(w) /\ News!Sending(w) /\ pc[w] = "sending"
    BY <1>8 DEF News!MarkSent, News!Settled, News!Sound
  <2>2. PICK n \in Rows, status \in {"SENT", "FAILED"} :
          n = req[w].notice /\ News!Exists(x1[n]) /\ x1' = [x1 EXCEPT ![n].status = status]
    BY <1>8, <2>1 DEF News!MarkSent, News!Sending
  <2>3. x1[n] \in News!Notification
    BY <2>2 DEF News!Settled, News!TypeOK, News!Exists
  <2> DEFINE row == [x1[n] EXCEPT !.status = status]
             r == [req[w] EXCEPT !.notice = None]
  <2>4. row \in News!Notification /\ row.status = status /\ x1[n].to \in Ones \cup Thirds
    BY <2>3 DEF News!Notification, News!NotificationStatus
  <2>5. /\ r \in [op : {"send", "broadcast"}, broadcast : {Elsewhere} \cup {None},
                  all : SUBSET (Ones \cup Thirds), left : Seq(Ones \cup Thirds), notice : Rows \cup {None}]
        /\ r.op = "broadcast" => r.broadcast \in {Elsewhere}
        /\ r # News!NoRequest
    BY <2>1 DEF News!NoRequest, News!Carrying
  <2>6. x1' = [x1 EXCEPT ![n] = row] /\ News!Continue(w, r, "creating")
    BY <1>8, <2>2 DEF News!MarkSent
  <2> HIDE DEF row, r
  <2>7. /\ x1' \in [Rows -> News!Notification \cup {None, Gone}] /\ x1'[n] = row
        /\ \A m \in Rows \ {n} : x1'[m] = x1[m]
        /\ News!Exists(row)
    BY <2>4, <2>6, NewsConstants DEF News!Settled, News!TypeOK, News!Exists
  <2>8. x4' \subseteq ({Elsewhere} \cup {None}) \X (Ones \cup Thirds) /\ UNCHANGED <<x2, x3, x5>>
    BY <1>8, <2>1, <2>2, <2>4 DEF News!MarkSent, News!Carrying, News!Settled, News!TypeOK
  <2>9. pc'[w] = "creating" /\ req'[w] = r => News!Carrying(w)'
    BY <2>5 DEF News!Carrying
  <2>10. sent' \in 0 .. FewCalls /\ x3 \in [{Elsewhere} -> (SUBSET (Ones \cup Thirds)) \cup {None}]
    BY <2>6 DEF News!Continue, News!Settled, News!TypeOK, News!FlightsOK
  <2> QED
    BY <1>1, <2>1, <2>2, <2>5, <2>6, <2>7, <2>8, <2>9, <2>10 DEF News!Continue
\* Rows change under the requests: they are read, swept, or go with their recipient.
<1>9. ASSUME x1' \in [Rows -> News!Notification \cup {None, Gone}], x2' \subseteq x2, UNCHANGED <<x3, x4, pc, req, sent>>,
             x5 \subseteq x5' /\ x5' \subseteq Rows,
             \A n \in Rows : \/ x1'[n] \in {x1[n], Gone} /\ (x1[n] = None => x1'[n] = None)
                             \/ /\ News!Exists(x1[n]) /\ News!Exists(x1'[n])
                                /\ x1'[n].status = "READ" /\ (x1[n].status = "PENDING" => n \in x5')
      PROVE  Goal
  <2>1. News!TypeOK'
    BY <1>9 DEF News!Settled, News!TypeOK, News!FlightsOK
  <2>2. ASSUME NEW v \in Workers PROVE News!Sound(v)'
    <3>1. CASE pc[v] # "sending"
      BY <1>9, <3>1 DEF News!Settled, News!Sound, News!Carrying
    <3>2. CASE pc[v] = "sending"
      <4>1. PICK n \in Rows : n = req[v].notice
        BY <3>2 DEF News!Settled, News!Sound, News!Sending
      <4>2. /\ News!Carrying(v) /\ x1[n] # None /\ (News!Exists(x1[n]) => x1[n].status = "PENDING" \/ n \in x5)
            /\ \A u \in Workers \ {v} : pc[u] = "sending" => req[u].notice # n
        BY <3>2, <4>1 DEF News!Settled, News!Sound, News!Sending
      <4>3. x1'[n] # None /\ (News!Exists(x1'[n]) => x1'[n].status = "PENDING" \/ n \in x5')
        BY <1>9, <4>2, NewsConstants DEF News!Exists
      <4>4. News!Sending(v)'
        <5>1. req'[v].notice = n /\ pc' = pc /\ req' = req
          BY <1>9, <4>1
        <5> QED
          BY <4>2, <4>3, <5>1 DEF News!Sending, News!Exists
      <4> QED
        BY <1>9, <3>2, <4>2, <4>4 DEF News!Sound, News!Carrying
    <3> QED
      BY <3>1, <3>2
  <2>3. News!ReadStays
    BY <1>9 DEF News!ReadStays, News!Exists
  <2> QED
    BY <2>1, <2>2, <2>3 DEF News!Settled
<1>10. ASSUME NEW u \in Ones \cup Thirds, NEW some \in SUBSET Rows, News!MarkRead(u, some) PROVE Goal
  <2>1. \A n \in some : /\ x1[n] \in News!Notification /\ News!Exists(x1[n])
                        /\ [x1[n] EXCEPT !.status = "READ"] \in News!Notification
                        /\ [x1[n] EXCEPT !.status = "READ"].status = "READ"
    BY <1>10
       DEF News!MarkRead, News!Settled, News!TypeOK, News!Exists, News!Notification,
              News!NotificationStatus
  <2>2. /\ \A n \in some : x1'[n] = [x1[n] EXCEPT !.status = "READ"]
        /\ \A n \in Rows \ some : x1'[n] = x1[n]
        /\ DOMAIN x1' = Rows
        /\ x5' = x5 \cup {n \in some : x1[n].status = "PENDING"}
        /\ UNCHANGED <<x2, x3, x4, pc, req, sent>>
    BY <1>10 DEF News!MarkRead, News!flights
  <2>3. x1' \in [Rows -> News!Notification \cup {None, Gone}]
    <3>1. x1' = [n \in Rows |-> x1'[n]]
      BY <1>10, <2>2 DEF News!MarkRead
    <3> QED
      BY <2>1, <2>2, <3>1 DEF News!Settled, News!TypeOK
  <2>4. x5 \subseteq x5' /\ x5' \subseteq Rows
    BY <2>2 DEF News!Settled, News!TypeOK
  <2>5. \A n \in Rows : \/ x1'[n] = x1[n]
                        \/ /\ News!Exists(x1[n]) /\ News!Exists(x1'[n])
                           /\ x1'[n].status = "READ" /\ (x1[n].status = "PENDING" => n \in x5')
    BY <2>1, <2>2, NewsConstants DEF News!Exists
  <2> QED
    BY <1>9, <2>2, <2>3, <2>4, <2>5
<1>11. ASSUME NEW some \in SUBSET Rows, News!CleanupNotifications(some) PROVE Goal
  <2>1. /\ x1' \in [Rows -> News!Notification \cup {None, Gone}]
        /\ \A n \in Rows : x1'[n] \in {x1[n], Gone} /\ (x1[n] = None => x1'[n] = None)
    BY <1>11 DEF News!CleanupNotifications, News!Settled, News!TypeOK, News!Exists
  <2> QED
    BY <1>9, <1>11, <2>1 DEF News!CleanupNotifications, News!Settled, News!TypeOK, News!flights
<1>12. ASSUME NEW u \in Ones \cup Thirds, News!DeleteUser(u) PROVE Goal
  <2>1. /\ x1' \in [Rows -> News!Notification \cup {None, Gone}]
        /\ \A n \in Rows : x1'[n] \in {x1[n], Gone} /\ (x1[n] = None => x1'[n] = None)
    BY <1>12 DEF News!DeleteUser, News!Settled, News!TypeOK, News!Exists
  <2> QED
    BY <1>9, <1>12, <2>1 DEF News!DeleteUser, News!Settled, News!TypeOK, News!flights
<1> QED
  BY <1>3, <1>4, <1>6, <1>7, <1>8, <1>10, <1>11, <1>12 DEF News!Next, News!SecretariatDesk

LEMMA NewsInit == News!Init => News!Inv
<1> SUFFICES ASSUME News!Init PROVE News!Inv
  OBVIOUS
<1>1. News!EverybodyTold
  BY DEF News!Init, News!EverybodyTold
<1>2. \A b, u : News!Told(b, u) = {}
  BY DEF News!Init, News!Told, News!Exists
<1>3. \A w \in Workers : News!Telling(w) /\ News!ListedOnce(w)
  BY DEF News!Init, News!InitFlights, News!Telling, News!ListedOnce
<1> QED
  BY <1>1, <1>2, <1>3, NewsSettledInit DEF News!Inv, News!Listed, News!NobodyTwice

\* A notification that is being sent is on record, or was.
LEMMA NewsOnRecord ==
    ASSUME News!Settled, NEW v \in Workers, pc[v] = "sending" PROVE req[v].notice \in Rows /\ x1[req[v].notice] # None
BY DEF News!Settled, News!Sound, News!Sending

\* What a request owes and whom it has listed, while the rows that there were go or
\* keep their recipient and no other request writes rows of its broadcast.
LEMMA NewsOwes ==
    ASSUME News!Settled, News!Listed, NEW v \in Workers,
           pc'[v] = pc[v], req'[v] = req[v], x4 \subseteq x4', x3'[Elsewhere] = x3[Elsewhere] \/ req[v].broadcast # Elsewhere \/ pc[v] = "idle",
           \A n \in Rows : News!Exists(x1'[n]) =>
              \/ News!Exists(x1[n]) /\ x1'[n].to = x1[n].to /\ x1'[n].broadcast = x1[n].broadcast
              \/ x1[n] = None /\ (x1'[n].broadcast # req[v].broadcast \/ pc[v] = "idle"),
           \A u \in Workers \ {v} : pc'[u] # "idle" /\ req'[u].broadcast = Elsewhere
               => pc[v] = "idle" \/ req[v].broadcast # Elsewhere
    PROVE  News!Telling(v)' /\ News!ListedOnce(v)'
<1> SUFFICES ASSUME pc[v] # "idle", req[v].broadcast = Elsewhere PROVE News!Telling(v)' /\ News!ListedOnce(v)'
  BY DEF News!Telling, News!ListedOnce
<1>1. /\ x3[Elsewhere] = None
      /\ \A u \in req[v].all : <<Elsewhere, u>> \in x4 \/ News!Owed(v, u)
      /\ \A i \in DOMAIN req[v].left : req[v].left[i] \notin Ones =>
            /\ News!Told(Elsewhere, req[v].left[i]) = {}
            /\ \A j \in DOMAIN req[v].left : req[v].left[j] = req[v].left[i] => j = i
  BY DEF News!Listed, News!Telling, News!ListedOnce
<1>2. ASSUME NEW u, News!Owed(v, u) PROVE News!Owed(v, u)'
  <2>1. CASE pc[v] = "sending"
    <3>1. req[v].notice \in Rows /\ x1[req[v].notice] # None
      BY <2>1, NewsOnRecord
    <3>2. PICK n \in Rows : n = req[v].notice /\ x1[n] # None
      BY <3>1
    <3>3. News!Exists(x1'[n]) => News!Exists(x1[n]) /\ x1'[n].to = x1[n].to
      BY <3>2
    <3> QED
      BY <1>2, <2>1, <3>2, <3>3 DEF News!Owed
  <2>2. CASE pc[v] # "sending"
    BY <1>2, <2>2 DEF News!Owed
  <2> QED
    BY <2>1, <2>2
<1>3. \A u : News!Told(Elsewhere, u)' \subseteq News!Told(Elsewhere, u)
  BY DEF News!Told
<1>4. News!Telling(v)'
  BY <1>1, <1>2 DEF News!Telling
<1>5. News!ListedOnce(v)'
  BY <1>1, <1>3 DEF News!ListedOnce
<1> QED
  BY <1>4, <1>5

LEMMA NewsListed ==
    ASSUME News!Settled, News!Listed, News!Settled', News!Next PROVE News!Listed'
<1> USE DEF News!noticeTables, News!noticeHistory
<1>0. None # Elsewhere
  BY NewsConstants
\* No row is written.
<1>1. ASSUME x4 \subseteq x4', x3' = x3,
             \A n \in Rows : News!Exists(x1'[n]) =>
                News!Exists(x1[n]) /\ x1'[n].to = x1[n].to /\ x1'[n].broadcast = x1[n].broadcast
      PROVE  News!EverybodyTold' /\ News!NobodyTwice'
  <2>1. \A u : News!Told(Elsewhere, u)' \subseteq News!Told(Elsewhere, u)
    BY <1>1 DEF News!Told
  <2>2. News!NobodyTwice'
    BY <2>1 DEF News!NobodyTwice, News!Listed
  <2> QED
    BY <1>1, <2>2 DEF News!EverybodyTold, News!Listed
<1>2. ASSUME x4 \subseteq x4', UNCHANGED <<x3, pc, req>>,
             \A n \in Rows : News!Exists(x1'[n]) =>
                News!Exists(x1[n]) /\ x1'[n].to = x1[n].to /\ x1'[n].broadcast = x1[n].broadcast
      PROVE  News!Listed'
  <2>1. ASSUME NEW v \in Workers PROVE News!Telling(v)' /\ News!ListedOnce(v)'
    <3>1. \A u \in Workers \ {v} : pc'[u] # "idle" /\ req'[u].broadcast = Elsewhere
               => pc[v] = "idle" \/ req[v].broadcast # Elsewhere
      BY <1>2 DEF News!Listed, News!Telling
    <3> QED
      BY <1>2, <3>1, NewsOwes
  <2> QED
    BY <1>1, <1>2, <2>1 DEF News!Listed
\* A request moves on.
<1>3. ASSUME NEW w \in Workers, NEW r, NEW place, News!At(w, r, place), x4 \subseteq x4',
             x3'[Elsewhere] = x3[Elsewhere] \/ (pc[w] # "idle" /\ req[w].broadcast = Elsewhere),
             \A n \in Rows : News!Exists(x1'[n]) =>
                \/ News!Exists(x1[n]) /\ x1'[n].to = x1[n].to /\ x1'[n].broadcast = x1[n].broadcast
                \/ x1[n] = None /\ pc[w] # "idle" /\ x1'[n].broadcast = req[w].broadcast,
             place # "idle" => \/ pc[w] # "idle" /\ r.broadcast = req[w].broadcast
                               \/ \A v \in Workers : pc[v] # "idle" => req[v].broadcast # r.broadcast
                               \/ r.broadcast = None,
             News!EverybodyTold', News!NobodyTwice',
             pc'[w] = place /\ req'[w] = r /\ place # "idle" /\ r.broadcast = Elsewhere =>
                /\ x3'[Elsewhere] = None
                /\ \A u \in r.all : <<Elsewhere, u>> \in x4' \/ News!Owed(w, u)'
                /\ News!ListedOnce(w)'
      PROVE  News!Listed'
  <2>1. /\ pc'[w] = place /\ req'[w] = r
        /\ \A v \in Workers \ {w} : pc'[v] = pc[v] /\ req'[v] = req[v]
    BY <1>3 DEF News!Settled, News!TypeOK, News!FlightsOK, News!At
  <2>2. \A u, v \in Workers : u # v /\ pc[u] # "idle" /\ pc[v] # "idle" /\ req[u].broadcast = Elsewhere
                              => req[v].broadcast # Elsewhere
    BY DEF News!Listed, News!Telling
  <2>3. ASSUME NEW v \in Workers, v # w, place # "idle", r.broadcast = Elsewhere, pc[v] # "idle"
        PROVE  req[v].broadcast # Elsewhere
    BY <1>0, <1>3, <2>2, <2>3
  <2>4. ASSUME NEW v \in Workers, v # w PROVE News!Telling(v)' /\ News!ListedOnce(v)'
    <3>1. \A u \in Workers \ {v} : pc'[u] # "idle" /\ req'[u].broadcast = Elsewhere
               => pc[v] = "idle" \/ req[v].broadcast # Elsewhere
      BY <2>1, <2>2, <2>3, <2>4
    <3>2. CASE pc[v] = "idle" \/ req[v].broadcast # Elsewhere
      BY <2>1, <2>4, <3>2 DEF News!Telling, News!ListedOnce
    <3>3. CASE pc[v] # "idle" /\ req[v].broadcast = Elsewhere
      <4>1. pc[w] # "idle" => req[w].broadcast # Elsewhere
        BY <2>2, <2>4, <3>3
      <4>2. \A n \in Rows : News!Exists(x1'[n]) =>
              \/ News!Exists(x1[n]) /\ x1'[n].to = x1[n].to /\ x1'[n].broadcast = x1[n].broadcast
              \/ x1[n] = None /\ x1'[n].broadcast # req[v].broadcast
        BY <1>3, <3>3, <4>1
      <4>3. pc'[v] = pc[v] /\ req'[v] = req[v] /\ x3'[Elsewhere] = x3[Elsewhere]
        BY <1>3, <2>1, <2>4, <4>1
      <4> QED
        BY <1>3, <3>1, <4>2, <4>3, NewsOwes
    <3> QED
      BY <3>2, <3>3
  <2>5. News!Telling(w)' /\ News!ListedOnce(w)'
    <3>1. CASE place = "idle" \/ r.broadcast # Elsewhere
      BY <2>1, <3>1 DEF News!Telling, News!ListedOnce
    <3>2. CASE place # "idle" /\ r.broadcast = Elsewhere
      BY <1>3, <2>1, <2>3, <3>2 DEF News!Telling
    <3> QED
      BY <3>1, <3>2
  <2> QED
    BY <1>3, <2>4, <2>5 DEF News!Listed
<1>4. ASSUME NEW w \in Workers, NEW u \in Ones \cup Thirds, News!SendNotification(w, u) PROVE News!Listed'
  <2> DEFINE r == [op |-> "send", broadcast |-> None, all |-> {u}, left |-> <<u>>, notice |-> None]
  <2>1. News!At(w, r, "creating") /\ r.broadcast = None /\ UNCHANGED <<x1, x3, x4>>
    BY <1>4 DEF News!SendNotification, News!Begin
  <2> HIDE DEF r
  <2> QED
    BY <1>0, <1>1, <1>3, <2>1
<1>5. ASSUME NEW w \in Workers, NEW list \in News!Found, News!Broadcast(w, Elsewhere, list) PROVE News!Listed'
  <2> DEFINE all == {list[i] : i \in DOMAIN list}
             r == [op |-> "broadcast", broadcast |-> Elsewhere, all |-> all, left |-> list, notice |-> None]
  <2>1. /\ News!At(w, r, "creating") /\ UNCHANGED <<x1, x3, x4>> /\ x3[Elsewhere] = None
        /\ \A v \in Workers : pc[v] # "idle" => req[v].broadcast # Elsewhere
        /\ \A n \in Rows : News!Exists(x1[n]) => x1[n].broadcast # Elsewhere
    BY <1>5 DEF News!Broadcast, News!Begin
  <2>2. r.broadcast = Elsewhere /\ r.all = all /\ r.left = list
    OBVIOUS
  <2>3. \A i, j \in DOMAIN list : list[i] \notin Ones /\ list[j] = list[i] => j = i
    <3>1. CASE list = <<>>
      BY <3>1
    <3>2. ASSUME NEW u \in x2, list = <<u>> PROVE \A i, j \in DOMAIN list : j = i
      BY <3>2
    <3>3. ASSUME NEW a \in x2, NEW b \in x2, list = <<a, b>>, a = b => a \in Ones
          PROVE  \A i, j \in DOMAIN list : list[i] \notin Ones /\ list[j] = list[i] => j = i
      BY <3>3
    <3>4. list \in x2 \X x2 => \E a \in x2, b \in x2 : list = <<a, b>>
      OBVIOUS
    <3>5. \A a, b : list = <<a, b>> => list[1] = a /\ list[2] = b
      OBVIOUS
    <3> QED
      BY <3>1, <3>2, <3>3, <3>4, <3>5 DEF News!Found
  <2>4. \A u : News!Told(Elsewhere, u)' = {}
    BY <2>1 DEF News!Told
  <2>5. req'[w] = r => News!ListedOnce(w)' /\ \A u \in r.all : News!Owed(w, u)'
    BY <2>2, <2>3, <2>4 DEF News!ListedOnce, News!Owed
  <2> HIDE DEF r
  <2> QED
    BY <1>1, <1>3, <2>1, <2>2, <2>5
\* A notification is created for the first of the list.
<1>6. ASSUME NEW w \in Workers, News!CreateNotification(w) PROVE News!Listed'
  <2> DEFINE first == Head(req[w].left)  rest == Tail(req[w].left)  b == req[w].broadcast
  <2>1. PICK n \in Rows :
          /\ x1[n] = None
          /\ x1' = [x1 EXCEPT ![n] = [to |-> first, broadcast |-> b, status |-> "PENDING"]]
          /\ News!Continue(w, [req[w] EXCEPT !.left = Tail(@), !.notice = n], "sending")
    BY <1>6 DEF News!CreateNotification
  <2>2. pc[w] # "idle" /\ req[w].left # <<>> /\ first \in x2 /\ UNCHANGED <<x2, x3, x4, x5>>
    BY <1>6 DEF News!CreateNotification
  <2>3. /\ req[w] \in [op : {"send", "broadcast"}, broadcast : {Elsewhere} \cup {None},
                       all : SUBSET (Ones \cup Thirds), left : Seq(Ones \cup Thirds), notice : Rows \cup {None}]
    BY <1>6 DEF News!CreateNotification, News!Settled, News!Sound, News!Carrying
  <2> DEFINE r == [req[w] EXCEPT !.left = Tail(@), !.notice = n]
  <2>4. r.left = rest /\ r.notice = n /\ r.broadcast = b /\ r.all = req[w].all
    BY <2>3
  <2>5. News!At(w, r, "sending")
    BY <2>1 DEF News!Continue
  <2> HIDE DEF r
  <2>6. /\ x1'[n].to = first /\ x1'[n].broadcast = b
        /\ \A m \in Rows \ {n} : x1'[m] = x1[m]
    BY <2>1 DEF News!Settled, News!TypeOK
  <2>7. /\ DOMAIN req[w].left = 1 .. Len(req[w].left) /\ DOMAIN rest = 1 .. Len(rest)
        /\ Len(req[w].left) = Len(rest) + 1 /\ Len(rest) \in Nat
        /\ first = req[w].left[1] /\ \A i \in 1 .. Len(rest) : rest[i] = req[w].left[i + 1]
    BY <2>2, <2>3
  <2> HIDE DEF first, rest
  <2>8. \A u : News!Told(Elsewhere, u)' \subseteq
                  News!Told(Elsewhere, u) \cup {m \in {n} : b = Elsewhere /\ u = first}
    BY <2>6 DEF News!Told
  <2>9. News!EverybodyTold'
    BY <2>2 DEF News!EverybodyTold, News!Listed
  <2>10. ASSUME b = Elsewhere
         PROVE  /\ first \notin Ones => News!Told(Elsewhere, first) = {}
                /\ \A i \in DOMAIN rest : rest[i] \notin Ones =>
                      /\ News!Told(Elsewhere, rest[i]) = {} /\ rest[i] # first
                      /\ \A j \in DOMAIN rest : rest[j] = rest[i] => j = i
    <3>1. \A i \in 1 .. Len(req[w].left) : req[w].left[i] \notin Ones =>
              /\ News!Told(Elsewhere, req[w].left[i]) = {}
              /\ \A j \in 1 .. Len(req[w].left) : req[w].left[j] = req[w].left[i] => j = i
      BY <2>2, <2>7, <2>10 DEF News!Listed, News!ListedOnce
    <3>2. 1 \in 1 .. Len(req[w].left) /\ \A i \in 1 .. Len(rest) : i + 1 \in 1 .. Len(req[w].left) /\ i + 1 # 1
      BY <2>7
    <3>3. first \notin Ones => News!Told(Elsewhere, first) = {}
      BY <2>7, <3>1, <3>2
    <3>4. ASSUME NEW i \in 1 .. Len(rest), rest[i] \notin Ones
          PROVE  /\ News!Told(Elsewhere, rest[i]) = {} /\ rest[i] # first
                 /\ \A j \in 1 .. Len(rest) : rest[j] = rest[i] => j = i
      <4>1. /\ rest[i] = req[w].left[i + 1] /\ i + 1 \in 1 .. Len(req[w].left) /\ i + 1 # 1
            /\ \A j \in 1 .. Len(rest) : i + 1 = j + 1 => i = j
        BY <2>7, <3>2
      <4> QED
        BY <2>7, <3>1, <3>2, <3>4, <4>1
    <3> QED
      BY <2>7, <3>3, <3>4
  <2>11. News!NobodyTwice'
    <3>1. ASSUME NEW u \in (Ones \cup Thirds) \ Ones, NEW k \in News!Told(Elsewhere, u)',
                 NEW m \in News!Told(Elsewhere, u)'
          PROVE  k = m
      BY <2>8, <2>10, <3>1 DEF News!Listed, News!NobodyTwice
    <3> QED
      BY <3>1 DEF News!NobodyTwice
  <2>12. ASSUME pc'[w] = "sending", req'[w] = r, b = Elsewhere
         PROVE  /\ x3'[Elsewhere] = None
                /\ \A u \in r.all : <<Elsewhere, u>> \in x4' \/ News!Owed(w, u)'
                /\ News!ListedOnce(w)'
    <3>1. /\ x3[Elsewhere] = None
          /\ \A u \in req[w].all : <<Elsewhere, u>> \in x4 \/ News!Owed(w, u)
      BY <2>2, <2>12 DEF News!Listed, News!Telling
    <3>2. ASSUME NEW u, News!Owed(w, u) PROVE News!Owed(w, u)'
      <4>1. pc[w] = "creating"
        BY <1>6 DEF News!CreateNotification
      <4>2. PICK i \in 1 .. Len(req[w].left) : req[w].left[i] = u
        BY <2>7, <3>2, <4>1 DEF News!Owed
      <4>5. req'[w].left = rest /\ req'[w].notice = n /\ pc'[w] = "sending"
        BY <2>4, <2>12
      <4>3. CASE i = 1
        <5>1. x1'[n].to = u
          BY <2>6, <2>7, <4>2, <4>3
        <5> QED
          BY <4>5, <5>1 DEF News!Owed
      <4>4. CASE i # 1
        <5>1. i - 1 \in 1 .. Len(rest) /\ rest[i - 1] = u
          BY <2>7, <4>2, <4>4
        <5>2. i - 1 \in DOMAIN rest
          BY <2>7, <5>1
        <5> QED
          BY <4>5, <5>1, <5>2 DEF News!Owed
      <4> QED
        BY <4>3, <4>4
    <3>3. News!ListedOnce(w)'
      <4>1. ASSUME NEW u, NEW i \in DOMAIN rest, u = rest[i], u \notin Ones PROVE News!Told(Elsewhere, u)' = {}
        <5>1. News!Told(Elsewhere, u) = {} /\ u # first
          BY <2>10, <2>12, <4>1
        <5> QED
          BY <2>8, <5>1
      <4>2. req'[w].left = rest /\ req'[w].broadcast = Elsewhere
        BY <2>4, <2>12
      <4> QED
        BY <2>10, <2>12, <4>1, <4>2 DEF News!ListedOnce
    <3> QED
      BY <2>2, <2>4, <3>1, <3>2, <3>3
  <2>13. \A m \in Rows : News!Exists(x1'[m]) =>
                \/ News!Exists(x1[m]) /\ x1'[m].to = x1[m].to /\ x1'[m].broadcast = x1[m].broadcast
                \/ x1[m] = None /\ pc[w] # "idle" /\ x1'[m].broadcast = b
    BY <2>1, <2>2, <2>6
  <2> QED
    BY <1>3, <2>2, <2>4, <2>5, <2>9, <2>11, <2>12, <2>13
\* Who is marked as told is owed nothing more.
<1>7. ASSUME NEW w \in Workers, News!MarkSent(w) PROVE News!Listed'
  <2> DEFINE r == [req[w] EXCEPT !.notice = None]  b == req[w].broadcast
  <2>1. pc[w] = "sending" /\ News!Exists(x1[req[w].notice]) /\ News!At(w, r, "creating")
        /\ x4' = x4 \cup {<<b, x1[req[w].notice].to>>} /\ UNCHANGED <<x2, x3, x5>>
    BY <1>7 DEF News!MarkSent, News!Continue
  <2>2. PICK n \in Rows : n = req[w].notice /\ x1[n] \in News!Notification
    BY <2>1 DEF News!Settled, News!Sound, News!Sending, News!TypeOK, News!Exists
  <2>3. PICK status \in {"SENT", "FAILED"} : x1' = [x1 EXCEPT ![n].status = status]
    BY <1>7, <2>2 DEF News!MarkSent
  <2>4. /\ r.left = req[w].left /\ r.broadcast = b /\ r.all = req[w].all
    <3>1. req[w] \in [op : {"send", "broadcast"}, broadcast : {Elsewhere} \cup {None},
                      all : SUBSET (Ones \cup Thirds), left : Seq(Ones \cup Thirds), notice : Rows \cup {None}]
      BY <2>1 DEF News!Settled, News!Sound, News!Carrying
    <3> QED
      BY <3>1
  <2> HIDE DEF r
  <2>5. \A m \in Rows : News!Exists(x1'[m]) =>
            News!Exists(x1[m]) /\ x1'[m].to = x1[m].to /\ x1'[m].broadcast = x1[m].broadcast
    BY <2>1, <2>2, <2>3 DEF News!Settled, News!TypeOK, News!Notification
  <2>6. News!EverybodyTold' /\ News!NobodyTwice'
    BY <1>1, <2>1, <2>5
  <2>7. ASSUME pc'[w] = "creating", req'[w] = r, b = Elsewhere
        PROVE  /\ x3'[Elsewhere] = None
               /\ \A u \in r.all : <<Elsewhere, u>> \in x4' \/ News!Owed(w, u)'
               /\ News!ListedOnce(w)'
    <3>1. /\ x3[Elsewhere] = None
          /\ \A u \in req[w].all : <<Elsewhere, u>> \in x4 \/ News!Owed(w, u)
      BY <2>1, <2>7 DEF News!Listed, News!Telling
    <3>2. ASSUME NEW u, News!Owed(w, u) PROVE <<Elsewhere, u>> \in x4' \/ News!Owed(w, u)'
      BY <2>1, <2>4, <2>7, <3>2 DEF News!Owed
    <3>3. \A u : News!Told(Elsewhere, u)' \subseteq News!Told(Elsewhere, u)
      BY <2>5 DEF News!Told
    <3>4. News!ListedOnce(w)'
      BY <2>1, <2>4, <2>7, <3>3 DEF News!Listed, News!ListedOnce
    <3> QED
      BY <2>1, <2>4, <3>1, <3>2, <3>4
  <2> QED
    BY <1>3, <2>1, <2>4, <2>5, <2>6, <2>7
\* A request ends, its list empty or not.
<1>8. ASSUME NEW w \in Workers, News!AllSent(w) PROVE News!Listed'
  <2>1. /\ pc[w] = "creating" /\ req[w].left = <<>> /\ UNCHANGED <<x1, x2, x4, x5>>
        /\ News!At(w, News!NoRequest, "idle")
        /\ x3' = IF req[w].op = "broadcast" THEN [x3 EXCEPT ![req[w].broadcast] = req[w].all] ELSE x3
    BY <1>8 DEF News!AllSent, News!Return, News!Continue
  <2>2. req[w].op = "broadcast" => req[w].broadcast = Elsewhere
    BY <2>1 DEF News!Settled, News!Sound, News!Carrying
  <2>3. News!EverybodyTold'
    <3>1. req[w].broadcast = Elsewhere => {Elsewhere} \X req[w].all \subseteq x4
      BY <2>1 DEF News!Listed, News!Telling, News!Owed
    <3>2. x3'[Elsewhere] = x3[Elsewhere] \/ (x3'[Elsewhere] = req[w].all /\ req[w].broadcast = Elsewhere)
      BY <2>1, <2>2 DEF News!Settled, News!TypeOK
    <3> QED
      BY <2>1, <3>1, <3>2 DEF News!EverybodyTold, News!Listed
  <2>4. News!NobodyTwice'
    BY <2>1 DEF News!NobodyTwice, News!Told, News!Listed
  <2> QED
    BY <1>3, <2>1, <2>2, <2>3, <2>4
<1>9. ASSUME NEW w \in Workers, News!CreationFails(w) \/ News!MarkFails(w) \/ News!AbortNotification(w)
      PROVE  News!Listed'
  <2>1. News!At(w, News!NoRequest, "idle") /\ UNCHANGED <<x1, x2, x3, x4, x5>>
    BY <1>9
       DEF News!CreationFails, News!MarkFails, News!AbortNotification, News!Die, News!Return,
              News!Continue
  <2> QED
    BY <1>1, <1>3, <2>1
<1>10. ASSUME NEW u \in Ones \cup Thirds, NEW some \in SUBSET Rows, News!MarkRead(u, some) PROVE News!Listed'
  <2>1. /\ \A n \in some : News!Exists(x1[n]) /\ x1'[n] = [x1[n] EXCEPT !.status = "READ"]
        /\ \A n \in Rows \ some : x1'[n] = x1[n]
        /\ UNCHANGED <<x3, x4, pc, req>>
    BY <1>10 DEF News!MarkRead, News!flights
  <2>2. \A n \in some : x1[n] \in News!Notification
    BY <2>1 DEF News!Settled, News!TypeOK, News!Exists
  <2>3. \A n \in some : x1'[n].to = x1[n].to /\ x1'[n].broadcast = x1[n].broadcast
    BY <2>1, <2>2 DEF News!Notification
  <2> QED
    BY <1>2, <2>1, <2>3
<1>11. ASSUME NEW some \in SUBSET Rows, News!CleanupNotifications(some) PROVE News!Listed'
  <2>1. /\ \A n \in Rows : x1'[n] \in {x1[n], Gone}
        /\ UNCHANGED <<x3, x4, pc, req>>
    BY <1>11 DEF News!CleanupNotifications, News!flights
  <2> QED
    BY <1>2, <2>1 DEF News!Exists
<1>12. ASSUME NEW u \in Ones \cup Thirds, News!DeleteUser(u) PROVE News!Listed'
  <2>1. /\ \A n \in Rows : x1'[n] \in {x1[n], Gone}
        /\ UNCHANGED <<x3, x4, pc, req>>
    BY <1>12 DEF News!DeleteUser, News!flights
  <2> QED
    BY <1>2, <2>1 DEF News!Exists
<1> QED
  BY <1>4, <1>5, <1>6, <1>7, <1>8, <1>9, <1>10, <1>11, <1>12 DEF News!Next, News!SecretariatDesk

LEMMA NewsNext == News!Inv /\ News!Next => News!Inv' /\ News!ReadStays
BY NewsSettled, NewsListed DEF News!Inv

\* Notifications that are all one are one at most.
LEMMA NewsToldOnce == News!Inv => News!ToldOnce
<1> SUFFICES ASSUME News!Inv, NEW b \in {Elsewhere}, NEW u \in Ones \cup Thirds, u \notin Ones
             PROVE  News!Cardinality(News!Told(b, u)) <= 1
  BY DEF News!ToldOnce
<1> DEFINE T == News!Told(b, u)
<1>1. \A m, n \in T : m = n
  BY DEF News!Inv, News!Listed, News!NobodyTwice
<1>2. \A S : News!Cardinality(S) = Cardinality(S)
  BY DEF News!Cardinality, Cardinality
<1> HIDE DEF T
<1>3. T = {} \/ \E n : T = {n}
  BY <1>1
<1>4. Cardinality(T) = 0 \/ Cardinality(T) = 1
  BY <1>3, FS_EmptySet, FS_Singleton
<1> QED
  BY <1>2, <1>4 DEF T

LEMMA NewsStays == News!Inv /\ UNCHANGED <<x1, x2, x3, x4, x5, pc, req, sent>> => News!Inv'
<1> SUFFICES ASSUME News!Inv, UNCHANGED <<x1, x2, x3, x4, x5, pc, req, sent>> PROVE News!Inv'
  OBVIOUS
<1>1. News!Settled'
  BY
     DEF News!Inv, News!Settled, News!Sound, News!Sending, News!Carrying, News!Exists,
            News!TypeOK, News!FlightsOK
<1>2. \A u : News!Told(Elsewhere, u)' = News!Told(Elsewhere, u)
  BY DEF News!Told, News!Exists
<1>3. News!EverybodyTold' /\ News!NobodyTwice'
  BY <1>2 DEF News!Inv, News!Listed, News!EverybodyTold, News!NobodyTwice
<1>4. ASSUME NEW w \in Workers PROVE News!Telling(w)' /\ News!ListedOnce(w)'
  <2>1. News!Telling(w) /\ News!ListedOnce(w)
    BY DEF News!Inv, News!Listed
  <2>2. \A u : News!Owed(w, u)' = News!Owed(w, u)
    BY DEF News!Owed, News!Exists
  <2>3. News!Telling(w)'
    BY <2>1, <2>2 DEF News!Telling
  <2> QED
    BY <1>2, <2>1, <2>3 DEF News!ListedOnce
<1> QED
  BY <1>1, <1>3, <1>4 DEF News!Inv, News!Listed

-----------------------------------------------------------------------------
\* FinancialEntries

LEMMA BooksConstants ==
    /\ IsFiniteSet(Ones)
    /\ MaxCalls \in Nat /\ FewCalls \in Nat /\ ManyCalls \in Nat /\ Logged \in Nat
    /\ None # Gone /\ None \notin Amounts /\ None \notin Books!VerificationStatus
    /\ None \notin Books!Entry /\ Gone \notin Books!Entry
BY ServicesAssumption

LEMMA BooksCardinality == \A S : Books!Cardinality(S) = Cardinality(S)
BY DEF Books!Cardinality, Cardinality

\* The entries of each status are all the entries.
LEMMA BooksCount ==
    ASSUME Books!TypeOK
    PROVE  /\ \A S : Books!Count(S) \in Nat
           /\ Books!Count(Books!Queries[1]) =
                 Books!Count(Books!Queries[2]) + Books!Count(Books!Queries[3]) + Books!Count(Books!Queries[4])
<1> DEFINE E(S) == {e \in Ones : Books!Exists(x1[e]) /\ x1[e].status \in S}
<1>1. \A S : IsFiniteSet(E(S)) /\ Cardinality(E(S)) \in Nat /\ Books!Count(S) = Cardinality(E(S))
  BY BooksConstants, FS_Subset, FS_CardinalityType, BooksCardinality DEF Books!Count
<1>2. \A S, T : S \cap T = {} => /\ E(S) \cap E(T) = {} /\ E(S) \cup E(T) = E(S \cup T)
  OBVIOUS
<1> HIDE DEF E
<1>3. \A S, T : S \cap T = {} => Books!Count(S \cup T) = Books!Count(S) + Books!Count(T)
  <2> SUFFICES ASSUME NEW S, NEW T, S \cap T = {}
               PROVE  Books!Count(S \cup T) = Books!Count(S) + Books!Count(T)
    OBVIOUS
  <2>1. Cardinality(E(S) \cup E(T)) = Cardinality(E(S)) + Cardinality(E(T)) - Cardinality(E(S) \cap E(T))
    BY <1>1, FS_Union
  <2>2. E(S) \cap E(T) = {} /\ E(S) \cup E(T) = E(S \cup T)
    BY <1>2
  <2>3. /\ Books!Count(S) = Cardinality(E(S)) /\ Books!Count(T) = Cardinality(E(T))
        /\ Books!Count(S \cup T) = Cardinality(E(S \cup T))
        /\ Cardinality(E(S)) \in Nat /\ Cardinality(E(T)) \in Nat
    BY <1>1
  <2>4. Cardinality(E(S \cup T)) = Cardinality(E(S)) + Cardinality(E(T)) - 0
    BY <2>1, <2>2, FS_EmptySet
  <2> QED
    BY <2>3, <2>4
<1>4. {"VERIFIE"} \cap {"EN_ATTENTE"} = {} /\ {"VERIFIE", "EN_ATTENTE"} \cap {"REJETE"} = {}
  OBVIOUS
<1>5. /\ {"VERIFIE"} \cup {"EN_ATTENTE"} = {"VERIFIE", "EN_ATTENTE"}
      /\ {"VERIFIE", "EN_ATTENTE"} \cup {"REJETE"} = Books!VerificationStatus
  BY DEF Books!VerificationStatus
<1>6. Books!Count(Books!VerificationStatus)
        = Books!Count({"VERIFIE"}) + Books!Count({"EN_ATTENTE"}) + Books!Count({"REJETE"})
  <2>1. Books!Count({"VERIFIE", "EN_ATTENTE"}) = Books!Count({"VERIFIE"}) + Books!Count({"EN_ATTENTE"})
    BY <1>3, <1>4, <1>5
  <2>2. Books!Count(Books!VerificationStatus) = Books!Count({"VERIFIE", "EN_ATTENTE"}) + Books!Count({"REJETE"})
    BY <1>3, <1>4, <1>5
  <2> QED
    BY <2>1, <2>2
<1>7. /\ Books!Queries[1] = Books!VerificationStatus /\ Books!Queries[2] = {"VERIFIE"}
      /\ Books!Queries[3] = {"EN_ATTENTE"} /\ Books!Queries[4] = {"REJETE"}
  BY DEF Books!Queries
<1> QED
  BY <1>1, <1>6, <1>7

LEMMA BooksInit == Books!Init => Books!Inv
<1> SUFFICES ASSUME Books!Init PROVE Books!Inv
  OBVIOUS
<1>1. Books!FlightsOK /\ \A w \in Workers : Books!Sound(w)
  BY BooksConstants DEF Books!Init, Books!InitFlights, Books!NoRequest, Books!FlightsOK, Books!Sound
<1>2. x5 = [got |-> <<0, 0, 0, 0>>, moved |-> FALSE]
  BY DEF Books!Init
<1>3. <<0, 0, 0, 0>> \in Seq(Nat) /\ Len(<<0, 0, 0, 0>>) = Len(Books!Queries)
  BY DEF Books!Queries
<1>4. x5 \in [got : Seq(Nat), moved : BOOLEAN] /\ Len(x5.got) = Len(Books!Queries) /\ Books!FiguresAddUp
  BY <1>2, <1>3 DEF Books!FiguresAddUp
<1>5. Books!VerifiedStands
  BY DEF Books!Init, Books!VerifiedStands
<1> QED
  BY <1>1, <1>4, <1>5 DEF Books!Init, Books!Inv, Books!TypeOK

\* Another request stays sound when its entry is as it was or they have met, and its
\* figures are of the same books or they have moved.
LEMMA BooksOther ==
    ASSUME Books!Inv, NEW v \in Workers, pc'[v] = pc[v] /\ req'[v] = req[v],
           x3 \subseteq x3',
           \A e \in Ones : \/ x1'[e] = x1[e]
                           \/ ("entry" \in DOMAIN req[v] /\ req[v].entry = e => e \in x3'),
           (x1' = x1 /\ (v \in x4 => v \in x4')) \/ (Books!Counting(v) => v \in x4')
    PROVE  Books!Sound(v)'
<1>1. CASE pc[v] = "idle"
  BY <1>1 DEF Books!Sound
<1>2. CASE Books!Changing(v)
  <2>1. PICK e \in Ones : e = req[v].entry /\ "entry" \in DOMAIN req[v]
    BY <1>2 DEF Books!Changing
  <2>2. x1[e] = req[v].read \/ e \in x3
    BY <1>2, <2>1 DEF Books!Changing
  <2>3. x1'[req'[v].entry] = req'[v].read \/ req'[v].entry \in x3'
    BY <2>1, <2>2
  <2> QED
    BY <1>2, <2>3 DEF Books!Sound, Books!Changing
<1>3. CASE Books!Counted(v)
  <2>1. v \in x4' \/ ((\A S : Books!Count(S)' = Books!Count(S)) /\ (v \in x4 => v \in x4'))
    BY <1>3 DEF Books!Counted, Books!Counting, Books!Count, Books!Exists
  <2> QED
    BY <1>3, <2>1 DEF Books!Sound, Books!Counted, Books!Queries
<1> QED
  BY <1>1, <1>2, <1>3 DEF Books!Inv, Books!Sound

\* A step of one request that changes no entry.
LEMMA BooksMove ==
    ASSUME Books!Inv, NEW w \in Workers, UNCHANGED <<x1, x2, x3>>,
           NEW r, NEW place, Books!At(w, r, place), sent' \in 0 .. MaxCalls,
           place = "idle" <=> r = Books!NoRequest,
           x4' \subseteq Workers /\ (\A v \in Workers \ {w} : v \in x4 => v \in x4'),
           x6' \subseteq {"audit", "discrepancy", "discrepancies"},
           x5' = x5 \/ (x5' \in [got : Seq(Nat), moved : BOOLEAN] /\ Len(x5'.got) = Len(Books!Queries)
                        /\ Books!FiguresAddUp'),
           pc'[w] = place /\ req'[w] = r => Books!Sound(w)'
    PROVE  Books!Inv'
<1>1. /\ Books!FlightsOK' /\ pc'[w] = place /\ req'[w] = r
      /\ \A v \in Workers \ {w} : pc'[v] = pc[v] /\ req'[v] = req[v]
  BY DEF Books!Inv, Books!TypeOK, Books!FlightsOK, Books!At
<1>2. Books!FiguresAddUp' /\ Books!VerifiedStands'
  BY DEF Books!Inv, Books!FiguresAddUp, Books!VerifiedStands
<1>3. Books!TypeOK'
  BY <1>1 DEF Books!Inv, Books!TypeOK, Books!Queries
<1>4. ASSUME NEW v \in Workers, v # w PROVE Books!Sound(v)'
  BY <1>1, <1>4, BooksOther
<1> QED
  BY <1>1, <1>2, <1>3, <1>4 DEF Books!Inv

\* An entry changes while the figures are told that the books have moved.
LEMMA BooksChange ==
    ASSUME Books!Inv, NEW e \in Ones, NEW row, NEW stated,
           row \in Books!Entry \cup {Gone}, stated \in Amounts \cup {None},
           x1' = [x1 EXCEPT ![e] = row], x2' = [x2 EXCEPT ![e] = stated],
           Books!Move, x3 \subseteq x3' /\ x3' \subseteq Ones, UNCHANGED <<x5, x6>>,
           Books!FlightsOK',
           \A v \in Workers : \/ pc'[v] = "idle"
                              \/ /\ pc'[v] = pc[v] /\ req'[v] = req[v]
                                 /\ ("entry" \in DOMAIN req[v] /\ req[v].entry = e => e \in x3'),
           stated # None /\ e \notin x3' => row = [amount |-> stated, status |-> "VERIFIE"]
    PROVE  Books!Inv'
<1>1. /\ x1' \in [Ones -> Books!Entry \cup {None, Gone}] /\ x2' \in [Ones -> Amounts \cup {None}]
      /\ x1'[e] = row /\ x2'[e] = stated
      /\ \A d \in Ones \ {e} : x1'[d] = x1[d] /\ x2'[d] = x2[d]
  BY DEF Books!Inv, Books!TypeOK
<1>2. x4' \subseteq Workers /\ \A v \in Workers : Books!Counting(v) => v \in x4'
  BY DEF Books!Move, Books!Inv, Books!TypeOK
<1>3. Books!TypeOK'
  BY <1>1, <1>2 DEF Books!Inv, Books!TypeOK, Books!Queries
<1>4. Books!VerifiedStands'
  BY <1>1 DEF Books!Inv, Books!VerifiedStands
<1>5. ASSUME NEW v \in Workers PROVE Books!Sound(v)'
  <2>1. CASE pc'[v] = "idle"
    BY <2>1 DEF Books!Sound
  <2>2. CASE pc'[v] # "idle"
    BY <1>1, <1>2, <2>2, BooksOther
  <2> QED
    BY <2>1, <2>2
<1> QED
  BY <1>3, <1>4, <1>5 DEF Books!Inv, Books!FiguresAddUp

LEMMA BooksCommits ==
    ASSUME Books!Inv, NEW w \in Workers, Books!CommitEntry(w) \/ Books!RemoveEntry(w)
    PROVE  Books!Inv'
<1>1. Books!Changing(w)
  BY DEF Books!CommitEntry, Books!RemoveEntry, Books!Inv, Books!Sound, Books!Counted
<1>2. PICK e \in Ones : e = req[w].entry
  BY <1>1 DEF Books!Changing
<1>3. /\ Books!At(w, Books!NoRequest, "idle") /\ UNCHANGED <<sent, x5, x6>> /\ Books!Move
      /\ x3' = IF Books!Alongside(w, "entry", e) THEN x3 \cup {e} ELSE x3
      /\ Books!Exists(x1[e])
  BY <1>2 DEF Books!CommitEntry, Books!RemoveEntry, Books!Meet, Books!Return, Books!Continue
<1>4. /\ Books!FlightsOK' /\ pc'[w] = "idle"
      /\ \A v \in Workers \ {w} : pc'[v] = pc[v] /\ req'[v] = req[v]
  BY <1>3 DEF Books!Inv, Books!TypeOK, Books!FlightsOK, Books!At
<1>5. /\ x3 \subseteq x3' /\ x3' \subseteq Ones
      /\ \A v \in Workers \ {w} : "entry" \in DOMAIN req[v] /\ req[v].entry = e => e \in x3'
  BY <1>3 DEF Books!Alongside, Books!Inv, Books!TypeOK
<1>6. PICK row \in Books!Entry \cup {Gone}, stated \in Amounts \cup {None} :
        /\ x1' = [x1 EXCEPT ![e] = row] /\ x2' = [x2 EXCEPT ![e] = stated]
        /\ stated # None /\ e \notin x3' => row = [amount |-> stated, status |-> "VERIFIE"]
  <2>1. /\ x1[e] \in Books!Entry /\ x2[e] \in Amounts \cup {None} /\ req[w].read \in Books!Entry
        /\ x1[e] = req[w].read \/ e \in x3
        /\ req[w].op # "verify" => req[w].read.status # "VERIFIE"
        /\ x2[e] # None /\ e \notin x3 => x1[e] = [amount |-> x2[e], status |-> "VERIFIE"]
    BY <1>1, <1>2, <1>3
       DEF Books!Changing, Books!Exists, Books!Inv, Books!TypeOK, Books!VerifiedStands
  <2>2. req[w].op # "verify" /\ e \notin x3 => x2[e] = None
    BY <2>1
  <2>3. x2 = [x2 EXCEPT ![e] = x2[e]]
    BY DEF Books!Inv, Books!TypeOK
  <2>4. CASE Books!RemoveEntry(w)
    BY <1>2, <1>5, <2>1, <2>2, <2>3, <2>4 DEF Books!RemoveEntry
  <2>5. CASE Books!CommitEntry(w)
    <3> DEFINE row == Books!Flush(x1[e], req[w].read, Books!Changed(req[w]))
    <3>1. row \in Books!Entry
      BY <1>1, <2>1 DEF Books!Flush, Books!Changed, Books!Entry, Books!Changing
    <3>2. /\ req[w].op = "verify" /\ req[w].status = "VERIFIE" /\ e \notin x3
             => row = [amount |-> req[w].read.amount, status |-> "VERIFIE"]
          /\ req[w].read.amount \in Amounts
      BY <1>1, <2>1, BooksConstants DEF Books!Flush, Books!Changed, Books!Entry, Books!Changing
    <3>3. x1' = [x1 EXCEPT ![e] = row]
      BY <1>2, <2>5 DEF Books!CommitEntry
    <3> HIDE DEF row
    <3>4. \/ req[w].op # "verify" /\ x2' = [x2 EXCEPT ![e] = x2[e]]
          \/ req[w].op = "verify" /\ req[w].status = "VERIFIE" /\ x2' = [x2 EXCEPT ![e] = req[w].read.amount]
          \/ x2' = [x2 EXCEPT ![e] = None]
      <4>1. CASE req[w].op = "update"
        <5>1. x2' = x2
          BY <2>5, <4>1 DEF Books!CommitEntry
        <5> QED
          BY <2>3, <4>1, <5>1
      <4>2. CASE req[w].op = "verify" /\ req[w].status = "VERIFIE"
        BY <1>2, <2>5, <4>2 DEF Books!CommitEntry
      <4>3. CASE req[w].op = "verify" /\ req[w].status # "VERIFIE"
        BY <1>2, <2>5, <4>3 DEF Books!CommitEntry
      <4> QED
        BY <1>1, <2>5, <4>1, <4>2, <4>3 DEF Books!CommitEntry, Books!Changing
    <3> QED
      BY <1>5, <2>1, <2>2, <3>1, <3>2, <3>3, <3>4
  <2> QED
    BY <2>4, <2>5
<1>7. \A v \in Workers : \/ pc'[v] = "idle"
                        \/ /\ pc'[v] = pc[v] /\ req'[v] = req[v]
                           /\ ("entry" \in DOMAIN req[v] /\ req[v].entry = e => e \in x3')
  <2> TAKE v \in Workers
  <2>1. CASE v = w
    BY <1>4, <2>1
  <2>2. CASE v # w
    BY <1>4, <1>5, <2>2
  <2> QED
    BY <2>1, <2>2
<1> QED
  BY <1>3, <1>4, <1>5, <1>6, <1>7, BooksChange

\* An entry is written, or a discrepancy, whose table there is not.
LEMMA BooksDesk ==
    ASSUME Books!Inv, (\E e \in Ones : Books!Commissaire(e)) \/ Books!DiscrepancyDesk
    PROVE  Books!Inv'
<1>1. ASSUME NEW e \in Ones, NEW m \in Amounts, Books!CreateEntry(e, m) PROVE Books!Inv'
  <2>1. /\ [amount |-> m, status |-> "EN_ATTENTE"] \in Books!Entry
        /\ x2 = [x2 EXCEPT ![e] = x2[e]] /\ x2[e] \in Amounts \cup {None}
        /\ x1[e] = None /\ x3 \subseteq Ones
        /\ Books!FlightsOK'
    BY <1>1 DEF Books!CreateEntry, Books!Entry, Books!VerificationStatus, Books!Inv, Books!TypeOK,
                Books!FlightsOK, Books!flights
  <2>2. x2[e] # None => e \in x3
    BY <2>1, BooksConstants
       DEF Books!Inv, Books!VerifiedStands, Books!TypeOK, Books!Entry, Books!VerificationStatus
  <2>3. \A v \in Workers : "entry" \in DOMAIN req[v] /\ req[v].entry = e => e \in x3
    <3>1. \A v \in Workers : Books!Changing(v) /\ req[v].entry = e => e \in x3
      BY <2>1, BooksConstants DEF Books!Changing
    <3>2. \A v \in Workers : ~Books!Changing(v) => "entry" \notin DOMAIN req[v]
      <4>1. \A v \in Workers : pc[v] = "idle" => req[v] = [op |-> "none"]
        BY DEF Books!Inv, Books!TypeOK, Books!FlightsOK, Books!NoRequest
      <4>2. \A v \in Workers : Books!Counted(v) => "entry" \notin DOMAIN req[v]
        BY DEF Books!Counted
      <4>3. \A v \in Workers : req[v] = [op |-> "none"] => "entry" \notin DOMAIN req[v]
        OBVIOUS
      <4> QED
        BY <4>1, <4>2, <4>3 DEF Books!Inv, Books!Sound
    <3> QED
      BY <3>1, <3>2
  <2>4. \A v \in Workers : /\ pc'[v] = pc[v] /\ req'[v] = req[v]
                           /\ "entry" \in DOMAIN req[v] /\ req[v].entry = e => e \in x3'
    BY <1>1, <2>3 DEF Books!CreateEntry, Books!flights
  <2>5. /\ x1' = [x1 EXCEPT ![e] = [amount |-> m, status |-> "EN_ATTENTE"]]
        /\ x2' = [x2 EXCEPT ![e] = x2[e]] /\ UNCHANGED <<x3, x5, x6>> /\ Books!Move
    BY <1>1, <2>1 DEF Books!CreateEntry
  <2> DEFINE row == [amount |-> m, status |-> "EN_ATTENTE"]
  <2>6. row \in Books!Entry \cup {Gone} /\ x1' = [x1 EXCEPT ![e] = row]
    BY <2>1, <2>5
  <2> HIDE DEF row
  <2>7. x2[e] # None /\ e \notin x3' => row = [amount |-> x2[e], status |-> "VERIFIE"]
    BY <2>2, <2>5
  <2> QED
    BY <2>1, <2>4, <2>5, <2>6, <2>7, BooksChange
<1>2. ASSUME Books!Fail("discrepancy") \/ Books!Fail("discrepancies") PROVE Books!Inv'
  <2>1. UNCHANGED <<x1, x2, x3, x4, x5, pc, req, sent>> /\ x6' \subseteq {"audit", "discrepancy", "discrepancies"}
    BY <1>2 DEF Books!Fail, Books!flights, Books!Inv, Books!TypeOK
  <2>2. Books!TypeOK' /\ Books!VerifiedStands' /\ Books!FiguresAddUp'
    BY <2>1
       DEF Books!Inv, Books!TypeOK, Books!FlightsOK, Books!Queries, Books!VerifiedStands,
              Books!FiguresAddUp
  <2>3. \A v \in Workers : Books!Sound(v)'
    BY <2>1, BooksOther
  <2> QED
    BY <2>2, <2>3 DEF Books!Inv
<1> QED
  BY <1>1, <1>2 DEF Books!Commissaire, Books!CreateDiscrepancy, Books!DiscrepancyDesk

\* A request comes in, a query is answered, or a request ends.
LEMMA BooksRequests ==
    ASSUME Books!Inv, NEW w \in Workers,
           \/ \E e \in Ones : Books!EntryRequest(w, e)
           \/ \E op \in {"stats", "audit"} : Books!AskFigures(w, op)
           \/ Books!EntryIsGone(w) \/ Books!Query(w) \/ Books!AnswerFigures(w) \/ Books!AbortEntry(w)
    PROVE  Books!Inv'
<1> USE DEF Books!bookVars
<1>1. ASSUME NEW e \in Ones, NEW op \in {"verify", "update", "delete"},
             NEW status \in Books!VerificationStatus \cup {None}, NEW amount \in Amounts \cup {None},
             op = "verify" => status \in Books!VerificationStatus /\ amount = None,
             op # "verify" => status = None,
             Books!ReadEntry(w, e, op, status, amount)
      PROVE  Books!Inv'
  <2> DEFINE r == [op |-> op, entry |-> e, read |-> x1[e], status |-> status, amount |-> amount]
  <2>1. Books!Begin(w, r, "changing") /\ UNCHANGED <<x1, x2, x3, x4, x5, x6>> /\ x1[e] \in Books!Entry
    BY <1>1 DEF Books!ReadEntry, Books!Exists, Books!Inv, Books!TypeOK
  <2>2. /\ r.entry = e /\ r.read = x1[e] /\ r # Books!NoRequest
        /\ \/ r \in [op : {"verify"}, entry : Ones, read : Books!Entry,
                     status : Books!VerificationStatus, amount : {None}]
           \/ /\ r \in [op : {"update", "delete"}, entry : Ones, read : Books!Entry,
                        status : {None}, amount : Amounts \cup {None}]
              /\ r.read.status # "VERIFIE"
    BY <1>1, <2>1 DEF Books!ReadEntry, Books!NoRequest
  <2> HIDE DEF r
  <2>3. pc'[w] = "changing" /\ req'[w] = r => Books!Sound(w)'
    BY <2>1, <2>2 DEF Books!Sound, Books!Changing
  <2> QED
    BY <2>1, <2>2, <2>3, BooksMove, BooksConstants
       DEF Books!Begin, Books!Inv, Books!TypeOK, Books!FlightsOK
<1>2. ASSUME NEW e \in Ones, Books!EntryRequest(w, e) PROVE Books!Inv'
  BY <1>1, <1>2 DEF Books!EntryRequest, Books!UpdateEntry, Books!DeleteEntry, Books!VerifyEntry
<1>3. ASSUME NEW op \in {"stats", "audit"}, Books!AskFigures(w, op) PROVE Books!Inv'
  <2> DEFINE r == [op |-> op, got |-> <<>>]
  <2>1. r \in [op : {"stats", "audit"}, got : Seq(Nat)] /\ r.got = <<>> /\ r # Books!NoRequest
    BY DEF Books!NoRequest
  <2>2. Books!Begin(w, r, "counting")
    BY <1>3 DEF Books!AskFigures
  <2> HIDE DEF r
  <2>3. pc'[w] = "counting" /\ req'[w] = r => Books!Sound(w)'
    BY <2>1 DEF Books!Sound, Books!Counted, Books!Queries
  <2>4. /\ x4' \subseteq Workers /\ \A v \in Workers \ {w} : v \in x4 => v \in x4'
        /\ x6' \subseteq {"audit", "discrepancy", "discrepancies"} /\ UNCHANGED <<x1, x2, x3, x5>>
    BY <1>3 DEF Books!AskFigures, Books!Inv, Books!TypeOK
  <2>5. sent' \in 0 .. MaxCalls /\ Books!At(w, r, "counting")
    BY <2>2, BooksConstants DEF Books!Begin, Books!Inv, Books!TypeOK, Books!FlightsOK
  <2> QED
    BY <2>1, <2>3, <2>4, <2>5, BooksMove
<1>4. ASSUME Books!Return(w), UNCHANGED <<x1, x2, x3, x4>>,
             x6' \subseteq {"audit", "discrepancy", "discrepancies"},
             x5' = x5 \/ (x5' \in [got : Seq(Nat), moved : BOOLEAN] /\ Len(x5'.got) = Len(Books!Queries)
                          /\ Books!FiguresAddUp')
      PROVE  Books!Inv'
  BY <1>4, BooksMove
     DEF Books!Return, Books!Continue, Books!Sound, Books!Inv, Books!TypeOK, Books!FlightsOK
<1>5. ASSUME Books!EntryIsGone(w) \/ Books!AbortEntry(w) PROVE Books!Inv'
  BY <1>4, <1>5 DEF Books!EntryIsGone, Books!AbortEntry, Books!Die, Books!Inv, Books!TypeOK
<1>6. CASE Books!Query(w)
  <2> DEFINE n == Books!Count(Books!Queries[Len(req[w].got) + 1])
             r == [req[w] EXCEPT !.got = Append(req[w].got, n)]
  <2>1. Books!Counted(w) /\ pc[w] = "counting" /\ Len(req[w].got) < Len(Books!Queries)
    BY <1>6 DEF Books!Query, Books!Counting, Books!Inv, Books!Sound, Books!Changing
  <2>2. n \in Nat
    BY BooksCount DEF Books!Inv
  <2>3. Books!Continue(w, r, "counting") /\ UNCHANGED <<x1, x2, x3, x4, x5, x6>>
    BY <1>6 DEF Books!Query
  <2>4. n = Books!Count(Books!Queries[Len(req[w].got) + 1])
    OBVIOUS
  <2> HIDE DEF n
  <2>5. /\ r \in [op : {"stats", "audit"}, got : Seq(Nat)] /\ r # Books!NoRequest
        /\ Len(r.got) = Len(req[w].got) + 1 /\ Len(r.got) <= Len(Books!Queries)
        /\ w \in x4 \/ \A i \in 1 .. Len(r.got) : r.got[i] = Books!Count(Books!Queries[i])
    <3>1. /\ req[w].got \in Seq(Nat)
          /\ w \in x4 \/ \A i \in 1 .. Len(req[w].got) : req[w].got[i] = Books!Count(Books!Queries[i])
      BY <2>1 DEF Books!Counted
    <3>2. /\ Append(req[w].got, n) \in Seq(Nat) /\ Len(Append(req[w].got, n)) = Len(req[w].got) + 1
          /\ \A i \in 1 .. Len(req[w].got) : Append(req[w].got, n)[i] = req[w].got[i]
          /\ Append(req[w].got, n)[Len(req[w].got) + 1] = n
      BY <2>2, <3>1
    <3>3. r \in [op : {"stats", "audit"}, got : Seq(Nat)] /\ r.got = Append(req[w].got, n) /\ r # Books!NoRequest
      BY <2>1, <3>2 DEF Books!Counted, Books!NoRequest
    <3>4. Len(Books!Queries) \in Nat /\ Len(req[w].got) \in Nat
      BY <3>1 DEF Books!Queries
    <3>5. \A i \in 1 .. Len(req[w].got) + 1 : i \in 1 .. Len(req[w].got) \/ i = Len(req[w].got) + 1
      BY <3>4
    <3> HIDE DEF r
    <3>6. /\ Len(r.got) = Len(req[w].got) + 1 /\ Len(r.got) <= Len(Books!Queries)
          /\ r.got[Len(req[w].got) + 1] = Books!Count(Books!Queries[Len(req[w].got) + 1])
          /\ \A i \in 1 .. Len(req[w].got) : r.got[i] = req[w].got[i]
      BY <2>1, <2>4, <3>2, <3>3, <3>4
    <3>7. w \in x4 \/ \A i \in 1 .. Len(r.got) : r.got[i] = Books!Count(Books!Queries[i])
      BY <3>1, <3>5, <3>6
    <3> QED
      BY <3>3, <3>6, <3>7
  <2> HIDE DEF r
  <2>6. \A S : Books!Count(S)' = Books!Count(S)
    BY <2>3 DEF Books!Count, Books!Exists
  <2>7. pc'[w] = "counting" /\ req'[w] = r => Books!Sound(w)'
    BY <2>3, <2>5, <2>6 DEF Books!Sound, Books!Counted, Books!Queries
  <2> QED
    BY <2>3, <2>5, <2>7, BooksMove DEF Books!Continue, Books!Inv, Books!TypeOK, Books!FlightsOK
<1>7. CASE Books!AnswerFigures(w)
  <2>1. Books!Counted(w) /\ Len(req[w].got) = Len(Books!Queries)
    BY <1>7 DEF Books!AnswerFigures, Books!Counting, Books!Inv, Books!Sound, Books!Changing
  <2> DEFINE f == [got |-> req[w].got, moved |-> w \in x4]
  <2>2. f \in [got : Seq(Nat), moved : BOOLEAN] /\ Len(f.got) = Len(Books!Queries)
    BY <2>1 DEF Books!Counted
  <2>3. f.moved \/ f.got[1] = f.got[2] + f.got[3] + f.got[4]
    <3>1. Len(Books!Queries) = 4
      BY DEF Books!Queries
    <3>2. w \in x4 \/ \A i \in 1 .. 4 : req[w].got[i] = Books!Count(Books!Queries[i])
      BY <2>1, <3>1 DEF Books!Counted
    <3>3. w \in x4 \/ req[w].got[1] = req[w].got[2] + req[w].got[3] + req[w].got[4]
      BY <3>2, BooksCount DEF Books!Inv
    <3> QED
      BY <3>3
  <2> HIDE DEF f
  <2>4. x5' = f => Books!FiguresAddUp'
    BY <2>3 DEF Books!FiguresAddUp
  <2>5. x5' = x5 \/ x5' = f
    BY <1>7 DEF Books!AnswerFigures, f
  <2>6. x6' \subseteq {"audit", "discrepancy", "discrepancies"}
    BY <1>7 DEF Books!AnswerFigures, Books!Inv, Books!TypeOK
  <2> QED
    BY <1>4, <1>7, <2>2, <2>4, <2>5, <2>6 DEF Books!AnswerFigures
<1> QED
  BY <1>2, <1>3, <1>5, <1>6, <1>7

LEMMA BooksNext == Books!Inv /\ Books!Next => Books!Inv'
BY BooksCommits, BooksDesk, BooksRequests DEF Books!Next, Books!ServeEntry

LEMMA BooksStays == Books!Inv /\ UNCHANGED <<x1, x2, x3, x4, x5, x6, pc, req, sent>> => Books!Inv'
<1> SUFFICES ASSUME Books!Inv, UNCHANGED <<x1, x2, x3, x4, x5, x6, pc, req, sent>> PROVE Books!Inv'
  OBVIOUS
<1>1. Books!TypeOK' /\ Books!FiguresAddUp' /\ Books!VerifiedStands'
  BY
     DEF Books!Inv, Books!TypeOK, Books!FlightsOK, Books!Queries, Books!FiguresAddUp,
            Books!VerifiedStands
<1>2. ASSUME NEW v \in Workers PROVE Books!Sound(v)'
  <2>1. pc'[v] = pc[v] /\ req'[v] = req[v]
    OBVIOUS
  <2> QED
    BY <2>1, BooksOther
<1> QED
  BY <1>1, <1>2 DEF Books!Inv

-----------------------------------------------------------------------------
\* PosteActions

LEMMA PostesConstants ==
    /\ IsFiniteSet(Ones)
    /\ MaxCalls \in Nat /\ FewCalls \in Nat /\ ManyCalls \in Nat /\ Logged \in Nat
    /\ None # Gone /\ None \notin Amounts /\ None \notin Rows
    /\ None \notin Postes!Act /\ Gone \notin Postes!Act
BY ServicesAssumption

LEMMA PostesCardinality == \A S : Postes!Cardinality(S) = Cardinality(S)
BY DEF Postes!Cardinality, Cardinality

LEMMA PostesFew ==
    /\ ~(Postes!Cardinality({}) > 1)
    /\ \A x : ~(Postes!Cardinality({x}) > 1)
<1>1. Cardinality({}) = 0 /\ \A x : Cardinality({x}) = 1
  BY FS_EmptySet, FS_Singleton
<1>2. Postes!Cardinality({}) = 0 /\ \A x : Postes!Cardinality({x}) = 1
  BY <1>1, PostesCardinality
<1> QED
  BY <1>2

LEMMA PostesInit == Postes!Init => Postes!Inv
<1> SUFFICES ASSUME Postes!Init PROVE Postes!Inv
  OBVIOUS
<1>1. Postes!FlightsOK /\ \A w \in Workers : Postes!Sound(w)
  BY PostesConstants
     DEF Postes!Init, Postes!InitFlights, Postes!NoRequest, Postes!FlightsOK, Postes!Sound
<1>2. Postes!ExpensesWait /\ Postes!ApprovalStands /\ Postes!FirstApproval
  BY PostesFew
     DEF Postes!Init, Postes!ExpensesWait, Postes!Published, Postes!Exists, Postes!ApprovalStands,
            Postes!FirstApproval
<1> QED
  BY <1>1, <1>2 DEF Postes!Init, Postes!Inv, Postes!TypeOK

\* Another request stays sound: its action is as it was, is new, or is gone, or
\* what has become of it is told.
LEMMA PostesOther ==
    ASSUME Postes!Inv, NEW v \in Workers, pc'[v] = pc[v] /\ req'[v] = req[v],
           x4 \subseteq x4', x6 \subseteq x6',
           \A a \in Ones :
              \/ x1'[a] = x1[a] /\ x3'[a] = x3[a]
              \/ x1[a] = None
              \/ x1'[a] = Gone
              \/ /\ x1[a] \in Postes!Act /\ x1'[a] \in Postes!Act
                 /\ (Postes!Approving(v, a) => x3'[a] = x3[a] \/ a \in x4')
                 /\ (Postes!Approving(v, a) => x1'[a].amount = x1[a].amount \/ a \in x6')
    PROVE  Postes!Sound(v)'
<1>1. CASE pc[v] = "idle"
  BY <1>1 DEF Postes!Sound
<1>2. CASE Postes!Asking(v)
  BY <1>2 DEF Postes!Sound, Postes!Asking
<1>3. CASE Postes!Revising(v)
  BY <1>3 DEF Postes!Sound, Postes!Revising
<1>4. CASE Postes!Agreeing(v)
  <2>1. CASE pc[v] = "reading"
    BY <1>4, <2>1 DEF Postes!Sound, Postes!Agreeing
  <2>2. CASE pc[v] = "changing"
    <3>1. PICK a \in Ones : a = req[v].act
      BY <1>4 DEF Postes!Agreeing
    <3>2. /\ Postes!Approving(v, a) /\ req[v].read \in Postes!Act /\ req[v].read.approved = None
          /\ x1[a] # None
          /\ x3[a] = {} \/ a \in x4 \/ ~Postes!Exists(x1[a])
          /\ a \in x6 \/ ~Postes!Exists(x1[a]) \/ x1[a].amount = req[v].read.amount
      BY <1>4, <2>2, <3>1 DEF Postes!Agreeing, Postes!Approving
    <3>3. /\ x1'[a] # None
          /\ x3'[a] = {} \/ a \in x4' \/ ~Postes!Exists(x1'[a])
          /\ a \in x6' \/ ~Postes!Exists(x1'[a]) \/ x1'[a].amount = req[v].read.amount
      <4>1. Postes!Exists(x1[a]) \/ x1[a] = Gone
        BY <3>2 DEF Postes!Exists
      <4>2. x1[a] \in Postes!Act => Postes!Exists(x1[a])
        BY PostesConstants DEF Postes!Exists
      <4>3. x1'[a] \in Postes!Act \cup {Gone} => x1'[a] # None
        BY PostesConstants
      <4> QED
        BY <3>1, <3>2, <4>1, <4>2, <4>3, PostesConstants DEF Postes!Exists
    <3> QED
      BY <1>4, <2>2, <3>1, <3>2, <3>3 DEF Postes!Sound, Postes!Agreeing
  <2> QED
    BY <1>4, <2>1, <2>2 DEF Postes!Agreeing
<1> QED
  BY <1>1, <1>2, <1>3, <1>4 DEF Postes!Inv, Postes!Sound

\* A step of one request that changes no action.
LEMMA PostesMove ==
    ASSUME Postes!Inv, NEW w \in Workers, UNCHANGED <<x1, x2, x3, x4, x5, x6>>,
           NEW r, NEW place, Postes!At(w, r, place), sent' \in 0 .. MaxCalls,
           place = "idle" <=> r = Postes!NoRequest,
           pc'[w] = place /\ req'[w] = r => Postes!Sound(w)'
    PROVE  Postes!Inv'
<1>1. /\ Postes!FlightsOK' /\ pc'[w] = place /\ req'[w] = r
      /\ \A v \in Workers \ {w} : pc'[v] = pc[v] /\ req'[v] = req[v]
  BY DEF Postes!Inv, Postes!TypeOK, Postes!FlightsOK, Postes!At
<1>2. Postes!TypeOK' /\ Postes!ExpensesWait' /\ Postes!ApprovalStands' /\ Postes!FirstApproval'
  BY <1>1 DEF Postes!Inv, Postes!TypeOK, Postes!ExpensesWait, Postes!Published, Postes!Exists,
              Postes!ApprovalStands, Postes!FirstApproval
<1>3. ASSUME NEW v \in Workers, v # w PROVE Postes!Sound(v)'
  BY <1>1, <1>3, PostesOther
<1> QED
  BY <1>1, <1>2, <1>3 DEF Postes!Inv

\* A request writes the row of one action and is answered.
LEMMA PostesChange ==
    ASSUME Postes!Inv, NEW w \in Workers, Postes!Return(w), NEW a \in Ones, NEW row, NEW said,
           row \in Postes!Act \cup {Gone}, said \in SUBSET (Rows \X Amounts),
           x1' = [x1 EXCEPT ![a] = row], x2' = x2, x3' = [x3 EXCEPT ![a] = said],
           x4 \subseteq x4' /\ x4' \subseteq Ones, x5 \subseteq x5' /\ x5' \subseteq Ones,
           x6 \subseteq x6' /\ x6' \subseteq x5',
           row \in Postes!Act =>
              /\ row.status = "PUBLIE" /\ row.category = "DEPENSE" => row.approved # None \/ a \in x5'
              /\ row.approved # None => <<row.approved, row.amount>> \in said \/ a \in x6'
              /\ row.approved = None => said = {},
           Postes!Cardinality(said) > 1 => a \in x4',
           \A v \in Workers \ {w} :
              \/ x1[a] = None
              \/ row = Gone
              \/ /\ x1[a] \in Postes!Act /\ row \in Postes!Act
                 /\ (Postes!Approving(v, a) => said = x3[a] \/ a \in x4')
                 /\ (Postes!Approving(v, a) => row.amount = x1[a].amount \/ a \in x6')
    PROVE  Postes!Inv'
<1>1. /\ Postes!FlightsOK' /\ pc'[w] = "idle"
      /\ \A v \in Workers \ {w} : pc'[v] = pc[v] /\ req'[v] = req[v]
  BY DEF Postes!Inv, Postes!TypeOK, Postes!FlightsOK, Postes!Return, Postes!Continue, Postes!At
<1>2. /\ x1' \in [Ones -> Postes!Act \cup {None, Gone}] /\ x3' \in [Ones -> SUBSET (Rows \X Amounts)]
      /\ x1'[a] = row /\ x3'[a] = said
      /\ \A d \in Ones \ {a} : x1'[d] = x1[d] /\ x3'[d] = x3[d]
  BY DEF Postes!Inv, Postes!TypeOK
<1>3. Postes!TypeOK'
  BY <1>1, <1>2 DEF Postes!Inv, Postes!TypeOK
<1>4. row \in Postes!Act \/ row = Gone
  OBVIOUS
<1>5. \A d \in Ones : d # a \/ x1'[d] = row
  BY <1>2
<1>6. Postes!ExpensesWait'
  BY <1>2, <1>4 DEF Postes!Inv, Postes!ExpensesWait, Postes!Published, Postes!Exists
<1>7. Postes!ApprovalStands'
  BY <1>2, <1>4 DEF Postes!Inv, Postes!ApprovalStands, Postes!Exists
<1>8. Postes!FirstApproval'
  BY <1>2, <1>4, PostesConstants DEF Postes!Inv, Postes!FirstApproval, Postes!Exists
<1>9. ASSUME NEW v \in Workers PROVE Postes!Sound(v)'
  <2>1. CASE v = w
    BY <1>1, <2>1 DEF Postes!Sound
  <2>2. CASE v # w
    BY <1>1, <1>2, <2>2, PostesOther
  <2> QED
    BY <2>1, <2>2
<1> QED
  BY <1>3, <1>6, <1>7, <1>8, <1>9 DEF Postes!Inv

\* An action is written: a draft, when it is an expense.
LEMMA PostesCreate ==
    ASSUME Postes!Inv, NEW w \in Workers, NEW c \in Postes!Categories, Postes!CreateAction(w, c)
    PROVE  Postes!Inv'
<1>1. req[w] \in [op : {"create"}, by : Thirds \cup Rows, poste : Postes!Postes, act : Ones,
                  read : {None}, status : {"PUBLIE"}, amount : Amounts]
  BY
     DEF Postes!CreateAction, Postes!Inv, Postes!Sound, Postes!Asking, Postes!Revising,
            Postes!Agreeing
<1>2. PICK a \in Ones : a = req[w].act
  BY <1>1
<1> DEFINE row == [poste |-> req[w].poste, category |-> c, amount |-> req[w].amount,
                   status |-> IF c = "DEPENSE" THEN "BROUILLON" ELSE req[w].status,
                   by |-> req[w].by, approved |-> None]
<1>3. /\ x1' = [x1 EXCEPT ![a] = row] /\ Postes!Return(w) /\ UNCHANGED <<x2, x3, x4, x5, x6>>
      /\ x1[a] = None
  BY <1>2 DEF Postes!CreateAction
<1>4. /\ row \in Postes!Act
      /\ row.status = "PUBLIE" => row.category # "DEPENSE"
      /\ row.approved = None
  BY <1>1 DEF Postes!Act, Postes!Categories, Postes!ActionStatus
<1> HIDE DEF row
<1>5. x3[a] = {} /\ x3' = [x3 EXCEPT ![a] = {}] /\ ~(Postes!Cardinality({}) > 1)
  BY <1>3, PostesFew DEF Postes!Inv, Postes!FirstApproval, Postes!TypeOK
<1>6. x4 \subseteq Ones /\ x5 \subseteq Ones /\ x6 \subseteq x5
  BY DEF Postes!Inv, Postes!TypeOK
<1> QED
  BY <1>3, <1>4, <1>5, <1>6, PostesChange

\* An approval is written to an expense, or what its creator changes of an action.
LEMMA PostesCommit ==
    ASSUME Postes!Inv, NEW w \in Workers, Postes!CommitAction(w)
    PROVE  Postes!Inv'
<1>1. Postes!Revising(w) \/ Postes!Agreeing(w)
  BY DEF Postes!CommitAction, Postes!Inv, Postes!Sound, Postes!Asking
<1>2. PICK a \in Ones : a = req[w].act
  BY <1>1 DEF Postes!Revising, Postes!Agreeing
<1> DEFINE row == Postes!Flush(x1[a], req[w].read, Postes!Changed(req[w]))
<1>3. /\ x1[a] \in Postes!Act /\ Postes!Exists(x1[a]) /\ x3[a] \in SUBSET (Rows \X Amounts)
      /\ x3 = [x3 EXCEPT ![a] = x3[a]]
      /\ x4 \subseteq Ones /\ x5 \subseteq Ones /\ x6 \subseteq x5
      /\ req[w].read \in Postes!Act
      /\ Postes!Return(w) /\ x2' = x2
      /\ pc[w] = "changing" /\ req[w].op # "delete"
  BY <1>1, <1>2
     DEF Postes!CommitAction, Postes!Inv, Postes!TypeOK, Postes!Exists, Postes!Revising,
            Postes!Agreeing
<1>4. x1' = [x1 EXCEPT ![a] = row]
  BY <1>2 DEF Postes!CommitAction
<1>5. /\ Postes!Cardinality(x3[a]) > 1 => a \in x4
      /\ x1[a].status = "PUBLIE" /\ x1[a].category = "DEPENSE" => x1[a].approved # None \/ a \in x5
      /\ x1[a].approved # None => <<x1[a].approved, x1[a].amount>> \in x3[a] \/ a \in x6
      /\ x1[a].approved = None => x3[a] = {}
  BY <1>3
     DEF Postes!Inv, Postes!ApprovalStands, Postes!ExpensesWait, Postes!Published,
            Postes!FirstApproval
<1>6. CASE req[w].op = "approve"
  <2>1. /\ req[w].by \in Rows /\ req[w].amount = None /\ req[w].status = "PUBLIE"
        /\ req[w].read.approved = None
        /\ x3[a] = {} \/ a \in x4
        /\ a \in x6 \/ x1[a].amount = req[w].read.amount
    BY <1>1, <1>2, <1>3, <1>6 DEF Postes!Revising, Postes!Agreeing
  <2>2. /\ row \in Postes!Act /\ row.amount = x1[a].amount /\ row.approved = req[w].by
        /\ row.approved # None
    BY <1>3, <1>6, <2>1, PostesConstants
       DEF Postes!Flush, Postes!Changed, Postes!Act, Postes!ActionStatus
  <2> HIDE DEF row
  <2> DEFINE pair == <<req[w].by, req[w].read.amount>>  said == x3[a] \cup {pair}
  <2>3. /\ x3' = [x3 EXCEPT ![a] = said] /\ UNCHANGED <<x5, x6>>
        /\ x4' = IF \E v \in Workers \ {w} : Postes!Approving(v, a) THEN x4 \cup {a} ELSE x4
    BY <1>2, <1>6 DEF Postes!CommitAction
  <2>4. pair \in Rows \X Amounts /\ pair \in said
    BY <1>3, <2>1 DEF Postes!Act
  <2>5. pair = <<row.approved, row.amount>> \/ a \in x6
    BY <2>1, <2>2
  <2>6. said = {pair} \/ a \in x4
    BY <2>1
  <2>7. said \in SUBSET (Rows \X Amounts)
    BY <1>3, <2>4
  <2> HIDE DEF pair, said
  <2>8. Postes!Cardinality(said) > 1 => a \in x4
    BY <2>6, PostesFew
  <2>9. x4 \subseteq x4' /\ x4' \subseteq Ones /\ \A v \in Workers \ {w} : Postes!Approving(v, a) => a \in x4'
    BY <1>3, <2>3
  <2>10. \A v \in Workers \ {w} :
           \/ x1[a] = None
           \/ row = Gone
           \/ /\ x1[a] \in Postes!Act /\ row \in Postes!Act
              /\ (Postes!Approving(v, a) => said = x3[a] \/ a \in x4')
              /\ (Postes!Approving(v, a) => row.amount = x1[a].amount \/ a \in x6')
    BY <1>3, <2>2, <2>9
  <2>11. <<row.approved, row.amount>> \in said \/ a \in x6'
    BY <2>3, <2>4, <2>5
  <2>12. x5 \subseteq x5' /\ x5' \subseteq Ones /\ x6 \subseteq x6' /\ x6' \subseteq x5'
    BY <1>3, <2>3
  <2>13. Postes!Cardinality(said) > 1 => a \in x4'
    BY <2>8, <2>9
  <2> QED
    BY <1>3, <1>4, <2>2, <2>3, <2>7, <2>9, <2>10, <2>11, <2>12, <2>13, PostesChange
<1>7. CASE req[w].op # "approve"
  <2>1. req[w].amount \in Amounts \cup {None} /\ req[w].status \in {None, "PUBLIE"}
    BY <1>1, <1>7 DEF Postes!Revising, Postes!Agreeing
  <2>2. row \in Postes!Act /\ row.approved = x1[a].approved
    BY <1>3, <1>7, <2>1 DEF Postes!Flush, Postes!Changed, Postes!Act, Postes!ActionStatus
  <2> HIDE DEF row
  <2>3. /\ x3' = [x3 EXCEPT ![a] = x3[a]] /\ UNCHANGED x4 /\ x5' = x5 \cup {a}
        /\ x6' = IF \/ x1[a].approved # None
                    \/ \E v \in Workers \ {w} : Postes!Approving(v, a)
                 THEN x6 \cup {a} ELSE x6
    BY <1>2, <1>3, <1>7 DEF Postes!CommitAction
  <2>4. /\ x6 \subseteq x6' /\ x6' \subseteq x5' /\ x5 \subseteq x5' /\ x5' \subseteq Ones /\ a \in x5'
        /\ x1[a].approved # None => a \in x6'
        /\ \A v \in Workers \ {w} : Postes!Approving(v, a) => a \in x6'
    BY <1>3, <2>3
  <2>5. \A v \in Workers \ {w} :
           \/ x1[a] = None
           \/ row = Gone
           \/ /\ x1[a] \in Postes!Act /\ row \in Postes!Act
              /\ (Postes!Approving(v, a) => x3[a] = x3[a] \/ a \in x4')
              /\ (Postes!Approving(v, a) => row.amount = x1[a].amount \/ a \in x6')
    BY <1>3, <2>2, <2>4
  <2>6. row.approved # None => <<row.approved, row.amount>> \in x3[a] \/ a \in x6'
    BY <2>2, <2>4
  <2>7. row.approved = None => x3[a] = {}
    BY <1>5, <2>2
  <2>8. x4 \subseteq x4' /\ x4' \subseteq Ones /\ (Postes!Cardinality(x3[a]) > 1 => a \in x4')
    BY <1>3, <1>5, <2>3
  <2> QED
    BY <1>3, <1>4, <2>2, <2>3, <2>4, <2>5, <2>6, <2>7, <2>8, PostesChange
<1> QED
  BY <1>6, <1>7

LEMMA PostesDelete ==
    ASSUME Postes!Inv, NEW w \in Workers, Postes!DeleteAction(w)
    PROVE  Postes!Inv'
<1>1. PICK a \in Ones : a = req[w].act
  BY
     DEF Postes!DeleteAction, Postes!Inv, Postes!Sound, Postes!Asking, Postes!Revising,
            Postes!Agreeing
<1>2. /\ x1' = [x1 EXCEPT ![a] = Gone] /\ Postes!Return(w) /\ UNCHANGED <<x2, x3, x4, x5, x6>>
  BY <1>1 DEF Postes!DeleteAction
<1>3. /\ x3 = [x3 EXCEPT ![a] = x3[a]] /\ x3[a] \in SUBSET (Rows \X Amounts)
      /\ x4 \subseteq Ones /\ x5 \subseteq Ones /\ x6 \subseteq x5
      /\ Postes!Cardinality(x3[a]) > 1 => a \in x4
  BY DEF Postes!Inv, Postes!TypeOK, Postes!ApprovalStands
<1> QED
  BY <1>2, <1>3, PostesConstants, PostesChange

\* Nominations change who holds a poste.
LEMMA PostesCouncil == ASSUME Postes!Inv, Postes!Council PROVE Postes!Inv'
<1>1. UNCHANGED <<x1, x3, x4, x5, x6, pc, req, sent>> /\ x2' \subseteq Thirds \X Postes!Postes
  BY DEF Postes!Council, Postes!Nominate, Postes!Revoke, Postes!flights, Postes!Inv, Postes!TypeOK
<1>2. Postes!TypeOK' /\ Postes!ExpensesWait' /\ Postes!ApprovalStands' /\ Postes!FirstApproval'
  BY <1>1 DEF Postes!Inv, Postes!TypeOK, Postes!FlightsOK, Postes!ExpensesWait, Postes!Published,
              Postes!Exists, Postes!ApprovalStands, Postes!FirstApproval
<1>3. \A v \in Workers : Postes!Sound(v)'
  BY <1>1, PostesOther
<1> QED
  BY <1>2, <1>3 DEF Postes!Inv

\* A request comes in, looks at the holders and the row, or ends.
LEMMA PostesRequests ==
    ASSUME Postes!Inv, NEW w \in Workers,
           \/ \E u \in Thirds \cup Rows, p \in Postes!Postes, a \in Ones :
                 Postes!ActionRequest(w, u, p, a) \/ Postes!DeletionRequest(w, u, p, a)
           \/ \E u \in Thirds \cup Rows, a \in Ones : Postes!AskApproval(w, u, a)
           \/ Postes!Enter(w) \/ Postes!ReadAction(w) \/ Postes!ActionIsGone(w) \/ Postes!AbortAction(w)
    PROVE  Postes!Inv'
<1> USE DEF Postes!actVars
<1>0. sent \in 0 .. MaxCalls /\ (sent < MaxCalls => sent + 1 \in 0 .. MaxCalls)
  BY PostesConstants DEF Postes!Inv, Postes!TypeOK, Postes!FlightsOK
<1>1. ASSUME NEW u \in Thirds \cup Rows, NEW p \in Postes!Postes, NEW a \in Ones,
             NEW op \in {"create", "update", "delete"}, NEW s \in {None, "PUBLIE"},
             NEW m \in Amounts \cup {None}, op = "create" => s = "PUBLIE" /\ m \in Amounts,
             Postes!Ask(w, u, p, a, op, s, m)
      PROVE  Postes!Inv'
  <2> DEFINE r == [op |-> op, by |-> u, poste |-> p, act |-> a, read |-> None,
                   status |-> s, amount |-> m]
  <2>1. Postes!Begin(w, r, "entering") /\ UNCHANGED <<x1, x2, x3, x4, x5, x6>>
    BY <1>1 DEF Postes!Ask
  <2>2. /\ \/ r \in [op : {"create"}, by : Thirds \cup Rows, poste : Postes!Postes, act : Ones,
                     read : {None}, status : {"PUBLIE"}, amount : Amounts]
           \/ r \in [op : {"update", "delete"}, by : Thirds \cup Rows, poste : Postes!Postes,
                     act : Ones, read : {None}, status : {None, "PUBLIE"},
                     amount : Amounts \cup {None}]
        /\ r # Postes!NoRequest
    BY <1>1 DEF Postes!NoRequest
  <2> HIDE DEF r
  <2>3. pc'[w] = "entering" /\ req'[w] = r => Postes!Sound(w)'
    BY <2>2 DEF Postes!Sound, Postes!Asking
  <2> QED
    BY <1>0, <2>1, <2>2, <2>3, PostesMove DEF Postes!Begin
<1>2. ASSUME NEW u \in Thirds \cup Rows, NEW p \in Postes!Postes, NEW a \in Ones,
             Postes!ActionRequest(w, u, p, a) \/ Postes!DeletionRequest(w, u, p, a)
      PROVE  Postes!Inv'
  BY <1>1, <1>2 DEF Postes!ActionRequest, Postes!DeletionRequest
<1>3. ASSUME NEW u \in Thirds \cup Rows, NEW a \in Ones, Postes!AskApproval(w, u, a) PROVE Postes!Inv'
  <2> DEFINE r == [op |-> "approve", by |-> u, poste |-> None, act |-> a, read |-> None,
                   status |-> "PUBLIE", amount |-> None]
  <2>1. Postes!Begin(w, r, "reading") /\ UNCHANGED <<x1, x2, x3, x4, x5, x6>> /\ u \in Rows
    BY <1>3 DEF Postes!AskApproval
  <2>2. /\ r \in [op : {"approve"}, by : Rows, poste : {None}, act : Ones,
                  read : Postes!Act \cup {None}, status : {"PUBLIE"}, amount : {None}]
        /\ r # Postes!NoRequest
    BY <2>1 DEF Postes!NoRequest
  <2> HIDE DEF r
  <2>3. pc'[w] = "reading" /\ req'[w] = r => Postes!Sound(w)'
    BY <2>2 DEF Postes!Sound, Postes!Agreeing
  <2> QED
    BY <1>0, <2>1, <2>2, <2>3, PostesMove DEF Postes!Begin
<1>4. ASSUME Postes!Return(w), UNCHANGED <<x1, x2, x3, x4, x5, x6>> PROVE Postes!Inv'
  BY <1>0, <1>4, PostesMove DEF Postes!Return, Postes!Continue, Postes!Sound
<1>5. ASSUME Postes!ActionIsGone(w) \/ Postes!AbortAction(w) PROVE Postes!Inv'
  BY <1>4, <1>5 DEF Postes!ActionIsGone, Postes!AbortAction, Postes!Die
<1>6. ASSUME Postes!Enter(w) PROVE Postes!Inv'
  <2>1. Postes!Asking(w) /\ pc[w] = "entering" /\ UNCHANGED <<x1, x2, x3, x4, x5, x6>>
    BY <1>6 DEF Postes!Enter, Postes!Inv, Postes!Sound, Postes!Revising, Postes!Agreeing
  <2>2. CASE Postes!Return(w)
    BY <1>4, <2>1, <2>2
  <2>3. CASE req[w].op = "create" /\ Postes!Continue(w, req[w], "writing")
    <3>1. /\ req[w] \in [op : {"create"}, by : Thirds \cup Rows, poste : Postes!Postes, act : Ones,
                         read : {None}, status : {"PUBLIE"}, amount : Amounts]
          /\ req[w] # Postes!NoRequest
      BY <2>1, <2>3 DEF Postes!Asking, Postes!NoRequest
    <3>2. pc'[w] = "writing" /\ req'[w] = req[w] => Postes!Sound(w)'
      BY <3>1 DEF Postes!Sound, Postes!Asking
    <3> QED
      BY <1>0, <2>1, <2>3, <3>1, <3>2, PostesMove DEF Postes!Continue
  <2>4. CASE req[w].op # "create" /\ Postes!Continue(w, [req[w] EXCEPT !.poste = None], "reading")
    <3> DEFINE r == [req[w] EXCEPT !.poste = None]
    <3>1. /\ r \in [op : {"update", "delete"}, by : Thirds \cup Rows, poste : {None},
                    act : Ones, read : Postes!Act \cup {None}, status : {None, "PUBLIE"},
                    amount : Amounts \cup {None}]
          /\ r # Postes!NoRequest
      BY <2>1, <2>4 DEF Postes!Asking, Postes!NoRequest
    <3> HIDE DEF r
    <3>2. pc'[w] = "reading" /\ req'[w] = r => Postes!Sound(w)'
      BY <3>1 DEF Postes!Sound, Postes!Revising
    <3>3. Postes!Continue(w, r, "reading")
      BY <2>4 DEF r
    <3> QED
      BY <1>0, <2>1, <3>1, <3>2, <3>3, PostesMove DEF Postes!Continue
  <2> QED
    BY <1>6, <2>2, <2>3, <2>4 DEF Postes!Enter
<1>7. ASSUME Postes!ReadAction(w) PROVE Postes!Inv'
  <2>1. /\ Postes!Revising(w) \/ Postes!Agreeing(w)
        /\ pc[w] = "reading" /\ UNCHANGED <<x1, x2, x3, x4, x5, x6>>
    BY <1>7 DEF Postes!ReadAction, Postes!Inv, Postes!Sound, Postes!Asking
  <2>2. PICK a \in Ones : a = req[w].act
    BY <2>1 DEF Postes!Revising, Postes!Agreeing
  <2> DEFINE r == [req[w] EXCEPT !.read = x1[a]]
  <2>3. \/ Postes!Return(w)
        \/ /\ Postes!Exists(x1[a]) /\ Postes!Permitted(req[w], x1[a])
           /\ Postes!Continue(w, r, "changing")
    BY <1>7, <2>2 DEF Postes!ReadAction
  <2>4. CASE Postes!Return(w)
    BY <1>4, <2>1, <2>4
  <2>5. CASE /\ Postes!Exists(x1[a]) /\ Postes!Permitted(req[w], x1[a])
             /\ Postes!Continue(w, r, "changing")
    <3>1. x1[a] \in Postes!Act
      BY <2>5 DEF Postes!Exists, Postes!Inv, Postes!TypeOK
    <3>2. /\ r.act = a /\ r.read = x1[a] /\ r # Postes!NoRequest
          /\ \/ r \in [op : {"update", "delete"}, by : Thirds \cup Rows, poste : {None},
                       act : Ones, read : Postes!Act \cup {None}, status : {None, "PUBLIE"},
                       amount : Amounts \cup {None}]
             \/ /\ r \in [op : {"approve"}, by : Rows, poste : {None}, act : Ones,
                          read : Postes!Act \cup {None}, status : {"PUBLIE"}, amount : {None}]
                /\ x1[a].approved = None /\ x3[a] = {}
      <4>1. CASE Postes!Revising(w)
        BY <2>2, <3>1, <4>1 DEF Postes!Revising, Postes!NoRequest
      <4>2. CASE Postes!Agreeing(w)
        <5>1. x1[a].approved = None
          BY <2>5, <4>2 DEF Postes!Permitted, Postes!Agreeing
        <5>2. x3[a] = {}
          BY <2>5, <5>1 DEF Postes!Inv, Postes!FirstApproval
        <5> QED
          BY <2>2, <3>1, <4>2, <5>1, <5>2 DEF Postes!Agreeing, Postes!NoRequest
      <4> QED
        BY <2>1, <4>1, <4>2
    <3> HIDE DEF r
    <3>3. pc'[w] = "changing" /\ req'[w] = r => Postes!Sound(w)'
      BY <2>1, <2>5, <3>1, <3>2 DEF Postes!Sound, Postes!Revising, Postes!Agreeing, Postes!Exists
    <3> QED
      BY <1>0, <2>1, <2>5, <3>2, <3>3, PostesMove DEF Postes!Continue
  <2> QED
    BY <2>3, <2>4, <2>5
<1> QED
  BY <1>2, <1>3, <1>5, <1>6, <1>7

LEMMA PostesNext == Postes!Inv /\ Postes!Next => Postes!Inv'
BY PostesCreate, PostesCommit, PostesDelete, PostesCouncil, PostesRequests
   DEF Postes!Next, Postes!ServeAction

LEMMA PostesStays == Postes!Inv /\ UNCHANGED <<x1, x2, x3, x4, x5, x6, pc, req, sent>> => Postes!Inv'
BY DEF Postes!Inv, Postes!Sound, Postes!Agreeing, Postes!Revising, Postes!Asking, Postes!Exists,
       Postes!FirstApproval, Postes!ApprovalStands, Postes!ExpensesWait, Postes!Published,
       Postes!TypeOK, Postes!FlightsOK

-----------------------------------------------------------------------------
\* Permissions

LEMMA AccessConstants ==
    /\ IsFiniteSet(Ones)
    /\ MaxCalls \in Nat /\ FewCalls \in Nat /\ ManyCalls \in Nat /\ Logged \in Nat
    /\ None # Gone /\ None \notin Amounts /\ None \notin Rows
    /\ Tried \subseteq DOMAIN Access!Gates
BY ServicesAssumption

\* A parent is let in by no gate but his own and the one for everybody.
LEMMA AccessGates ==
    /\ \A gate \in {Access!Gates[g] : g \in Tried} \cup {Access!Anyone} :
          "PARENT" \in gate.roles => gate \in {Access!Anyone, Access!ParentOnly}
    /\ \A gate \in {Access!CommissaireStrict, Access!CenseurStrict, Access!Secretaire, Access!CouncilMember} :
          gate.roles = {}
<1> DEFINE closed ==
      {Access!AdminOnly, Access!AumonierOnly, Access!AdminOrAumonier, Access!ServantOnly,
       Access!Responsable, Access!ChargeLiturgie, Access!SportCulture, Access!Intendant,
       Access!Delegue, Access!DelegueOrSG, Access!Commissaire, Access!Econome, Access!Censeur,
       Access!CommissaireStrict, Access!CenseurStrict, Access!Secretaire, Access!SecretariatOrAdmin,
       Access!ConvocationManager, Access!CouncilMember, Access!OpenDisciplineCase,
       Access!ConvokeDiscipline, Access!VerdictAuthority, Access!ClassementDimanche,
       Access!ClassementSemaine, Access!SundayHistory, Access!ClassementManager}
<1>1. \A g \in DOMAIN Access!Gates : Access!Gates[g] \in closed \cup {Access!ParentOnly}
  BY DEF Access!Gates
<1>2. \A gate \in closed : "PARENT" \notin gate.roles
  BY DEF Access!Gate, Access!Clergy, Access!AdminOnly, Access!AumonierOnly, Access!AdminOrAumonier,
         Access!ServantOnly, Access!Responsable, Access!ChargeLiturgie, Access!SportCulture,
         Access!Intendant, Access!Delegue, Access!DelegueOrSG, Access!Commissaire, Access!Econome,
         Access!Censeur, Access!CommissaireStrict, Access!CenseurStrict, Access!Secretaire,
         Access!SecretariatOrAdmin, Access!ConvocationManager, Access!CouncilMember,
         Access!OpenDisciplineCase, Access!ConvokeDiscipline, Access!VerdictAuthority,
         Access!ClassementDimanche, Access!ClassementSemaine, Access!SundayHistory,
         Access!ClassementManager
<1>3. \A gate \in {Access!CommissaireStrict, Access!CenseurStrict, Access!Secretaire, Access!CouncilMember} :
          gate.roles = {}
  BY
     DEF Access!CommissaireStrict, Access!CenseurStrict, Access!Secretaire, Access!CouncilMember,
            Access!Gate
<1> HIDE DEF closed
<1> QED
  BY <1>1, <1>2, <1>3, AccessConstants

LEMMA AccessInit == Access!Init => Access!Inv
<1> SUFFICES ASSUME Access!Init PROVE Access!Inv
  OBVIOUS
<1>1. Access!FlightsOK /\ \A w \in Workers : Access!Sound(w)
  BY AccessConstants
     DEF Access!Init, Access!InitFlights, Access!FlightsOK, Access!Sound, Access!NoRequest
<1>2. x1 \in [role : Access!Roles, active : BOOLEAN]
  BY DEF Access!Init
<1> QED
  BY <1>1, <1>2 DEF Access!Init, Access!Inv, Access!TypeOK, Access!ActsAreEntitled

\* The account or its postes change, and every request in flight is told so.
LEMMA AccessChange ==
    ASSUME Access!Inv, Access!Change, UNCHANGED <<x2, x5, pc, req, sent>>,
           x1' \in [role : Access!Roles, active : BOOLEAN], x1'.role = x1.role,
           x3' \cup x4' \subseteq Posts
    PROVE  Access!Inv'
<1>1. Access!TypeOK' /\ Access!ActsAreEntitled'
  BY DEF Access!Inv, Access!TypeOK, Access!FlightsOK, Access!ActsAreEntitled, Access!Change
<1>2. ASSUME NEW v \in Workers PROVE Access!Sound(v)'
  BY DEF Access!Inv, Access!Sound, Access!Change
<1> QED
  BY <1>1, <1>2 DEF Access!Inv

\* A step of one request.
LEMMA AccessMove ==
    ASSUME Access!Inv, NEW w \in Workers, UNCHANGED <<x1, x2, x3, x4>>,
           NEW r, NEW place, Access!At(w, r, place), sent' \in 0 .. FewCalls,
           place = "idle" <=> r = Access!NoRequest,
           x6' \subseteq Workers /\ (\A v \in Workers \ {w} : v \in x6 => v \in x6'),
           x5' = x5 \/ (x5'.gate \in {Access!Gates[g] : g \in Tried} \cup {Access!Anyone}
                        /\ Access!ActsAreEntitled'),
           pc'[w] = place /\ req'[w] = r => Access!Sound(w)'
    PROVE  Access!Inv'
<1>1. /\ Access!FlightsOK' /\ pc'[w] = place /\ req'[w] = r
      /\ \A v \in Workers \ {w} : pc'[v] = pc[v] /\ req'[v] = req[v]
  BY DEF Access!Inv, Access!TypeOK, Access!FlightsOK, Access!At
<1>2. Access!TypeOK' /\ Access!ActsAreEntitled'
  BY <1>1 DEF Access!Inv, Access!TypeOK, Access!ActsAreEntitled
<1>3. ASSUME NEW v \in Workers, v # w PROVE Access!Sound(v)'
  BY <1>1, <1>3 DEF Access!Inv, Access!Sound
<1> QED
  BY <1>1, <1>2, <1>3 DEF Access!Inv

LEMMA AccessAsks ==
    ASSUME Access!Inv, NEW w \in Workers,
           (\E gate \in Tried : Access!Ask(w, Access!Gates[gate])) \/ Access!Connect(w)
    PROVE  Access!Inv'
<1>1. PICK op \in {"call", "connect"}, gate \in {Access!Gates[g] : g \in Tried} \cup {Access!Anyone} :
        /\ Access!Begin(w, [op |-> op, gate |-> gate], "identifying")
        /\ x6' = x6 \ {w} /\ UNCHANGED <<x1, x2, x3, x4, x5>>
  BY DEF Access!Ask, Access!Connect, Access!permissionTables
<1> DEFINE r == [op |-> op, gate |-> gate]
<1>2. /\ r \in [op : {"call", "connect"}, gate : {Access!Gates[g] : g \in Tried} \cup {Access!Anyone}]
      /\ r # Access!NoRequest
  BY DEF Access!NoRequest
<1>3. sent' \in 0 .. FewCalls /\ Access!At(w, r, "identifying")
  BY <1>1, AccessConstants DEF Access!Begin, Access!Inv, Access!TypeOK, Access!FlightsOK
<1> HIDE DEF r
<1>4. pc'[w] = "identifying" /\ req'[w] = r => Access!Sound(w)'
  BY <1>2 DEF Access!Sound
<1>5. x6' \subseteq Workers
  BY <1>1 DEF Access!Inv, Access!TypeOK
<1> QED
  BY <1>1, <1>2, <1>3, <1>4, <1>5, AccessMove

LEMMA AccessServes ==
    ASSUME Access!Inv, NEW w \in Workers,
           Access!Identify(w) \/ Access!Entitle(w) \/ Access!Act(w) \/ Access!Leave(w)
    PROVE  Access!Inv'
<1> USE DEF Access!permissionTables, Access!permissionHistory
<1>1. /\ Access!Sound(w) /\ pc[w] # "idle" /\ UNCHANGED <<x1, x2, x3, x4, x6>>
      /\ x6 \subseteq Workers /\ sent \in 0 .. FewCalls
      /\ req[w] # Access!NoRequest
  BY
     DEF Access!Inv, Access!TypeOK, Access!FlightsOK, Access!Identify, Access!Entitle, Access!Act,
            Access!Leave, Access!Die
<1>2. ASSUME Access!Return(w),
             x5' = x5 \/ (x5'.gate \in {Access!Gates[g] : g \in Tried} \cup {Access!Anyone}
                          /\ Access!ActsAreEntitled')
      PROVE  Access!Inv'
  BY <1>1, <1>2, AccessMove DEF Access!Return, Access!Continue, Access!Sound
<1>3. CASE Access!Identify(w)
  <2>1. CASE Access!Return(w)
    BY <1>2, <1>3, <2>1 DEF Access!Identify
  <2>2. CASE x1.active /\ x1.role \in req[w].gate.roles /\ Access!Continue(w, req[w], "acting")
    <3>1. pc'[w] = "acting" /\ req'[w] = req[w] => Access!Sound(w)'
      BY <1>1, <2>2 DEF Access!Sound, Access!Passes
    <3> QED
      BY <1>1, <1>3, <2>2, <3>1, AccessMove DEF Access!Continue, Access!Identify
  <2>3. CASE x1.active /\ x1.role = "SERVANT" /\ Access!Continue(w, req[w], "entitling")
    <3>1. pc'[w] = "entitling" /\ req'[w] = req[w] => Access!Sound(w)'
      BY <1>1, <2>3 DEF Access!Sound
    <3> QED
      BY <1>1, <1>3, <2>3, <3>1, AccessMove DEF Access!Continue, Access!Identify
  <2> QED
    BY <1>3, <2>1, <2>2, <2>3 DEF Access!Identify
<1>4. CASE Access!Entitle(w)
  <2>1. CASE Access!Return(w)
    BY <1>2, <1>4, <2>1 DEF Access!Entitle
  <2>2. CASE x3 \cap req[w].gate.postes # {} /\ Access!Continue(w, req[w], "acting")
    <3>1. pc'[w] = "acting" /\ req'[w] = req[w] => Access!Sound(w)'
      BY <1>1, <1>4, <2>2 DEF Access!Sound, Access!Passes, Access!Entitle
    <3> QED
      BY <1>1, <1>4, <2>2, <3>1, AccessMove DEF Access!Continue, Access!Entitle
  <2> QED
    BY <1>4, <2>1, <2>2 DEF Access!Entitle
<1>5. CASE Access!Act(w)
  <2>1. /\ pc[w] = "acting"
        /\ req[w].gate \in {Access!Gates[g] : g \in Tried} \cup {Access!Anyone}
        /\ x1.role \in req[w].gate.roles \/ x1.role = "SERVANT"
        /\ w \in x6 \/ (x1.active /\ Access!Passes(req[w].gate, x1.role, x3))
    BY <1>1, <1>5 DEF Access!Act, Access!Sound
  <2>2. /\ x5'.gate = req[w].gate /\ x5'.role = x1.role
        /\ x5'.entitled \/ x5'.moved
    BY <1>5, <2>1 DEF Access!Act
  <2>3. Access!ActsAreEntitled'
    BY <2>1, <2>2, AccessGates DEF Access!ActsAreEntitled
  <2>4. CASE Access!Return(w)
    BY <1>2, <2>1, <2>2, <2>3, <2>4
  <2>5. CASE Access!Continue(w, req[w], "acting")
    <3>1. pc'[w] = "acting" /\ req'[w] = req[w] => Access!Sound(w)'
      BY <1>1, <2>1 DEF Access!Sound
    <3> QED
      BY <1>1, <2>1, <2>2, <2>3, <2>5, <3>1, AccessMove DEF Access!Continue
  <2> QED
    BY <1>5, <2>4, <2>5 DEF Access!Act
<1>6. CASE Access!Leave(w)
  BY <1>2, <1>6 DEF Access!Leave, Access!Die
<1> QED
  BY <1>3, <1>4, <1>5, <1>6

LEMMA AccessRow ==
    ASSUME Access!Inv,
           \/ \E p \in Posts : Access!Nominate(p) \/ Access!RevokeNomination(p)
           \/ \E b \in BOOLEAN : Access!SetActive(b)
    PROVE  Access!Inv'
<1>1. /\ Access!Change /\ UNCHANGED <<x2, x5, pc, req, sent>>
      /\ x1' \in [role : Access!Roles, active : BOOLEAN] /\ x1'.role = x1.role
      /\ x3' \cup x4' \subseteq Posts
  BY
     DEF Access!Nominate, Access!RevokeNomination, Access!SetActive, Access!flights, Access!Inv,
            Access!TypeOK
<1> QED
  BY <1>1, AccessChange

LEMMA AccessToken == ASSUME Access!Inv, Access!Logout \/ Access!LoginAgain PROVE Access!Inv'
<1>1. UNCHANGED <<x1, x3, x4, x5, x6, pc, req, sent>> /\ x2' \in BOOLEAN
  BY DEF Access!Logout, Access!LoginAgain, Access!flights, Access!permissionHistory
<1> QED
  BY <1>1 DEF Access!Inv, Access!TypeOK, Access!FlightsOK, Access!ActsAreEntitled, Access!Sound

LEMMA AccessNext == Access!Inv /\ Access!Next => Access!Inv'
BY AccessAsks, AccessServes, AccessRow, AccessToken DEF Access!Next

LEMMA AccessStays == Access!Inv /\ UNCHANGED <<x1, x2, x3, x4, x5, x6, pc, req, sent>> => Access!Inv'
<1> SUFFICES ASSUME Access!Inv, UNCHANGED <<x1, x2, x3, x4, x5, x6, pc, req, sent>> PROVE Access!Inv'
  OBVIOUS
<1>1. Access!TypeOK' /\ Access!ActsAreEntitled'
  BY DEF Access!Inv, Access!TypeOK, Access!FlightsOK, Access!ActsAreEntitled
<1>2. ASSUME NEW v \in Workers PROVE Access!Sound(v)'
  BY DEF Access!Inv, Access!Sound
<1> QED
  BY <1>1, <1>2 DEF Access!Inv

-----------------------------------------------------------------------------
\* Credentials

LEMMA LoginsConstants ==
    /\ IsFiniteSet(Ones)
    /\ MaxCalls \in Nat /\ FewCalls \in Nat /\ ManyCalls \in Nat /\ Logged \in Nat
    /\ None # Gone /\ None \notin Amounts /\ None \notin Rows
    /\ None \notin {"refresh", "reset", "sent", "used"} /\ Gone \notin {"refresh", "reset", "sent", "used"}
BY ServicesAssumption

LEMMA LoginsInit == Logins!Init => Logins!Inv
<1> SUFFICES ASSUME Logins!Init PROVE Logins!Inv
  OBVIOUS
<1>1. Logins!FlightsOK /\ \A w \in Workers : Logins!Sound(w)
  BY LoginsConstants
     DEF Logins!Init, Logins!InitFlights, Logins!FlightsOK, Logins!Sound, Logins!NoRequest
<1>2. Logins!TokensServeOnce /\ Logins!ServedAreListed
  BY DEF Logins!Init, Logins!TokensServeOnce, Logins!ServedAreListed
<1>3. Logins!CodesAnswerOnce /\ Logins!AnsweredAreUsed
  BY LoginsConstants DEF Logins!Init, Logins!CodesAnswerOnce, Logins!AnsweredAreUsed, Logins!Codes
<1> QED
  BY <1>1, <1>2, <1>3 DEF Logins!Init, Logins!Inv, Logins!TypeOK

\* Another request stays sound, when each token is as it was, is excused, or is of
\* the one that takes the step alone, and so for the codes.
LEMMA LoginsOther ==
    ASSUME Logins!Inv, NEW w \in Workers, NEW v \in Workers, v # w,
           pc'[v] = pc[v] /\ req'[v] = req[v], NEW r, req'[w] = r,
           \A u \in Workers \ {w} : pc'[u] = pc[u] /\ req'[u] = req[u],
           x7 \subseteq x7', \A t \in Rows \cup Thirds : Logins!Excused(t) => Logins!Excused(t)',
           \A t \in Rows \cup Thirds : x2[t] # None => x2'[t] = x2[t],
           \A c \in Others : x4[c] # None => x4'[c] # None,
           \A t \in Rows \cup Thirds :
              \/ Logins!Excused(t)' \/ ~Logins!Alongside(w, "token", t)
              \/ /\ x5'[t] = x5[t] /\ (t \in x3 => t \in x3') /\ ~Logins!HalfReset(w, t)
                 /\ ("token" \in DOMAIN r /\ r.token = t
                       => ("token" \in DOMAIN req[w] /\ req[w].token = t) \/ t \notin x3),
           \A c \in Others : x6'[c] = x6[c] \/ c \in x7' \/ ~Logins!Alongside(w, "code", c),
           \A c \in Logins!Codes("sent")' : \/ c \in Logins!Codes("sent") \/ c \in x7'
                                            \/ ~Logins!Alongside(w, "account", TRUE)
    PROVE  Logins!Sound(v)'
<1>1. CASE pc[v] = "idle"
  BY <1>1 DEF Logins!Sound
<1>2. CASE Logins!Using(v)
  <2>1. PICK t \in Rows \cup Thirds : t = req[v].token
    BY <1>2 DEF Logins!Using
  <2>2. /\ req[v] \in [op : {"refresh", "reset"}, token : Rows \cup Thirds] /\ x2[t] = req[v].op
        /\ "token" \in DOMAIN req[v] /\ x2'[t] = req[v].op
    BY <1>2, <2>1, LoginsConstants DEF Logins!Using
  <2>3. Logins!Alongside(w, "token", t)
    BY <2>1, <2>2 DEF Logins!Alongside
  <2>4. Logins!HalfReset(v, t)' <=> Logins!HalfReset(v, t)
    BY DEF Logins!HalfReset
  <2>5. CASE Logins!Excused(t)'
    BY <1>2, <2>1, <2>2, <2>4, <2>5 DEF Logins!Sound, Logins!Using
  <2>6. CASE ~Logins!Excused(t)'
    <3>1. /\ ~Logins!Excused(t) /\ x5'[t] = x5[t] /\ (t \in x3 => t \in x3') /\ ~Logins!HalfReset(w, t)
          /\ ("token" \in DOMAIN r /\ r.token = t
                => ("token" \in DOMAIN req[w] /\ req[w].token = t) \/ t \notin x3)
      BY <2>3, <2>6
    <3>2. \A u \in Workers \ {v} : Logins!HalfReset(u, t) => Logins!HalfReset(u, t)'
      BY <3>1 DEF Logins!HalfReset
    <3>3. t \in x3 /\ ~Logins!Alongside(v, "token", t) => ~Logins!Alongside(v, "token", t)'
      BY <3>1 DEF Logins!Alongside
    <3> QED
      BY <1>2, <2>1, <2>2, <2>4, <3>1, <3>2, <3>3 DEF Logins!Sound, Logins!Using
  <2> QED
    BY <2>5, <2>6
<1>3. CASE Logins!Coding(v)
  <2>1. Logins!Alongside(w, "account", TRUE)
    BY <1>3 DEF Logins!Coding, Logins!Alongside
  <2> QED
    BY <1>3, <2>1 DEF Logins!Sound, Logins!Coding
<1>4. CASE Logins!Marking(v)
  <2>1. PICK c \in Others : c = req[v].code
    BY <1>4 DEF Logins!Marking
  <2>2. "code" \in DOMAIN req[v] /\ Logins!Alongside(w, "code", c)
    BY <1>4, <2>1 DEF Logins!Marking, Logins!Alongside
  <2> QED
    BY <1>4, <2>1, <2>2 DEF Logins!Sound, Logins!Marking
<1> QED
  BY <1>1, <1>2, <1>3, <1>4 DEF Logins!Inv, Logins!Sound

\* A step of one request.
LEMMA LoginsStep ==
    ASSUME Logins!Inv, NEW w \in Workers, NEW r, NEW place, Logins!At(w, r, place),
           sent' \in 0 .. MaxCalls, place = "idle" <=> r = Logins!NoRequest,
           x1' = x1, x8' = x8, x2' \in [Rows \cup Thirds -> {None, "refresh", "reset"}],
           x3' \cup x9' \subseteq Rows \cup Thirds, x4' \in [Others -> {None, Gone, "sent", "used"}],
           x5' \in [Rows \cup Thirds -> Nat], x6' \in [Others -> Nat],
           x7 \subseteq x7', x7' \subseteq (Rows \cup Thirds) \cup Others, x9 \subseteq x9',
           \A t \in Rows \cup Thirds : x2[t] # None => x2'[t] = x2[t],
           \A c \in Others : x4[c] # None => x4'[c] # None,
           \A t \in Rows \cup Thirds :
              \/ Logins!Excused(t)'
              \/ /\ x5'[t] = x5[t] /\ (t \in x3 => t \in x3') /\ ~Logins!HalfReset(w, t)
                 /\ ("token" \in DOMAIN r /\ r.token = t
                       => ("token" \in DOMAIN req[w] /\ req[w].token = t) \/ t \notin x3)
              \/ /\ ~Logins!Alongside(w, "token", t) /\ x5'[t] <= 1
                 /\ x5'[t] > 0 => t \in x3' \/ (place = "revoking" /\ r.op = "reset" /\ r.token = t),
           \A c \in Others : \/ x6'[c] = x6[c] \/ c \in x7'
                             \/ x6'[c] <= 1 /\ ~Logins!Alongside(w, "code", c),
           \A c \in Others : x6'[c] > 0 => x4'[c] \in {"used", Gone},
           \A c \in Logins!Codes("sent")' : \/ c \in Logins!Codes("sent") \/ c \in x7'
                                            \/ ~Logins!Alongside(w, "account", TRUE),
           \A c, d \in Logins!Codes("sent")' : c # d => x7' \cap {c, d} # {},
           pc'[w] = place /\ req'[w] = r => Logins!Sound(w)'
    PROVE  Logins!Inv'
<1>1. /\ Logins!FlightsOK' /\ pc'[w] = place /\ req'[w] = r
      /\ \A v \in Workers \ {w} : pc'[v] = pc[v] /\ req'[v] = req[v]
  BY DEF Logins!Inv, Logins!TypeOK, Logins!FlightsOK, Logins!At
<1>2. Logins!TypeOK'
  BY <1>1 DEF Logins!Inv, Logins!TypeOK
<1>3. \A t \in Rows \cup Thirds : Logins!Excused(t) => Logins!Excused(t)'
  BY LoginsConstants DEF Logins!Excused
<1>4. Logins!CodesAnswerOnce' /\ Logins!AnsweredAreUsed'
  BY DEF Logins!Inv, Logins!CodesAnswerOnce, Logins!AnsweredAreUsed
<1>5. Logins!TokensServeOnce'
  BY <1>3 DEF Logins!Inv, Logins!TokensServeOnce, Logins!Excused
<1>6. Logins!ServedAreListed'
  <2> SUFFICES ASSUME NEW t \in Rows \cup Thirds, x5'[t] > 0, ~Logins!Excused(t)', t \notin x3'
               PROVE  \E v \in Workers : Logins!HalfReset(v, t)'
    BY DEF Logins!ServedAreListed
  <2>1. CASE x5'[t] = x5[t] /\ (t \in x3 => t \in x3') /\ ~Logins!HalfReset(w, t)
    <3>1. PICK v \in Workers : Logins!HalfReset(v, t)
      BY <1>3, <2>1 DEF Logins!Inv, Logins!ServedAreListed
    <3>2. Logins!HalfReset(v, t)'
      BY <1>1, <2>1, <3>1 DEF Logins!HalfReset
    <3> QED
      BY <3>2
  <2>2. CASE place = "revoking" /\ r.op = "reset" /\ r.token = t
    BY <1>1, <2>2 DEF Logins!HalfReset
  <2> QED
    BY <2>1, <2>2
<1>7. ASSUME NEW v \in Workers, v # w PROVE Logins!Sound(v)'
  BY <1>1, <1>3, <1>7, LoginsOther
<1> QED
  BY <1>1, <1>2, <1>4, <1>5, <1>6, <1>7 DEF Logins!Inv

\* A step of no request: a token is handed out, a code expires, the account is
\* suspended.
LEMMA LoginsOutside ==
    ASSUME Logins!Inv, UNCHANGED <<pc, req, sent, x3, x5, x6, x7, x8, x9>>, x1' \in BOOLEAN,
           x2' \in [Rows \cup Thirds -> {None, "refresh", "reset"}],
           x4' \in [Others -> {None, Gone, "sent", "used"}],
           \A t \in Rows \cup Thirds : x2[t] # None => x2'[t] = x2[t],
           \A c \in Others : x4'[c] = x4[c] \/ (x4'[c] = Gone /\ x4[c] # None)
    PROVE  Logins!Inv'
<1>1. Logins!TypeOK'
  BY DEF Logins!Inv, Logins!TypeOK, Logins!FlightsOK
<1>2. \A t \in Rows \cup Thirds : Logins!Excused(t) => Logins!Excused(t)'
  BY LoginsConstants DEF Logins!Excused
<1>3. Logins!TokensServeOnce'
  BY <1>2 DEF Logins!Inv, Logins!TokensServeOnce, Logins!Excused
<1>4. \A w \in Workers, t \in Rows \cup Thirds : Logins!HalfReset(w, t)' <=> Logins!HalfReset(w, t)
  BY DEF Logins!HalfReset
<1>5. Logins!ServedAreListed'
  BY <1>2, <1>4 DEF Logins!Inv, Logins!ServedAreListed
<1>6. \A c \in Logins!Codes("sent")' : c \in Logins!Codes("sent")
  BY LoginsConstants DEF Logins!Codes
<1>7. Logins!CodesAnswerOnce' /\ Logins!AnsweredAreUsed'
  BY <1>6 DEF Logins!Inv, Logins!CodesAnswerOnce, Logins!AnsweredAreUsed
<1>8. ASSUME NEW v \in Workers PROVE Logins!Sound(v)'
  <2>1. CASE pc[v] = "idle"
    BY <2>1 DEF Logins!Sound
  <2>2. CASE Logins!Using(v)
    <3>1. PICK t \in Rows \cup Thirds : t = req[v].token
      BY <2>2 DEF Logins!Using
    <3>2. x2'[t] = req[v].op
      BY <2>2, <3>1, LoginsConstants DEF Logins!Using
    <3>3. Logins!Alongside(v, "token", t)' <=> Logins!Alongside(v, "token", t)
      BY DEF Logins!Alongside
    <3> QED
      BY <1>2, <1>4, <2>2, <3>1, <3>2, <3>3 DEF Logins!Sound, Logins!Using
  <2>3. CASE Logins!Coding(v)
    BY <1>6, <2>3 DEF Logins!Sound, Logins!Coding
  <2>4. CASE Logins!Marking(v)
    <3>1. PICK c \in Others : c = req[v].code
      BY <2>4 DEF Logins!Marking
    <3>2. x4'[c] # None
      BY <2>4, <3>1, LoginsConstants DEF Logins!Marking
    <3> QED
      BY <2>4, <3>1, <3>2 DEF Logins!Sound, Logins!Marking
  <2> QED
    BY <2>1, <2>2, <2>3, <2>4 DEF Logins!Inv, Logins!Sound
<1> QED
  BY <1>1, <1>3, <1>5, <1>7, <1>8 DEF Logins!Inv

LEMMA LoginsRows ==
    ASSUME Logins!Inv,
           \/ \E b \in BOOLEAN : Logins!SetAccountActive(b)
           \/ \E t \in Rows \cup Thirds : Logins!Login(t) \/ Logins!ForgotPassword(t)
           \/ \E c \in Others : Logins!CodeExpires(c)
    PROVE  Logins!Inv'
<1> USE DEF Logins!credentialHistory, Logins!flights
<1>0. /\ x1 \in BOOLEAN /\ x2 \in [Rows \cup Thirds -> {None, "refresh", "reset"}]
      /\ x4 \in [Others -> {None, Gone, "sent", "used"}]
  BY DEF Logins!Inv, Logins!TypeOK
<1>1. ASSUME NEW b \in BOOLEAN, Logins!SetAccountActive(b) PROVE Logins!Inv'
  <2>1. UNCHANGED <<x2, x4, pc, req, sent, x3, x5, x6, x7, x8, x9>> /\ x1' \in BOOLEAN
    BY <1>0, <1>1 DEF Logins!SetAccountActive
  <2> QED
    BY <1>0, <2>1, LoginsOutside
<1>2. ASSUME NEW t \in Rows \cup Thirds, Logins!Login(t) \/ Logins!ForgotPassword(t) PROVE Logins!Inv'
  <2>1. /\ UNCHANGED <<x1, x4, pc, req, sent, x3, x5, x6, x7, x8, x9>>
        /\ x2[t] = None /\ x2' \in [Rows \cup Thirds -> {None, "refresh", "reset"}]
        /\ \A u \in Rows \cup Thirds : u # t => x2'[u] = x2[u]
    BY <1>0, <1>2 DEF Logins!Login, Logins!ForgotPassword, Logins!Issue
  <2> QED
    BY <1>0, <2>1, LoginsOutside
<1>3. ASSUME NEW c \in Others, Logins!CodeExpires(c) PROVE Logins!Inv'
  <2>1. /\ UNCHANGED <<x1, x2, pc, req, sent, x3, x5, x6, x7, x8, x9>>
        /\ x4[c] # None /\ x4' \in [Others -> {None, Gone, "sent", "used"}]
        /\ \A d \in Others : x4'[d] = IF d = c THEN Gone ELSE x4[d]
    BY <1>0, <1>3 DEF Logins!CodeExpires, Logins!Exists
  <2> QED
    BY <1>0, <2>1, LoginsOutside
<1> QED
  BY <1>1, <1>2, <1>3

\* The list is lost: every token is excused, and nobody is in flight.
LEMMA LoginsLoses == ASSUME Logins!Inv, Logins!LoseList PROVE Logins!Inv'
<1>1. /\ UNCHANGED <<x1, x2, x4, x5, x6, x7, x9, pc, req, sent>> /\ x3' = {} /\ x8' = TRUE
      /\ \A w \in Workers : pc[w] = "idle"
  BY DEF Logins!LoseList, Logins!flights
<1>2. Logins!TypeOK'
  BY <1>1 DEF Logins!Inv, Logins!TypeOK, Logins!FlightsOK
<1>3. Logins!TokensServeOnce' /\ Logins!ServedAreListed'
  BY <1>1 DEF Logins!TokensServeOnce, Logins!ServedAreListed, Logins!Excused
<1>4. Logins!CodesAnswerOnce' /\ Logins!AnsweredAreUsed'
  BY <1>1 DEF Logins!Inv, Logins!CodesAnswerOnce, Logins!AnsweredAreUsed, Logins!Codes
<1> QED
  BY <1>1, <1>2, <1>3, <1>4 DEF Logins!Inv, Logins!Sound

\* What a step that touches no token leaves to show, and one that touches no code.
LEMMA LoginsSame ==
    ASSUME Logins!Inv
    PROVE  /\ UNCHANGED <<x4, x6, x7>> =>
                /\ \A c \in Others : x6'[c] > 0 => x4'[c] \in {"used", Gone}
                /\ \A c \in Logins!Codes("sent")' : c \in Logins!Codes("sent")
                /\ \A c, d \in Logins!Codes("sent")' : c # d => x7' \cap {c, d} # {}
           /\ UNCHANGED <<x4, x6>> /\ x7 \subseteq x7' =>
                /\ \A c \in Others : x6'[c] > 0 => x4'[c] \in {"used", Gone}
                /\ \A c \in Logins!Codes("sent")' : c \in Logins!Codes("sent")
                /\ \A c, d \in Logins!Codes("sent")' : c # d => x7' \cap {c, d} # {}
<1>1. x4' = x4 => Logins!Codes("sent")' = Logins!Codes("sent")
  BY DEF Logins!Codes
<1> QED
  BY <1>1 DEF Logins!Inv, Logins!AnsweredAreUsed, Logins!CodesAnswerOnce

\* A request comes in with a token or goes on with it.
LEMMA LoginsTokens ==
    ASSUME Logins!Inv, NEW w \in Workers,
           \/ \E t \in Rows \cup Thirds : Logins!Present(w, t)
           \/ Logins!ReadAccount(w) \/ Logins!SetPassword(w) \/ Logins!Revoke(w) \/ Logins!Renew(w)
    PROVE  Logins!Inv'
<1> USE DEF Logins!credentialHistory, Logins!credentialTables
<1>1. /\ x1 \in BOOLEAN /\ x8 \in BOOLEAN /\ x2 \in [Rows \cup Thirds -> {None, "refresh", "reset"}]
      /\ x3 \cup x9 \subseteq Rows \cup Thirds /\ x4 \in [Others -> {None, Gone, "sent", "used"}]
      /\ x5 \in [Rows \cup Thirds -> Nat] /\ x6 \in [Others -> Nat]
      /\ x7 \subseteq (Rows \cup Thirds) \cup Others
      /\ sent \in 0 .. MaxCalls /\ (sent < MaxCalls => sent + 1 \in 0 .. MaxCalls)
      /\ Logins!FlightsOK
  BY LoginsConstants DEF Logins!Inv, Logins!TypeOK, Logins!FlightsOK
<1>2. ASSUME NEW t \in Rows \cup Thirds, Logins!Present(w, t) PROVE Logins!Inv'
  <2> DEFINE r == [op |-> x2[t], token |-> t]
  <2>1. /\ Logins!Begin(w, r, "reading") /\ UNCHANGED <<x1, x2, x3, x4, x5, x6, x7, x8, x9>>
        /\ t \notin x3 /\ x2[t] # None /\ pc[w] = "idle"
    BY <1>2 DEF Logins!Present, Logins!Begin
  <2>2. /\ r.op = x2[t] /\ r.token = t /\ r \in [op : {"refresh", "reset"}, token : Rows \cup Thirds]
        /\ r # Logins!NoRequest /\ "token" \in DOMAIN r
    BY <1>1, <2>1, LoginsConstants DEF Logins!NoRequest
  <2> HIDE DEF r
  <2>3. /\ Logins!At(w, r, "reading") /\ sent' \in 0 .. MaxCalls
        /\ \A v \in Workers \ {w} : pc'[v] = pc[v] /\ req'[v] = req[v]
    BY <1>1, <2>1 DEF Logins!Begin, Logins!At, Logins!FlightsOK
  <2>4. \A v \in Workers, u \in Rows \cup Thirds : Logins!HalfReset(v, u) => v # w /\ Logins!HalfReset(v, u)'
    BY <2>1, <2>3 DEF Logins!HalfReset
  <2>5. Logins!Excused(t)' \/ x5[t] = 0 \/ \E v \in Workers \ {w} : Logins!HalfReset(v, t)'
    BY <1>1, <2>1, <2>4 DEF Logins!Inv, Logins!ServedAreListed, Logins!Excused
  <2>6. pc'[w] = "reading" /\ req'[w] = r => Logins!Sound(w)'
    BY <2>1, <2>2, <2>5 DEF Logins!Sound, Logins!Using, Logins!HalfReset
  <2>7. \A u \in Rows \cup Thirds :
          /\ x5'[u] = x5[u] /\ (u \in x3 => u \in x3') /\ ~Logins!HalfReset(w, u)
          /\ ("token" \in DOMAIN r /\ r.token = u
                => ("token" \in DOMAIN req[w] /\ req[w].token = u) \/ u \notin x3)
    BY <2>1, <2>2 DEF Logins!HalfReset
  <2>8. /\ \A c \in Others : x6'[c] > 0 => x4'[c] \in {"used", Gone}
        /\ \A c \in Logins!Codes("sent")' : c \in Logins!Codes("sent")
        /\ \A c, d \in Logins!Codes("sent")' : c # d => x7' \cap {c, d} # {}
    BY <2>1, LoginsSame
  <2> QED
    <3>1. PICK a, place : a = r /\ place = "reading"
      OBVIOUS
    <3>2. /\ Logins!At(w, a, place)
          /\ pc'[w] = place /\ req'[w] = a => Logins!Sound(w)'
          /\ \A u \in Rows \cup Thirds :
               /\ x5'[u] = x5[u] /\ (u \in x3 => u \in x3') /\ ~Logins!HalfReset(w, u)
               /\ ("token" \in DOMAIN a /\ a.token = u
                     => ("token" \in DOMAIN req[w] /\ req[w].token = u) \/ u \notin x3)
          /\ place = "idle" <=> a = Logins!NoRequest
      BY <2>2, <2>3, <2>6, <2>7, <3>1
    <3> QED
      BY <1>1, <2>1, <2>3, <2>8, <3>2, LoginsStep
<1>3. ASSUME ~(\E t \in Rows \cup Thirds : Logins!Present(w, t)) PROVE Logins!Inv'
  <2>1. Logins!Using(w) /\ req[w] # Logins!NoRequest
    BY <1>1, <1>3 DEF Logins!ReadAccount, Logins!SetPassword, Logins!Revoke, Logins!Renew,
                Logins!Inv, Logins!Sound, Logins!Coding, Logins!Marking, Logins!FlightsOK
  <2>2. PICK t \in Rows \cup Thirds : t = req[w].token
    BY <2>1 DEF Logins!Using
  <2>3. /\ req[w] \in [op : {"refresh", "reset"}, token : Rows \cup Thirds] /\ x2[t] = req[w].op
        /\ "token" \in DOMAIN req[w]
    BY <2>1, <2>2 DEF Logins!Using
  <2>4. \A u \in Rows \cup Thirds : u # t => ~Logins!HalfReset(w, u)
    BY <2>2 DEF Logins!HalfReset
  <2>5. ASSUME NEW r, NEW place, Logins!At(w, r, place)
        PROVE  \A v \in Workers \ {w} : pc'[v] = pc[v] /\ req'[v] = req[v]
    BY <1>1, <2>5 DEF Logins!At, Logins!FlightsOK
  <2>6. \A v \in Workers \ {w}, u \in Rows \cup Thirds :
           pc'[v] = pc[v] /\ req'[v] = req[v] => (Logins!HalfReset(v, u)' <=> Logins!HalfReset(v, u))
    BY DEF Logins!HalfReset
  <2>7. CASE Logins!ReadAccount(w)
    <3>1. UNCHANGED <<x1, x2, x3, x4, x5, x6, x7, x8, x9, sent>> /\ pc[w] = "reading"
      BY <2>7 DEF Logins!ReadAccount, Logins!Continue, Logins!Return
    <3>2. PICK r \in {req[w], Logins!NoRequest}, place \in {"setting", "revoking", "idle"} :
            /\ Logins!At(w, r, place)
            /\ place = "idle" <=> r = Logins!NoRequest
            /\ r = req[w] => place = IF req[w].op = "reset" THEN "setting" ELSE "revoking"
      BY <2>1, <2>7 DEF Logins!ReadAccount, Logins!Continue, Logins!Return
    <3>3. \A u \in Rows \cup Thirds :
            /\ x5'[u] = x5[u] /\ (u \in x3 => u \in x3') /\ ~Logins!HalfReset(w, u)
            /\ ("token" \in DOMAIN r /\ r.token = u
                  => ("token" \in DOMAIN req[w] /\ req[w].token = u) \/ u \notin x3)
      BY <3>1, <3>2 DEF Logins!HalfReset, Logins!NoRequest
    <3>4. Logins!Excused(t)' \/ x5[t] = 0 \/ \E v \in Workers \ {w} : Logins!HalfReset(v, t)'
      BY <2>1, <2>2, <2>5, <2>6, <3>1, <3>2 DEF Logins!Using, Logins!Excused, Logins!HalfReset
    <3>5. pc'[w] = place /\ req'[w] = r => Logins!Sound(w)'
      BY <2>1, <2>2, <2>3, <3>1, <3>2, <3>4 DEF Logins!Sound, Logins!Using, Logins!HalfReset
    <3> QED
      BY <1>1, <3>1, <3>2, <3>3, <3>5, LoginsSame, LoginsStep
  <2>8. CASE Logins!SetPassword(w)
    <3>1. /\ UNCHANGED <<x1, x2, x3, x4, x6, x8, x9, sent>> /\ pc[w] = "setting"
          /\ Logins!At(w, req[w], "revoking") /\ x5' = [x5 EXCEPT ![t] = @ + 1]
          /\ x7' = IF Logins!Alongside(w, "token", t) THEN x7 \cup {t} ELSE x7
      BY <2>2, <2>8 DEF Logins!SetPassword, Logins!Continue, Logins!Shared
    <3>2. x7 \subseteq x7' /\ x7' \subseteq (Rows \cup Thirds) \cup Others
          /\ x5' \in [Rows \cup Thirds -> Nat] /\ x5'[t] = x5[t] + 1
          /\ \A u \in Rows \cup Thirds : u # t => x5'[u] = x5[u]
      BY <1>1, <3>1
    <3>3. req[w].op = "reset" /\ (Logins!Excused(t)' \/ (x5[t] = 0 /\ ~Logins!Alongside(w, "token", t)))
      <4>1. req[w].op = "reset"
        BY <2>1, <3>1 DEF Logins!Using, Logins!HalfReset
      <4>2. Logins!Excused(t) \/ x5[t] = 0 \/ \E v \in Workers \ {w} : Logins!HalfReset(v, t)
        BY <2>1, <2>2, <3>1 DEF Logins!Using, Logins!HalfReset
      <4>3. (\E v \in Workers \ {w} : Logins!HalfReset(v, t)) => Logins!Alongside(w, "token", t)
        BY
           DEF Logins!HalfReset, Logins!Alongside, Logins!Inv, Logins!Sound, Logins!Using,
                  Logins!Coding, Logins!Marking
      <4>4. Logins!Excused(t) \/ t \in x7' => Logins!Excused(t)'
        BY <3>1, <3>2 DEF Logins!Excused
      <4> QED
        BY <3>1, <4>1, <4>2, <4>3, <4>4
    <3>4. \A u \in Rows \cup Thirds :
            \/ Logins!Excused(u)'
            \/ /\ x5'[u] = x5[u] /\ (u \in x3 => u \in x3') /\ ~Logins!HalfReset(w, u)
               /\ ("token" \in DOMAIN req[w] /\ req[w].token = u
                     => ("token" \in DOMAIN req[w] /\ req[w].token = u) \/ u \notin x3)
            \/ /\ ~Logins!Alongside(w, "token", u) /\ x5'[u] <= 1
               /\ x5'[u] > 0 => u \in x3' \/ (req[w].op = "reset" /\ req[w].token = u)
      BY <2>2, <2>4, <3>1, <3>2, <3>3
    <3>5. Logins!Excused(t)' \/ x5'[t] = 1
      BY <3>2, <3>3
    <3>6. pc'[w] = "revoking" /\ req'[w] = req[w] => Logins!Sound(w)'
      BY <2>2, <2>3, <3>1, <3>3, <3>5 DEF Logins!Sound, Logins!Using, Logins!HalfReset
    <3>7. /\ \A c \in Others : x6'[c] > 0 => x4'[c] \in {"used", Gone}
          /\ \A c \in Logins!Codes("sent")' : c \in Logins!Codes("sent")
          /\ \A c, d \in Logins!Codes("sent")' : c # d => x7' \cap {c, d} # {}
      BY <3>1, <3>2, LoginsSame
    <3> QED
      <4>1. PICK r, place : r = req[w] /\ place = "revoking"
        OBVIOUS
      <4>2. /\ Logins!At(w, r, place)
            /\ pc'[w] = place /\ req'[w] = r => Logins!Sound(w)'
            /\ \A u \in Rows \cup Thirds :
                 \/ Logins!Excused(u)'
                 \/ /\ x5'[u] = x5[u] /\ (u \in x3 => u \in x3') /\ ~Logins!HalfReset(w, u)
                    /\ ("token" \in DOMAIN r /\ r.token = u
                          => ("token" \in DOMAIN req[w] /\ req[w].token = u) \/ u \notin x3)
                 \/ /\ ~Logins!Alongside(w, "token", u) /\ x5'[u] <= 1
                    /\ x5'[u] > 0 => u \in x3' \/ (place = "revoking" /\ r.op = "reset" /\ r.token = u)
            /\ place = "idle" <=> r = Logins!NoRequest
        BY <2>1, <3>1, <3>4, <3>6, <4>1
      <4> QED
        BY <1>1, <3>1, <3>2, <3>7, <4>2, LoginsStep
  <2>9. CASE Logins!Revoke(w)
    <3>1. /\ UNCHANGED <<x1, x2, x4, x5, x6, x8, x9, sent>> /\ pc[w] = "revoking"
          /\ x7' = IF Logins!Alongside(w, "token", t) THEN x7 \cup {t} ELSE x7
          /\ x3' = x3 \cup {t}
      BY <2>2, <2>9 DEF Logins!Revoke, Logins!Continue, Logins!Return, Logins!Shared
    <3>2. PICK r \in {req[w], Logins!NoRequest}, place \in {"renewing", "idle"} :
            /\ Logins!At(w, r, place)
            /\ place = "idle" <=> r = Logins!NoRequest
            /\ r = req[w] => place = "renewing" /\ req[w].op # "reset"
      BY <2>1, <2>9 DEF Logins!Revoke, Logins!Continue, Logins!Return
    <3>3. x7 \subseteq x7' /\ x7' \subseteq (Rows \cup Thirds) \cup Others /\ x3' \subseteq Rows \cup Thirds
          /\ t \in x3' /\ x3 \subseteq x3'
      BY <1>1, <3>1
    <3>4. Logins!Excused(t) \/ t \in x7' => Logins!Excused(t)'
      BY <3>1, <3>3 DEF Logins!Excused
    <3>5. (\E v \in Workers \ {w} : Logins!HalfReset(v, t)) => Logins!Alongside(w, "token", t)
      BY
         DEF Logins!HalfReset, Logins!Alongside, Logins!Inv, Logins!Sound, Logins!Using,
                Logins!Coding, Logins!Marking
    <3>6. /\ Logins!Excused(t) \/ x5[t] <= 1
          /\ Logins!HalfReset(w, t) \/ Logins!Excused(t) \/ x5[t] = 0
                \/ \E v \in Workers \ {w} : Logins!HalfReset(v, t)
      BY <1>1, <2>1, <2>2, <3>1 DEF Logins!Using, Logins!Inv, Logins!TokensServeOnce, Logins!Excused
    <3>7. \A u \in Rows \cup Thirds :
            \/ Logins!Excused(u)'
            \/ /\ x5'[u] = x5[u] /\ (u \in x3 => u \in x3') /\ ~Logins!HalfReset(w, u)
               /\ ("token" \in DOMAIN r /\ r.token = u
                     => ("token" \in DOMAIN req[w] /\ req[w].token = u) \/ u \notin x3)
            \/ ~Logins!Alongside(w, "token", u) /\ x5'[u] <= 1 /\ u \in x3'
      <4> SUFFICES ASSUME NEW u \in Rows \cup Thirds, u # t
                   PROVE  ("token" \in DOMAIN r /\ r.token = u => "token" \in DOMAIN req[w] /\ req[w].token = u)
        BY <2>4, <3>1, <3>3, <3>4, <3>6
      <4> QED
        BY <3>2 DEF Logins!NoRequest
    <3>8. ASSUME r = req[w], pc'[w] = place, req'[w] = r PROVE Logins!Sound(w)'
      <4>1. Logins!Excused(t)' \/ (x5'[t] = 0 /\ ~Logins!Alongside(w, "token", t))
        BY <3>1, <3>2, <3>4, <3>5, <3>6, <3>8 DEF Logins!HalfReset
      <4>2. ~Logins!Alongside(w, "token", t) => ~Logins!Alongside(w, "token", t)'
        BY <2>5, <3>2 DEF Logins!Alongside
      <4> QED
        BY <2>2, <2>3, <3>1, <3>2, <3>3, <3>8, <4>1, <4>2 DEF Logins!Sound, Logins!Using
    <3>9. pc'[w] = place /\ req'[w] = r => Logins!Sound(w)'
      BY <3>2, <3>8 DEF Logins!Sound
    <3> QED
      BY <1>1, <3>1, <3>2, <3>3, <3>7, <3>9, LoginsSame, LoginsStep
  <2>10. CASE Logins!Renew(w)
    <3>1. /\ UNCHANGED <<x1, x3, x4, x6, x7, x8, x9, sent>> /\ pc[w] = "renewing"
          /\ Logins!At(w, Logins!NoRequest, "idle") /\ x5' = [x5 EXCEPT ![t] = @ + 1]
      BY <2>2, <2>10 DEF Logins!Renew, Logins!Continue, Logins!Return
    <3>2. PICK new \in Rows \cup Thirds : x2[new] = None /\ x2' = [x2 EXCEPT ![new] = "refresh"]
      BY <2>10 DEF Logins!Renew, Logins!Issue
    <3>3. /\ x2' \in [Rows \cup Thirds -> {None, "refresh", "reset"}]
          /\ \A u \in Rows \cup Thirds : x2[u] # None => x2'[u] = x2[u]
          /\ x5' \in [Rows \cup Thirds -> Nat] /\ x5'[t] = x5[t] + 1
          /\ \A u \in Rows \cup Thirds : u # t => x5'[u] = x5[u]
      BY <1>1, <3>1, <3>2
    <3>4. \/ Logins!Excused(t)
          \/ t \in x3 /\ x5[t] = 0 /\ ~Logins!Alongside(w, "token", t)
      BY <2>1, <2>2, <3>1 DEF Logins!Using, Logins!HalfReset
    <3>5. Logins!Excused(t) => Logins!Excused(t)'
      BY <3>1, <3>3, LoginsConstants DEF Logins!Excused
    <3>6. \A u \in Rows \cup Thirds :
            \/ Logins!Excused(u)'
            \/ x5'[u] = x5[u] /\ (u \in x3 => u \in x3') /\ ~Logins!HalfReset(w, u)
            \/ ~Logins!Alongside(w, "token", u) /\ x5'[u] <= 1 /\ u \in x3'
      BY <2>4, <3>1, <3>3, <3>4, <3>5
    <3>7. "token" \notin DOMAIN Logins!NoRequest
      BY DEF Logins!NoRequest
    <3>8. pc'[w] = "idle" => Logins!Sound(w)'
      BY DEF Logins!Sound
    <3> QED
      BY <1>1, <3>1, <3>3, <3>6, <3>7, <3>8, LoginsSame, LoginsStep
  <2> QED
    BY <1>3, <2>7, <2>8, <2>9, <2>10
<1> QED
  BY <1>2, <1>3

\* A request for a code, or one with a code.
LEMMA LoginsCodes ==
    ASSUME Logins!Inv, NEW w \in Workers,
           \/ Logins!AskForCode(w) \/ Logins!ClearCodes(w) \/ Logins!MakeCode(w)
           \/ Logins!MarkUsed(w) \/ \E c \in Others : Logins!VerifyCode(w, c)
    PROVE  Logins!Inv'
<1> USE DEF Logins!credentialHistory, Logins!credentialTables
<1>1. /\ x1 \in BOOLEAN /\ x8 \in BOOLEAN /\ x2 \in [Rows \cup Thirds -> {None, "refresh", "reset"}]
      /\ x3 \cup x9 \subseteq Rows \cup Thirds /\ x4 \in [Others -> {None, Gone, "sent", "used"}]
      /\ x5 \in [Rows \cup Thirds -> Nat] /\ x6 \in [Others -> Nat]
      /\ x7 \subseteq (Rows \cup Thirds) \cup Others
      /\ sent \in 0 .. MaxCalls /\ (sent < MaxCalls => sent + 1 \in 0 .. MaxCalls)
      /\ Logins!FlightsOK
      /\ \A c \in Others : x6[c] > 0 => x4[c] \in {"used", Gone}
      /\ \A c \in Others : x6[c] <= 1 \/ c \in x7
      /\ \A c, d \in Logins!Codes("sent") : c # d => x7 \cap {c, d} # {}
  BY LoginsConstants
     DEF Logins!Inv, Logins!TypeOK, Logins!FlightsOK, Logins!AnsweredAreUsed, Logins!CodesAnswerOnce
\* Such a request holds no token, and leaves the tokens that others hold.
<1>2. ASSUME NEW r, NEW place, Logins!At(w, r, place), sent' \in 0 .. MaxCalls,
             place = "idle" <=> r = Logins!NoRequest,
             "token" \notin DOMAIN r, \A t \in Rows \cup Thirds : ~Logins!HalfReset(w, t),
             UNCHANGED <<x1, x3, x5, x8, x9>>, x2' \in [Rows \cup Thirds -> {None, "refresh", "reset"}],
             \A t \in Rows \cup Thirds : x2[t] # None => x2'[t] = x2[t],
             x4' \in [Others -> {None, Gone, "sent", "used"}], x6' \in [Others -> Nat],
             \A c \in Others : x4[c] # None => x4'[c] # None,
             x7 \subseteq x7' /\ x7' \subseteq (Rows \cup Thirds) \cup Others,
             \A c \in Others : \/ x6'[c] = x6[c] \/ c \in x7'
                               \/ x6'[c] <= 1 /\ ~Logins!Alongside(w, "code", c),
             \A c \in Others : x6'[c] > 0 => x4'[c] \in {"used", Gone},
             \A c \in Logins!Codes("sent")' : \/ c \in Logins!Codes("sent") \/ c \in x7'
                                              \/ ~Logins!Alongside(w, "account", TRUE),
             \A c, d \in Logins!Codes("sent")' : c # d => x7' \cap {c, d} # {},
             pc'[w] = place /\ req'[w] = r => Logins!Sound(w)'
      PROVE  Logins!Inv'
  BY <1>1, <1>2, LoginsStep
<1>3. CASE Logins!AskForCode(w)
  <2>1. PICK r : r = [op |-> "ask", account |-> TRUE]
    OBVIOUS
  <2>2. /\ Logins!Begin(w, r, "clearing") /\ UNCHANGED <<x1, x2, x3, x4, x5, x6, x7, x8, x9>>
        /\ r # Logins!NoRequest /\ "token" \notin DOMAIN r
    BY <1>3, <2>1 DEF Logins!AskForCode, Logins!NoRequest
  <2>3. /\ Logins!At(w, r, "clearing") /\ sent' \in 0 .. MaxCalls
        /\ \A t \in Rows \cup Thirds : ~Logins!HalfReset(w, t)
    BY <1>1, <2>2 DEF Logins!Begin, Logins!HalfReset
  <2>4. pc'[w] = "clearing" /\ req'[w] = r => Logins!Sound(w)'
    BY <2>1 DEF Logins!Sound, Logins!Coding
  <2>5. Logins!Codes("sent")' = Logins!Codes("sent")
    BY <2>2 DEF Logins!Codes
  <2> QED
    BY <1>1, <1>2, <2>2, <2>3, <2>4, <2>5
<1>4. CASE \E c \in Others : Logins!VerifyCode(w, c)
  <2>1. PICK c \in Others : Logins!VerifyCode(w, c)
    BY <1>4
  <2>2. PICK r : r = [op |-> "verify", code |-> c]
    OBVIOUS
  <2>3. /\ Logins!Begin(w, r, "marking") /\ UNCHANGED <<x1, x2, x3, x4, x5, x6, x7, x8, x9>>
        /\ r # Logins!NoRequest /\ "token" \notin DOMAIN r /\ r.code = c /\ x4[c] = "sent"
    BY <2>1, <2>2 DEF Logins!VerifyCode, Logins!NoRequest
  <2>4. /\ Logins!At(w, r, "marking") /\ sent' \in 0 .. MaxCalls
        /\ \A t \in Rows \cup Thirds : ~Logins!HalfReset(w, t)
    BY <1>1, <2>3 DEF Logins!Begin, Logins!HalfReset
  <2>5. x6[c] = 0 /\ x4[c] # None
    BY <1>1, <2>3, LoginsConstants
  <2>6. pc'[w] = "marking" /\ req'[w] = r => Logins!Sound(w)'
    BY <2>2, <2>3, <2>5 DEF Logins!Sound, Logins!Marking
  <2>7. Logins!Codes("sent")' = Logins!Codes("sent")
    BY <2>3 DEF Logins!Codes
  <2> QED
    BY <1>1, <1>2, <2>3, <2>4, <2>6, <2>7
<1>5. ASSUME pc[w] \in {"clearing", "making"}
      PROVE  Logins!Coding(w) /\ \A t \in Rows \cup Thirds : ~Logins!HalfReset(w, t)
  BY <1>5 DEF Logins!Inv, Logins!Sound, Logins!Using, Logins!Marking, Logins!HalfReset
<1>6. CASE Logins!ClearCodes(w)
  <2>1. PICK r : r = [op |-> "ask", account |-> TRUE]
    OBVIOUS
  <2>2. /\ Logins!At(w, r, "making") /\ UNCHANGED <<x1, x2, x3, x5, x6, x7, x8, x9, sent>>
        /\ x4' = [c \in Others |-> IF x4[c] = None THEN None ELSE Gone]
        /\ \A t \in Rows \cup Thirds : ~Logins!HalfReset(w, t)
        /\ r # Logins!NoRequest /\ "token" \notin DOMAIN r
    BY <1>5, <1>6, <2>1 DEF Logins!ClearCodes, Logins!Continue, Logins!Coding, Logins!NoRequest
  <2>3. /\ x4' \in [Others -> {None, Gone, "sent", "used"}]
        /\ \A c \in Others : x4[c] # None => x4'[c] # None
        /\ \A c \in Others : x6'[c] > 0 => x4'[c] \in {"used", Gone}
        /\ Logins!Codes("sent")' = {}
    BY <1>1, <2>2, LoginsConstants DEF Logins!Codes
  <2>4. pc'[w] = "making" /\ req'[w] = r => Logins!Sound(w)'
    BY <2>1, <2>3 DEF Logins!Sound, Logins!Coding
  <2> QED
    BY <1>1, <1>2, <2>2, <2>3, <2>4
<1>7. CASE Logins!MakeCode(w)
  <2>1. PICK c \in Others :
          /\ x4[c] = None /\ x4' = [x4 EXCEPT ![c] = "sent"]
          /\ x7' = IF Logins!Alongside(w, "account", TRUE) THEN x7 \cup {c} ELSE x7
    BY <1>7 DEF Logins!MakeCode
  <2>2. PICK r : r = Logins!NoRequest
    OBVIOUS
  <2>3. /\ Logins!At(w, r, "idle") /\ UNCHANGED <<x1, x2, x3, x5, x6, x8, x9, sent>>
        /\ \A t \in Rows \cup Thirds : ~Logins!HalfReset(w, t)
        /\ "token" \notin DOMAIN r /\ Logins!Codes("sent") \subseteq x7
    BY <1>5, <1>7, <2>2
       DEF Logins!MakeCode, Logins!Return, Logins!Continue, Logins!Coding, Logins!NoRequest
  <2>4. /\ x4' \in [Others -> {None, Gone, "sent", "used"}]
        /\ \A d \in Others : x4[d] # None => x4'[d] # None
        /\ \A d \in Others : x6'[d] > 0 => x4'[d] \in {"used", Gone}
        /\ x7 \subseteq x7' /\ x7' \subseteq (Rows \cup Thirds) \cup Others
        /\ \A d \in Logins!Codes("sent")' : d \in Logins!Codes("sent") \/ d = c
        /\ c \in x7' \/ ~Logins!Alongside(w, "account", TRUE)
    BY <1>1, <2>1, <2>3, LoginsConstants DEF Logins!Codes
  <2>5. \A d, e \in Logins!Codes("sent")' : d # e => x7' \cap {d, e} # {}
    BY <2>3, <2>4
  <2>6. pc'[w] = "idle" => Logins!Sound(w)'
    BY DEF Logins!Sound
  <2> QED
    BY <1>1, <1>2, <2>2, <2>3, <2>4, <2>5, <2>6
<1>8. CASE Logins!MarkUsed(w)
  <2>1. Logins!Marking(w)
    BY <1>8
       DEF Logins!MarkUsed, Logins!Inv, Logins!Sound, Logins!Using, Logins!HalfReset, Logins!Coding
  <2>2. PICK c \in Others : c = req[w].code
    BY <2>1 DEF Logins!Marking
  <2>3. PICK t \in Rows \cup Thirds : x2[t] = None /\ x2' = [x2 EXCEPT ![t] = "reset"]
    BY <1>8 DEF Logins!MarkUsed, Logins!Issue
  <2>4. PICK r : r = Logins!NoRequest
    OBVIOUS
  <2>5. /\ Logins!At(w, r, "idle") /\ UNCHANGED <<x1, x3, x5, x8, x9, sent>>
        /\ x4' = IF Logins!Exists(x4[c]) THEN [x4 EXCEPT ![c] = "used"] ELSE x4
        /\ x6' = [x6 EXCEPT ![c] = @ + 1]
        /\ x7' = IF Logins!Alongside(w, "code", c) THEN x7 \cup {c} ELSE x7
        /\ \A u \in Rows \cup Thirds : ~Logins!HalfReset(w, u)
        /\ "token" \notin DOMAIN r /\ x4[c] # None /\ (x6[c] = 0 \/ c \in x7)
    BY <1>8, <2>1, <2>2, <2>4 DEF Logins!MarkUsed, Logins!Return, Logins!Continue, Logins!Shared,
                             Logins!Marking, Logins!HalfReset, Logins!NoRequest
  <2>6. /\ x4' \in [Others -> {None, Gone, "sent", "used"}]
        /\ x4'[c] \in {"used", Gone}
        /\ \A d \in Others : d # c => x4'[d] = x4[d]
    BY <1>1, <2>5 DEF Logins!Exists
  <2>7. /\ x6' \in [Others -> Nat] /\ x6'[c] = x6[c] + 1
        /\ \A d \in Others : d # c => x6'[d] = x6[d]
    BY <1>1, <2>5
  <2>8. /\ x7 \subseteq x7' /\ x7' \subseteq (Rows \cup Thirds) \cup Others
        /\ c \in x7' \/ ~Logins!Alongside(w, "code", c)
    BY <1>1, <2>5
  <2>9. /\ \A d \in Others : \/ x6'[d] = x6[d] \/ d \in x7'
                             \/ x6'[d] <= 1 /\ ~Logins!Alongside(w, "code", d)
        /\ \A d \in Others : x6'[d] > 0 => x4'[d] \in {"used", Gone}
        /\ \A d \in Others : x4[d] # None => x4'[d] # None
    BY <1>1, <2>5, <2>6, <2>7, <2>8, LoginsConstants
  <2>10. \A d \in Logins!Codes("sent")' : d \in Logins!Codes("sent")
    BY <2>6, LoginsConstants DEF Logins!Codes
  <2>11. \A d, e \in Logins!Codes("sent")' : d # e => x7' \cap {d, e} # {}
    BY <1>1, <2>8, <2>10
  <2>12. pc'[w] = "idle" => Logins!Sound(w)'
    BY DEF Logins!Sound
  <2>13. /\ x2' \in [Rows \cup Thirds -> {None, "refresh", "reset"}]
         /\ \A u \in Rows \cup Thirds : x2[u] # None => x2'[u] = x2[u]
    BY <1>1, <2>3
  <2> QED
    BY <1>1, <1>2, <2>4, <2>5, <2>6, <2>7, <2>8, <2>9, <2>10, <2>11, <2>12, <2>13
<1> QED
  BY <1>3, <1>4, <1>6, <1>7, <1>8

\* A request that is cut off excuses its token, if it was a reset.
LEMMA LoginsAborts ==
    ASSUME Logins!Inv, NEW w \in Workers, Logins!AbortCredential(w) PROVE Logins!Inv'
<1>1. /\ x1 \in BOOLEAN /\ x8 \in BOOLEAN /\ x2 \in [Rows \cup Thirds -> {None, "refresh", "reset"}]
      /\ x3 \cup x9 \subseteq Rows \cup Thirds /\ x4 \in [Others -> {None, Gone, "sent", "used"}]
      /\ x5 \in [Rows \cup Thirds -> Nat] /\ x6 \in [Others -> Nat]
      /\ x7 \subseteq (Rows \cup Thirds) \cup Others
      /\ sent \in 0 .. MaxCalls
  BY LoginsConstants DEF Logins!Inv, Logins!TypeOK, Logins!FlightsOK
<1>2. PICK r : r = Logins!NoRequest
  OBVIOUS
<1>3. /\ Logins!At(w, r, "idle") /\ UNCHANGED <<x1, x2, x3, x4, x5, x6, x7, x8, sent>> /\ pc[w] # "idle"
      /\ x9' = IF "token" \in DOMAIN req[w] THEN x9 \cup {req[w].token} ELSE x9
      /\ "token" \notin DOMAIN r
  BY <1>2
     DEF Logins!AbortCredential, Logins!Die, Logins!Return, Logins!Continue,
            Logins!credentialTables, Logins!NoRequest
<1>4. CASE Logins!Using(w)
  <2>1. PICK t \in Rows \cup Thirds : t = req[w].token
    BY <1>4 DEF Logins!Using
  <2>2. x9' = x9 \cup {t} /\ x2[t] = req[w].op
    BY <1>3, <1>4, <2>1 DEF Logins!Using
  <2>3. \A u \in Rows \cup Thirds : ~Logins!HalfReset(w, u) \/ Logins!Excused(u)'
    BY <1>3, <2>1, <2>2 DEF Logins!HalfReset, Logins!Excused
  <2>4. \A u \in Rows \cup Thirds :
          \/ Logins!Excused(u)'
          \/ x5'[u] = x5[u] /\ (u \in x3 => u \in x3') /\ ~Logins!HalfReset(w, u)
    BY <1>3, <2>3
  <2>5. x9 \subseteq x9' /\ x9' \subseteq Rows \cup Thirds
    BY <1>1, <2>2
  <2>6. pc'[w] = "idle" => Logins!Sound(w)'
    BY DEF Logins!Sound
  <2> QED
    BY <1>1, <1>2, <1>3, <2>4, <2>5, <2>6, LoginsSame, LoginsStep
<1>5. CASE Logins!Coding(w) \/ Logins!Marking(w)
  <2>1. /\ x9' = x9 /\ \A u \in Rows \cup Thirds : ~Logins!HalfReset(w, u)
    BY <1>3, <1>5 DEF Logins!Coding, Logins!Marking, Logins!HalfReset
  <2>2. \A u \in Rows \cup Thirds :
          x5'[u] = x5[u] /\ (u \in x3 => u \in x3') /\ ~Logins!HalfReset(w, u)
    BY <1>3, <2>1
  <2>3. pc'[w] = "idle" => Logins!Sound(w)'
    BY DEF Logins!Sound
  <2> QED
    BY <1>1, <1>2, <1>3, <2>1, <2>2, <2>3, LoginsSame, LoginsStep
<1> QED
  BY <1>3, <1>4, <1>5 DEF Logins!Inv, Logins!Sound

LEMMA LoginsNext == Logins!Inv /\ Logins!Next => Logins!Inv'
BY LoginsRows, LoginsLoses, LoginsTokens, LoginsCodes, LoginsAborts
   DEF Logins!Next, Logins!ResetDesk, Logins!CodeRequest

LEMMA LoginsStays == Logins!Inv /\ UNCHANGED <<x1, x2, x3, x4, x5, x6, x7, x8, x9, pc, req, sent>> => Logins!Inv'
BY LoginsOutside DEF Logins!Inv, Logins!TypeOK

-----------------------------------------------------------------------------
\* ParentLinks

LEMMA FamiliesConstants ==
    /\ IsFiniteSet(Ones) /\ IsFiniteSet(Rows) /\ IsFiniteSet(Others)
    /\ MaxCalls \in Nat /\ FewCalls \in Nat /\ ManyCalls \in Nat /\ Logged \in Nat
BY ServicesAssumption

LEMMA FamiliesCardinality == \A S : Families!Cardinality(S) = Cardinality(S)
BY DEF Families!Cardinality, Cardinality

\* Sets of parents can be counted.
LEMMA FamiliesCounts ==
    ASSUME NEW S, S \subseteq Rows \cup Others
    PROVE  /\ Families!Cardinality(S) \in Nat
           /\ Families!Cardinality(S) >= 3 => S # {}
           /\ \A T : T \subseteq S => Families!Cardinality(T) \in Nat /\ Families!Cardinality(T) <= Families!Cardinality(S)
           /\ \A p : /\ Families!Cardinality(S \cup {p}) \in Nat
                     /\ Families!Cardinality(S \cup {p}) <= Families!Cardinality(S) + 1
<1>1. IsFiniteSet(S) /\ Cardinality(S) \in Nat
  BY FamiliesConstants, FS_Union, FS_Subset, FS_CardinalityType
<1>2. Cardinality(S) >= 3 => S # {}
  BY FS_EmptySet
<1>3. \A T : T \subseteq S => Cardinality(T) \in Nat /\ Cardinality(T) <= Cardinality(S)
  BY <1>1, FS_Subset, FS_CardinalityType
<1>4. \A p : Cardinality(S \cup {p}) \in Nat /\ Cardinality(S \cup {p}) <= Cardinality(S) + 1
  <2> TAKE p
  <2>1. IsFiniteSet(S \cup {p}) /\ Cardinality(S \cup {p}) = IF p \in S THEN Cardinality(S) ELSE Cardinality(S) + 1
    BY <1>1, FS_AddElement
  <2> QED
    BY <1>1, <2>1
<1> QED
  BY <1>1, <1>2, <1>3, <1>4, FamiliesCardinality

LEMMA FamiliesInit == Families!Init => Families!Inv
<1> SUFFICES ASSUME Families!Init PROVE Families!Inv
  OBVIOUS
<1>1. Families!FlightsOK /\ \A w \in Workers : Families!Sound(w)
  BY FamiliesConstants
     DEF Families!Init, Families!InitFlights, Families!FlightsOK, Families!Sound, Families!NoRequest
<1>2. \A s \in Ones : Families!ParentsOf(s) = {}
  BY DEF Families!Init, Families!ParentsOf
<1>3. Families!Cardinality({}) = 0
  BY FS_EmptySet, FamiliesCardinality
<1>4. Families!ParentsBounded
  BY <1>2, <1>3 DEF Families!ParentsBounded, Families!MaxParents
<1> QED
  BY <1>1, <1>4 DEF Families!Init, Families!Inv, Families!TypeOK, Families!ChildrenHaveParents

\* A step of one request, or of none (w is then any), after which a servant has no
\* new parent, or one from the request, which tells of the others it has met.
LEMMA FamiliesStep ==
    ASSUME Families!Inv, Families!FlightsOK', NEW W, W \subseteq Workers, NEW s,
           \A v \in Workers \ W : pc'[v] = pc[v] /\ req'[v] = req[v],
           \A v \in W : Families!Sound(v)',
           x1' \in [Ones -> {"none", "here", "gone"}],
           x2' \in [Rows \cup Others -> {"here", "gone"}],
           x3' \subseteq Ones \X (Rows \cup Others),
           \A l \in x3' : x1'[l[1]] = "here" /\ x2'[l[2]] = "here",
           x4 \subseteq x4' /\ x4' \subseteq Ones, x5' \subseteq Ones, x6 \subseteq x6' /\ x6' \subseteq Ones,
           \A d \in Ones \ {s} : Families!ParentsOf(d)' \subseteq Families!ParentsOf(d),
           \/ Families!ParentsOf(s)' \subseteq Families!ParentsOf(s)
           \/ /\ \E p : Families!ParentsOf(s)' = Families!ParentsOf(s) \cup {p}
              /\ Families!Cardinality(Families!ParentsOf(s)) < 3 \/ s \in x4
              /\ \A v \in Workers \ W : "servant" \in DOMAIN req[v] /\ req[v].servant = s => s \in x4',
           Families!ChildrenHaveParents'
    PROVE  Families!Inv'
<1>1. \A d : Families!ParentsOf(d) \subseteq Rows \cup Others
  BY DEF Families!ParentsOf
<1>2. ASSUME NEW d \in Ones, Families!ParentsOf(d)' \subseteq Families!ParentsOf(d)
      PROVE  /\ Families!Cardinality(Families!ParentsOf(d))' \in Nat /\ Families!Cardinality(Families!ParentsOf(d)) \in Nat
             /\ Families!Cardinality(Families!ParentsOf(d))' <= Families!Cardinality(Families!ParentsOf(d))
  BY <1>1, <1>2, FamiliesCounts
<1>3. ASSUME NEW d \in Ones PROVE Families!Cardinality(Families!ParentsOf(d)) \in Nat
  BY <1>1, FamiliesCounts
<1>4. ASSUME \E p : Families!ParentsOf(s)' = Families!ParentsOf(s) \cup {p}
      PROVE  /\ Families!Cardinality(Families!ParentsOf(s))' \in Nat
             /\ Families!Cardinality(Families!ParentsOf(s))' <= Families!Cardinality(Families!ParentsOf(s)) + 1
  <2>1. PICK p : Families!ParentsOf(s)' = Families!ParentsOf(s) \cup {p}
    BY <1>4
  <2>2. PICK S : S = Families!ParentsOf(s)
    OBVIOUS
  <2>3. /\ Families!Cardinality(S \cup {p}) \in Nat
        /\ Families!Cardinality(S \cup {p}) <= Families!Cardinality(S) + 1
    BY <1>1, <2>2, FamiliesCounts
  <2> QED
    BY <2>1, <2>2, <2>3
<1>5. Families!ParentsBounded'
  <2>1. \A d \in Ones : Families!Cardinality(Families!ParentsOf(d)) <= 3 \/ d \in x4
    BY DEF Families!Inv, Families!ParentsBounded, Families!MaxParents
  <2>2. ASSUME NEW d \in Ones, Families!ParentsOf(d)' \subseteq Families!ParentsOf(d)
        PROVE  Families!Cardinality(Families!ParentsOf(d))' <= 3 \/ d \in x4'
    BY <1>2, <2>1, <2>2
  <2>3. ASSUME s \in Ones, \E p : Families!ParentsOf(s)' = Families!ParentsOf(s) \cup {p},
               Families!Cardinality(Families!ParentsOf(s)) < 3
        PROVE  Families!Cardinality(Families!ParentsOf(s))' <= 3
    <3>1. /\ Families!Cardinality(Families!ParentsOf(s)) \in Nat
          /\ Families!Cardinality(Families!ParentsOf(s))' \in Nat
          /\ Families!Cardinality(Families!ParentsOf(s))' <= Families!Cardinality(Families!ParentsOf(s)) + 1
      BY <1>3, <1>4, <2>3
    <3> QED
      BY <2>3, <3>1
  <2>4. \A d \in Ones : Families!Cardinality(Families!ParentsOf(d))' <= 3 \/ d \in x4'
    BY <2>2, <2>3
  <2> QED
    BY <2>4 DEF Families!ParentsBounded, Families!MaxParents
<1>6. ASSUME NEW v \in Workers, v \notin W PROVE Families!Sound(v)'
  <2>1. CASE pc[v] # "linking"
    BY <1>6, <2>1 DEF Families!Inv, Families!Sound
  <2>2. CASE pc[v] = "linking"
    <3>1. PICK d \in Ones : d = req[v].servant /\ "servant" \in DOMAIN req[v]
      BY <2>2 DEF Families!Inv, Families!Sound
    <3>2. Families!Cardinality(Families!ParentsOf(d)) < 3 \/ d \in x4
      BY <2>2, <3>1 DEF Families!Inv, Families!Sound, Families!MaxParents
    <3>3. Families!Cardinality(Families!ParentsOf(d))' < 3 \/ d \in x4'
      <4>1. CASE Families!ParentsOf(d)' \subseteq Families!ParentsOf(d)
        BY <1>2, <3>2, <4>1
      <4>2. CASE d = s /\ d \in x4'
        BY <4>2
      <4> QED
        BY <1>6, <3>1, <4>1, <4>2
    <3> QED
      BY <1>6, <2>2, <3>1, <3>3 DEF Families!Inv, Families!Sound, Families!MaxParents
  <2> QED
    BY <2>1, <2>2
<1> QED
  BY <1>5, <1>6 DEF Families!Inv, Families!TypeOK

\* Links and accounts go; who is left without a parent was let go of.
LEMMA FamiliesGo ==
    ASSUME Families!Inv,
           \/ \E s \in Ones : Families!DeleteServant(s) \/ \E p \in Rows \cup Others : Families!Unlink(s, p)
           \/ \E p \in Rows \cup Others : Families!DeleteParent(p)
    PROVE  Families!Inv'
<1> USE DEF Families!linkHistory, Families!flights, Families!ParentsOf
<1>1. /\ x1 \in [Ones -> {"none", "here", "gone"}] /\ x2 \in [Rows \cup Others -> {"here", "gone"}]
      /\ x3 \subseteq Ones \X (Rows \cup Others)
      /\ \A l \in x3 : x1[l[1]] = "here" /\ x2[l[2]] = "here"
      /\ x4 \subseteq Ones /\ x5 \subseteq Ones /\ x6 \subseteq Ones
  BY DEF Families!Inv, Families!TypeOK
<1>2. UNCHANGED <<pc, req, sent, x4, x5>> /\ x3' \subseteq x3 /\ x6 \subseteq x6' /\ x6' \subseteq Ones
  BY <1>1 DEF Families!DeleteServant, Families!DeleteParent, Families!Unlink
<1>3. Families!FlightsOK'
  BY <1>2 DEF Families!Inv, Families!TypeOK, Families!FlightsOK
<1>4. /\ x1' \in [Ones -> {"none", "here", "gone"}] /\ x2' \in [Rows \cup Others -> {"here", "gone"}]
      /\ \A l \in x3' : x1'[l[1]] = "here" /\ x2'[l[2]] = "here"
      /\ \A d \in Ones : x1'[d] = "here" => x1[d] = "here"
      /\ \A d \in Ones : x1'[d] = "here" => Families!ParentsOf(d)' = Families!ParentsOf(d) \/ d \in x6'
  <2>1. ASSUME NEW s \in Ones, Families!DeleteServant(s)
        PROVE  /\ x1' \in [Ones -> {"none", "here", "gone"}] /\ x2' = x2
               /\ x1'[s] = "gone" /\ \A d \in Ones \ {s} : x1'[d] = x1[d]
               /\ x3' = {l \in x3 : l[1] # s}
    BY <1>1, <2>1 DEF Families!DeleteServant
  <2>2. ASSUME NEW s \in Ones, Families!DeleteServant(s)
        PROVE  /\ \A l \in x3' : x1'[l[1]] = "here" /\ x2'[l[2]] = "here"
               /\ \A d \in Ones \ {s} : Families!ParentsOf(d)' = Families!ParentsOf(d)
    BY <1>1, <2>1, <2>2
  <2>3. ASSUME NEW p \in Rows \cup Others, Families!DeleteParent(p)
        PROVE  /\ x2' \in [Rows \cup Others -> {"here", "gone"}] /\ x1' = x1
               /\ x2'[p] = "gone" /\ \A q \in (Rows \cup Others) \ {p} : x2'[q] = x2[q]
               /\ x3' = {l \in x3 : l[2] # p} /\ x6' = x6 \cup {s \in Ones : <<s, p>> \in x3}
    BY <1>1, <2>3 DEF Families!DeleteParent
  <2>4. ASSUME NEW p \in Rows \cup Others, Families!DeleteParent(p)
        PROVE  /\ \A l \in x3' : x1'[l[1]] = "here" /\ x2'[l[2]] = "here"
               /\ \A d \in Ones : Families!ParentsOf(d)' = Families!ParentsOf(d) \/ d \in x6'
    BY <1>1, <2>3, <2>4
  <2>5. ASSUME NEW s \in Ones, NEW p \in Rows \cup Others, Families!Unlink(s, p)
        PROVE  /\ x1' = x1 /\ x2' = x2 /\ x3' = x3 \ {<<s, p>>} /\ s \in x6'
    BY <2>5 DEF Families!Unlink
  <2>6. ASSUME NEW s \in Ones, NEW p \in Rows \cup Others, Families!Unlink(s, p)
        PROVE  /\ \A l \in x3' : x1'[l[1]] = "here" /\ x2'[l[2]] = "here"
               /\ \A d \in Ones : Families!ParentsOf(d)' = Families!ParentsOf(d) \/ d \in x6'
    BY <1>1, <2>5, <2>6
  <2> QED
    BY <1>1, <2>1, <2>2, <2>3, <2>4, <2>5, <2>6
<1>5. Families!ChildrenHaveParents'
  BY <1>1, <1>2, <1>4 DEF Families!Inv, Families!ChildrenHaveParents
<1>6. \A d : Families!ParentsOf(d)' \subseteq Families!ParentsOf(d)
  BY <1>2
<1>7. PICK W : W = {}
  OBVIOUS
<1>8. /\ W \subseteq Workers /\ \A v \in W : Families!Sound(v)'
      /\ \A v \in Workers \ W : pc'[v] = pc[v] /\ req'[v] = req[v]
  BY <1>2, <1>7
<1>9. PICK s : Families!ParentsOf(s)' \subseteq Families!ParentsOf(s)
  BY <1>6
<1> HIDE DEF Families!ParentsOf
<1> QED
  BY <1>1, <1>2, <1>3, <1>4, <1>5, <1>6, <1>8, <1>9, FamiliesStep

LEMMA FamiliesRequests ==
    ASSUME Families!Inv, NEW w \in Workers,
           \/ \E s \in Ones, p \in Rows \cup Others : Families!LinkParent(w, s, p) \/ Families!CreateChild(w, s, p)
           \/ Families!CountParents(w) \/ Families!AbortLink(w) \/ Families!InsertLink(w)
    PROVE  Families!Inv'
<1> USE DEF Families!linkHistory, Families!linkTables
<1>1. /\ x1 \in [Ones -> {"none", "here", "gone"}] /\ x2 \in [Rows \cup Others -> {"here", "gone"}]
      /\ x3 \subseteq Ones \X (Rows \cup Others)
      /\ \A l \in x3 : x1[l[1]] = "here" /\ x2[l[2]] = "here"
      /\ x4 \subseteq Ones /\ x5 \subseteq Ones /\ x6 \subseteq Ones
      /\ sent \in 0 .. ManyCalls /\ (sent < ManyCalls => sent + 1 \in 0 .. ManyCalls)
      /\ Families!FlightsOK
  BY FamiliesConstants DEF Families!Inv, Families!TypeOK, Families!FlightsOK
<1>2. ASSUME NEW r, NEW place, Families!At(w, r, place), sent' \in 0 .. ManyCalls,
             place = "idle" <=> r = Families!NoRequest
      PROVE  /\ Families!FlightsOK' /\ pc'[w] = place /\ req'[w] = r
             /\ \A v \in Workers \ {w} : pc'[v] = pc[v] /\ req'[v] = req[v]
  BY <1>1, <1>2 DEF Families!FlightsOK, Families!At
<1>3. ASSUME NEW s \in Ones, NEW p \in Rows \cup Others,
             Families!LinkParent(w, s, p) \/ Families!CreateChild(w, s, p)
      PROVE  Families!Inv'
  <2>1. PICK op \in {"link", "child"} :
          /\ Families!Begin(w, [op |-> op, servant |-> s, parent |-> p], "counting")
          /\ x1' = x1 \/ x1' = [x1 EXCEPT ![s] = "here"]
          /\ x5' = x5 \/ (x5' = x5 \cup {s})
          /\ UNCHANGED <<x2, x3, x4, x6>>
    BY <1>3 DEF Families!LinkParent, Families!CreateChild
  <2>2. PICK r : r = [op |-> op, servant |-> s, parent |-> p]
    OBVIOUS
  <2>3. /\ Families!At(w, r, "counting") /\ sent' \in 0 .. ManyCalls /\ pc[w] = "idle"
        /\ r # Families!NoRequest /\ "servant" \in DOMAIN r /\ r.servant = s
        /\ r \in [op : {"link", "child"}, servant : Ones, parent : Rows \cup Others]
    BY <1>1, <2>1, <2>2 DEF Families!Begin, Families!NoRequest
  <2>4. /\ Families!FlightsOK' /\ pc'[w] = "counting" /\ req'[w] = r
        /\ \A v \in Workers \ {w} : pc'[v] = pc[v] /\ req'[v] = req[v]
    BY <1>2, <2>3
  <2>5. Families!Sound(w)'
    BY <2>3, <2>4 DEF Families!Sound
  <2>6. \A d \in Ones : Families!ParentsOf(d)' = Families!ParentsOf(d)
    BY <2>1 DEF Families!ParentsOf
  <2>7. /\ x1' \in [Ones -> {"none", "here", "gone"}] /\ x5' \subseteq Ones
        /\ \A l \in x3' : x1'[l[1]] = "here"
        /\ \A d \in Ones \ {s} : x1'[d] = x1[d]
    BY <1>1, <2>1
  <2>8. req[w] = Families!NoRequest /\ "servant" \notin DOMAIN Families!NoRequest
    BY <1>1, <2>3 DEF Families!FlightsOK, Families!NoRequest
  <2>9. Families!ChildrenHaveParents'
    BY <1>1, <2>1, <2>3, <2>4, <2>6, <2>7, <2>8 DEF Families!Inv, Families!ChildrenHaveParents
  <2>10. PICK W : W = {w}
    OBVIOUS
  <2>11. /\ W \subseteq Workers /\ \A v \in W : Families!Sound(v)'
         /\ \A v \in Workers \ W : pc'[v] = pc[v] /\ req'[v] = req[v]
    BY <2>4, <2>5, <2>10
  <2>12. /\ \A l \in x3' : x1'[l[1]] = "here" /\ x2'[l[2]] = "here"
         /\ x2' \in [Rows \cup Others -> {"here", "gone"}] /\ x3' \subseteq Ones \X (Rows \cup Others)
         /\ x4 \subseteq x4' /\ x4' \subseteq Ones /\ x6 \subseteq x6' /\ x6' \subseteq Ones
    BY <1>1, <2>1, <2>7
  <2> QED
    BY <2>4, <2>6, <2>7, <2>9, <2>11, <2>12, FamiliesStep
<1>4. ASSUME ~(\E s \in Ones, p \in Rows \cup Others : Families!LinkParent(w, s, p) \/ Families!CreateChild(w, s, p))
      PROVE  Families!Inv'
  <2>1. /\ pc[w] \in {"counting", "linking"}
        /\ req[w] \in [op : {"link", "child"}, servant : Ones, parent : Rows \cup Others]
        /\ req[w] # Families!NoRequest
    BY <1>1, <1>4
       DEF Families!Inv, Families!Sound, Families!CountParents, Families!AbortLink,
              Families!InsertLink,
                Families!Die, Families!FlightsOK
  <2>2. PICK s \in Ones, p \in Rows \cup Others : s = req[w].servant /\ p = req[w].parent
    BY <2>1
  <2>3. "servant" \in DOMAIN req[w]
    BY <2>1
  <2>4. PICK W : W = {w}
    OBVIOUS
  <2>5. PICK none : none = Families!NoRequest
    OBVIOUS
  <2>6. "servant" \notin DOMAIN none
    BY <2>5 DEF Families!NoRequest
  <2>7. CASE Families!AbortLink(w)
    <3>1. /\ Families!At(w, none, "idle") /\ UNCHANGED <<x1, x2, x3, x4, x5, sent>> /\ x6' = x6 \cup {s}
      BY <2>2, <2>5, <2>7 DEF Families!AbortLink, Families!Die, Families!Return, Families!Continue
    <3>2. /\ Families!FlightsOK' /\ pc'[w] = "idle" /\ req'[w] = none
          /\ \A v \in Workers \ {w} : pc'[v] = pc[v] /\ req'[v] = req[v]
      BY <1>1, <1>2, <2>5, <3>1
    <3>3. \A d \in Ones : Families!ParentsOf(d)' = Families!ParentsOf(d)
      BY <3>1 DEF Families!ParentsOf
    <3>4. Families!ChildrenHaveParents'
      BY <1>1, <2>2, <2>3, <3>1, <3>2, <3>3 DEF Families!Inv, Families!ChildrenHaveParents
    <3>5. Families!Sound(w)'
      BY <3>2 DEF Families!Sound
    <3> QED
      BY <1>1, <2>4, <3>1, <3>2, <3>3, <3>4, <3>5, FamiliesStep
  <2>8. CASE Families!CountParents(w)
    <3>1. PICK r, place :
            /\ Families!At(w, r, place)
            /\ place = "idle" <=> r = Families!NoRequest
            /\ \/ /\ r = none /\ place = "idle"
                  /\ Families!Cardinality(Families!ParentsOf(s)) >= 3 \/ p \in Families!ParentsOf(s)
               \/ /\ r = req[w] /\ place = "linking"
                  /\ ~(Families!Cardinality(Families!ParentsOf(s)) >= 3)
      <4>1. \/ /\ Families!At(w, none, "idle")
               /\ Families!Cardinality(Families!ParentsOf(s)) >= 3 \/ p \in Families!ParentsOf(s)
            \/ /\ Families!At(w, req[w], "linking")
               /\ ~(Families!Cardinality(Families!ParentsOf(s)) >= 3)
        BY <2>2, <2>5, <2>8
           DEF Families!CountParents, Families!Return, Families!Continue, Families!MaxParents
      <4> QED
        BY <2>1, <2>5, <4>1
    <3>2. UNCHANGED <<x1, x2, x3, x4, x5, x6, sent>>
      BY <2>8 DEF Families!CountParents, Families!Continue, Families!Return
    <3>3. /\ Families!FlightsOK' /\ pc'[w] = place /\ req'[w] = r
          /\ \A v \in Workers \ {w} : pc'[v] = pc[v] /\ req'[v] = req[v]
      BY <1>1, <1>2, <3>1, <3>2
    <3>4. \A d \in Ones : Families!ParentsOf(d)' = Families!ParentsOf(d)
      BY <3>2 DEF Families!ParentsOf
    <3>5. /\ Families!Cardinality(Families!ParentsOf(s)) \in Nat
          /\ Families!Cardinality(Families!ParentsOf(s)) >= 3 => Families!ParentsOf(s) # {}
      BY FamiliesCounts DEF Families!ParentsOf
    <3>6. Families!ChildrenHaveParents'
      BY <1>1, <2>2, <2>3, <3>1, <3>2, <3>3, <3>4, <3>5
         DEF Families!Inv, Families!ChildrenHaveParents
    <3>7. Families!Sound(w)'
      BY <2>1, <2>2, <3>1, <3>3, <3>4, <3>5 DEF Families!Sound, Families!MaxParents
    <3>8. /\ W \subseteq Workers /\ \A v \in W : Families!Sound(v)'
          /\ \A v \in Workers \ W : pc'[v] = pc[v] /\ req'[v] = req[v]
      BY <2>4, <3>3, <3>7
    <3>9. /\ x1' \in [Ones -> {"none", "here", "gone"}] /\ x5' \subseteq Ones
          /\ \A l \in x3' : x1'[l[1]] = "here" /\ x2'[l[2]] = "here"
          /\ x2' \in [Rows \cup Others -> {"here", "gone"}] /\ x3' \subseteq Ones \X (Rows \cup Others)
          /\ x4 \subseteq x4' /\ x4' \subseteq Ones /\ x6 \subseteq x6' /\ x6' \subseteq Ones
      BY <1>1, <3>2
    <3> QED
      BY <2>2, <3>3, <3>4, <3>6, <3>8, <3>9, FamiliesStep
  <2>9. CASE Families!InsertLink(w)
    <3>1. /\ Families!At(w, none, "idle") /\ UNCHANGED <<x1, x2, x5, sent>> /\ pc[w] = "linking"
          /\ x3' = IF x1[s] = "here" /\ x2[p] = "here" THEN x3 \cup {<<s, p>>} ELSE x3
          /\ x4' = IF Families!Alongside(w, "servant", s) THEN x4 \cup {s} ELSE x4
          /\ x6' = IF x2[p] = "gone" THEN x6 \cup {s} ELSE x6
      BY <2>2, <2>5, <2>9 DEF Families!InsertLink, Families!Return, Families!Continue
    <3>2. /\ Families!FlightsOK' /\ pc'[w] = "idle" /\ req'[w] = none
          /\ \A v \in Workers \ {w} : pc'[v] = pc[v] /\ req'[v] = req[v]
      BY <1>1, <1>2, <2>5, <3>1
    <3>3. /\ x3' \subseteq Ones \X (Rows \cup Others)
          /\ \A l \in x3' : x1'[l[1]] = "here" /\ x2'[l[2]] = "here"
          /\ x4 \subseteq x4' /\ x4' \subseteq Ones /\ x6 \subseteq x6' /\ x6' \subseteq Ones
      BY <1>1, <3>1
    <3>4. /\ \A d \in Ones \ {s} : Families!ParentsOf(d)' = Families!ParentsOf(d)
          /\ Families!ParentsOf(s)' = Families!ParentsOf(s) \/ Families!ParentsOf(s)' = Families!ParentsOf(s) \cup {p}
          /\ x1[s] = "here" => p \in Families!ParentsOf(s)' \/ s \in x6'
      BY <1>1, <3>1 DEF Families!ParentsOf
    <3>5. Families!ChildrenHaveParents'
      BY <1>1, <2>2, <2>3, <3>1, <3>2, <3>3, <3>4 DEF Families!Inv, Families!ChildrenHaveParents
    <3>6. Families!Cardinality(Families!ParentsOf(s)) < 3 \/ s \in x4
      BY <2>2, <3>1 DEF Families!Inv, Families!Sound, Families!MaxParents
    <3>7. \A v \in Workers \ {w} : "servant" \in DOMAIN req[v] /\ req[v].servant = s => s \in x4'
      BY <3>1 DEF Families!Alongside
    <3>8. Families!Sound(w)'
      BY <3>2 DEF Families!Sound
    <3>9. \/ Families!ParentsOf(s)' \subseteq Families!ParentsOf(s)
          \/ \E q : Families!ParentsOf(s)' = Families!ParentsOf(s) \cup {q}
      BY <3>4
    <3>10. /\ W \subseteq Workers /\ \A v \in W : Families!Sound(v)'
           /\ \A v \in Workers \ W : /\ pc'[v] = pc[v] /\ req'[v] = req[v]
                                      /\ ("servant" \in DOMAIN req[v] /\ req[v].servant = s => s \in x4')
      BY <2>4, <3>2, <3>7, <3>8
    <3>11. /\ x1' \in [Ones -> {"none", "here", "gone"}] /\ x5' \subseteq Ones
           /\ x2' \in [Rows \cup Others -> {"here", "gone"}]
      BY <1>1, <3>1
    <3>12. \A d \in Ones \ {s} : Families!ParentsOf(d)' \subseteq Families!ParentsOf(d)
      BY <3>4
    <3> QED
      BY <2>2, <3>2, <3>3, <3>5, <3>6, <3>9, <3>10, <3>11, <3>12, FamiliesStep
  <2> QED
    BY <1>4, <2>7, <2>8, <2>9
<1> QED
  BY <1>3, <1>4

LEMMA FamiliesNext == Families!Inv /\ Families!Next => Families!Inv'
BY FamiliesGo, FamiliesRequests DEF Families!Next, Families!LinkDesk

LEMMA FamiliesStays == Families!Inv /\ UNCHANGED <<x1, x2, x3, x4, x5, x6, pc, req, sent>> => Families!Inv'
<1> SUFFICES ASSUME Families!Inv, UNCHANGED <<x1, x2, x3, x4, x5, x6, pc, req, sent>> PROVE Families!Inv'
  OBVIOUS
<1>1. \A s : Families!ParentsOf(s)' = Families!ParentsOf(s)
  BY DEF Families!ParentsOf
<1>2. Families!TypeOK' /\ x3' \subseteq Ones \X (Rows \cup Others)
  BY DEF Families!Inv, Families!TypeOK, Families!FlightsOK
<1>3. Families!ParentsBounded' /\ Families!ChildrenHaveParents'
  BY <1>1 DEF Families!Inv, Families!ParentsBounded, Families!ChildrenHaveParents
<1>4. ASSUME NEW v \in Workers PROVE Families!Sound(v)'
  BY <1>1 DEF Families!Inv, Families!Sound
<1> QED
  BY <1>2, <1>3, <1>4 DEF Families!Inv

-----------------------------------------------------------------------------
\* Accounts

LEMMA PeopleConstants ==
    /\ IsFiniteSet(Ones) /\ IsFiniteSet(Rows) /\ IsFiniteSet(Others)
    /\ MaxCalls \in Nat /\ FewCalls \in Nat /\ ManyCalls \in Nat /\ Logged \in Nat
    /\ None # Gone /\ None \notin Rows /\ None # Chief /\ None \notin Ones
    /\ {None, Gone} \cap People!User = {} /\ None \notin People!InvitationCode
BY ServicesAssumption

LEMMA PeopleCardinality == \A S : People!Cardinality(S) = Cardinality(S)
BY DEF People!Cardinality, Cardinality

\* Who has an office can be counted.
LEMMA PeopleCounts ==
    ASSUME NEW S, S \subseteq {Chief} \cup Rows
    PROVE  /\ People!Cardinality(S) \in Nat
           /\ \A T : T \subseteq S => People!Cardinality(T) \in Nat /\ People!Cardinality(T) <= People!Cardinality(S)
           /\ \A u : People!Cardinality({u}) = 1
           /\ People!Cardinality({}) = 0
<1>1. IsFiniteSet(S) /\ Cardinality(S) \in Nat
  BY PeopleConstants, FS_Singleton, FS_Union, FS_Subset, FS_CardinalityType
<1>2. \A T : T \subseteq S => Cardinality(T) \in Nat /\ Cardinality(T) <= Cardinality(S)
  BY <1>1, FS_Subset, FS_CardinalityType
<1>3. (\A u : Cardinality({u}) = 1) /\ Cardinality({}) = 0
  BY FS_Singleton, FS_EmptySet
<1> QED
  BY <1>1, <1>2, <1>3, PeopleCardinality

LEMMA PeopleInit == People!Init => People!Inv
<1> SUFFICES ASSUME People!Init PROVE People!Inv
  OBVIOUS
<1>1. People!FlightsOK /\ \A w \in Workers : People!Sound(w)
  BY PeopleConstants
     DEF People!Init, People!InitFlights, People!FlightsOK, People!Sound, People!NoRequest
<1>2. PICK e \in Others :
        /\ x1 = [u \in {Chief} \cup Rows |->
                    IF u = Chief THEN [role |-> "ADMIN", active |-> TRUE, email |-> e, hash |-> e] ELSE None]
        /\ x8 = [u \in {Chief} \cup Rows |-> IF u = Chief THEN e ELSE None]
  BY DEF People!Init
<1>3. PICK row : row = [role |-> "ADMIN", active |-> TRUE, email |-> e, hash |-> e]
  OBVIOUS
<1>4. row \in People!User /\ row.role = "ADMIN" /\ row.email = e /\ row.hash = e
  BY <1>3 DEF People!User, People!Roles
<1>5. /\ x1 \in [{Chief} \cup Rows -> People!User \cup {None, Gone}]
      /\ x8 \in [{Chief} \cup Rows -> Others \cup {None}]
      /\ \A u \in {Chief} \cup Rows : x1[u] = IF u = Chief THEN row ELSE None
      /\ \A u \in {Chief} \cup Rows : x8[u] = IF u = Chief THEN e ELSE None
  BY <1>2, <1>3, <1>4
<1>6. /\ People!Having("ADMIN") = {Chief} /\ People!Having("AUMONIER") = {}
      /\ People!AddressesUnique /\ People!AddressesStand
  BY <1>4, <1>5, PeopleConstants
     DEF People!Having, People!Exists, People!AddressesUnique, People!AddressesStand
<1>7. People!ChiefIsAdmin /\ People!OfficesHeld
  BY <1>6, PeopleCounts DEF People!ChiefIsAdmin, People!OfficesHeld
<1>8. People!CodesServeOnce /\ People!MadeAreMarked
  BY DEF People!Init, People!CodesServeOnce, People!MadeAreMarked
<1> QED
  BY <1>1, <1>5, <1>6, <1>7, <1>8 DEF People!Init, People!Inv, People!TypeOK

\* A request stays sound through a step of others, when what it is about is left as
\* it was or they have met on it.
LEMMA PeopleOther ==
    ASSUME People!Inv, NEW v \in Workers, pc'[v] = pc[v], req'[v] = req[v],
           x3 \subseteq x3', x4 \subseteq x4', x5 \subseteq x5', x7 \subseteq x7',
           \A u \in {Chief} \cup Rows :
              \/ x1'[u] = x1[u] \/ x1[u] = None
              \/ /\ x1'[u] # None
                 /\ \/ ~People!Exists(x1'[u]) \/ u \in x4'
                    \/ ~("user" \in DOMAIN req[v] /\ req[v].user = u),
           \A u \in {Chief} \cup Rows :
              \/ ~People!Exists(x1'[u]) \/ u \in x4'
              \/ People!Exists(x1[u]) /\ x1'[u].hash = x1[u].hash
              \/ x1'[u].hash = None \/ x1'[u].hash \in x3'
              \/ ~("email" \in DOMAIN req[v] /\ req[v].email = x1'[u].hash),
           \/ People!Having("AUMONIER")' \subseteq People!Having("AUMONIER")
           \/ "AUMONIER" \in x5'
           \/ ~("role" \in DOMAIN req[v] /\ req[v].role = "AUMONIER"),
           \A c \in Ones : x2[c] # None => x2'[c] # None,
           \A c \in Ones :
              \/ c \in x7' \/ ~("code" \in DOMAIN req[v] /\ req[v].code = c)
              \/ /\ x6'[c] = x6[c]
                 /\ \A u \in Workers : People!Unmarked(u, c) => People!Unmarked(u, c)'
    PROVE  People!Sound(v)'
<1>1. CASE pc[v] = "idle"
  BY <1>1 DEF People!Sound
<1>2. ASSUME NEW e, NEW but, "email" \in DOMAIN req[v], req[v].email = e, People!Free(e, but)
      PROVE  People!Free(e, but)'
  BY <1>2 DEF People!Free
<1>3. CASE People!Registering(v)
  <2>1. PICK e \in Others \cup {None}, c \in Ones \cup {None}, role \in People!Roles :
          e = req[v].email /\ c = req[v].code /\ role = req[v].role
    BY <1>3 DEF People!Registering
  <2>2. {"email", "code", "role"} \subseteq DOMAIN req[v]
    BY <1>3 DEF People!Registering
  <2>3. pc[v] # "checking" => People!Free(e, None)'
    BY <1>2, <1>3, <2>1, <2>2 DEF People!Registering
  <2>4. pc[v] = "inserting" /\ role = "AUMONIER" =>
          People!Having("AUMONIER")' = {} \/ "AUMONIER" \in x5'
    BY <1>3, <2>1, <2>2 DEF People!Registering
  <2>5. pc[v] = "inserting" /\ c # None =>
          /\ x2'[c] # None
          /\ x6'[c] = 0 \/ c \in x7' \/ \E u \in Workers \ {v} : People!Unmarked(u, c)'
    BY <1>3, <2>1, <2>2 DEF People!Registering
  <2> QED
    BY <1>3, <2>1, <2>3, <2>4, <2>5 DEF People!Sound, People!Registering
<1>4. CASE People!Coding(v)
  BY <1>4 DEF People!Sound, People!Coding
<1>5. CASE People!Editing(v)
  <2>1. PICK u \in {Chief} \cup Rows, e \in Others \cup {None} : u = req[v].user /\ e = req[v].email
    BY <1>5 DEF People!Editing
  <2>2. {"user", "email"} \subseteq DOMAIN req[v]
    BY <1>5 DEF People!Editing
  <2>3. x1[u] # None /\ (u \in x4 \/ ~People!Exists(x1[u]) \/ x1[u] = req[v].read)
    BY <1>5, <2>1 DEF People!Editing
  <2>4. x1'[u] # None /\ (u \in x4' \/ ~People!Exists(x1'[u]) \/ x1'[u] = req[v].read)
    BY <2>1, <2>2, <2>3
  <2>5. pc[v] = "storing" => u \in x4' \/ People!Free(e, u)'
    BY <1>2, <1>5, <2>1, <2>2 DEF People!Editing
  <2> QED
    BY <1>5, <2>1, <2>4, <2>5 DEF People!Sound, People!Editing
<1> QED
  BY <1>1, <1>3, <1>4, <1>5 DEF People!Inv, People!Sound

\* A step of one request.
LEMMA PeopleStep ==
    ASSUME People!Inv, NEW w \in Workers, NEW r, NEW place, People!At(w, r, place),
           sent' \in 0 .. MaxCalls, place = "idle" <=> r = People!NoRequest,
           x1' \in [{Chief} \cup Rows -> People!User \cup {None, Gone}],
           x2' \in [Ones -> People!InvitationCode \cup {None}],
           x8' \in [{Chief} \cup Rows -> Others \cup {None}],
           x3' \subseteq Others, x4' \subseteq {Chief} \cup Rows, x5' \subseteq People!Roles,
           x6' \in [Ones -> Nat], x7' \subseteq Ones,
           x3 \subseteq x3', x4 \subseteq x4', x5 \subseteq x5', x7 \subseteq x7',
           \A u \in {Chief} \cup Rows :
              \/ x1'[u] = x1[u] \/ x1[u] = None
              \/ x1'[u] # None /\ (u \in x4' \/ ~People!Alongside(w, "user", u)),
           \A u \in {Chief} \cup Rows :
              \/ ~People!Exists(x1'[u]) \/ u \in x4'
              \/ People!Exists(x1[u]) /\ x1'[u].hash = x1[u].hash
              \/ x1'[u].hash = None \/ x1'[u].hash \in x3'
              \/ ~People!Alongside(w, "email", x1'[u].hash),
           \/ People!Having("AUMONIER")' \subseteq People!Having("AUMONIER")
           \/ "AUMONIER" \in x5' \/ ~People!Alongside(w, "role", "AUMONIER"),
           \A c \in Ones : x2[c] # None => x2'[c] # None,
           \A c \in Ones : \/ c \in x7' \/ ~People!Alongside(w, "code", c)
                           \/ x6'[c] = x6[c] /\ ~People!Unmarked(w, c),
           People!AddressesUnique', People!AddressesStand',
           People!ChiefIsAdmin',
           People!Cardinality(People!Having("AUMONIER"))' <= 1 \/ "AUMONIER" \in x5',
           People!CodesServeOnce',
           \A c \in Ones :
              x6'[c] > 0 => /\ x2'[c] # None
                            /\ \/ ~People!Usable(c)' \/ c \in x7'
                               \/ place = "marking" /\ r.code = c
                               \/ \E v \in Workers \ {w} : People!Unmarked(v, c),
           pc'[w] = place /\ req'[w] = r => People!Sound(w)'
    PROVE  People!Inv'
<1>1. /\ People!FlightsOK' /\ pc'[w] = place /\ req'[w] = r
      /\ \A v \in Workers \ {w} : pc'[v] = pc[v] /\ req'[v] = req[v]
  BY DEF People!Inv, People!TypeOK, People!FlightsOK, People!At
<1>2. People!TypeOK'
  BY <1>1 DEF People!TypeOK
<1>3. \A v \in Workers \ {w}, c \in Ones : People!Unmarked(v, c) <=> People!Unmarked(v, c)'
  BY <1>1 DEF People!Unmarked
<1>4. People!OfficesHeld'
  BY PeopleCounts DEF People!OfficesHeld, People!ChiefIsAdmin
<1>5. People!MadeAreMarked'
  <2> SUFFICES ASSUME NEW c \in Ones, x6'[c] > 0
               PROVE  x2'[c] # None /\ (\/ ~People!Usable(c)' \/ c \in x7'
                                        \/ \E v \in Workers : People!Unmarked(v, c)')
    BY DEF People!MadeAreMarked
  <2>1. place = "marking" /\ r.code = c => People!Unmarked(w, c)'
    BY <1>1 DEF People!Unmarked
  <2> QED
    BY <1>3, <2>1
<1>6. ASSUME NEW v \in Workers, v # w PROVE People!Sound(v)'
  <2>1. \A f, x : ~People!Alongside(w, f, x) => ~(f \in DOMAIN req[v] /\ req[v][f] = x)
    BY <1>6 DEF People!Alongside
  <2>2. /\ \A u : ~People!Alongside(w, "user", u) => ~("user" \in DOMAIN req[v] /\ req[v].user = u)
        /\ \A e : ~People!Alongside(w, "email", e) => ~("email" \in DOMAIN req[v] /\ req[v].email = e)
        /\ \A x : ~People!Alongside(w, "role", x) => ~("role" \in DOMAIN req[v] /\ req[v].role = x)
        /\ \A c : ~People!Alongside(w, "code", c) => ~("code" \in DOMAIN req[v] /\ req[v].code = c)
    BY <2>1
  <2>3. \A c \in Ones :
          \/ c \in x7' \/ ~("code" \in DOMAIN req[v] /\ req[v].code = c)
          \/ /\ x6'[c] = x6[c]
             /\ \A u \in Workers : People!Unmarked(u, c) => People!Unmarked(u, c)'
    BY <1>3, <2>2
  <2>4. \A u \in {Chief} \cup Rows :
          \/ x1'[u] = x1[u] \/ x1[u] = None
          \/ /\ x1'[u] # None
             /\ \/ ~People!Exists(x1'[u]) \/ u \in x4'
                \/ ~("user" \in DOMAIN req[v] /\ req[v].user = u)
    BY <2>2
  <2>5. \A u \in {Chief} \cup Rows :
          \/ ~People!Exists(x1'[u]) \/ u \in x4'
          \/ People!Exists(x1[u]) /\ x1'[u].hash = x1[u].hash
          \/ x1'[u].hash = None \/ x1'[u].hash \in x3'
          \/ ~("email" \in DOMAIN req[v] /\ req[v].email = x1'[u].hash)
    BY <2>2
  <2>6. \/ People!Having("AUMONIER")' \subseteq People!Having("AUMONIER")
        \/ "AUMONIER" \in x5'
        \/ ~("role" \in DOMAIN req[v] /\ req[v].role = "AUMONIER")
    BY <2>2
  <2> QED
    BY <1>1, <1>6, <2>3, <2>4, <2>5, <2>6, PeopleOther
<1> QED
  BY <1>1, <1>2, <1>4, <1>5, <1>6 DEF People!Inv

\* The tables and what is told of them are as they were.
LEMMA PeopleMove ==
    ASSUME People!Inv, NEW w \in Workers, NEW r, NEW place, People!At(w, r, place),
           sent' \in 0 .. MaxCalls, place = "idle" <=> r = People!NoRequest,
           UNCHANGED <<x1, x2, x3, x4, x5, x6, x7, x8>>, pc[w] # "marking",
           pc'[w] = place /\ req'[w] = r => People!Sound(w)'
    PROVE  People!Inv'
<1>1. /\ x1 \in [{Chief} \cup Rows -> People!User \cup {None, Gone}]
      /\ x2 \in [Ones -> People!InvitationCode \cup {None}]
      /\ x8 \in [{Chief} \cup Rows -> Others \cup {None}]
      /\ x3 \subseteq Others /\ x4 \subseteq {Chief} \cup Rows /\ x5 \subseteq People!Roles
      /\ x6 \in [Ones -> Nat] /\ x7 \subseteq Ones
  BY DEF People!Inv, People!TypeOK
<1>2. \A role : People!Having(role)' = People!Having(role)
  BY DEF People!Having, People!Exists
<1>3. People!AddressesUnique' /\ People!AddressesStand' /\ People!ChiefIsAdmin' /\ People!CodesServeOnce'
  BY <1>2
     DEF People!Inv, People!AddressesUnique, People!AddressesStand, People!ChiefIsAdmin,
            People!CodesServeOnce
<1>4. People!Cardinality(People!Having("AUMONIER"))' <= 1 \/ "AUMONIER" \in x5'
  BY <1>2 DEF People!Inv, People!OfficesHeld
<1>5. \A c \in Ones : ~People!Unmarked(w, c) /\ (People!Usable(c)' <=> People!Usable(c))
  BY DEF People!Unmarked, People!Usable
<1>6. \A c \in Ones :
         x6'[c] > 0 => /\ x2'[c] # None
                       /\ \/ ~People!Usable(c)' \/ c \in x7'
                          \/ \E v \in Workers \ {w} : People!Unmarked(v, c)
  BY <1>5 DEF People!Inv, People!MadeAreMarked
<1>7. People!Having("AUMONIER")' \subseteq People!Having("AUMONIER")
  BY <1>2
<1> QED
  BY <1>1, <1>3, <1>4, <1>5, <1>6, <1>7, PeopleStep

\* A step of no request: an account goes, a code is made or revoked.
LEMMA PeopleOutside ==
    ASSUME People!Inv, UNCHANGED <<pc, req, sent, x3, x4, x5, x6, x7, x8>>,
           x1' \in [{Chief} \cup Rows -> People!User \cup {None, Gone}],
           x2' \in [Ones -> People!InvitationCode \cup {None}],
           \A u \in {Chief} \cup Rows : x1'[u] = x1[u] \/ (x1'[u] = Gone /\ x1[u].role # "ADMIN"),
           \A c \in Ones : x2[c] # None => x2'[c] # None,
           \A c \in Ones : x2[c] # None /\ x2'[c].status = "PENDING" => x2[c].status = "PENDING"
    PROVE  People!Inv'
<1>1. People!TypeOK'
  BY DEF People!Inv, People!TypeOK, People!FlightsOK
<1>2. \A u \in {Chief} \cup Rows : People!Exists(x1'[u]) => x1'[u] = x1[u]
  BY DEF People!Exists
<1>3. People!AddressesUnique' /\ People!AddressesStand' /\ People!CodesServeOnce'
  BY <1>2 DEF People!Inv, People!AddressesUnique, People!AddressesStand, People!CodesServeOnce
<1>4. People!Having("ADMIN")' = People!Having("ADMIN") /\ People!Having("AUMONIER")' \subseteq People!Having("AUMONIER")
  BY <1>2 DEF People!Having, People!Exists
<1>5. People!ChiefIsAdmin' /\ People!OfficesHeld'
  <2>1. PICK S : S = People!Having("AUMONIER") /\ S \subseteq {Chief} \cup Rows
    BY DEF People!Having
  <2>2. /\ People!Cardinality(S) \in Nat
        /\ \A T : T \subseteq S => People!Cardinality(T) \in Nat /\ People!Cardinality(T) <= People!Cardinality(S)
    BY <2>1, PeopleCounts
  <2>3. People!Cardinality(People!Having("AUMONIER"))' <= 1 \/ "AUMONIER" \in x5'
    <3>1. PICK T : T = People!Having("AUMONIER")' /\ T \subseteq S
      BY <1>4, <2>1
    <3>2. People!Cardinality(S) <= 1 \/ "AUMONIER" \in x5
      BY <2>1 DEF People!Inv, People!OfficesHeld
    <3>3. People!Cardinality(T) <= 1 \/ "AUMONIER" \in x5
      BY <2>2, <3>1, <3>2
    <3> QED
      BY <3>1, <3>3
  <2> QED
    BY <1>4, <2>3 DEF People!Inv, People!ChiefIsAdmin, People!OfficesHeld
<1>6. \A v \in Workers, c \in Ones : People!Unmarked(v, c)' <=> People!Unmarked(v, c)
  BY DEF People!Unmarked
<1>7. People!MadeAreMarked'
  BY <1>6 DEF People!Inv, People!MadeAreMarked, People!Usable
<1>8. ASSUME NEW v \in Workers PROVE People!Sound(v)'
  <2>1. \A u \in {Chief} \cup Rows :
          \/ x1'[u] = x1[u] \/ x1[u] = None
          \/ x1'[u] # None /\ ~People!Exists(x1'[u])
    BY PeopleConstants DEF People!Exists
  <2>2. \A u \in {Chief} \cup Rows :
          ~People!Exists(x1'[u]) \/ (People!Exists(x1[u]) /\ x1'[u].hash = x1[u].hash)
    BY <1>2
  <2>3. \A c \in Ones : x6'[c] = x6[c] /\ \A u \in Workers : People!Unmarked(u, c) => People!Unmarked(u, c)'
    BY <1>6
  <2>4. pc'[v] = pc[v] /\ req'[v] = req[v]
    OBVIOUS
  <2> QED
    BY <1>4, <2>1, <2>2, <2>3, <2>4, PeopleOther
<1> QED
  BY <1>1, <1>3, <1>5, <1>7, <1>8 DEF People!Inv

LEMMA PeopleRows ==
    ASSUME People!Inv,
           \/ \E u \in {Chief} \cup Rows : People!DeleteUser(u)
           \/ \E c \in Ones : \/ People!RevokeInvitation(c)
                              \/ \E e \in Others \cup {None} : People!CreateInvitation(c, e)
    PROVE  People!Inv'
<1> USE DEF People!accountHistory, People!flights
<1>1. /\ x1 \in [{Chief} \cup Rows -> People!User \cup {None, Gone}]
      /\ x2 \in [Ones -> People!InvitationCode \cup {None}]
  BY DEF People!Inv, People!TypeOK
<1>2. ASSUME NEW u \in {Chief} \cup Rows, People!DeleteUser(u) PROVE People!Inv'
  <2>1. /\ UNCHANGED <<pc, req, sent, x3, x4, x5, x6, x7, x8>>
        /\ x1' = [x1 EXCEPT ![u] = Gone] /\ u # Chief /\ People!Exists(x1[u])
        /\ x2' = [c \in Ones |-> IF x2[c] # None /\ x2[c].used_by = u
                                 THEN [x2[c] EXCEPT !.used_by = None] ELSE x2[c]]
    BY <1>2 DEF People!DeleteUser
  <2>2. x1[u].role # "ADMIN"
    BY <2>1 DEF People!Inv, People!ChiefIsAdmin, People!Having
  <2>3. ASSUME NEW c \in Ones
        PROVE  /\ x2'[c] \in People!InvitationCode \cup {None}
               /\ x2[c] = None <=> x2'[c] = None
               /\ x2[c] # None => x2'[c].status = x2[c].status
    <3>1. CASE x2[c] = None
      BY <2>1, <3>1
    <3>2. CASE x2[c] # None
      <4>1. PICK code \in People!InvitationCode : code = x2[c]
        BY <1>1, <3>2
      <4>2. x2'[c] = code \/ x2'[c] = [code EXCEPT !.used_by = None]
        BY <2>1, <3>2, <4>1
      <4>3. [code EXCEPT !.used_by = None] \in People!InvitationCode /\ [code EXCEPT !.used_by = None].status = code.status
        BY DEF People!InvitationCode
      <4> QED
        BY <3>2, <4>1, <4>2, <4>3, PeopleConstants
    <3> QED
      BY <3>1, <3>2
  <2>4. x2' \in [Ones -> People!InvitationCode \cup {None}] /\ x1' \in [{Chief} \cup Rows -> People!User \cup {None, Gone}]
    BY <1>1, <2>1, <2>3
  <2>5. /\ \A c \in Ones : x2[c] # None => x2'[c] # None
        /\ \A c \in Ones : x2[c] # None /\ x2'[c].status = "PENDING" => x2[c].status = "PENDING"
    BY <2>3
  <2>6. \A v \in {Chief} \cup Rows : x1'[v] = x1[v] \/ (x1'[v] = Gone /\ x1[v].role # "ADMIN")
    BY <1>1, <2>1, <2>2
  <2> QED
    BY <2>1, <2>4, <2>5, <2>6, PeopleOutside
<1>3. ASSUME NEW c \in Ones, People!RevokeInvitation(c) PROVE People!Inv'
  <2>1. /\ UNCHANGED <<pc, req, sent, x1, x3, x4, x5, x6, x7, x8>>
        /\ x2' = [x2 EXCEPT ![c].status = "REVOKED"] /\ x2[c] # None
    BY <1>3 DEF People!RevokeInvitation
  <2>2. PICK code \in People!InvitationCode : code = x2[c]
    BY <1>1, <2>1
  <2>3. [code EXCEPT !.status = "REVOKED"] \in People!InvitationCode /\ [code EXCEPT !.status = "REVOKED"].status = "REVOKED"
    BY DEF People!InvitationCode
  <2>4. \A d \in Ones : x2'[d] = IF d = c THEN [code EXCEPT !.status = "REVOKED"] ELSE x2[d]
    BY <1>1, <2>1, <2>2
  <2>5. /\ \A d \in Ones : x2[d] # None => x2'[d] # None
        /\ \A d \in Ones : x2[d] # None /\ x2'[d].status = "PENDING" => x2[d].status = "PENDING"
    BY <2>3, <2>4, PeopleConstants
  <2>6. x2' \in [Ones -> People!InvitationCode \cup {None}]
    BY <1>1, <2>1, <2>2, <2>3
  <2> QED
    BY <1>1, <2>1, <2>5, <2>6, PeopleOutside
<1>4. ASSUME NEW c \in Ones, NEW e \in Others \cup {None}, People!CreateInvitation(c, e) PROVE People!Inv'
  <2>1. PICK code : code = [status |-> "PENDING", email |-> e, used_by |-> None]
    OBVIOUS
  <2>2. /\ UNCHANGED <<pc, req, sent, x1, x3, x4, x5, x6, x7, x8>>
        /\ x2' = [x2 EXCEPT ![c] = code] /\ x2[c] = None
    BY <1>4, <2>1 DEF People!CreateInvitation
  <2>3. code \in People!InvitationCode
    BY <2>1 DEF People!InvitationCode
  <2>4. /\ \A d \in Ones : x2[d] # None => x2'[d] # None
        /\ \A d \in Ones : x2[d] # None /\ x2'[d].status = "PENDING" => x2[d].status = "PENDING"
    BY <1>1, <2>2
  <2>5. x2' \in [Ones -> People!InvitationCode \cup {None}]
    BY <1>1, <2>2, <2>3
  <2> QED
    BY <1>1, <2>2, <2>4, <2>5, PeopleOutside
<1> QED
  BY <1>2, <1>3, <1>4

\* A request comes in.
LEMMA PeopleBegins ==
    ASSUME People!Inv, NEW w \in Workers,
           \/ \E role \in People!Roles, e \in Others \cup {None}, code \in Ones \cup {None} : People!Register(w, role, e, code)
           \/ \E c \in Ones : People!ToggleInvitation(w, c)
           \/ \E u \in {Chief} \cup Rows :
                \/ People!EditOther(w, u)
                \/ \E active \in BOOLEAN : \/ People!SetActive(w, u, active)
                                           \/ \E e \in Others : People!EditAddress(w, u, e, active)
    PROVE  People!Inv'
<1> USE DEF People!accountHistory, People!accountTables
<1>1. /\ x1 \in [{Chief} \cup Rows -> People!User \cup {None, Gone}]
      /\ x2 \in [Ones -> People!InvitationCode \cup {None}]
      /\ sent \in 0 .. MaxCalls /\ (sent < MaxCalls => sent + 1 \in 0 .. MaxCalls)
      /\ DOMAIN pc = Workers /\ DOMAIN req = Workers
  BY PeopleConstants DEF People!Inv, People!TypeOK, People!FlightsOK
<1>2. ASSUME NEW r, NEW place, People!Begin(w, r, place), UNCHANGED <<x1, x2, x3, x4, x5, x6, x7, x8>>,
             place # "idle", r # People!NoRequest,
             pc'[w] = place /\ req'[w] = r => People!Sound(w)'
      PROVE  People!Inv'
  <2>1. People!At(w, r, place) /\ sent' \in 0 .. MaxCalls /\ pc[w] # "marking"
    BY <1>1, <1>2 DEF People!Begin
  <2> QED
    BY <1>2, <2>1, PeopleMove
<1>3. ASSUME NEW role \in People!Roles, NEW e \in Others \cup {None}, NEW code \in Ones \cup {None},
             People!Register(w, role, e, code)
      PROVE  People!Inv'
  <2>1. PICK r : r = [op |-> "register", role |-> role, email |-> e, code |-> code]
    OBVIOUS
  <2>2. /\ People!Begin(w, r, "checking") /\ UNCHANGED <<x1, x2, x3, x4, x5, x6, x7, x8>>
        /\ r # People!NoRequest
        /\ r \in [op : {"register"}, role : People!Roles, email : Others \cup {None}, code : Ones \cup {None}]
    BY <1>3, <2>1 DEF People!Register, People!NoRequest
  <2>3. pc'[w] = "checking" /\ req'[w] = r => People!Sound(w)'
    BY <2>2 DEF People!Sound, People!Registering
  <2> QED
    BY <1>2, <2>2, <2>3
<1>4. ASSUME NEW c \in Ones, People!ToggleInvitation(w, c) PROVE People!Inv'
  <2>1. PICK r : r = [op |-> "toggle", code |-> c,
                      status |-> IF x2[c].status = "PENDING" THEN "REVOKED" ELSE "PENDING"]
    OBVIOUS
  <2>2. /\ People!Begin(w, r, "toggling") /\ UNCHANGED <<x1, x2, x3, x4, x5, x6, x7, x8>>
        /\ r # People!NoRequest /\ x2[c] # None /\ r.code = c
        /\ r \in [op : {"toggle"}, code : Ones, status : {"PENDING", "REVOKED"}]
    BY <1>4, <2>1 DEF People!ToggleInvitation, People!NoRequest
  <2>3. pc'[w] = "toggling" /\ req'[w] = r => People!Sound(w)'
    BY <2>2 DEF People!Sound, People!Coding
  <2> QED
    BY <1>2, <2>2, <2>3
<1>5. ASSUME NEW u \in {Chief} \cup Rows, NEW new \in People!User, NEW given \in BOOLEAN, NEW place,
             People!Exists(x1[u]), People!Edit(w, u, new, given, place),
             new.hash = new.email, new.role = x1[u].role, ~given => new.email = x1[u].email,
             place = "asking" \/ (place = "storing" /\ new.email = x1[u].email)
      PROVE  People!Inv'
  <2>1. PICK r : r = [op |-> "edit", user |-> u, read |-> x1[u], new |-> new, given |-> given, email |-> new.email]
    OBVIOUS
  <2>2. /\ People!Begin(w, r, place) /\ UNCHANGED <<x1, x2, x3, x4, x5, x6, x7, x8>>
        /\ r # People!NoRequest /\ x1[u] \in People!User
        /\ r.user = u /\ r.read = x1[u] /\ r.new = new /\ r.given = given /\ r.email = new.email
    BY <1>1, <1>5, <2>1 DEF People!Edit, People!NoRequest, People!Exists
  <2>3. /\ new.email \in Others \cup {None}
        /\ r \in [op : {"edit"}, user : {Chief} \cup Rows, read : People!User, new : People!User,
                  given : BOOLEAN, email : Others \cup {None}]
    BY <2>1, <2>2 DEF People!User
  <2>4. PICK e : e = new.email
    OBVIOUS
  <2>5. place = "storing" => u \in x4 \/ People!Free(e, u)
    BY <1>5, <2>4 DEF People!Inv, People!AddressesUnique, People!AddressesStand, People!Free
  <2>6. place = "storing" => u \in x4' \/ People!Free(e, u)'
    BY <2>2, <2>5 DEF People!Free
  <2>7. x1'[u] # None /\ x1'[u] = r.read
    BY <1>5, <2>2 DEF People!Exists
  <2>8. ASSUME pc'[w] = place /\ req'[w] = r PROVE People!Sound(w)'
    <3>1. /\ pc'[w] \in {"asking", "storing"}
          /\ req'[w].user = u /\ req'[w].read = r.read /\ req'[w].new = new /\ req'[w].given = given
          /\ req'[w].email = e
      BY <1>5, <2>2, <2>4, <2>8
    <3>2. pc'[w] = "storing" => u \in x4' \/ People!Free(e, u)'
      BY <2>6, <2>8
    <3> QED
      BY <1>5, <2>2, <2>3, <2>4, <2>7, <2>8, <3>1, <3>2 DEF People!Sound, People!Editing
  <2>9. place # "idle"
    BY <1>5
  <2> QED
    BY <1>2, <2>2, <2>8, <2>9
<1>6. ASSUME NEW u \in {Chief} \cup Rows, People!Exists(x1[u])
      PROVE  x1[u] \in People!User
  BY <1>1, <1>6 DEF People!Exists
<1>7. ASSUME NEW u \in {Chief} \cup Rows, People!EditOther(w, u) PROVE People!Inv'
  <2>1. PICK row \in People!User : row = x1[u] /\ People!Exists(x1[u])
    BY <1>6, <1>7 DEF People!EditOther
  <2>2. PICK new : new = [row EXCEPT !.hash = row.email]
    OBVIOUS
  <2>3. new \in People!User /\ new.hash = new.email /\ new.role = row.role /\ new.email = row.email
    BY <2>2 DEF People!User
  <2>4. People!Edit(w, u, new, FALSE, "storing")
    BY <1>7, <2>1, <2>2 DEF People!EditOther
  <2> QED
    BY <1>5, <2>1, <2>3, <2>4
<1>8. ASSUME NEW u \in {Chief} \cup Rows, NEW active \in BOOLEAN, People!SetActive(w, u, active) PROVE People!Inv'
  <2>1. PICK row \in People!User : row = x1[u] /\ People!Exists(x1[u])
    BY <1>6, <1>8 DEF People!SetActive
  <2>2. PICK new : new = [row EXCEPT !.hash = row.email, !.active = active]
    OBVIOUS
  <2>3. new \in People!User /\ new.hash = new.email /\ new.role = row.role /\ new.email = row.email
    BY <2>2 DEF People!User
  <2>4. People!Edit(w, u, new, FALSE, "storing")
    BY <1>8, <2>1, <2>2 DEF People!SetActive
  <2> QED
    BY <1>5, <2>1, <2>3, <2>4
<1>9. ASSUME NEW u \in {Chief} \cup Rows, NEW active \in BOOLEAN, NEW e \in Others, People!EditAddress(w, u, e, active)
      PROVE  People!Inv'
  <2>1. PICK row \in People!User : row = x1[u] /\ People!Exists(x1[u])
    BY <1>6, <1>9 DEF People!EditAddress
  <2>2. PICK new : new = [row EXCEPT !.email = e, !.hash = e, !.active = active]
    OBVIOUS
  <2>3. new \in People!User /\ new.hash = new.email /\ new.role = row.role /\ new.email = e
    BY <2>2 DEF People!User
  <2>4. PICK place : place = IF e = row.email THEN "storing" ELSE "asking"
    OBVIOUS
  <2>5. People!Edit(w, u, new, TRUE, place)
    BY <1>9, <2>1, <2>2, <2>4 DEF People!EditAddress
  <2>6. place = "asking" \/ (place = "storing" /\ new.email = x1[u].email)
    BY <2>1, <2>3, <2>4
  <2> QED
    BY <1>5, <2>1, <2>3, <2>5, <2>6
<1> QED
  BY <1>3, <1>4, <1>7, <1>8, <1>9

\* A check sends a request back or lets it go on.
LEMMA PeopleChecks ==
    ASSUME People!Inv, NEW w \in Workers,
           People!CheckAddress(w) \/ People!Admit(w) \/ People!AskForAddress(w)
    PROVE  People!Inv'
<1> USE DEF People!accountHistory, People!accountTables
<1>1. sent \in 0 .. MaxCalls /\ DOMAIN pc = Workers /\ DOMAIN req = Workers /\ req[w] # People!NoRequest
  BY
     DEF People!Inv, People!TypeOK, People!FlightsOK, People!CheckAddress, People!Admit,
            People!AskForAddress
<1>2. UNCHANGED <<x1, x2, x3, x4, x5, x6, x7, x8, sent>> /\ pc[w] # "marking"
  BY DEF People!CheckAddress, People!Admit, People!AskForAddress, People!Return, People!Continue
<1>3. ASSUME People!At(w, People!NoRequest, "idle") PROVE People!Inv'
  <2>1. PICK r : r = People!NoRequest
    OBVIOUS
  <2>2. pc'[w] = "idle" /\ req'[w] = r => People!Sound(w)'
    BY DEF People!Sound
  <2> QED
    BY <1>1, <1>2, <1>3, <2>1, <2>2, PeopleMove
<1>4. ASSUME NEW place, place # "idle", People!At(w, req[w], place),
             pc'[w] = place /\ req'[w] = req[w] => People!Sound(w)'
      PROVE  People!Inv'
  <2>1. PICK r : r = req[w]
    OBVIOUS
  <2> QED
    BY <1>1, <1>2, <1>4, <2>1, PeopleMove
<1>5. ASSUME NEW e, NEW but, People!Free(e, but) PROVE People!Free(e, but)'
  BY <1>2, <1>5 DEF People!Free
<1>6. CASE People!CheckAddress(w)
  <2>1. pc[w] = "checking" /\ People!Registering(w)
    BY <1>6
       DEF People!CheckAddress, People!Inv, People!Sound, People!Registering, People!Coding,
              People!Editing
  <2>2. PICK e : e = req[w].email
    OBVIOUS
  <2>3. CASE People!Taken(e, None)
    BY <1>3, <1>6, <2>2, <2>3 DEF People!CheckAddress, People!Return, People!Continue
  <2>4. CASE ~People!Taken(e, None)
    <3>1. People!At(w, req[w], "admitting")
      BY <1>6, <2>2, <2>4 DEF People!CheckAddress, People!Continue
    <3>2. People!Free(e, None)'
      BY <1>5, <2>4 DEF People!Taken, People!Free
    <3>3. pc'[w] = "admitting" /\ req'[w] = req[w] => People!Sound(w)'
      BY <2>1, <2>2, <3>2 DEF People!Sound, People!Registering
    <3> QED
      BY <1>4, <3>1, <3>3
  <2> QED
    BY <2>3, <2>4
<1>7. CASE People!Admit(w)
  <2>1. pc[w] = "admitting" /\ People!Registering(w)
    BY <1>7
       DEF People!Admit, People!Inv, People!Sound, People!Registering, People!Coding, People!Editing
  <2>2. PICK r : r = req[w]
    OBVIOUS
  <2>3. CASE ~People!Admitted(r)
    BY <1>3, <1>7, <2>2, <2>3 DEF People!Admit, People!Return, People!Continue
  <2>4. CASE People!Admitted(r)
    <3>1. People!At(w, req[w], "inserting")
      BY <1>7, <2>2, <2>4 DEF People!Admit, People!Continue
    <3>2. PICK e \in Others \cup {None}, c \in Ones \cup {None}, role \in People!Roles :
            e = r.email /\ c = r.code /\ role = r.role
      BY <2>1, <2>2 DEF People!Registering
    <3>3. People!Free(e, None)'
      BY <1>5, <2>1, <2>2, <3>2 DEF People!Registering
    <3>4. role # "ADMIN"
      BY <2>4, <3>2, PeopleConstants DEF People!Inv, People!ChiefIsAdmin, People!Admitted
    <3>5. role = "AUMONIER" => People!Having("AUMONIER")' = {}
      BY <1>2, <2>4, <3>2 DEF People!Admitted, People!Having, People!Exists
    <3>6. c # None => /\ x2[c] # None
                      /\ \/ x6[c] = 0 \/ c \in x7
                         \/ \E v \in Workers \ {w} : People!Unmarked(v, c)
      BY <2>1, <2>4, <3>2
         DEF People!Admitted, People!Usable, People!Inv, People!MadeAreMarked, People!TypeOK,
                People!Unmarked
    <3>7. c # None => /\ x2'[c] # None
                      /\ \/ x6'[c] = 0 \/ c \in x7'
                         \/ \E v \in Workers \ {w} : People!Unmarked(v, c)'
      <4>1. \A v \in Workers \ {w} : pc'[v] = pc[v] /\ req'[v] = req[v]
        BY <1>1, <3>1 DEF People!At
      <4> QED
        BY <1>2, <3>6, <4>1 DEF People!Unmarked
    <3>8. pc'[w] = "inserting" /\ req'[w] = req[w] => People!Sound(w)'
      BY <2>1, <2>2, <3>2, <3>3, <3>4, <3>5, <3>7 DEF People!Sound, People!Registering
    <3> QED
      BY <1>4, <3>1, <3>8
  <2> QED
    BY <2>3, <2>4
<1>8. CASE People!AskForAddress(w)
  <2>1. pc[w] = "asking" /\ People!Editing(w)
    BY <1>8
       DEF People!AskForAddress, People!Inv, People!Sound, People!Registering, People!Coding,
              People!Editing
  <2>2. PICK e, u : e = req[w].email /\ u = req[w].user
    OBVIOUS
  <2>3. CASE People!Taken(e, u)
    BY <1>3, <1>8, <2>2, <2>3 DEF People!AskForAddress, People!Return, People!Continue
  <2>4. CASE ~People!Taken(e, u)
    <3>1. People!At(w, req[w], "storing")
      BY <1>8, <2>2, <2>4 DEF People!AskForAddress, People!Continue
    <3>2. People!Free(e, u)'
      BY <1>5, <2>4 DEF People!Taken, People!Free
    <3>3. pc'[w] = "storing" /\ req'[w] = req[w] => People!Sound(w)'
      BY <1>2, <2>1, <2>2, <3>2 DEF People!Sound, People!Editing
    <3> QED
      BY <1>4, <3>1, <3>3
  <2> QED
    BY <2>3, <2>4
<1> QED
  BY <1>6, <1>7, <1>8

\* A code is marked or switched, or a request is cut off.
LEMMA PeopleCodes ==
    ASSUME People!Inv, NEW w \in Workers,
           People!MarkAsUsed(w) \/ People!StoreToggle(w) \/ People!AbortAccount(w)
    PROVE  People!Inv'
<1> USE DEF People!accountTables
<1>1. /\ x1 \in [{Chief} \cup Rows -> People!User \cup {None, Gone}]
      /\ x2 \in [Ones -> People!InvitationCode \cup {None}]
      /\ x8 \in [{Chief} \cup Rows -> Others \cup {None}]
      /\ x3 \subseteq Others /\ x4 \subseteq {Chief} \cup Rows /\ x5 \subseteq People!Roles
      /\ x6 \in [Ones -> Nat] /\ x7 \subseteq Ones /\ sent \in 0 .. MaxCalls
  BY DEF People!Inv, People!TypeOK, People!FlightsOK
<1>2. PICK r : r = People!NoRequest
  OBVIOUS
<1>3. People!At(w, r, "idle") /\ UNCHANGED <<x1, x3, x4, x5, x6, x8, sent>>
  BY <1>2
     DEF People!MarkAsUsed, People!StoreToggle, People!AbortAccount, People!Die, People!Return,
            People!Continue
<1>4. \A role : People!Having(role)' = People!Having(role)
  BY <1>3 DEF People!Having, People!Exists
<1>5. People!AddressesUnique' /\ People!AddressesStand' /\ People!ChiefIsAdmin'
  BY <1>3, <1>4 DEF People!Inv, People!AddressesUnique, People!AddressesStand, People!ChiefIsAdmin
<1>6. /\ People!Cardinality(People!Having("AUMONIER"))' <= 1 \/ "AUMONIER" \in x5'
      /\ People!Having("AUMONIER")' \subseteq People!Having("AUMONIER")
  BY <1>3, <1>4 DEF People!Inv, People!OfficesHeld
<1>7. pc'[w] = "idle" /\ req'[w] = r => People!Sound(w)'
  BY DEF People!Sound
<1>8. ASSUME x2' \in [Ones -> People!InvitationCode \cup {None}], x7 \subseteq x7', x7' \subseteq Ones,
             \A c \in Ones : x2[c] # None => x2'[c] # None,
             \A c \in Ones : People!Unmarked(w, c) => c \in x7' \/ ~People!Alongside(w, "code", c),
             \A c \in Ones : \/ c \in x7' \/ x6[c] = 0 \/ x2'[c].status # "PENDING"
                             \/ x2'[c] = x2[c] /\ ~People!Unmarked(w, c)
      PROVE  People!Inv'
  <2>1. People!CodesServeOnce'
    BY <1>3, <1>8 DEF People!Inv, People!CodesServeOnce
  <2>2. \A c \in Ones :
           x6'[c] > 0 => /\ x2'[c] # None
                         /\ \/ ~People!Usable(c)' \/ c \in x7'
                            \/ \E v \in Workers \ {w} : People!Unmarked(v, c)
    BY <1>1, <1>3, <1>8 DEF People!Inv, People!MadeAreMarked, People!Usable
  <2>3. \A c \in Ones : \/ c \in x7' \/ ~People!Alongside(w, "code", c)
                        \/ x6'[c] = x6[c] /\ ~People!Unmarked(w, c)
    BY <1>3, <1>8
  <2>4. /\ sent' \in 0 .. MaxCalls
        /\ x1' \in [{Chief} \cup Rows -> People!User \cup {None, Gone}]
        /\ x8' \in [{Chief} \cup Rows -> Others \cup {None}]
        /\ x3' \subseteq Others /\ x4' \subseteq {Chief} \cup Rows /\ x5' \subseteq People!Roles
        /\ x6' \in [Ones -> Nat] /\ x3 \subseteq x3' /\ x4 \subseteq x4' /\ x5 \subseteq x5'
        /\ \A u \in {Chief} \cup Rows : x1'[u] = x1[u]
    BY <1>1, <1>3
  <2>5. \A u \in {Chief} \cup Rows : ~People!Exists(x1'[u]) \/ (People!Exists(x1[u]) /\ x1'[u].hash = x1[u].hash)
    BY <1>3
  <2> QED
    BY <1>2, <1>3, <1>5, <1>6, <1>7, <1>8, <2>1, <2>2, <2>3, <2>4, <2>5, PeopleStep
<1>9. CASE People!AbortAccount(w)
  <2>1. /\ UNCHANGED x2 /\ x7' = IF pc[w] = "marking" THEN x7 \cup {req[w].code} ELSE x7
    BY <1>9 DEF People!AbortAccount
  <2>2. pc[w] = "marking" => req[w].code \in Ones
    BY DEF People!Inv, People!Sound, People!Registering, People!Coding, People!Editing
  <2>3. \A c \in Ones : People!Unmarked(w, c) => c \in x7'
    BY <2>1 DEF People!Unmarked
  <2>4. x2' \in [Ones -> People!InvitationCode \cup {None}] /\ x7 \subseteq x7' /\ x7' \subseteq Ones
    BY <1>1, <2>1, <2>2
  <2> QED
    BY <1>8, <2>1, <2>3, <2>4
<1>10. CASE People!MarkAsUsed(w) \/ People!StoreToggle(w)
  <2>1. /\ pc[w] \in {"marking", "toggling"} /\ People!Coding(w)
        /\ pc[w] = "marking" <=> People!MarkAsUsed(w)
    BY <1>10
       DEF People!MarkAsUsed, People!StoreToggle, People!Inv, People!Sound, People!Registering,
              People!Coding, People!Editing
  <2>2. PICK c \in Ones : c = req[w].code /\ x2[c] # None
    BY <2>1 DEF People!Coding
  <2>3. PICK code \in People!InvitationCode : code = x2[c]
    BY <1>1, <2>2
  <2>4. CASE People!MarkAsUsed(w)
    <3>1. PICK u \in {Chief} \cup Rows : u = req[w].user
      BY <2>1, <2>4 DEF People!Coding
    <3>2. PICK new : new = [code EXCEPT !.status = "ACCEPTED", !.used_by = u]
      OBVIOUS
    <3>3. new \in People!InvitationCode /\ new.status = "ACCEPTED" /\ new # None
      BY <3>2, PeopleConstants DEF People!InvitationCode
    <3>4. /\ x2' = IF code.status = "PENDING" THEN [x2 EXCEPT ![c] = new] ELSE x2
          /\ x7' = IF c # None /\ People!Alongside(w, "code", c) THEN x7 \cup {c} ELSE x7
      BY <2>2, <2>3, <2>4, <3>1, <3>2 DEF People!MarkAsUsed, People!ShareCode, People!Usable
    <3>5. /\ \A d \in Ones \ {c} : x2'[d] = x2[d] /\ ~People!Unmarked(w, d)
          /\ x2'[c] # None /\ x2'[c].status # "PENDING"
      BY <1>1, <2>2, <2>3, <3>3, <3>4 DEF People!Unmarked
    <3>6. c # None
      BY PeopleConstants
    <3>7. \A d \in Ones : People!Unmarked(w, d) => d \in x7' \/ ~People!Alongside(w, "code", d)
      BY <2>2, <3>4, <3>6 DEF People!Unmarked
    <3>8. x2' \in [Ones -> People!InvitationCode \cup {None}] /\ x7 \subseteq x7' /\ x7' \subseteq Ones
      BY <1>1, <3>3, <3>4
    <3> QED
      BY <1>8, <3>5, <3>7, <3>8
  <2>5. CASE People!StoreToggle(w)
    <3>1. PICK status \in {"PENDING", "REVOKED"} : status = req[w].status
      BY <2>1, <2>5 DEF People!Coding, People!StoreToggle
    <3>2. PICK new : new = [code EXCEPT !.status = status]
      OBVIOUS
    <3>3. new \in People!InvitationCode /\ new.status = status /\ new # None
      BY <3>1, <3>2, PeopleConstants DEF People!InvitationCode
    <3>4. /\ x2' = [x2 EXCEPT ![c] = new]
          /\ x7' = IF status = "PENDING" /\ x6[c] > 0 THEN x7 \cup {c} ELSE x7
      BY <2>2, <2>3, <2>5, <3>1, <3>2 DEF People!StoreToggle
    <3>5. /\ \A d \in Ones \ {c} : x2'[d] = x2[d]
          /\ x2'[c] # None /\ x2'[c].status = status
      BY <1>1, <3>3, <3>4
    <3>6. \A d \in Ones : ~People!Unmarked(w, d)
      BY <2>5 DEF People!StoreToggle, People!Unmarked
    <3>7. x2' \in [Ones -> People!InvitationCode \cup {None}] /\ x7 \subseteq x7' /\ x7' \subseteq Ones
      BY <1>1, <3>3, <3>4
    <3>8. x2'[c].status # "PENDING" \/ c \in x7' \/ x6[c] = 0
      BY <1>1, <3>1, <3>4, <3>5
    <3> QED
      BY <1>8, <3>5, <3>6, <3>7, <3>8
  <2> QED
    BY <1>10, <2>4, <2>5
<1> QED
  BY <1>9, <1>10

\* A registration makes its account: nobody was found by the address, or they met.
LEMMA PeopleInsert ==
    ASSUME People!Inv, NEW w \in Workers, People!InsertUser(w)
    PROVE  People!Inv'
<1>1. /\ x1 \in [{Chief} \cup Rows -> People!User \cup {None, Gone}]
      /\ x2 \in [Ones -> People!InvitationCode \cup {None}]
      /\ x8 \in [{Chief} \cup Rows -> Others \cup {None}]
      /\ x3 \subseteq Others /\ x4 \subseteq {Chief} \cup Rows /\ x5 \subseteq People!Roles
      /\ x6 \in [Ones -> Nat] /\ x7 \subseteq Ones /\ sent \in 0 .. MaxCalls
  BY DEF People!Inv, People!TypeOK, People!FlightsOK
<1>2. pc[w] = "inserting" /\ People!Registering(w)
  BY
     DEF People!InsertUser, People!Inv, People!Sound, People!Registering, People!Coding,
            People!Editing
<1>3. PICK e \in Others \cup {None}, c \in Ones \cup {None}, role \in People!Roles :
        e = req[w].email /\ c = req[w].code /\ role = req[w].role
  BY <1>2 DEF People!Registering
<1>4. /\ People!Free(e, None) /\ role # "ADMIN"
      /\ role = "AUMONIER" => People!Having("AUMONIER") = {} \/ "AUMONIER" \in x5
      /\ c # None => /\ x2[c] # None
                     /\ \/ x6[c] = 0 \/ c \in x7
                        \/ \E v \in Workers \ {w} : People!Unmarked(v, c)
  BY <1>2, <1>3 DEF People!Registering
<1>5. PICK row : row = [role |-> role, active |-> TRUE, email |-> e, hash |-> e]
  OBVIOUS
<1>6. /\ row \in People!User /\ row.role = role /\ row.email = e /\ row.hash = e
      /\ People!Exists(row)
  <2>1. row \in People!User /\ row.role = role /\ row.email = e /\ row.hash = e
    BY <1>5 DEF People!User
  <2> QED
    BY <2>1, PeopleConstants DEF People!Exists
<1>7. PICK u \in {Chief} \cup Rows :
        /\ x1[u] = None /\ x1' = [x1 EXCEPT ![u] = row] /\ x8' = [x8 EXCEPT ![u] = e]
        /\ IF c = None THEN People!Return(w)
           ELSE People!Continue(w, [op |-> "mark", code |-> c, email |-> e, user |-> u], "marking")
  BY <1>3, <1>5 DEF People!InsertUser
<1>8. /\ x3' = IF People!Wanted(w, e) THEN x3 \cup {e} ELSE x3
      /\ x5' = IF People!Alongside(w, "role", role) THEN x5 \cup {role} ELSE x5
      /\ x6' = [d \in Ones |-> IF d = c THEN x6[d] + 1 ELSE x6[d]]
      /\ x7' = IF c # None /\ People!Alongside(w, "code", c) THEN x7 \cup {c} ELSE x7
      /\ UNCHANGED <<x2, x4, sent>>
  BY <1>3, <1>7
     DEF People!InsertUser, People!MeetOn, People!ShareCode, People!Return, People!Continue
<1>9. PICK r, place :
        /\ People!At(w, r, place) /\ (place = "idle" <=> r = People!NoRequest)
        /\ \/ c = None /\ place = "idle"
           \/ /\ c # None /\ place = "marking"
              /\ r = [op |-> "mark", code |-> c, email |-> e, user |-> u]
  <2>1. CASE c = None
    BY <1>7, <2>1 DEF People!Return, People!Continue
  <2>2. CASE c # None
    <3>1. PICK r : r = [op |-> "mark", code |-> c, email |-> e, user |-> u]
      OBVIOUS
    <3>2. r # People!NoRequest
      BY <3>1 DEF People!NoRequest
    <3> QED
      BY <1>7, <2>2, <3>1, <3>2 DEF People!Continue
  <2> QED
    BY <2>1, <2>2
<1>10. /\ x1' \in [{Chief} \cup Rows -> People!User \cup {None, Gone}]
       /\ x8' \in [{Chief} \cup Rows -> Others \cup {None}]
       /\ x2' \in [Ones -> People!InvitationCode \cup {None}]
       /\ x3' \subseteq Others /\ x4' \subseteq {Chief} \cup Rows /\ x5' \subseteq People!Roles
       /\ x6' \in [Ones -> Nat] /\ x7' \subseteq Ones
       /\ x3 \subseteq x3' /\ x4 \subseteq x4' /\ x5 \subseteq x5' /\ x7 \subseteq x7'
  BY <1>1, <1>3, <1>6, <1>7, <1>8 DEF People!Wanted
<1>11. /\ x1'[u] = row /\ \A v \in {Chief} \cup Rows : v # u => x1'[v] = x1[v]
       /\ x8'[u] = e /\ \A v \in {Chief} \cup Rows : v # u => x8'[v] = x8[v]
  BY <1>1, <1>7
<1>12. /\ People!Having("ADMIN")' = People!Having("ADMIN")
       /\ People!Having("AUMONIER")' = IF role = "AUMONIER" THEN People!Having("AUMONIER") \cup {u}
                                       ELSE People!Having("AUMONIER")
  <2>1. ~People!Exists(x1[u])
    BY <1>7 DEF People!Exists
  <2> QED
    BY <1>4, <1>6, <1>11, <2>1 DEF People!Having
<1>13. People!ChiefIsAdmin'
  BY <1>12 DEF People!Inv, People!ChiefIsAdmin
<1>14. People!Cardinality(People!Having("AUMONIER"))' <= 1 \/ "AUMONIER" \in x5'
  <2>1. CASE role # "AUMONIER"
    BY <1>10, <1>12, <2>1 DEF People!Inv, People!OfficesHeld
  <2>2. CASE role = "AUMONIER" /\ "AUMONIER" \in x5
    BY <1>10, <2>2
  <2>3. CASE role = "AUMONIER" /\ People!Having("AUMONIER") = {}
    <3>1. People!Having("AUMONIER")' = {u} /\ People!Cardinality({u}) = 1
      BY <1>12, <2>3, PeopleCounts
    <3> QED
      BY <3>1
  <2> QED
    BY <1>4, <2>1, <2>2, <2>3
<1>15. People!AddressesStand'
  BY <1>6, <1>8, <1>11 DEF People!Inv, People!AddressesStand
<1>16. People!AddressesUnique'
  <2>1. \A v \in {Chief} \cup Rows :
          e # None /\ v \notin x4 /\ People!Exists(x1[v]) /\ x1[v].hash = e => e \in x3
    BY <1>4, PeopleConstants DEF People!Free
  <2> QED
    BY <1>6, <1>8, <1>10, <1>11, <2>1 DEF People!Inv, People!AddressesUnique
<1>17. \A d \in Ones : x6'[d] = IF d = c THEN x6[d] + 1 ELSE x6[d]
  BY <1>8
<1>18. ASSUME NEW v \in Workers \ {w}, NEW d \in Ones, People!Unmarked(v, d) PROVE People!Alongside(w, "code", d)
  BY <1>18
     DEF People!Unmarked, People!Alongside, People!Inv, People!Sound, People!Registering,
            People!Coding, People!Editing
<1>19. People!CodesServeOnce'
  <2> SUFFICES ASSUME NEW d \in Ones PROVE x6'[d] <= 1 \/ d \in x7'
    BY DEF People!CodesServeOnce
  <2>1. CASE d = c
    <3>1. c # None /\ (x6[c] = 0 \/ c \in x7 \/ People!Alongside(w, "code", c))
      BY <1>4, <1>18, <2>1, PeopleConstants
    <3> QED
      BY <1>8, <1>17, <2>1, <3>1
  <2>2. CASE d # c
    BY <1>10, <1>17, <2>2 DEF People!Inv, People!CodesServeOnce
  <2> QED
    BY <2>1, <2>2
<1>20. \A d \in Ones : ~People!Unmarked(w, d)
  BY <1>2 DEF People!Unmarked
<1>21. \A d \in Ones :
          x6'[d] > 0 => /\ x2'[d] # None
                        /\ \/ ~People!Usable(d)' \/ d \in x7'
                           \/ place = "marking" /\ r.code = d
                           \/ \E v \in Workers \ {w} : People!Unmarked(v, d)
  <2> SUFFICES ASSUME NEW d \in Ones, x6'[d] > 0
               PROVE  /\ x2'[d] # None
                      /\ \/ ~People!Usable(d)' \/ d \in x7'
                         \/ place = "marking" /\ r.code = d
                         \/ \E v \in Workers \ {w} : People!Unmarked(v, d)
    OBVIOUS
  <2>1. CASE d = c
    BY <1>4, <1>8, <1>9, <2>1, PeopleConstants
  <2>2. CASE d # c
    BY <1>8, <1>17, <1>20, <2>2 DEF People!Inv, People!MadeAreMarked, People!Usable
  <2> QED
    BY <2>1, <2>2
<1>22. pc'[w] = place /\ req'[w] = r => People!Sound(w)'
  <2>1. CASE place = "idle"
    BY <2>1 DEF People!Sound
  <2>2. CASE place # "idle"
    <3>1. /\ place = "marking" /\ x2'[c] # None /\ r.code = c
          /\ r \in [op : {"mark"}, code : Ones, email : Others \cup {None}, user : {Chief} \cup Rows]
      BY <1>3, <1>4, <1>8, <1>9, <2>2
    <3> QED
      BY <3>1 DEF People!Sound, People!Coding
  <2> QED
    BY <2>1, <2>2
<1>23. \A v \in {Chief} \cup Rows : x1'[v] = x1[v] \/ x1[v] = None
  BY <1>7, <1>11
<1>24. \A v \in {Chief} \cup Rows :
          \/ ~People!Exists(x1'[v]) \/ v \in x4'
          \/ People!Exists(x1[v]) /\ x1'[v].hash = x1[v].hash
          \/ x1'[v].hash = None \/ x1'[v].hash \in x3'
          \/ ~People!Alongside(w, "email", x1'[v].hash)
  <2>1. e = None \/ e \in x3' \/ ~People!Alongside(w, "email", e)
    BY <1>8 DEF People!Wanted, People!Alongside
  <2> QED
    BY <1>6, <1>11, <2>1
<1>25. \/ People!Having("AUMONIER")' \subseteq People!Having("AUMONIER")
       \/ "AUMONIER" \in x5' \/ ~People!Alongside(w, "role", "AUMONIER")
  BY <1>8, <1>12
<1>26. \A d \in Ones : \/ d \in x7' \/ ~People!Alongside(w, "code", d)
                       \/ x6'[d] = x6[d] /\ ~People!Unmarked(w, d)
  BY <1>8, <1>17, <1>20, PeopleConstants
<1>27. sent' \in 0 .. MaxCalls /\ \A d \in Ones : x2[d] # None => x2'[d] # None
  BY <1>1, <1>8
<1> QED
  BY <1>9, <1>10, <1>13, <1>14, <1>15, <1>16, <1>19, <1>21, <1>22, <1>23, <1>24, <1>25, <1>26,
     <1>27, PeopleStep

\* What a commit leaves of a row the session has read as it is.
LEMMA PeopleWritten ==
    ASSUME NEW row \in People!User, NEW read \in People!User, NEW new \in People!User, new.role = read.role
    PROVE  LET flushed == People!Flush(row, read, new)
               written == [flushed EXCEPT !.email = IF new.email = None THEN @ ELSE new.email]
           IN /\ written \in People!User /\ written.role = row.role
              /\ written.hash = IF new.hash = read.hash THEN row.hash ELSE new.hash
              /\ row = read => written.email = new.email
<1>1. PICK flushed : flushed = People!Flush(row, read, new)
  OBVIOUS
<1>2. /\ DOMAIN row = {"role", "active", "email", "hash"}
      /\ row.role \in People!Roles /\ row.active \in BOOLEAN
      /\ row.email \in Others \cup {None} /\ row.hash \in Others \cup {None}
      /\ new.role \in People!Roles /\ new.active \in BOOLEAN
      /\ new.email \in Others \cup {None} /\ new.hash \in Others \cup {None}
  BY DEF People!User
<1>3. flushed = [role |-> row.role,
                 active |-> IF new.active = read.active THEN row.active ELSE new.active,
                 email |-> IF new.email = read.email THEN row.email ELSE new.email,
                 hash |-> IF new.hash = read.hash THEN row.hash ELSE new.hash]
  BY <1>1, <1>2 DEF People!Flush
<1>4. PICK written : written = [flushed EXCEPT !.email = IF new.email = None THEN flushed.email ELSE new.email]
  OBVIOUS
<1>5. /\ written.role = row.role
      /\ written.active = IF new.active = read.active THEN row.active ELSE new.active
      /\ written.email = IF new.email = None THEN flushed.email ELSE new.email
      /\ written.hash = IF new.hash = read.hash THEN row.hash ELSE new.hash
      /\ written = [role |-> written.role, active |-> written.active, email |-> written.email, hash |-> written.hash]
  BY <1>3, <1>4
<1>6. flushed.email = IF new.email = read.email THEN row.email ELSE new.email
  BY <1>3
<1>7. written \in People!User
  BY <1>2, <1>5, <1>6 DEF People!User
<1> QED
  BY <1>1, <1>4, <1>5, <1>6, <1>7

\* An edit is stored: the row is as it was read and the address free, or they met.
LEMMA PeopleStores ==
    ASSUME People!Inv, NEW w \in Workers, People!StoreEdit(w)
    PROVE  People!Inv'
<1> USE DEF People!MeetOn
<1>1. /\ x1 \in [{Chief} \cup Rows -> People!User \cup {None, Gone}]
      /\ x2 \in [Ones -> People!InvitationCode \cup {None}]
      /\ x8 \in [{Chief} \cup Rows -> Others \cup {None}]
      /\ x3 \subseteq Others /\ x4 \subseteq {Chief} \cup Rows /\ x5 \subseteq People!Roles
      /\ x6 \in [Ones -> Nat] /\ x7 \subseteq Ones /\ sent \in 0 .. MaxCalls
  BY DEF People!Inv, People!TypeOK, People!FlightsOK
<1>2. pc[w] = "storing" /\ People!Editing(w) /\ req[w] # People!NoRequest
  BY
     DEF People!StoreEdit, People!Inv, People!Sound, People!Registering, People!Coding,
            People!Editing,
         People!TypeOK, People!FlightsOK
<1>3. PICK u \in {Chief} \cup Rows, read \in People!User, new \in People!User, given \in BOOLEAN, e \in Others \cup {None} :
        /\ u = req[w].user /\ read = req[w].read /\ new = req[w].new /\ given = req[w].given
        /\ e = req[w].email
  BY <1>2 DEF People!Editing
<1>4. /\ new.email = e /\ new.hash = e /\ new.role = read.role /\ (~given => e = read.email)
      /\ x1[u] # None /\ (u \in x4 \/ ~People!Exists(x1[u]) \/ x1[u] = read)
      /\ u \in x4 \/ People!Free(e, u)
  BY <1>2, <1>3 DEF People!Editing
<1>5. PICK none : none = People!NoRequest
  OBVIOUS
<1>6. People!At(w, none, "idle") /\ UNCHANGED <<x2, x5, x6, x7, sent>>
  BY <1>5 DEF People!StoreEdit, People!Return, People!Continue
<1>7. pc'[w] = "idle" /\ req'[w] = none => People!Sound(w)'
  BY DEF People!Sound
<1>8. CASE ~People!Exists(x1[u])
  <2>1. UNCHANGED <<x1, x3, x4, x8>>
    BY <1>3, <1>8 DEF People!StoreEdit
  <2> QED
    BY <1>1, <1>2, <1>5, <1>6, <1>7, <2>1, PeopleMove
<1>9. CASE People!Exists(x1[u])
  <2>1. PICK row \in People!User : row = x1[u]
    BY <1>1, <1>9 DEF People!Exists
  <2>2. PICK flushed : flushed = People!Flush(row, read, new)
    OBVIOUS
  <2>3. PICK written : written = [flushed EXCEPT !.email = IF new.email = None THEN flushed.email ELSE new.email]
    OBVIOUS
  <2>4. /\ written \in People!User /\ written.role = row.role
        /\ written.hash = IF new.hash = read.hash THEN row.hash ELSE new.hash
        /\ row = read => written.email = new.email
    BY <1>4, <2>2, <2>3, PeopleWritten
  <2>5. /\ x1' = [x1 EXCEPT ![u] = written]
        /\ x8' = IF given THEN [x8 EXCEPT ![u] = e] ELSE x8
        /\ x4' = IF People!Alongside(w, "user", u) THEN x4 \cup {u} ELSE x4
        /\ x3' = IF People!Wanted(w, e) THEN x3 \cup {e} ELSE x3
    BY <1>3, <1>4, <1>9, <2>1, <2>2, <2>3 DEF People!StoreEdit, People!Written
  <2>6. /\ x1' \in [{Chief} \cup Rows -> People!User \cup {None, Gone}]
        /\ x8' \in [{Chief} \cup Rows -> Others \cup {None}]
        /\ x3' \subseteq Others /\ x4' \subseteq {Chief} \cup Rows
        /\ x3 \subseteq x3' /\ x4 \subseteq x4'
    BY <1>1, <1>3, <2>4, <2>5 DEF People!Wanted
  <2>7. x1'[u] = written /\ \A v \in {Chief} \cup Rows : v # u => x1'[v] = x1[v] /\ x8'[v] = x8[v]
    BY <1>1, <2>5
  <2>8. x1'[u] # None /\ People!Exists(x1'[u])
    BY <2>4, <2>7, PeopleConstants DEF People!Exists
  <2>9. u \notin x4' => row = read /\ written.email = e /\ written.hash = e
    BY <1>4, <1>9, <2>1, <2>4, <2>6
  <2>10. \A role : People!Having(role)' = People!Having(role)
    <3>1. \A v \in {Chief} \cup Rows : (People!Exists(x1'[v]) <=> People!Exists(x1[v])) /\ (People!Exists(x1[v]) => x1'[v].role = x1[v].role)
      BY <1>9, <2>1, <2>4, <2>7, <2>8
    <3> QED
      BY <3>1 DEF People!Having, People!Exists
  <2>11. /\ People!ChiefIsAdmin'
         /\ People!Having("AUMONIER")' \subseteq People!Having("AUMONIER")
         /\ People!Cardinality(People!Having("AUMONIER"))' <= 1 \/ "AUMONIER" \in x5'
    BY <1>6, <2>10 DEF People!Inv, People!ChiefIsAdmin, People!OfficesHeld
  <2>12. People!AddressesStand'
    <3>1. u \notin x4' => x8'[u] = e
      <4>1. CASE given
        BY <1>1, <2>5, <4>1
      <4>2. CASE ~given
        BY <1>4, <1>9, <2>1, <2>5, <2>6, <2>9, <4>2 DEF People!Inv, People!AddressesStand
      <4> QED
        BY <4>1, <4>2
    <3> QED
      BY <2>6, <2>7, <2>9, <3>1 DEF People!Inv, People!AddressesStand
  <2>13. People!AddressesUnique'
    <3>1. \A v \in {Chief} \cup Rows :
            u \notin x4' /\ e # None /\ v # u /\ v \notin x4' /\ People!Exists(x1[v]) /\ x1[v].hash = e => e \in x3'
      BY <1>4, <2>6 DEF People!Free
    <3> QED
      BY <2>6, <2>7, <2>9, <3>1 DEF People!Inv, People!AddressesUnique
  <2>14. People!CodesServeOnce'
    BY <1>6 DEF People!Inv, People!CodesServeOnce
  <2>15. \A c \in Ones : ~People!Unmarked(w, c)
    BY <1>2 DEF People!Unmarked
  <2>16. \A c \in Ones :
            x6'[c] > 0 => /\ x2'[c] # None
                          /\ \/ ~People!Usable(c)' \/ c \in x7'
                             \/ \E v \in Workers \ {w} : People!Unmarked(v, c)
    BY <1>6, <2>15 DEF People!Inv, People!MadeAreMarked, People!Usable
  <2>17. \A v \in {Chief} \cup Rows :
            \/ x1'[v] = x1[v] \/ x1[v] = None
            \/ x1'[v] # None /\ (v \in x4' \/ ~People!Alongside(w, "user", v))
    BY <2>5, <2>7, <2>8
  <2>18. \A v \in {Chief} \cup Rows :
            \/ ~People!Exists(x1'[v]) \/ v \in x4'
            \/ People!Exists(x1[v]) /\ x1'[v].hash = x1[v].hash
            \/ x1'[v].hash = None \/ x1'[v].hash \in x3'
            \/ ~People!Alongside(w, "email", x1'[v].hash)
    <3>1. e = None \/ e \in x3' \/ ~People!Alongside(w, "email", e)
      BY <2>5 DEF People!Wanted, People!Alongside
    <3> QED
      BY <2>7, <2>9, <3>1
  <2>19. \A c \in Ones : x6'[c] = x6[c] /\ ~People!Unmarked(w, c)
    BY <1>6, <2>15
  <2>20. /\ x2' \in [Ones -> People!InvitationCode \cup {None}] /\ \A c \in Ones : x2[c] # None => x2'[c] # None
         /\ x5' \subseteq People!Roles /\ x6' \in [Ones -> Nat] /\ x7' \subseteq Ones /\ sent' \in 0 .. MaxCalls
         /\ x5 \subseteq x5' /\ x7 \subseteq x7'
    BY <1>1, <1>6
  <2> QED
    BY <1>5, <1>6, <1>7, <2>6, <2>11, <2>12, <2>13, <2>14, <2>16, <2>17, <2>18, <2>19, <2>20,
       PeopleStep
<1> QED
  BY <1>8, <1>9

LEMMA PeopleNext == People!Inv /\ People!Next => People!Inv'
BY PeopleRows, PeopleBegins, PeopleChecks, PeopleCodes, PeopleInsert, PeopleStores
   DEF People!Next, People!AccountDesk, People!InvitationDesk, People!RegistrationDesk,
          People!ServeAccount

LEMMA PeopleStays == People!Inv /\ UNCHANGED <<x1, x2, x3, x4, x5, x6, x7, x8, pc, req, sent>> => People!Inv'
BY PeopleOutside DEF People!Inv, People!TypeOK

-----------------------------------------------------------------------------
\* TrainingMaterials

LEMMA LibraryConstants ==
    /\ IsFiniteSet(Workers)
    /\ MaxCalls \in Nat /\ MoreCalls \in Nat
    /\ None # Gone /\ None \notin Nat /\ Gone \notin Nat
BY ServicesAssumption

LEMMA LibraryCardinality == \A S : Library!Cardinality(S) = Cardinality(S)
BY DEF Library!Cardinality, Cardinality

LEMMA LibraryInit == Library!Init => Library!Inv
<1> SUFFICES ASSUME Library!Init PROVE Library!Inv
  OBVIOUS
<1> USE LibraryConstants DEF Library!Init, Library!InitFlights
<1>1. Library!Busy = {}
  BY DEF Library!Busy
<1>2. Library!Cardinality(Library!Busy) = 0
  BY <1>1, LibraryCardinality, FS_EmptySet
<1> QED
  BY <1>2 DEF Library!Inv, Library!TypeOK, Library!FlightsOK, Library!ViewsCounted, Library!Sound,
              Library!NoRequest, Library!Exists, Library!NewMaterial

\* A request that comes in is one more in flight, one that ends one less.
LEMMA LibraryBusy ==
    ASSUME Library!TypeOK, NEW w \in Workers
    PROVE  /\ Library!Cardinality(Library!Busy) \in Nat
           /\ \A r, place : place # "idle" /\ pc[w] = "idle" /\ Library!At(w, r, place) =>
                Library!Cardinality(Library!Busy)' = Library!Cardinality(Library!Busy) + 1
           /\ pc[w] # "idle" /\ Library!Return(w) =>
                Library!Cardinality(Library!Busy)' = Library!Cardinality(Library!Busy) - 1
<1> USE DEF Library!TypeOK, Library!FlightsOK
<1>1. IsFiniteSet(Library!Busy)
  BY LibraryConstants, FS_Subset DEF Library!Busy
<1>2. ASSUME NEW r, NEW place, place # "idle", pc[w] = "idle", Library!At(w, r, place)
      PROVE  Library!Busy' = Library!Busy \cup {w} /\ w \notin Library!Busy
  BY <1>2 DEF Library!At, Library!Busy
<1>3. ASSUME pc[w] # "idle", Library!Return(w)
      PROVE  Library!Busy' = Library!Busy \ {w} /\ w \in Library!Busy
  BY <1>3 DEF Library!Return, Library!Continue, Library!At, Library!Busy
<1>4. w \in Library!Busy => Cardinality(Library!Busy \ {w}) = Cardinality(Library!Busy) - 1
  BY <1>1, FS_RemoveElement
<1>5. w \notin Library!Busy => Cardinality(Library!Busy \cup {w}) = Cardinality(Library!Busy) + 1
  BY <1>1, FS_AddElement
<1>6. Cardinality(Library!Busy) \in Nat
  BY <1>1, FS_CardinalityType
<1>7. /\ Library!Cardinality(Library!Busy) = Cardinality(Library!Busy)
      /\ Library!Cardinality(Library!Busy)' = Cardinality(Library!Busy')
  BY LibraryCardinality
<1> QED
  BY <1>2, <1>3, <1>4, <1>5, <1>6, <1>7

\* The request of a worker that does not move: its row stands as it has read it, or
\* has been met.
LEMMA LibraryOther ==
    ASSUME Library!Inv, NEW v \in Workers, pc'[v] = pc[v] /\ req'[v] = req[v],
           x4 \subseteq x4', x6 \subseteq x6',
           \A m \in Thirds : x5[m] \in Nat /\ x5'[m] \in Nat /\ x5[m] <= x5'[m],
           \A m \in Thirds : x2[m] # None => x2'[m] # None,
           pc[v] = "creating" =>
               /\ x2'[req[v].upload] = None
               /\ \A u \in Workers \ {v} : pc'[u] = "creating" => req'[u].upload # req[v].upload,
           pc[v] = "showing" /\ x2'[req[v].material] \notin {None, Gone} =>
               \/ req[v].material \in x6'
               \/ x2'[req[v].material] = x2[req[v].material]
    PROVE  Library!Sound(v)'
<1> USE DEF Library!Inv
<1>1. CASE pc[v] = "idle"
  BY <1>1 DEF Library!Sound
<1>2. CASE pc[v] = "creating"
  <2>1. PICK m : m = req[v].upload
    OBVIOUS
  <2>2. /\ req[v] = [op |-> "upload", upload |-> m] /\ m \in x4'
        /\ x2'[m] = None
    BY <1>2, <2>1 DEF Library!Sound
  <2> QED
    BY <1>2, <2>1, <2>2 DEF Library!Sound
<1>3. CASE pc[v] = "showing"
  <2>1. PICK m \in Thirds : m = req[v].material
    BY <1>3 DEF Library!Sound
  <2>2. /\ req[v] = [op |-> "show", material |-> m, read |-> req[v].read]
        /\ x2[m] # None /\ req[v].read \in 0 .. x5[m]
        /\ x2[m] \notin {None, Gone} => m \in x6 \/ req[v].read = x2[m]
    BY <1>3, <2>1 DEF Library!Sound, Library!Exists
  <2>3. /\ x2'[m] # None /\ req[v].read \in 0 .. x5'[m]
        /\ x2'[m] \notin {None, Gone} => m \in x6' \/ x2'[m] = x2[m]
    BY <1>3, <2>1, <2>2
  <2> QED
    BY <1>3, <2>1, <2>2, <2>3 DEF Library!Sound, Library!Exists
<1> QED
  BY <1>1, <1>2, <1>3 DEF Library!Sound

\* A step of one request.
LEMMA LibraryMove ==
    ASSUME Library!Inv, NEW w \in Workers, NEW r, NEW place,
           Library!At(w, r, place), place = "idle" <=> r = Library!NoRequest,
           sent' \in 0 .. MoreCalls
    PROVE  /\ Library!FlightsOK' /\ pc'[w] = place /\ req'[w] = r
           /\ \A v \in Workers \ {w} : pc'[v] = pc[v] /\ req'[v] = req[v]
BY DEF Library!Inv, Library!TypeOK, Library!FlightsOK, Library!At

\* What each request in flight knows of its row.
LEMMA LibraryFacts ==
    ASSUME Library!Inv
    PROVE  /\ \A v \in Workers : pc[v] = "creating" =>
                 /\ req[v].upload \in x4 /\ x2[req[v].upload] = None
                 /\ \A u \in Workers \ {v} : pc[u] = "creating" => req[u].upload # req[v].upload
           /\ \A v \in Workers : pc[v] = "showing" =>
                 /\ req[v].material \in Thirds /\ x2[req[v].material] # None
                 /\ req[v] = [op |-> "show", material |-> req[v].material, read |-> req[v].read]
           /\ \A n \in Thirds : /\ x5[n] \in Nat
                                /\ x5[n] + Library!Cardinality(Library!Busy) <= sent
                                /\ x2[n] = None => x5[n] = 0 /\ n \notin x6
           /\ sent \in 0 .. MoreCalls /\ x4 \subseteq Thirds
BY DEF Library!Inv, Library!Sound, Library!TypeOK, Library!FlightsOK

\* A request that asks for something.
LEMMA LibraryAsks ==
    ASSUME Library!Inv, NEW w \in Workers, NEW m \in Thirds, NEW r, NEW place \in {"creating", "showing"},
           pc[w] = "idle", sent < MoreCalls, sent' = sent + 1, Library!At(w, r, place),
           \/ /\ place = "creating" /\ r = [op |-> "upload", upload |-> m]
              /\ x2[m] = None /\ m \notin x4 /\ x4' = x4 \cup {m}
           \/ /\ place = "showing" /\ r = [op |-> "show", material |-> m, read |-> x2[m]]
              /\ Library!Exists(x2[m]) /\ x4' = x4,
           UNCHANGED <<x1, x2, x3, x5, x6>>
    PROVE  Library!Inv'
<1>1. r # Library!NoRequest
  BY DEF Library!NoRequest
<1>2. sent \in Nat /\ sent' \in 0 .. MoreCalls
  BY LibraryConstants DEF Library!Inv, Library!TypeOK, Library!FlightsOK
<1>3. /\ Library!FlightsOK' /\ pc'[w] = place /\ req'[w] = r
      /\ \A v \in Workers \ {w} : pc'[v] = pc[v] /\ req'[v] = req[v]
  BY <1>1, <1>2, LibraryMove
<1>4. Library!TypeOK' /\ Library!ViewsCounted'
  BY <1>3 DEF Library!Inv, Library!TypeOK, Library!ViewsCounted, Library!Exists
<1>5. /\ \A n \in Thirds : x5[n] \in Nat
      /\ \A v \in Workers : pc[v] = "creating" => req[v].upload \in x4 /\ x2[req[v].upload] = None
  BY LibraryFacts
<1>6. ASSUME NEW n \in Thirds
      PROVE  /\ x2'[n] = None => x5'[n] = 0 /\ n \notin x6'
             /\ x5'[n] + Library!Cardinality(Library!Busy)' <= sent'
  <2>1. PICK c \in Nat : /\ c = Library!Cardinality(Library!Busy)
                         /\ Library!Cardinality(Library!Busy)' = c + 1
    <3>1. Library!TypeOK /\ place # "idle"
      BY DEF Library!Inv
    <3>2. Library!Cardinality(Library!Busy)' = Library!Cardinality(Library!Busy) + 1
      BY <3>1, LibraryBusy
    <3>3. Library!Cardinality(Library!Busy) \in Nat
      BY <3>1, LibraryBusy
    <3> QED
      BY <3>2, <3>3
  <2>2. /\ x5[n] \in Nat /\ x5[n] + c <= sent
        /\ x2[n] = None => x5[n] = 0 /\ n \notin x6
    BY <2>1, LibraryFacts
  <2>3. x2'[n] = x2[n] /\ x5'[n] = x5[n] /\ x6' = x6
    OBVIOUS
  <2>4. x5[n] + (c + 1) <= sent + 1
    BY <1>2, <2>2
  <2>5. x5'[n] + Library!Cardinality(Library!Busy)' = x5[n] + (c + 1)
    BY <2>1, <2>3
  <2> QED
    BY <2>2, <2>3, <2>4, <2>5
<1>8. ASSUME NEW v \in Workers \ {w} PROVE Library!Sound(v)'
  <2>1. pc[v] = "creating" =>
           /\ x2'[req[v].upload] = None
           /\ \A u \in Workers \ {v} : pc'[u] = "creating" => req'[u].upload # req[v].upload
    <3>1. ASSUME pc[v] = "creating", NEW u \in Workers \ {v}, pc'[u] = "creating"
          PROVE  req'[u].upload # req[v].upload
      <4>1. CASE u = w
        BY <1>3, <1>5, <3>1, <4>1
      <4>2. CASE u # w
        BY <1>3, <3>1, <4>2, LibraryFacts
      <4> QED
        BY <4>1, <4>2
    <3> QED
      BY <1>5, <3>1
  <2> QED
    BY <1>3, <1>5, <2>1, LibraryOther
<1>9. Library!Sound(w)'
  <2>1. CASE place = "creating"
    BY <1>3, <1>5, <2>1 DEF Library!Sound
  <2>2. CASE place = "showing"
    <3>1. x2[m] \in Nat /\ x2[m] <= x5[m]
      BY <1>5, <2>2, LibraryConstants
         DEF Library!Inv, Library!TypeOK, Library!ViewsCounted, Library!Exists
    <3> QED
      BY <1>3, <1>5, <2>2, <3>1 DEF Library!Sound, Library!Exists
  <2> QED
    BY <2>1, <2>2
<1> QED
  BY <1>4, <1>6, <1>8, <1>9 DEF Library!Inv

\* A request that ends, with what it writes.
LEMMA LibraryServes ==
    ASSUME Library!Inv, NEW w \in Workers, Library!ServeLibrary(w)
    PROVE  Library!Inv'
<1> USE DEF Library!libraryHistory, Library!libraryTables
<1>0. pc[w] # "idle" /\ Library!Return(w) /\ UNCHANGED <<x1, x3, x4>>
  BY
     DEF Library!ServeLibrary, Library!InsertMaterial, Library!IncrementViewCount,
            Library!MaterialIsGone,
         Library!AbortLibrary, Library!Die
<1>1. /\ Library!FlightsOK' /\ pc'[w] = "idle" /\ sent' = sent
      /\ \A v \in Workers \ {w} : pc'[v] = pc[v] /\ req'[v] = req[v]
  <2>1. sent' = sent /\ sent \in 0 .. MoreCalls /\ Library!At(w, Library!NoRequest, "idle")
    BY <1>0 DEF Library!Return, Library!Continue, Library!Inv, Library!TypeOK, Library!FlightsOK
  <2> QED
    BY <2>1, LibraryMove
<1>2. /\ Library!Cardinality(Library!Busy) \in Nat
      /\ Library!Cardinality(Library!Busy)' = Library!Cardinality(Library!Busy) - 1
  BY <1>0, LibraryBusy DEF Library!Inv
<1>3. /\ \A n \in Thirds : x5[n] \in Nat /\ x5[n] + Library!Cardinality(Library!Busy) <= sent
      /\ \A v \in Workers : pc[v] = "creating" => req[v].upload \in x4 /\ x2[req[v].upload] = None
      /\ x4 \subseteq Thirds /\ sent \in 0 .. MoreCalls
  BY LibraryFacts
<1>4. Library!Cardinality(Library!Busy) >= 1
  <2>1. w \in Library!Busy /\ IsFiniteSet(Library!Busy)
    BY <1>0, LibraryConstants, FS_Subset DEF Library!Busy
  <2>2. Cardinality(Library!Busy) # 0
    BY <2>1, FS_EmptySet
  <2> QED
    BY <1>2, <2>2, LibraryCardinality
\* A row that is written, and one that is not.
<1>5. ASSUME NEW m \in Thirds, NEW k \in Nat, NEW n \in Nat,
             x2' = [x2 EXCEPT ![m] = k], x5' = [x5 EXCEPT ![m] = n], n \in {x5[m], x5[m] + 1},
             x6' = x6 \/ x6' = x6 \cup {m},
             IF m \in x6' THEN k <= n ELSE k = n,
             \A v \in Workers \ {w} : pc[v] = "creating" => req[v].upload # m,
             \A v \in Workers \ {w} : pc[v] = "showing" /\ req[v].material = m => m \in x6'
      PROVE  Library!Inv'
  <2>1. /\ \A l \in Thirds \ {m} : x2'[l] = x2[l] /\ x5'[l] = x5[l]
        /\ x2'[m] = k /\ x5'[m] = n /\ x5'[m] \in Nat /\ x5[m] <= x5'[m]
        /\ x6 \subseteq x6' /\ k \notin {None, Gone}
    BY <1>3, <1>5, LibraryConstants DEF Library!Inv, Library!TypeOK
  <2>2. \A l \in Thirds : x5'[l] + Library!Cardinality(Library!Busy)' <= sent'
    BY <1>1, <1>2, <1>3, <1>5, <2>1
  <2>3. n \in 0 .. MoreCalls /\ k \in 0 .. MoreCalls
    <3>1. n <= sent /\ k <= n
      BY <1>2, <1>3, <1>4, <1>5
    <3> QED
      BY <1>3, <3>1, LibraryConstants
  <2>4. Library!TypeOK'
    BY <1>0, <1>1, <1>5, <2>3 DEF Library!Inv, Library!TypeOK
  <2>5. Library!ViewsCounted'
    <3>1. ASSUME NEW l \in Thirds \ {m} PROVE l \in x6' <=> l \in x6
      BY <1>5
    <3> QED
      BY <1>5, <2>1, <3>1 DEF Library!Inv, Library!ViewsCounted, Library!Exists
  <2>6. \A l \in Thirds : x2'[l] = None => x5'[l] = 0 /\ l \notin x6'
    BY <1>5, <2>1 DEF Library!Inv
  <2>7. ASSUME NEW v \in Workers PROVE Library!Sound(v)'
    <3>1. CASE v = w
      BY <1>1, <3>1 DEF Library!Sound
    <3>2. CASE v # w
      <4>1. pc[v] = "creating" =>
               /\ x2'[req[v].upload] = None
               /\ \A u \in Workers \ {v} : pc'[u] = "creating" => req'[u].upload # req[v].upload
        <5>1. ASSUME pc[v] = "creating", NEW u \in Workers \ {v}, pc'[u] = "creating"
              PROVE  req'[u].upload # req[v].upload
          BY <1>1, <3>2, <5>1, LibraryFacts
        <5> QED
          BY <1>3, <1>5, <2>1, <3>2, <5>1
      <4>2. pc[v] = "showing" => req[v].material \in Thirds
        BY LibraryFacts
      <4> QED
        BY <1>0, <1>1, <1>3, <1>5, <2>1, <3>2, <4>1, <4>2, LibraryOther
    <3> QED
      BY <3>1, <3>2
  <2> QED
    BY <2>2, <2>4, <2>5, <2>6, <2>7 DEF Library!Inv
<1>6. CASE UNCHANGED <<x2, x5, x6>>
  <2>1. Library!TypeOK' /\ Library!ViewsCounted'
    BY <1>0, <1>1, <1>6 DEF Library!Inv, Library!TypeOK, Library!ViewsCounted, Library!Exists
  <2>2. \A l \in Thirds :
           /\ x2'[l] = None => x5'[l] = 0 /\ l \notin x6'
           /\ x5'[l] + Library!Cardinality(Library!Busy)' <= sent'
    <3>1. \A l \in Thirds : x5'[l] + Library!Cardinality(Library!Busy)' <= sent'
      BY <1>1, <1>2, <1>3, <1>6
    <3> QED
      BY <1>6, <3>1 DEF Library!Inv
  <2>3. ASSUME NEW v \in Workers PROVE Library!Sound(v)'
    <3>1. CASE v = w
      BY <1>1, <3>1 DEF Library!Sound
    <3>2. CASE v # w
      <4>1. ASSUME pc[v] = "creating", NEW u \in Workers \ {v}, pc'[u] = "creating"
            PROVE  req'[u].upload # req[v].upload
        BY <1>1, <3>2, <4>1, LibraryFacts
      <4> QED
        BY <1>0, <1>1, <1>3, <1>6, <3>2, <4>1, LibraryOther
    <3> QED
      BY <3>1, <3>2
  <2> QED
    BY <2>1, <2>2, <2>3 DEF Library!Inv
<1>7. CASE Library!InsertMaterial(w)
  <2>1. PICK m : m = req[w].upload
    OBVIOUS
  <2>2. /\ pc[w] = "creating" /\ m \in Thirds /\ x2[m] = None /\ x2' = [x2 EXCEPT ![m] = 0]
        /\ \A v \in Workers \ {w} : pc[v] = "creating" => req[v].upload # m
        /\ UNCHANGED <<x5, x6>>
    BY <1>3, <1>7, <2>1, LibraryFacts DEF Library!InsertMaterial, Library!NewMaterial
  <2>3. x5[m] = 0 /\ m \notin x6 /\ x5' = [x5 EXCEPT ![m] = 0]
    BY <2>2 DEF Library!Inv, Library!TypeOK
  <2>4. \A v \in Workers : pc[v] = "showing" => x2[req[v].material] # None
    BY LibraryFacts
  <2>5. \A v \in Workers \ {w} : pc[v] = "showing" /\ req[v].material = m => m \in x6'
    BY <2>2, <2>4
  <2>6. 0 \in Nat /\ 0 \in {x5[m], x5[m] + 1} /\ x6' = x6 /\ (IF m \in x6' THEN 0 <= 0 ELSE 0 = 0)
    BY <2>2, <2>3
  <2> QED
    BY <1>5, <2>2, <2>3, <2>5, <2>6
<1>8. CASE Library!IncrementViewCount(w)
  <2>1. PICK m \in Thirds : m = req[w].material
    BY <1>8 DEF Library!IncrementViewCount, Library!Inv, Library!Sound
  <2>2. /\ pc[w] = "showing" /\ Library!Exists(x2[m]) /\ req[w].read \in 0 .. x5[m]
        /\ m \in x6 \/ req[w].read = x2[m]
        /\ x2' = [x2 EXCEPT ![m] = req[w].read + 1]
        /\ x5' = [x5 EXCEPT ![m] = x5[m] + 1]
        /\ x6' = IF Library!Alongside(w, "material", m) THEN x6 \cup {m} ELSE x6
    BY <1>8, <2>1 DEF Library!IncrementViewCount, Library!Inv, Library!Sound
  <2>3. m \notin x6 => x2[m] = x5[m]
    BY <2>2 DEF Library!Inv, Library!ViewsCounted
  <2>4. \A v \in Workers \ {w} : pc[v] = "showing" /\ req[v].material = m => m \in x6'
    <3>1. ASSUME NEW v \in Workers \ {w}, pc[v] = "showing", req[v].material = m
          PROVE  Library!Alongside(w, "material", m)
      <4>1. req[v] = [op |-> "show", material |-> m, read |-> req[v].read]
        BY <3>1, LibraryFacts
      <4>2. "material" \in DOMAIN req[v] /\ req[v]["material"] = m
        BY <4>1
      <4> QED
        BY <4>2 DEF Library!Alongside
    <3> QED
      BY <2>2, <3>1
  <2>5. \A v \in Workers : pc[v] = "creating" => req[v].upload # m
    BY <1>3, <2>2 DEF Library!Exists
  <2>6. PICK k \in Nat, n \in Nat : k = req[w].read + 1 /\ n = x5[m] + 1
    BY <1>3, <2>2
  <2>7. IF m \in x6' THEN k <= n ELSE k = n
    BY <1>3, <2>2, <2>3, <2>6
  <2> QED
    BY <1>5, <2>2, <2>4, <2>5, <2>6, <2>7
<1> QED
  BY <1>6, <1>7, <1>8 DEF Library!ServeLibrary, Library!MaterialIsGone, Library!AbortLibrary

\* What is done at the desk, between two requests.
LEMMA LibraryDesk ==
    ASSUME Library!Inv, UNCHANGED <<pc, req, sent, x4, x5, x6>>,
           x1' \subseteq Ones, x3' \subseteq Ones \X Thirds,
           NEW m \in Thirds, NEW k \in {0, Gone}, x2' = [x2 EXCEPT ![m] = k] \/ x2' = x2,
           x2' # x2 /\ k = 0 => x2[m] = None /\ m \notin x4,
           x2' # x2 /\ k = Gone => x2[m] # None
    PROVE  Library!Inv'
<1>1. /\ \A n \in Thirds : x2'[n] = x2[n] \/ (n = m /\ x2'[n] = k)
      /\ \A n \in Thirds : x5[n] \in Nat /\ k # None
      /\ 0 \notin {None, Gone}
  BY LibraryConstants DEF Library!Inv, Library!TypeOK
<1>2. Library!TypeOK'
  BY LibraryConstants DEF Library!Inv, Library!TypeOK, Library!FlightsOK
<1>3. x2'[m] = 0 /\ x2'[m] # x2[m] => x5[m] = 0 /\ m \notin x6
  BY <1>1, LibraryConstants DEF Library!Inv
<1>4. Library!ViewsCounted'
  BY <1>1, <1>3 DEF Library!Inv, Library!ViewsCounted, Library!Exists
<1>5. \A n \in Thirds :
         /\ x2'[n] = None => x5'[n] = 0 /\ n \notin x6'
         /\ x5'[n] + Library!Cardinality(Library!Busy)' <= sent'
  <2>1. Library!Busy' = Library!Busy
    BY DEF Library!Busy
  <2>2. Library!Cardinality(Library!Busy)' = Library!Cardinality(Library!Busy)
    BY <2>1, LibraryCardinality
  <2> QED
    BY <1>1, <2>2 DEF Library!Inv
<1>6. ASSUME NEW v \in Workers PROVE Library!Sound(v)'
  <2>1. ASSUME pc[v] = "creating"
        PROVE  /\ x2'[req[v].upload] = None
               /\ \A u \in Workers \ {v} : pc'[u] = "creating" => req'[u].upload # req[v].upload
    <3>1. /\ req[v].upload \in x4 /\ x2[req[v].upload] = None /\ x4 \subseteq Thirds
          /\ \A u \in Workers \ {v} : pc[u] = "creating" => req[u].upload # req[v].upload
      BY <2>1, LibraryFacts
    <3>2. PICK n \in Thirds : n = req[v].upload
      BY <3>1
    <3>3. x2[n] = None /\ n \in x4
      BY <3>1, <3>2
    <3>4. x2'[n] = None
      BY <1>1, <3>3
    <3>5. x2'[req[v].upload] = None
      BY <3>2, <3>4
    <3>6. pc' = pc /\ req' = req
      OBVIOUS
    <3> QED
      BY <3>1, <3>5, <3>6
  <2>2. pc[v] = "showing" => req[v].material \in Thirds /\ x2[req[v].material] # None
    BY LibraryFacts
  <2> QED
    BY <1>1, <2>1, <2>2, LibraryOther
<1> QED
  BY <1>2, <1>4, <1>5, <1>6 DEF Library!Inv

LEMMA LibraryNext == Library!Inv /\ Library!Next => Library!Inv'
<1> SUFFICES ASSUME Library!Inv, Library!Next PROVE Library!Inv'
  OBVIOUS
<1> USE DEF Library!libraryHistory, Library!flights
<1>0. x1 \subseteq Ones /\ x3 \subseteq Ones \X Thirds
  BY DEF Library!Inv, Library!TypeOK
<1>1. ASSUME NEW m \in Thirds, Library!MaterialDesk(m) PROVE Library!Inv'
  <2>1. PICK k \in {0, Gone} :
           /\ UNCHANGED <<pc, req, sent, x4, x5, x6>> /\ x1' = x1
           /\ x3' \subseteq x3 /\ x2' = [x2 EXCEPT ![m] = k]
           /\ k = 0 => x2[m] = None /\ m \notin x4
           /\ k = Gone => x2[m] # None
    <3>1. CASE Library!CreateMaterial(m)
      <4>1. Gone # 0
        BY LibraryConstants
      <4> QED
        BY <3>1, <4>1 DEF Library!CreateMaterial, Library!NewMaterial
    <3>2. CASE Library!DeleteMaterial(m)
      <4>1. Gone # 0
        BY LibraryConstants
      <4> QED
        BY <3>2, <4>1 DEF Library!DeleteMaterial, Library!Exists
    <3> QED
      BY <1>1, <3>1, <3>2 DEF Library!MaterialDesk
  <2> QED
    BY <1>0, <2>1, LibraryDesk
<1>2. ASSUME NEW m \in Thirds, UNCHANGED <<pc, req, sent, x2, x4, x5, x6>>,
             x1' \subseteq Ones, x3' \subseteq Ones \X Thirds
      PROVE  Library!Inv'
  BY <1>2, LibraryDesk
<1>3. ASSUME NEW m \in Thirds, NEW s \in Ones, Library!LinkDesk(s, m) PROVE Library!Inv'
  BY <1>0, <1>2, <1>3
     DEF Library!LinkDesk, Library!AddMaterialToSession, Library!RemoveMaterialFromSession
<1>4. ASSUME NEW s \in Ones, Library!SessionGoes(s), Thirds # {} PROVE Library!Inv'
  BY <1>0, <1>2, <1>4 DEF Library!SessionGoes
<1>5. ASSUME NEW s \in Ones, Library!SessionGoes(s), Thirds = {} PROVE Library!Inv'
  <2>1. /\ UNCHANGED <<pc, req, sent, x2, x4, x5, x6>> /\ x1' \subseteq Ones /\ x3' \subseteq x3
    BY <1>0, <1>5 DEF Library!SessionGoes
  <2>2. ASSUME NEW v \in Workers PROVE Library!Sound(v)'
    BY <1>5, <2>1 DEF Library!Inv, Library!TypeOK, Library!Sound
  <2> QED
    BY <1>0, <1>5, <2>1, <2>2
       DEF Library!Inv, Library!TypeOK, Library!FlightsOK, Library!ViewsCounted
<1>6. ASSUME NEW w \in Workers, NEW m \in Thirds, Library!UploadMaterial(w, m) PROVE Library!Inv'
  <2>1. Library!Begin(w, [op |-> "upload", upload |-> m], "creating")
    BY <1>6 DEF Library!UploadMaterial
  <2> QED
    BY <1>6, <2>1, LibraryAsks DEF Library!UploadMaterial, Library!Begin
<1>7. ASSUME NEW w \in Workers, NEW m \in Thirds, Library!GetMaterial(w, m) PROVE Library!Inv'
  <2>1. Library!Begin(w, [op |-> "show", material |-> m, read |-> x2[m]], "showing")
    BY <1>7 DEF Library!GetMaterial
  <2> QED
    BY <1>7, <2>1, LibraryAsks DEF Library!GetMaterial, Library!Begin, Library!libraryTables
<1> QED
  BY <1>1, <1>3, <1>4, <1>5, <1>6, <1>7, LibraryServes DEF Library!Next

LEMMA LibraryStays == Library!Inv /\ UNCHANGED <<x1, x2, x3, x4, x5, x6, pc, req, sent>> => Library!Inv'
<1> SUFFICES ASSUME Library!Inv, UNCHANGED <<x1, x2, x3, x4, x5, x6, pc, req, sent>> PROVE Library!Inv'
  OBVIOUS
<1>1. Library!Busy' = Library!Busy
  BY DEF Library!Busy
<1>2. Library!Cardinality(Library!Busy)' = Library!Cardinality(Library!Busy)
  BY <1>1, LibraryCardinality
<1>3. \A v \in Workers : Library!Sound(v)'
  BY DEF Library!Inv, Library!Sound, Library!Exists
<1> QED
  BY <1>2, <1>3
     DEF Library!Inv, Library!TypeOK, Library!FlightsOK, Library!ViewsCounted, Library!Exists



-----------------------------------------------------------------------------
\* Attendances

LEMMA RollsConstants ==
    /\ IsFiniteSet(Rows) /\ MaxCalls \in Nat
    /\ None # Gone /\ None \notin Others /\ None \notin Thirds
    /\ None \notin Rolls!Attendance /\ Gone \notin Rolls!Attendance
BY ServicesAssumption

LEMMA RollsCardinality == \A S : Rolls!Cardinality(S) = Cardinality(S)
BY DEF Rolls!Cardinality, Cardinality

\* One record stays one when none is added, and is the first where there was none.
LEMMA RollsOne ==
    ASSUME NEW S \in SUBSET Rows, NEW T \in SUBSET Rows,
           \/ T \subseteq S /\ Rolls!Cardinality(S) <= 1
           \/ \E a \in Rows : T \subseteq {a}
    PROVE  Rolls!Cardinality(T) <= 1
<1>1. CASE T \subseteq S /\ Rolls!Cardinality(S) <= 1
  <2>1. IsFiniteSet(S)
    BY RollsConstants, FS_Subset
  <2> QED
    BY <1>1, <2>1, RollsCardinality, FS_Subset, FS_CardinalityType
<1>2. ASSUME NEW a \in Rows, T \subseteq {a} PROVE Rolls!Cardinality(T) <= 1
  <2>1. Cardinality({a}) = 1 /\ IsFiniteSet({a})
    BY FS_Singleton
  <2> QED
    BY <1>2, <2>1, RollsCardinality, FS_Subset, FS_CardinalityType
<1> QED
  BY <1>1, <1>2

LEMMA RollsInit == Rolls!Init => Rolls!Inv
<1> SUFFICES ASSUME Rolls!Init PROVE Rolls!Inv
  OBVIOUS
<1>1. \A a \in Rows : x1[a] = None
  BY DEF Rolls!Init
<1>2. Rolls!RecordedOnce
  <2> SUFFICES ASSUME NEW u, NEW d PROVE Rolls!Cardinality(Rolls!RecordsOf(u, d)) <= 1
    BY DEF Rolls!RecordedOnce
  <2>1. Rolls!RecordsOf(u, d) = {}
    BY <1>1 DEF Rolls!RecordsOf, Rolls!Exists
  <2> QED
    BY <2>1, RollsCardinality, FS_EmptySet
<1>3. Rolls!NotesKept
  BY <1>1 DEF Rolls!NotesKept, Rolls!Exists
<1> QED
  BY <1>2, <1>3, RollsConstants
     DEF Rolls!Init, Rolls!InitFlights, Rolls!Inv, Rolls!TypeOK, Rolls!FlightsOK, Rolls!Sound

\* What keeps a request as it should be: its place, and of its servant that he has been
\* met or that his records and their justifications are as they were.
LEMMA RollsOther ==
    ASSUME Rolls!Inv, NEW v \in Workers, pc'[v] = pc[v] /\ req'[v] = req[v], x3 \subseteq x3',
           \A a \in Rows : x1[a] # None =>
               /\ x1'[a] # None
               /\ Rolls!Exists(x1'[a]) => Rolls!Exists(x1[a]) /\ x1'[a].user = x1[a].user,
           "user" \in DOMAIN req[v] =>
               \/ req[v].user \in x3'
               \/ \A a \in Rows : Rolls!Exists(x1'[a]) /\ x1'[a].user = req[v].user =>
                      /\ Rolls!Exists(x1[a]) /\ x1[a].user = req[v].user
                      /\ x1'[a].day = x1[a].day /\ x1'[a].note = x1[a].note
    PROVE  Rolls!Sound(v)'
<1>1. CASE pc[v] = "idle"
  BY <1>1 DEF Rolls!Sound
<1>2. CASE pc[v] = "looking" /\ Rolls!Recording(v)
  BY <1>2 DEF Rolls!Sound, Rolls!Recording
<1>3. CASE /\ pc[v] = "inserting" /\ Rolls!Recording(v) /\ req[v].user \in Others
           /\ req[v].user \in x3 \/ Rolls!RecordsOf(req[v].user, req[v].day) = {}
  <2>1. Rolls!Recording(v)' /\ "user" \in DOMAIN req[v]
    BY <1>3 DEF Rolls!Recording
  <2>2. req[v].user \in x3' \/ Rolls!RecordsOf(req[v].user, req[v].day)' = {}
    BY <1>3, <2>1 DEF Rolls!RecordsOf
  <2> QED
    BY <1>3, <2>1, <2>2 DEF Rolls!Sound, Rolls!RecordsOf
<1>4. CASE pc[v] = "updating" /\ Rolls!Updating(v)
  <2>1. "user" \in DOMAIN req[v] /\ req[v].record \in Rows /\ x1[req[v].record] # None
    BY <1>4 DEF Rolls!Updating
  <2>2. Rolls!Updating(v)'
    BY <1>4, <2>1 DEF Rolls!Updating
  <2> QED
    BY <1>4, <2>2 DEF Rolls!Sound
<1> QED
  BY <1>1, <1>2, <1>3, <1>4 DEF Rolls!Inv, Rolls!Sound

\* A step of one request, by what it leaves in the tables.
LEMMA RollsStep ==
    ASSUME Rolls!Inv, NEW w \in Workers, NEW r, NEW place, Rolls!At(w, r, place),
           sent' \in 0 .. MaxCalls, place = "idle" <=> r = Rolls!NoRequest,
           x1' \in [Rows -> Rolls!Attendance \cup {None, Gone}], x2' \subseteq Others,
           x3 \subseteq x3' /\ x3' \subseteq Others, x4' \in [Rows -> Thirds \cup {None}],
           Rolls!RecordedOnce', Rolls!NotesKept',
           \A a \in Rows : x1[a] # None =>
               /\ x1'[a] # None
               /\ Rolls!Exists(x1'[a]) => Rolls!Exists(x1[a]) /\ x1'[a].user = x1[a].user,
           \A v \in Workers \ {w} : "user" \in DOMAIN req[v] =>
               \/ req[v].user \in x3'
               \/ \A a \in Rows : Rolls!Exists(x1'[a]) /\ x1'[a].user = req[v].user =>
                      /\ Rolls!Exists(x1[a]) /\ x1[a].user = req[v].user
                      /\ x1'[a].day = x1[a].day /\ x1'[a].note = x1[a].note,
           pc'[w] = place /\ req'[w] = r => Rolls!Sound(w)'
    PROVE  Rolls!Inv'
<1>1. /\ Rolls!FlightsOK' /\ pc'[w] = place /\ req'[w] = r
      /\ \A v \in Workers \ {w} : pc'[v] = pc[v] /\ req'[v] = req[v]
  BY DEF Rolls!Inv, Rolls!TypeOK, Rolls!FlightsOK, Rolls!At
<1>2. Rolls!TypeOK'
  BY <1>1 DEF Rolls!TypeOK
<1>3. ASSUME NEW v \in Workers, v # w PROVE Rolls!Sound(v)'
  BY <1>1, <1>3, RollsOther
<1> QED
  BY <1>1, <1>2, <1>3 DEF Rolls!Inv

\* A step that changes no row.
LEMMA RollsMove ==
    ASSUME Rolls!Inv, NEW w \in Workers, UNCHANGED <<x1, x2, x3, x4>>,
           NEW r, NEW place, Rolls!At(w, r, place), sent' \in 0 .. MaxCalls,
           place = "idle" <=> r = Rolls!NoRequest,
           pc'[w] = place /\ req'[w] = r => Rolls!Sound(w)'
    PROVE  Rolls!Inv'
<1>1. \A a : Rolls!Exists(a)' <=> Rolls!Exists(a)
  BY DEF Rolls!Exists
<1>2. Rolls!RecordedOnce' /\ Rolls!NotesKept'
  BY DEF Rolls!Inv, Rolls!RecordedOnce, Rolls!NotesKept, Rolls!RecordsOf, Rolls!Exists
<1>3. /\ x1' \in [Rows -> Rolls!Attendance \cup {None, Gone}] /\ x2' \subseteq Others
      /\ x3 \subseteq x3' /\ x3' \subseteq Others /\ x4' \in [Rows -> Thirds \cup {None}]
  BY DEF Rolls!Inv, Rolls!TypeOK
<1> QED
  BY <1>1, <1>2, <1>3, RollsStep

\* A request with nothing to do waits for nothing.
LEMMA RollsReturns ==
    ASSUME Rolls!Inv, NEW w \in Workers, Rolls!Return(w), UNCHANGED <<x1, x2, x3, x4>>
    PROVE  Rolls!Inv'
<1>1. Rolls!At(w, Rolls!NoRequest, "idle") /\ sent' \in 0 .. MaxCalls
  BY DEF Rolls!Return, Rolls!Continue, Rolls!Inv, Rolls!TypeOK, Rolls!FlightsOK
<1>2. pc'[w] = "idle" => Rolls!Sound(w)'
  BY DEF Rolls!Sound
<1> QED
  BY <1>1, <1>2, RollsMove

\* Who asks for records carries what he asks for.
LEMMA RollsRecord ==
    ASSUME Rolls!Inv, NEW w \in Workers, Rolls!AttendanceRequest(w)
    PROVE  Rolls!Inv'
<1>1. PICK batch \in BOOLEAN, users \in SUBSET Others, d \in Attended,
           status \in Rolls!AttendanceStatus, note \in Thirds \cup {None} :
               Rolls!Record(w, batch, users, d, status, note)
  BY DEF Rolls!AttendanceRequest
<1> DEFINE r == [op |-> IF batch THEN "batch" ELSE "one", user |-> None, todo |-> users,
                 day |-> d, status |-> status, note |-> note]
<1>2. Rolls!At(w, r, "looking") /\ sent' \in 0 .. MaxCalls /\ UNCHANGED <<x1, x2, x3, x4>>
  BY <1>1, RollsConstants
     DEF Rolls!Record, Rolls!Begin, Rolls!attendanceTables, Rolls!attendanceHistory,
         Rolls!Inv, Rolls!TypeOK, Rolls!FlightsOK
<1>3. r # Rolls!NoRequest
  BY DEF Rolls!NoRequest
<1>4. pc'[w] = "looking" /\ req'[w] = r => Rolls!Sound(w)'
  BY DEF Rolls!Sound, Rolls!Recording
<1> QED
  BY <1>2, <1>3, <1>4, RollsMove

\* What a request for records carries on to its next place.
LEMMA RollsCarries ==
    ASSUME NEW w, Rolls!Recording(w), NEW T \in SUBSET Others, NEW u,
           req'[w] = [op |-> req[w].op, user |-> u, todo |-> T, day |-> req[w].day,
                      status |-> req[w].status, note |-> req[w].note]
    PROVE  /\ Rolls!Recording(w)'
           /\ req'[w].user = u /\ req'[w].day = req[w].day /\ req'[w] # Rolls!NoRequest
BY DEF Rolls!Recording, Rolls!NoRequest

\* Who is looked for and not recorded has no record, and nobody has yet met him.
LEMMA RollsLook ==
    ASSUME Rolls!Inv, NEW w \in Workers, Rolls!LookForRecord(w)
    PROVE  Rolls!Inv'
<1>1. pc[w] = "looking" /\ Rolls!Recording(w) /\ UNCHANGED <<x1, x2, x3, x4>>
  BY
     DEF Rolls!LookForRecord, Rolls!attendanceTables, Rolls!attendanceHistory, Rolls!Inv,
            Rolls!Sound
<1>2. PICK r : r = req[w]
  OBVIOUS
<1> DEFINE R(T, u) == [op |-> r.op, user |-> u, todo |-> T, day |-> r.day,
                       status |-> r.status, note |-> r.note]
<1>3. PICK u \in r.todo :
          LET rest == [r EXCEPT !.todo = r.todo \ {u}, !.user = u] IN
          IF u \in x2 /\ Rolls!RecordsOf(u, r.day) = {}
          THEN Rolls!Continue(w, rest, "inserting")
          ELSE IF rest.todo # {} THEN Rolls!Continue(w, [rest EXCEPT !.user = None], "looking")
               ELSE Rolls!Return(w)
  BY <1>2 DEF Rolls!LookForRecord
<1>4. PICK T \in SUBSET Others : T = r.todo \ {u}
  BY <1>1, <1>2 DEF Rolls!Recording
<1>5. u \in Others /\ sent \in 0 .. MaxCalls
  BY <1>1, <1>2 DEF Rolls!Recording, Rolls!Inv, Rolls!TypeOK, Rolls!FlightsOK
<1>6. PICK q : q = [r EXCEPT !.todo = T, !.user = u] /\ q = R(T, u) /\ [q EXCEPT !.user = None] = R(T, None)
  <2>1. r = R(r.todo, r.user)
    BY <1>1, <1>2 DEF Rolls!Recording
  <2>2. [r EXCEPT !.todo = T, !.user = u] = R(T, u)
    <3>1. PICK p : p = [r EXCEPT !.todo = T]
      OBVIOUS
    <3>2. p = R(T, r.user)
      BY <2>1, <3>1
    <3>3. [p EXCEPT !.user = u] = R(T, u)
      BY <3>2
    <3> QED
      BY <3>1, <3>3
  <2>3. PICK q : q = R(T, u)
    OBVIOUS
  <2>4. [q EXCEPT !.user = None] = R(T, None)
    BY <2>3
  <2> QED
    BY <2>2, <2>3, <2>4
<1>7. \A v : R(T, v) # Rolls!NoRequest
  BY DEF Rolls!NoRequest
<1>8. CASE u \in x2 /\ Rolls!RecordsOf(u, r.day) = {} /\ Rolls!Continue(w, R(T, u), "inserting")
  <2>1. Rolls!At(w, R(T, u), "inserting") /\ sent' \in 0 .. MaxCalls
    BY <1>5, <1>8 DEF Rolls!Continue
  <2>2. ASSUME pc'[w] = "inserting", req'[w] = R(T, u) PROVE Rolls!Sound(w)'
    <3>1. Rolls!Recording(w)' /\ req'[w].user = u /\ req'[w].day = req[w].day
      BY <1>1, <1>2, <2>2, RollsCarries
    <3>2. PICK d : d = r.day
      OBVIOUS
    <3>3. Rolls!RecordsOf(u, d)' = {}
      BY <1>1, <1>8, <3>2 DEF Rolls!RecordsOf, Rolls!Exists
    <3> QED
      BY <1>2, <1>5, <2>2, <3>1, <3>2, <3>3 DEF Rolls!Sound, Rolls!RecordsOf
  <2> QED
    BY <1>1, <1>7, <2>1, <2>2, RollsMove
<1>9. CASE Rolls!Continue(w, R(T, None), "looking")
  <2>1. Rolls!At(w, R(T, None), "looking") /\ sent' \in 0 .. MaxCalls
    BY <1>5, <1>9 DEF Rolls!Continue
  <2>2. ASSUME pc'[w] = "looking", req'[w] = R(T, None) PROVE Rolls!Sound(w)'
    BY <1>1, <1>2, <2>2, RollsCarries DEF Rolls!Sound
  <2> QED
    BY <1>1, <1>7, <2>1, <2>2, RollsMove
<1> HIDE DEF R
<1>10. R(T, u).todo = T
  BY DEF R
<1> QED
  BY <1>1, <1>3, <1>4, <1>6, <1>8, <1>9, <1>10, RollsReturns

\* After an entry a roll goes on with the next one, and a single record is answered.
LEMMA RollsNextEntry ==
    ASSUME Rolls!Inv, NEW w \in Workers, Rolls!Recording(w), Rolls!NextEntry(w)
    PROVE  \E r, place : /\ Rolls!At(w, r, place) /\ sent' \in 0 .. MaxCalls
                         /\ place = "idle" <=> r = Rolls!NoRequest
                         /\ pc'[w] = place /\ req'[w] = r => Rolls!Sound(w)'
<1>1. sent \in 0 .. MaxCalls
  BY DEF Rolls!Inv, Rolls!TypeOK, Rolls!FlightsOK
<1>2. CASE Rolls!Return(w)
  <2>1. Rolls!At(w, Rolls!NoRequest, "idle") /\ sent' \in 0 .. MaxCalls
    BY <1>1, <1>2 DEF Rolls!Return, Rolls!Continue
  <2>2. pc'[w] = "idle" => Rolls!Sound(w)'
    BY DEF Rolls!Sound
  <2> QED
    BY <2>1, <2>2
<1>3. CASE Rolls!Continue(w, [req[w] EXCEPT !.user = None], "looking")
  <2>1. PICK r : /\ r = [req[w] EXCEPT !.user = None]
                 /\ r = [op |-> req[w].op, user |-> None, todo |-> req[w].todo, day |-> req[w].day,
                         status |-> req[w].status, note |-> req[w].note]
    <3>1. PICK q : /\ q = req[w]
                   /\ q = [op |-> q.op, user |-> q.user, todo |-> q.todo, day |-> q.day,
                           status |-> q.status, note |-> q.note]
      BY DEF Rolls!Recording
    <3>2. PICK r : r = [q EXCEPT !.user = None]
      OBVIOUS
    <3>3. r = [op |-> q.op, user |-> None, todo |-> q.todo, day |-> q.day,
               status |-> q.status, note |-> q.note]
      BY <3>1, <3>2
    <3> QED
      BY <3>1, <3>2, <3>3
  <2>2. Rolls!At(w, r, "looking") /\ sent' \in 0 .. MaxCalls
    BY <1>1, <1>3, <2>1 DEF Rolls!Continue
  <2>3. r # Rolls!NoRequest
    BY <2>1 DEF Rolls!NoRequest
  <2>4. ASSUME pc'[w] = "looking", req'[w] = r PROVE Rolls!Sound(w)'
    <3>1. req[w].todo \in SUBSET Others
      BY DEF Rolls!Recording
    <3>2. Rolls!Recording(w)'
      BY <2>1, <2>4, <3>1, RollsCarries
    <3> QED
      BY <2>4, <3>2 DEF Rolls!Sound
  <2> QED
    BY <2>2, <2>3, <2>4
<1> QED
  BY <1>2, <1>3 DEF Rolls!NextEntry

\* Whoever waits for the same servant has been met.
LEMMA RollsMeet ==
    ASSUME Rolls!Inv, NEW w \in Workers, NEW u \in Others, Rolls!Meet(w, u)
    PROVE  /\ x3 \subseteq x3' /\ x3' \subseteq Others
           /\ \A v \in Workers \ {w} : "user" \in DOMAIN req[v] => req[v].user # u \/ req[v].user \in x3'
BY DEF Rolls!Meet, Rolls!Alongside, Rolls!Inv, Rolls!TypeOK

\* A record is added where none was found, or by a request that has met another.
LEMMA RollsInsert ==
    ASSUME Rolls!Inv, NEW w \in Workers, Rolls!InsertRecord(w)
    PROVE  Rolls!Inv'
<1>1. PICK u, d, s, n : u = req[w].user /\ d = req[w].day /\ s = req[w].status /\ n = req[w].note
  OBVIOUS
<1>2. /\ Rolls!Recording(w) /\ u \in Others /\ d \in Attended
      /\ s \in Rolls!AttendanceStatus /\ n \in Thirds \cup {None}
      /\ u \in x3 \/ Rolls!RecordsOf(u, d) = {}
      /\ Rolls!Meet(w, u) /\ Rolls!NextEntry(w) /\ x2' = x2
  BY <1>1 DEF Rolls!InsertRecord, Rolls!Inv, Rolls!Sound, Rolls!Recording
<1>3. PICK row : row = [user |-> u, day |-> d, status |-> s, note |-> n]
  OBVIOUS
<1>4. /\ row \in Rolls!Attendance /\ Rolls!Exists(row)
      /\ row.user = u /\ row.day = d /\ row.note = n
  BY <1>2, <1>3, RollsConstants DEF Rolls!Attendance, Rolls!Exists
<1>5. PICK a \in Rows : /\ x1[a] = None /\ x1' = [x1 EXCEPT ![a] = row]
                        /\ x4' = [x4 EXCEPT ![a] = n]
  BY <1>1, <1>3 DEF Rolls!InsertRecord
<1>6. /\ x1 \in [Rows -> Rolls!Attendance \cup {None, Gone}] /\ x4 \in [Rows -> Thirds \cup {None}]
      /\ x2 \subseteq Others
  BY DEF Rolls!Inv, Rolls!TypeOK
<1>7. /\ x1' \in [Rows -> Rolls!Attendance \cup {None, Gone}] /\ x4' \in [Rows -> Thirds \cup {None}]
      /\ x2' \subseteq Others /\ x1'[a] = row /\ x4'[a] = n
      /\ \A b \in Rows \ {a} : x1'[b] = x1[b] /\ x4'[b] = x4[b]
  BY <1>2, <1>4, <1>5, <1>6
<1>8. /\ x3 \subseteq x3' /\ x3' \subseteq Others
      /\ \A v \in Workers \ {w} : "user" \in DOMAIN req[v] => req[v].user # u \/ req[v].user \in x3'
  BY <1>2, RollsMeet
<1>9. Rolls!RecordedOnce'
  <2> SUFFICES ASSUME NEW u1 \in Others, NEW d1 \in Attended, u1 \notin x3'
               PROVE  Rolls!Cardinality(Rolls!RecordsOf(u1, d1))' <= 1
    BY DEF Rolls!RecordedOnce
  <2>1. Rolls!Cardinality(Rolls!RecordsOf(u1, d1)) <= 1
    BY <1>8 DEF Rolls!Inv, Rolls!RecordedOnce
  <2>2. \/ Rolls!RecordsOf(u1, d1)' \subseteq Rolls!RecordsOf(u1, d1)
        \/ Rolls!RecordsOf(u1, d1)' \subseteq {a}
    <3>1. CASE u1 = u /\ d1 = d
      <4>1. Rolls!RecordsOf(u, d) = {}
        BY <1>2, <1>8, <3>1
      <4> QED
        BY <1>7, <3>1, <4>1 DEF Rolls!RecordsOf, Rolls!Exists
    <3>2. CASE ~(u1 = u /\ d1 = d)
      BY <1>4, <1>7, <3>2 DEF Rolls!RecordsOf, Rolls!Exists
    <3> QED
      BY <3>1, <3>2
  <2>3. PICK S \in SUBSET Rows, T \in SUBSET Rows :
            S = Rolls!RecordsOf(u1, d1) /\ T = Rolls!RecordsOf(u1, d1)'
    BY DEF Rolls!RecordsOf
  <2>4. Rolls!Cardinality(T) <= 1
    BY <2>1, <2>2, <2>3, RollsOne
  <2> QED
    BY <2>3, <2>4, RollsCardinality
<1>10. Rolls!NotesKept'
  <2> SUFFICES ASSUME NEW b \in Rows, Rolls!Exists(x1[b])'
               PROVE  x1'[b].note = x4'[b] \/ x1'[b].user \in x3'
    BY DEF Rolls!NotesKept
  <2> QED
    BY <1>4, <1>7, <1>8 DEF Rolls!Inv, Rolls!NotesKept, Rolls!Exists
<1>11. \A b \in Rows : x1[b] # None =>
           /\ x1'[b] # None
           /\ Rolls!Exists(x1'[b]) => Rolls!Exists(x1[b]) /\ x1'[b].user = x1[b].user
  BY <1>5, <1>7
<1>12. \A v \in Workers \ {w} : "user" \in DOMAIN req[v] =>
           \/ req[v].user \in x3'
           \/ \A b \in Rows : Rolls!Exists(x1'[b]) /\ x1'[b].user = req[v].user =>
                  /\ Rolls!Exists(x1[b]) /\ x1[b].user = req[v].user
                  /\ x1'[b].day = x1[b].day /\ x1'[b].note = x1[b].note
  BY <1>4, <1>7, <1>8
<1>13. PICK r, place : /\ Rolls!At(w, r, place) /\ sent' \in 0 .. MaxCalls
                       /\ place = "idle" <=> r = Rolls!NoRequest
                       /\ pc'[w] = place /\ req'[w] = r => Rolls!Sound(w)'
  BY <1>2, RollsNextEntry
<1> QED
  BY <1>7, <1>8, <1>9, <1>10, <1>11, <1>12, <1>13, RollsStep

\* What an update carries is the record as it was read, with what is given.
LEMMA RollsUpdate ==
    ASSUME Rolls!Inv, NEW w \in Workers, Rolls!UpdateRequest(w)
    PROVE  Rolls!Inv'
<1>1. PICK a \in Rows, status \in Rolls!AttendanceStatus \cup {None}, note \in Thirds \cup {None} :
          Rolls!UpdateAttendance(w, a, status, note)
  BY DEF Rolls!UpdateRequest
<1>2. PICK read : read = x1[a]
  OBVIOUS
<1>3. /\ Rolls!Exists(x1[a]) /\ read \in Rolls!Attendance /\ read.user \in Others
      /\ read.status \in Rolls!AttendanceStatus /\ read.note \in Thirds \cup {None}
      /\ read = [user |-> read.user, day |-> read.day, status |-> read.status, note |-> read.note]
  BY <1>1, <1>2
     DEF Rolls!UpdateAttendance, Rolls!Inv, Rolls!TypeOK, Rolls!Exists, Rolls!Attendance
<1> DEFINE set == IF status = None THEN read.status ELSE status
           m == IF note = None THEN read.note ELSE note
           s == IF note # None /\ set = "ABSENT" THEN "ABSENT_JUSTIFIE" ELSE set
           new == [read EXCEPT !.note = m, !.status = s]
           r(n) == [op |-> "update", record |-> a, user |-> read.user, read |-> read,
                    new |-> n, note |-> note]
<1>4. Rolls!Begin(w, r(new), "updating") /\ UNCHANGED <<x1, x2, x3, x4>>
  BY <1>1, <1>2 DEF Rolls!UpdateAttendance, Rolls!attendanceTables, Rolls!attendanceHistory
<1>5. PICK n \in Rolls!Attendance : n = new /\ n.note = m
  <2>1. m \in Thirds \cup {None} /\ s \in Rolls!AttendanceStatus
    BY <1>3 DEF Rolls!AttendanceStatus
  <2> HIDE DEF m, s
  <2>2. PICK p : p = [read EXCEPT !.note = m]
    OBVIOUS
  <2>3. p = [user |-> read.user, day |-> read.day, status |-> read.status, note |-> m]
    BY <1>3, <2>2
  <2>4. PICK q : q = [p EXCEPT !.status = s]
    OBVIOUS
  <2>5. q = [user |-> read.user, day |-> read.day, status |-> s, note |-> m]
    BY <2>3, <2>4
  <2>6. q \in Rolls!Attendance /\ q.note = m
    BY <1>3, <2>1, <2>5 DEF Rolls!Attendance
  <2>7. q = new
    BY <2>2, <2>4
  <2> QED
    BY <2>6, <2>7
<1>6. Rolls!At(w, r(n), "updating") /\ sent' \in 0 .. MaxCalls
  BY <1>4, <1>5, RollsConstants DEF Rolls!Begin, Rolls!Inv, Rolls!TypeOK, Rolls!FlightsOK
<1>7. r(n) # Rolls!NoRequest
  BY DEF Rolls!NoRequest
<1>8. ASSUME pc'[w] = "updating", req'[w] = r(n) PROVE Rolls!Sound(w)'
  <2>1. x1'[a] = read /\ x1'[a] # None
    BY <1>2, <1>3, <1>4 DEF Rolls!Exists
  <2>2. /\ req'[w].record = a /\ req'[w].user = read.user /\ req'[w].read = read
        /\ req'[w].new = n /\ req'[w].note = note
        /\ req'[w] = [op |-> "update", record |-> req'[w].record, user |-> req'[w].user,
                      read |-> req'[w].read, new |-> req'[w].new, note |-> req'[w].note]
    BY <1>8
  <2>3. Rolls!Updating(w)'
    BY <1>3, <1>5, <2>1, <2>2 DEF Rolls!Updating
  <2> QED
    BY <1>8, <2>3 DEF Rolls!Sound
<1> QED
  BY <1>4, <1>6, <1>7, <1>8, RollsMove

\* What is written keeps the servant and the day of the record, and its justification
\* when none is given, unless the request has met another.
LEMMA RollsWritten ==
    ASSUME Rolls!Inv, NEW w \in Workers, Rolls!Updating(w), Rolls!Exists(x1[req[w].record])
    PROVE  \E row \in Rolls!Attendance :
               /\ row = Rolls!Written(req[w])
               /\ row.user = req[w].user /\ row.day = x1[req[w].record].day
               /\ req[w].note # None => row.note = req[w].note
               /\ req[w].note = None => row.note = x1[req[w].record].note \/ req[w].user \in x3
<1>1. PICK r, now : r = req[w] /\ now = x1[r.record]
  OBVIOUS
<1>2. /\ r.record \in Rows /\ r.read \in Rolls!Attendance /\ r.new \in Rolls!Attendance
      /\ r.new.note = IF r.note = None THEN r.read.note ELSE r.note
      /\ now.user = r.user /\ (r.user \in x3 \/ now.note = r.read.note)
  BY <1>1 DEF Rolls!Updating
<1>3. now \in Rolls!Attendance
  BY <1>1, <1>2 DEF Rolls!Inv, Rolls!TypeOK, Rolls!Exists
<1> DEFINE s == IF r.new.status = r.read.status THEN now.status ELSE r.new.status
           m == IF r.new.note = None THEN now.note ELSE r.new.note
<1>4. s \in Rolls!AttendanceStatus /\ m \in Thirds \cup {None}
  BY <1>2, <1>3 DEF Rolls!Attendance
<1>5. (r.note # None => m = r.note) /\ (r.note = None => m = now.note \/ r.user \in x3)
  BY <1>2
<1>6. Rolls!Written(r) = [now EXCEPT !.status = s, !.note = m]
  BY <1>1 DEF Rolls!Written
<1> HIDE DEF s, m
<1>7. PICK p : p = [now EXCEPT !.status = s]
  OBVIOUS
<1>8. p = [user |-> now.user, day |-> now.day, status |-> s, note |-> now.note]
  BY <1>3, <1>7 DEF Rolls!Attendance
<1>9. PICK q : q = [p EXCEPT !.note = m]
  OBVIOUS
<1>10. q = [user |-> now.user, day |-> now.day, status |-> s, note |-> m]
  BY <1>8, <1>9
<1>11. q \in Rolls!Attendance /\ q.user = now.user /\ q.day = now.day /\ q.note = m
  BY <1>3, <1>4, <1>10 DEF Rolls!Attendance
<1>12. q = Rolls!Written(r)
  BY <1>6, <1>7, <1>9
<1> QED
  BY <1>1, <1>2, <1>5, <1>11, <1>12

LEMMA RollsCommit ==
    ASSUME Rolls!Inv, NEW w \in Workers, Rolls!CommitAttendance(w)
    PROVE  Rolls!Inv'
<1>1. Rolls!Updating(w) /\ Rolls!Return(w) /\ x2' = x2
  BY DEF Rolls!CommitAttendance, Rolls!Inv, Rolls!Sound
<1>2. PICK a, u, n : a = req[w].record /\ u = req[w].user /\ n = req[w].note
  OBVIOUS
<1>3. CASE ~Rolls!Exists(x1[a])
  <2>1. UNCHANGED <<x1, x2, x3, x4>>
    BY <1>2, <1>3 DEF Rolls!CommitAttendance, Rolls!attendanceHistory
  <2> QED
    BY <1>1, <2>1, RollsReturns
<1>4. CASE Rolls!Exists(x1[a])
  <2>1. PICK row \in Rolls!Attendance :
            /\ row = Rolls!Written(req[w])
            /\ row.user = u /\ row.day = x1[a].day
            /\ n # None => row.note = n
            /\ n = None => row.note = x1[a].note \/ u \in x3
    BY <1>1, <1>2, <1>4, RollsWritten
  <2>2. /\ a \in Rows /\ u \in Others /\ n \in Thirds \cup {None} /\ x1[a].user = u
        /\ x1' = [x1 EXCEPT ![a] = row] /\ x4' = IF n = None THEN x4 ELSE [x4 EXCEPT ![a] = n]
        /\ Rolls!Meet(w, u)
    BY <1>1, <1>2, <1>4, <2>1 DEF Rolls!CommitAttendance, Rolls!Updating
  <2>3. /\ x1 \in [Rows -> Rolls!Attendance \cup {None, Gone}] /\ x4 \in [Rows -> Thirds \cup {None}]
        /\ x2 \subseteq Others
    BY DEF Rolls!Inv, Rolls!TypeOK
  <2>4. /\ x1' \in [Rows -> Rolls!Attendance \cup {None, Gone}] /\ x4' \in [Rows -> Thirds \cup {None}]
        /\ x2' \subseteq Others /\ x1'[a] = row /\ x4'[a] = IF n = None THEN x4[a] ELSE n
        /\ \A b \in Rows \ {a} : x1'[b] = x1[b] /\ x4'[b] = x4[b]
    BY <1>1, <2>2, <2>3
  <2>5. /\ x3 \subseteq x3' /\ x3' \subseteq Others
        /\ \A v \in Workers \ {w} : "user" \in DOMAIN req[v] => req[v].user # u \/ req[v].user \in x3'
    BY <2>2, RollsMeet
  <2>6. \A b \in Rows : /\ Rolls!Exists(x1'[b]) <=> Rolls!Exists(x1[b])
                        /\ x1'[b].user = x1[b].user /\ x1'[b].day = x1[b].day
                        /\ x1[b] # None => x1'[b] # None
    BY <1>4, <2>1, <2>2, <2>4, RollsConstants DEF Rolls!Exists
  <2>7. Rolls!RecordedOnce'
    <3> SUFFICES ASSUME NEW u1 \in Others, NEW d1 \in Attended, u1 \notin x3'
                 PROVE  Rolls!Cardinality(Rolls!RecordsOf(u1, d1))' <= 1
      BY DEF Rolls!RecordedOnce
    <3>1. Rolls!Cardinality(Rolls!RecordsOf(u1, d1)) <= 1
      BY <2>5 DEF Rolls!Inv, Rolls!RecordedOnce
    <3>2. Rolls!RecordsOf(u1, d1)' = Rolls!RecordsOf(u1, d1)
      BY <2>6 DEF Rolls!RecordsOf, Rolls!Exists
    <3> QED
      BY <3>1, <3>2, RollsCardinality
  <2>8. Rolls!NotesKept'
    <3> SUFFICES ASSUME NEW b \in Rows, Rolls!Exists(x1[b])'
                 PROVE  x1'[b].note = x4'[b] \/ x1'[b].user \in x3'
      BY DEF Rolls!NotesKept
    <3>1. x1[b].note = x4[b] \/ x1[b].user \in x3
      BY <2>6 DEF Rolls!Inv, Rolls!NotesKept, Rolls!Exists
    <3> QED
      BY <2>1, <2>2, <2>4, <2>5, <2>6, <3>1
  <2>9. \A v \in Workers \ {w} : "user" \in DOMAIN req[v] =>
            \/ req[v].user \in x3'
            \/ \A b \in Rows : Rolls!Exists(x1'[b]) /\ x1'[b].user = req[v].user =>
                   /\ Rolls!Exists(x1[b]) /\ x1[b].user = req[v].user
                   /\ x1'[b].day = x1[b].day /\ x1'[b].note = x1[b].note
    BY <2>1, <2>4, <2>5, <2>6
  <2>10. Rolls!At(w, Rolls!NoRequest, "idle") /\ sent' \in 0 .. MaxCalls
    BY <1>1 DEF Rolls!Return, Rolls!Continue, Rolls!Inv, Rolls!TypeOK, Rolls!FlightsOK
  <2>11. pc'[w] = "idle" => Rolls!Sound(w)'
    BY DEF Rolls!Sound
  <2> QED
    BY <2>4, <2>5, <2>6, <2>7, <2>8, <2>9, <2>10, <2>11, RollsStep
<1> QED
  BY <1>3, <1>4

\* An account goes with its records, whatever waits for it.
LEMMA RollsDelete ==
    ASSUME Rolls!Inv, NEW u \in Others, Rolls!DeleteUser(u)
    PROVE  Rolls!Inv'
<1>1. /\ x2' = x2 \ {u} /\ UNCHANGED <<x3, x4, pc, req, sent>>
      /\ x1' = [a \in Rows |-> IF Rolls!Exists(x1[a]) /\ x1[a].user = u THEN Gone ELSE x1[a]]
  BY DEF Rolls!DeleteUser, Rolls!attendanceHistory, Rolls!flights
<1>2. \A a \in Rows : (Rolls!Exists(x1'[a]) => x1'[a] = x1[a]) /\ (x1[a] # None => x1'[a] # None)
  BY <1>1, RollsConstants DEF Rolls!Exists
<1>3. Rolls!TypeOK'
  BY <1>1 DEF Rolls!Inv, Rolls!TypeOK, Rolls!FlightsOK
<1>4. Rolls!RecordedOnce'
  <2> SUFFICES ASSUME NEW u1 \in Others, NEW d1 \in Attended, u1 \notin x3'
               PROVE  Rolls!Cardinality(Rolls!RecordsOf(u1, d1))' <= 1
    BY DEF Rolls!RecordedOnce
  <2>1. Rolls!Cardinality(Rolls!RecordsOf(u1, d1)) <= 1
    BY <1>1 DEF Rolls!Inv, Rolls!RecordedOnce
  <2>2. Rolls!RecordsOf(u1, d1)' \subseteq Rolls!RecordsOf(u1, d1)
    BY <1>2 DEF Rolls!RecordsOf, Rolls!Exists
  <2>3. PICK S \in SUBSET Rows, T \in SUBSET Rows :
            S = Rolls!RecordsOf(u1, d1) /\ T = Rolls!RecordsOf(u1, d1)'
    BY DEF Rolls!RecordsOf
  <2>4. Rolls!Cardinality(T) <= 1
    BY <2>1, <2>2, <2>3, RollsOne
  <2> QED
    BY <2>3, <2>4, RollsCardinality
<1>5. Rolls!NotesKept'
  BY <1>1, <1>2 DEF Rolls!Inv, Rolls!NotesKept, Rolls!Exists
<1>6. \A v \in Workers : Rolls!Sound(v)'
  BY <1>1, <1>2, RollsOther
<1> QED
  BY <1>3, <1>4, <1>5, <1>6 DEF Rolls!Inv

LEMMA RollsNext == Rolls!Inv /\ Rolls!Next => Rolls!Inv'
<1> SUFFICES ASSUME Rolls!Inv, Rolls!Next PROVE Rolls!Inv'
  OBVIOUS
<1>1. CASE \E u \in Others : Rolls!DeleteUser(u)
  BY <1>1, RollsDelete
<1>2. ASSUME NEW w \in Workers, Rolls!InsertFails(w) \/ Rolls!AbortAttendance(w)
      PROVE  Rolls!Inv'
  <2>1. Rolls!Return(w) /\ UNCHANGED <<x1, x2, x3, x4>>
    BY <1>2 DEF Rolls!InsertFails, Rolls!AbortAttendance, Rolls!Die, Rolls!attendanceTables,
                Rolls!attendanceHistory
  <2> QED
    BY <2>1, RollsReturns
<1> QED
  BY <1>1, <1>2, RollsRecord, RollsUpdate, RollsLook, RollsInsert, RollsCommit DEF Rolls!Next

LEMMA RollsStays == Rolls!Inv /\ UNCHANGED <<x1, x2, x3, x4, pc, req, sent>> => Rolls!Inv'
<1> SUFFICES ASSUME Rolls!Inv, UNCHANGED <<x1, x2, x3, x4, pc, req, sent>> PROVE Rolls!Inv'
  OBVIOUS
<1>1. Rolls!TypeOK' /\ Rolls!RecordedOnce' /\ Rolls!NotesKept'
  BY DEF Rolls!Inv, Rolls!TypeOK, Rolls!FlightsOK, Rolls!RecordedOnce, Rolls!NotesKept,
         Rolls!RecordsOf, Rolls!Exists
<1>2. \A v \in Workers : Rolls!Sound(v)'
  BY RollsOther DEF Rolls!Exists
<1> QED
  BY <1>1, <1>2 DEF Rolls!Inv



-----------------------------------------------------------------------------
\* RateLimiter

LEMMA LimiterConstants ==
    /\ MaxCalls \in Nat
    /\ Limit \in Nat /\ Window \in Nat /\ MaxAge \in Nat /\ Ticks \in Nat /\ MaxStarts \in Nat
    /\ MaxAge >= Window
BY ServicesAssumption

LEMMA LimiterCardinality == \A S : Limiter!Cardinality(S) = Cardinality(S)
BY DEF Limiter!Cardinality, Cardinality

LEMMA LimiterFinite == \A S : Limiter!IsFiniteSet(S) <=> IsFiniteSet(S)
BY DEF Limiter!IsFiniteSet, IsFiniteSet

LEMMA LimiterInit == Limiter!Init => Limiter!Inv
<1> SUFFICES ASSUME Limiter!Init PROVE Limiter!Inv
  OBVIOUS
<1> USE LimiterConstants DEF Limiter!Init, Limiter!InitFlights
<1>1. \A asked, p, t : Limiter!Prompt(asked, p, t) = {}
  BY DEF Limiter!Prompt, Limiter!Counted
<1>2. Limiter!LimitHeld
  BY <1>1, LimiterCardinality, FS_EmptySet DEF Limiter!LimitHeld
<1>3. Limiter!TypeOK /\ \A w \in Workers : Limiter!Sound(w)
  BY DEF Limiter!TypeOK, Limiter!FlightsOK, Limiter!NoRequest, Limiter!Sound
<1>4. Limiter!IsFiniteSet(x3) /\ Limiter!IsFiniteSet(x4) /\ Limiter!IsFiniteSet(x6)
  BY LimiterFinite, FS_EmptySet
<1> QED
  BY <1>2, <1>3, <1>4
     DEF Limiter!Inv, Limiter!RefusedForCause, Limiter!RedisHolds, Limiter!MemoryHolds

\* What was let through, and the prompt part of it.
LEMMA LimiterAdmitted ==
    ASSUME Limiter!Inv
    PROVE  /\ x1 \in Nat /\ x5 \in Nat
           /\ IsFiniteSet(x3) /\ IsFiniteSet(x4) /\ IsFiniteSet(x6)
           /\ \A a \in x6 : /\ a.at \in Nat /\ a.at <= x1
                            /\ a.period \in Nat /\ a.period <= x5
                            /\ a.redis \in BOOLEAN /\ a.late \in BOOLEAN
                            /\ a = [id |-> a.id, at |-> a.at, redis |-> a.redis,
                                    period |-> a.period, late |-> a.late]
           /\ \A h \in x3 \cup x4 : h.at \in Nat /\ h = Limiter!Hit(h.id, h.at)
<1> USE LimiterConstants DEF Limiter!Inv, Limiter!TypeOK
<1>1. x1 \in Nat /\ x5 \in Nat /\ IsFiniteSet(x3) /\ IsFiniteSet(x4) /\ IsFiniteSet(x6)
  BY LimiterFinite
<1>2. ASSUME NEW a \in x6
      PROVE  /\ a.at \in Nat /\ a.at <= x1
             /\ a.period \in Nat /\ a.period <= x5
             /\ a.redis \in BOOLEAN /\ a.late \in BOOLEAN
             /\ a = [id |-> a.id, at |-> a.at, redis |-> a.redis,
                     period |-> a.period, late |-> a.late]
  <2>1. a \in [id : 0 .. MaxCalls, at : 0 .. Ticks, redis : BOOLEAN,
               period : 0 .. 1 + MaxStarts, late : BOOLEAN]
    BY <1>2
  <2>2. a.at <= x1 /\ a.period <= x5
    BY <1>2
  <2> QED
    BY <2>1, <2>2
<1>3. ASSUME NEW h \in x3 \cup x4 PROVE h.at \in Nat /\ h = Limiter!Hit(h.id, h.at)
  <2>1. h \in [id : 0 .. MaxCalls, at : 0 .. Ticks]
    BY <1>3
  <2> QED
    BY <2>1 DEF Limiter!Hit
<1> QED
  BY <1>1, <1>2, <1>3

\* The prompt ones of a window are as many as their hits.
LEMMA LimiterPrompt ==
    ASSUME Limiter!Inv, NEW asked \in BOOLEAN, NEW p, NEW t, NEW hits, IsFiniteSet(hits), t = x1,
           \A a \in Limiter!Prompt(asked, p, t) : Limiter!Hit(a.id, a.at) \in hits
    PROVE  /\ IsFiniteSet(Limiter!Prompt(asked, p, t))
           /\ Cardinality(Limiter!Prompt(asked, p, t)) <= Cardinality(hits)
<1>1. PICK P : P = Limiter!Prompt(asked, p, t)
  OBVIOUS
<1>2. PICK f : f = [a \in P |-> Limiter!Hit(a.id, a.at)]
  OBVIOUS
<1>3. f \in [P -> hits]
  BY <1>1, <1>2
<1>4. ASSUME NEW a \in P, NEW b \in P, f[a] = f[b] PROVE a = b
  <2>1. a.id = b.id /\ a.at = b.at
    BY <1>2, <1>4 DEF Limiter!Hit
  <2>2. /\ a \in x6 /\ a.redis = asked /\ a.period = p /\ ~a.late
        /\ b \in x6 /\ b.redis = asked /\ b.period = p /\ ~b.late
    BY <1>1, <1>4 DEF Limiter!Prompt, Limiter!Counted
  <2>3. a.late = FALSE /\ b.late = FALSE
    BY <2>2, LimiterAdmitted
  <2>4. /\ a = [id |-> a.id, at |-> a.at, redis |-> asked, period |-> p, late |-> FALSE]
        /\ b = [id |-> b.id, at |-> b.at, redis |-> asked, period |-> p, late |-> FALSE]
    BY <2>2, <2>3, LimiterAdmitted
  <2> QED
    BY <2>1, <2>4
<1>5. f \in Injection(P, hits)
  BY <1>3, <1>4 DEF Injection, IsInjective
<1> QED
  BY <1>1, <1>5, FS_Injection

\* The hits of a window are not more than those that were let through for them.
LEMMA LimiterCounted ==
    ASSUME Limiter!Inv, NEW asked \in BOOLEAN, NEW p, NEW hits,
           \A h \in hits : \E a \in Limiter!Counted(asked, p, x1) : h = Limiter!Hit(a.id, a.at)
    PROVE  /\ Cardinality(hits) <= Cardinality(Limiter!Counted(asked, p, x1))
           /\ Cardinality(hits) \in Nat /\ Cardinality(Limiter!Counted(asked, p, x1)) \in Nat
<1>1. PICK C : C = Limiter!Counted(asked, p, x1)
  OBVIOUS
<1>2. C \subseteq x6 /\ IsFiniteSet(C)
  BY <1>1, LimiterAdmitted, FS_Subset DEF Limiter!Counted
<1>3. PICK f : f = [a \in C |-> Limiter!Hit(a.id, a.at)]
  OBVIOUS
<1>4. PICK T : T = {Limiter!Hit(a.id, a.at) : a \in C}
  OBVIOUS
<1>5. f \in Surjection(C, T)
  BY <1>3, <1>4 DEF Surjection
<1>6. IsFiniteSet(T) /\ Cardinality(T) <= Cardinality(C)
  BY <1>2, <1>5, FS_Surjection
<1>7. hits \subseteq T
  BY <1>1, <1>4
<1>8. IsFiniteSet(hits) /\ Cardinality(hits) <= Cardinality(T)
  BY <1>6, <1>7, FS_Subset
<1>9. Cardinality(hits) \in Nat /\ Cardinality(T) \in Nat /\ Cardinality(C) \in Nat
  BY <1>2, <1>6, <1>8, FS_CardinalityType
<1> QED
  BY <1>1, <1>6, <1>8, <1>9

LEMMA LimiterHeldAfter ==
    ASSUME \A b \in BOOLEAN, q \in 0 .. x5', s \in 0 .. x1' :
              Cardinality(Limiter!Prompt(b, q, s)') <= Limit
    PROVE  Limiter!LimitHeld'
BY LimiterCardinality DEF Limiter!LimitHeld

LEMMA LimiterHeldNow ==
    ASSUME Limiter!LimitHeld, NEW b \in BOOLEAN, NEW q \in 0 .. x5, NEW s \in 0 .. x1
    PROVE  Cardinality(Limiter!Prompt(b, q, s)) <= Limit
BY LimiterCardinality DEF Limiter!LimitHeld

\* The limit is held while nothing is let through, and in a period that begins.
LEMMA LimiterHeld ==
    ASSUME Limiter!Inv, x6' = x6, x1' \in {x1, x1 + 1}, x5' \in {x5, x5 + 1}
    PROVE  Limiter!LimitHeld'
<1> SUFFICES ASSUME NEW asked \in BOOLEAN, NEW p \in 0 .. x5', NEW t \in 0 .. x1'
             PROVE  Cardinality(Limiter!Prompt(asked, p, t)') <= Limit
  BY LimiterHeldAfter
<1>1. Limiter!Prompt(asked, p, t)' = Limiter!Prompt(asked, p, t)
  BY DEF Limiter!Prompt, Limiter!Counted
<1>2. CASE p > x5
  <2>1. Limiter!Prompt(asked, p, t) = {}
    BY <1>2, LimiterAdmitted DEF Limiter!Prompt, Limiter!Counted
  <2> QED
    BY <1>1, <2>1, LimiterConstants, FS_EmptySet
<1>3. CASE p <= x5 /\ t <= x1
  <2>1. p \in 0 .. x5 /\ t \in 0 .. x1
    BY <1>3, LimiterAdmitted
  <2> QED
    BY <1>1, <2>1, LimiterCardinality DEF Limiter!Inv, Limiter!LimitHeld
<1>4. CASE p <= x5 /\ t > x1
  <2>1. p \in 0 .. x5 /\ x1 \in 0 .. x1 /\ t = x1 + 1
    BY <1>4, LimiterAdmitted
  <2>2. Cardinality(Limiter!Prompt(asked, p, x1)) <= Limit
    BY <2>1, LimiterCardinality DEF Limiter!Inv, Limiter!LimitHeld
  <2>3. Limiter!Prompt(asked, p, t) \subseteq Limiter!Prompt(asked, p, x1)
    BY <2>1, LimiterAdmitted, LimiterConstants DEF Limiter!Prompt, Limiter!Counted
  <2>4. IsFiniteSet(Limiter!Prompt(asked, p, x1))
    BY LimiterAdmitted, FS_Subset DEF Limiter!Prompt, Limiter!Counted
  <2>5. /\ Cardinality(Limiter!Prompt(asked, p, t)) <= Cardinality(Limiter!Prompt(asked, p, x1))
        /\ IsFiniteSet(Limiter!Prompt(asked, p, t))
    BY <2>3, <2>4, FS_Subset
  <2>6. /\ Cardinality(Limiter!Prompt(asked, p, t)) \in Nat
        /\ Cardinality(Limiter!Prompt(asked, p, x1)) \in Nat
    BY <2>4, <2>5, FS_CardinalityType
  <2> QED
    BY <1>1, <2>2, <2>5, <2>6, LimiterConstants
<1> QED
  BY <1>2, <1>3, <1>4, LimiterAdmitted

\* One that is answered at t, when its backend holds the prompt ones of the window
\* and has room, or refuses it because of those that it has let through.
LEMMA LimiterAnswer ==
    ASSUME Limiter!Inv, NEW asked \in BOOLEAN, NEW p \in Nat, NEW id \in 0 .. MaxCalls, NEW t \in 0 .. x1,
           NEW hits, IsFiniteSet(hits),
           Limiter!Answer(Cardinality(hits) < Limit, id, t, asked, p),
           x1' = x1, x5' \in {x5, x5 + 1}, x5' <= 1 + MaxStarts, p = x5',
           \A a \in Limiter!Prompt(asked, p, x1) : Limiter!Hit(a.id, a.at) \in hits,
           \/ asked
           \/ t = x1 /\ \A h \in hits : \E a \in Limiter!Counted(asked, p, x1) : h = Limiter!Hit(a.id, a.at)
    PROVE  /\ Limiter!LimitHeld' /\ Limiter!RefusedForCause'
           /\ IsFiniteSet(x6')
           /\ \A a \in x6' : a.at <= x1' /\ a.period <= x5'
           /\ x6' \subseteq [id : 0 .. MaxCalls, at : 0 .. Ticks, redis : BOOLEAN,
                             period : 0 .. 1 + MaxStarts, late : BOOLEAN]
           /\ x7' \subseteq [redis : BOOLEAN, full : BOOLEAN]
           /\ ~(Cardinality(hits) < Limit) => x6' = x6
           /\ Cardinality(hits) < Limit => \E late \in BOOLEAN : x6' = x6 \cup
                 {[id |-> id, at |-> t, redis |-> asked, period |-> p, late |-> late]}
<1>0. /\ x1 \in Nat /\ x5 \in Nat /\ x1 \in 0 .. Ticks /\ x6 \subseteq
            [id : 0 .. MaxCalls, at : 0 .. Ticks, redis : BOOLEAN,
             period : 0 .. 1 + MaxStarts, late : BOOLEAN]
      /\ x7 \subseteq [redis : BOOLEAN, full : BOOLEAN] /\ IsFiniteSet(x6)
      /\ \A a \in x6 : a.at <= x1 /\ a.period <= x5
      /\ Limiter!LimitHeld /\ Limiter!RefusedForCause
  BY LimiterAdmitted DEF Limiter!Inv, Limiter!TypeOK
<1>1. CASE Cardinality(hits) < Limit
  <2>1. PICK late \in BOOLEAN : late = (t < x1)
    <3>1. CASE t < x1
      <4>1. TRUE = (t < x1)
        BY <3>1
      <4> QED
        BY <4>1
    <3>2. CASE ~(t < x1)
      <4>1. FALSE = (t < x1)
        BY <3>2
      <4> QED
        BY <4>1
    <3> QED
      BY <3>1, <3>2
  <2>2. PICK a : a = [id |-> id, at |-> t, redis |-> asked, period |-> p, late |-> late]
    OBVIOUS
  <2>3. x6' = x6 \cup {a} /\ x7' = x7
    BY <1>1, <2>1, <2>2 DEF Limiter!Answer
  <2>4. /\ a \in [id : 0 .. MaxCalls, at : 0 .. Ticks, redis : BOOLEAN,
                  period : 0 .. 1 + MaxStarts, late : BOOLEAN]
        /\ a.at <= x1' /\ a.period <= x5'
    BY <1>0, <2>2, LimiterConstants
  <2>5. IsFiniteSet(x6')
    BY <1>0, <2>3, FS_AddElement
  <2>6. Limiter!LimitHeld'
    <3> SUFFICES ASSUME NEW b \in BOOLEAN, NEW q \in 0 .. x5', NEW s \in 0 .. x1'
                 PROVE  Cardinality(Limiter!Prompt(b, q, s)') <= Limit
      BY LimiterHeldAfter
    <3>1. CASE late \/ s < x1 \/ b # asked \/ q # p
      <4>1. a.late \/ ~(a.at <= s) \/ a.redis # b \/ a.period # q
        BY <1>0, <2>1, <2>2, <3>1
      <4>2. Limiter!Prompt(b, q, s)' = Limiter!Prompt(b, q, s)
        BY <2>3, <4>1 DEF Limiter!Prompt, Limiter!Counted
      <4>3. CASE q > x5
        <5>1. Limiter!Prompt(b, q, s) = {}
          BY <4>3, LimiterAdmitted DEF Limiter!Prompt, Limiter!Counted
        <5> QED
          BY <4>2, <5>1, LimiterConstants, FS_EmptySet
      <4>4. CASE q <= x5
        <5>1. q \in 0 .. x5 /\ s \in 0 .. x1
          BY <1>0, <4>4
        <5>2. Cardinality(Limiter!Prompt(b, q, s)) <= Limit
          BY <1>0, <5>1, LimiterHeldNow
        <5> QED
          BY <4>2, <5>2
      <4> QED
        BY <1>0, <4>3, <4>4
    <3>2. CASE ~late /\ s = x1 /\ b = asked /\ q = p
      <4>1. PICK P : P = Limiter!Prompt(asked, p, x1)
        OBVIOUS
      <4>2. IsFiniteSet(P) /\ Cardinality(P) <= Cardinality(hits)
        BY <4>1, LimiterPrompt
      <4>3. Limiter!Prompt(b, q, s)' \subseteq P \cup {a}
        BY <2>3, <3>2, <4>1 DEF Limiter!Prompt, Limiter!Counted
      <4>4. IsFiniteSet(P \cup {a}) /\ Cardinality(P \cup {a}) <= Cardinality(P) + 1
        <5>1. Cardinality(P) \in Nat
          BY <4>2, FS_CardinalityType
        <5>2. /\ IsFiniteSet(P \cup {a})
              /\ Cardinality(P \cup {a}) = IF a \in P THEN Cardinality(P) ELSE Cardinality(P) + 1
          BY <4>2, FS_AddElement
        <5> QED
          BY <5>1, <5>2
      <4>5. /\ Cardinality(Limiter!Prompt(b, q, s)') <= Cardinality(P \cup {a})
            /\ IsFiniteSet(Limiter!Prompt(b, q, s)')
        BY <4>3, <4>4, FS_Subset
      <4>6. /\ Cardinality(P) \in Nat /\ Cardinality(hits) \in Nat /\ Cardinality(P \cup {a}) \in Nat
            /\ Cardinality(Limiter!Prompt(b, q, s)') \in Nat
        BY <4>2, <4>4, <4>5, FS_CardinalityType
      <4> QED
        <5>1. PICK n \in Nat, k \in Nat, l \in Nat, o \in Nat :
                 /\ n = Cardinality(P) /\ k = Cardinality(hits) /\ l = Cardinality(P \cup {a})
                 /\ o = Cardinality(Limiter!Prompt(b, q, s)')
          BY <4>6
        <5>2. n <= k /\ k < Limit /\ l <= n + 1 /\ o <= l
          BY <1>1, <4>2, <4>4, <4>5, <5>1
        <5>3. o <= Limit
          BY <5>2, LimiterConstants
        <5> QED
          BY <5>1, <5>3
    <3> QED
      BY <1>0, <3>1, <3>2
  <2>7. /\ Limiter!RefusedForCause'
        /\ x6' \subseteq [id : 0 .. MaxCalls, at : 0 .. Ticks, redis : BOOLEAN,
                          period : 0 .. 1 + MaxStarts, late : BOOLEAN]
        /\ \A b \in x6' : b.at <= x1' /\ b.period <= x5'
    BY <1>0, <2>3, <2>4 DEF Limiter!RefusedForCause
  <2> QED
    BY <1>0, <1>1, <2>2, <2>3, <2>5, <2>6, <2>7
<1>2. CASE ~(Cardinality(hits) < Limit)
  <2>1. PICK full : full = (Limiter!Cardinality(Limiter!Counted(asked, p, t)) >= Limit)
    OBVIOUS
  <2>2. x7' = x7 \cup {[redis |-> asked, full |-> full]} /\ x6' = x6
    BY <1>2, <2>1 DEF Limiter!Answer
  <2>3. full \in BOOLEAN
    BY <2>1
  <2>4. asked \/ full
    <3>1. CASE ~asked
      <4>1. PICK c : c = Cardinality(Limiter!Counted(asked, p, x1))
        OBVIOUS
      <4>2. Cardinality(hits) <= c /\ Cardinality(hits) \in Nat /\ c \in Nat
        BY <3>1, <4>1, LimiterCounted
      <4>3. c >= Limit
        BY <1>2, <4>2, LimiterConstants
      <4> QED
        BY <2>1, <3>1, <4>1, <4>3, LimiterCardinality
    <3> QED
      BY <3>1
  <2>5. Limiter!RefusedForCause' /\ x7' \subseteq [redis : BOOLEAN, full : BOOLEAN]
    BY <1>0, <2>2, <2>3, <2>4 DEF Limiter!RefusedForCause
  <2>6. Limiter!LimitHeld'
    BY <2>2, LimiterHeld
  <2>7. \A a \in x6' : a.at <= x1' /\ a.period <= x5'
    BY <1>0, <2>2, LimiterAdmitted
  <2> QED
    BY <1>0, <1>2, <2>2, <2>5, <2>6, <2>7
<1> QED
  BY <1>1, <1>2

\* The requests in flight, as long as the clock goes on.
LEMMA LimiterFlight ==
    ASSUME Limiter!Inv, x1' \in {x1, x1 + 1},
           \/ UNCHANGED <<pc, req, sent>>
           \/ sent < MaxCalls /\ sent' = sent + 1 /\ UNCHANGED <<pc, req>>
           \/ \E w \in Workers : Limiter!Return(w)
           \/ /\ x1' = x1
              /\ \E w \in Workers :
                    Limiter!Begin(w, [op |-> "limit", id |-> sent, at |-> x1], "asking")
    PROVE  Limiter!FlightsOK' /\ \A w \in Workers : Limiter!Sound(w)'
<1> USE DEF Limiter!TypeOK, Limiter!FlightsOK, Limiter!Inv, Limiter!Sound
<1>0. x1 \in Nat /\ x1' \in Nat /\ x1 <= x1'
  BY LimiterAdmitted
<1>1. CASE UNCHANGED <<pc, req>> /\ (sent' = sent \/ (sent < MaxCalls /\ sent' = sent + 1))
  <2>1. \A w \in Workers : Limiter!Sound(w)'
    BY <1>0, <1>1
  <2> QED
    BY <1>1, <2>1, LimiterConstants
<1>2. ASSUME NEW w \in Workers, Limiter!Return(w)
      PROVE  Limiter!FlightsOK' /\ \A v \in Workers : Limiter!Sound(v)'
  BY <1>0, <1>2 DEF Limiter!Return, Limiter!Continue, Limiter!At, Limiter!NoRequest
<1>3. ASSUME x1' = x1, NEW w \in Workers,
             Limiter!Begin(w, [op |-> "limit", id |-> sent, at |-> x1], "asking")
      PROVE  Limiter!FlightsOK' /\ \A v \in Workers : Limiter!Sound(v)'
  <2>1. [op |-> "limit", id |-> sent, at |-> x1] # Limiter!NoRequest
    BY DEF Limiter!NoRequest
  <2> QED
    BY <1>0, <1>3, <2>1, LimiterConstants DEF Limiter!Begin, Limiter!At
<1> QED
  BY <1>1, <1>2, <1>3

\* The memory of one that is let through, or not, in this period or in the one that
\* begins with it.
LEMMA LimiterMemory ==
    ASSUME Limiter!Inv, NEW id \in 0 .. MaxCalls, NEW p, p = x5',
           Limiter!AskMemory(id, p), x1' = x1, x3' = x3, x2' = FALSE,
           \/ p = x5
           \/ x2 /\ p = x5 + 1,
           Limiter!FlightsOK', \A w \in Workers : Limiter!Sound(w)'
    PROVE  Limiter!Inv'
<1>1. /\ x1 \in Nat /\ x5 \in Nat /\ p \in Nat /\ x1 \in 0 .. Ticks
      /\ IsFiniteSet(x3) /\ IsFiniteSet(x4) /\ p <= 1 + MaxStarts /\ x5 <= p /\ x5' \in {x5, x5 + 1}
  BY LimiterAdmitted, LimiterConstants DEF Limiter!Inv, Limiter!TypeOK
<1>2. PICK fresh : fresh = Limiter!Within(x4, x1)
  OBVIOUS
<1>3. fresh \subseteq x4 /\ IsFiniteSet(fresh) /\ \A h \in x4 : h \in fresh <=> h.at + Window > x1
  BY <1>1, <1>2, FS_Subset DEF Limiter!Within
<1>4. /\ Limiter!Answer(Cardinality(fresh) < Limit, id, x1, FALSE, p)
      /\ x4' = IF Cardinality(fresh) < Limit THEN fresh \cup {Limiter!Hit(id, x1)} ELSE fresh
  BY <1>2, LimiterCardinality DEF Limiter!AskMemory
<1>5. ASSUME NEW a \in x6, ~a.redis, a.period = p, a.at + Window > x1
      PROVE  Limiter!Hit(a.id, a.at) \in fresh
  <2>1. a.period = x5
    BY <1>1, <1>5, LimiterAdmitted
  <2>2. Limiter!Hit(a.id, a.at) \in x4
    BY <1>5, <2>1 DEF Limiter!Inv, Limiter!MemoryHolds
  <2> QED
    BY <1>3, <1>5, <2>2 DEF Limiter!Hit
<1>6. ASSUME NEW h \in x4
      PROVE  \E a \in x6 : ~a.redis /\ a.period = p /\ a.id = h.id /\ a.at = h.at
  <2>1. p = x5
    BY <1>6 DEF Limiter!Inv
  <2> QED
    BY <1>6, <2>1 DEF Limiter!Inv, Limiter!MemoryHolds
<1>7. ASSUME NEW h \in fresh
      PROVE  \E a \in Limiter!Counted(FALSE, p, x1) : h = Limiter!Hit(a.id, a.at)
  <2>1. PICK a \in x6 : ~a.redis /\ a.period = p /\ a.id = h.id /\ a.at = h.at
    BY <1>3, <1>6, <1>7
  <2>2. /\ h = Limiter!Hit(h.id, h.at) /\ h.at + Window > x1
        /\ a.at <= x1 /\ a.redis \in BOOLEAN
    BY <1>3, <1>7, LimiterAdmitted
  <2>3. a \in Limiter!Counted(FALSE, p, x1)
    BY <2>1, <2>2 DEF Limiter!Counted
  <2> QED
    BY <2>1, <2>2, <2>3
<1>8. \A a \in Limiter!Prompt(FALSE, p, x1) : Limiter!Hit(a.id, a.at) \in fresh
  BY <1>5 DEF Limiter!Prompt, Limiter!Counted
<1>9. /\ Limiter!LimitHeld' /\ Limiter!RefusedForCause'
      /\ IsFiniteSet(x6')
      /\ \A a \in x6' : a.at <= x1' /\ a.period <= x5'
      /\ x6' \subseteq [id : 0 .. MaxCalls, at : 0 .. Ticks, redis : BOOLEAN,
                        period : 0 .. 1 + MaxStarts, late : BOOLEAN]
      /\ x7' \subseteq [redis : BOOLEAN, full : BOOLEAN]
      /\ ~(Cardinality(fresh) < Limit) => x6' = x6
      /\ Cardinality(fresh) < Limit => \E late \in BOOLEAN : x6' = x6 \cup
            {[id |-> id, at |-> x1, redis |-> FALSE, period |-> p, late |-> late]}
  <2>1. x1 \in 0 .. x1
    BY <1>1
  <2> QED
    BY <1>1, <1>3, <1>4, <1>7, <1>8, <2>1, LimiterAnswer
<1>12. x4' = fresh \/ x4' = fresh \cup {Limiter!Hit(id, x1)}
  BY <1>4
<1>13. Limiter!TypeOK' /\ IsFiniteSet(x4')
  <2>1. x4 \subseteq [id : 0 .. MaxCalls, at : 0 .. Ticks] /\ x3 \subseteq [id : 0 .. MaxCalls, at : 0 .. Ticks]
    BY DEF Limiter!Inv, Limiter!TypeOK
  <2>2. Limiter!Hit(id, x1) \in [id : 0 .. MaxCalls, at : 0 .. Ticks]
    BY <1>1 DEF Limiter!Hit
  <2>3. x4' \subseteq [id : 0 .. MaxCalls, at : 0 .. Ticks]
    BY <1>3, <1>12, <2>1, <2>2
  <2>4. IsFiniteSet(x4')
    BY <1>3, <1>12, FS_AddElement
  <2>5. x5' \in 0 .. 1 + MaxStarts /\ x1' \in 0 .. Ticks
    BY <1>1, LimiterConstants
  <2> QED
    BY <1>9, <2>1, <2>3, <2>4, <2>5 DEF Limiter!TypeOK
<1>14. Limiter!RedisHolds'
  BY <1>9 DEF Limiter!Inv, Limiter!RedisHolds
<1>15. Limiter!MemoryHolds'
  <2>1. CASE Cardinality(fresh) < Limit
    <3>1. PICK late \in BOOLEAN : x6' = x6 \cup
               {[id |-> id, at |-> x1, redis |-> FALSE, period |-> p, late |-> late]}
      BY <1>9, <2>1
    <3>2. x4' = fresh \cup {Limiter!Hit(id, x1)}
      BY <1>4, <2>1
    <3>3. ASSUME NEW a \in x6', ~a.redis, a.period = p, a.at + Window > x1
          PROVE  Limiter!Hit(a.id, a.at) \in x4'
      BY <1>5, <3>1, <3>2, <3>3
    <3>4. ASSUME NEW h \in x4'
          PROVE  \E a \in x6' : ~a.redis /\ a.period = p /\ a.id = h.id /\ a.at = h.at
      <4>1. CASE h \in fresh
        BY <1>3, <1>6, <3>1, <4>1
      <4>2. CASE h = Limiter!Hit(id, x1)
        <5>1. PICK a : a = [id |-> id, at |-> x1, redis |-> FALSE, period |-> p, late |-> late]
          OBVIOUS
        <5>2. a \in x6' /\ ~a.redis /\ a.period = p /\ a.id = h.id /\ a.at = h.at
          BY <3>1, <4>2, <5>1 DEF Limiter!Hit
        <5> QED
          BY <5>2
      <4> QED
        BY <3>2, <3>4, <4>1, <4>2
    <3> QED
      BY <3>3, <3>4 DEF Limiter!MemoryHolds
  <2>2. CASE ~(Cardinality(fresh) < Limit)
    <3>1. x6' = x6 /\ x4' = fresh
      BY <1>4, <1>9, <2>2
    <3> QED
      BY <1>3, <1>5, <1>6, <3>1 DEF Limiter!MemoryHolds
  <2> QED
    BY <2>1, <2>2
<1> QED
  BY <1>1, <1>9, <1>13, <1>14, <1>15, LimiterFinite DEF Limiter!Inv

\* One that asks Redis.
LEMMA LimiterRedis ==
    ASSUME Limiter!Inv, NEW w \in Workers, Limiter!AskRedis(w)
    PROVE  Limiter!Inv'
<1>1. PICK r : r = req[w]
  OBVIOUS
<1>2. /\ pc[w] = "asking" /\ Limiter!Return(w) /\ UNCHANGED <<x1, x2, x4, x5>>
      /\ x3' = Limiter!Within(x3, r.at) \cup {Limiter!Hit(r.id, r.at)}
      /\ Limiter!Answer(Limiter!Cardinality(Limiter!Within(x3, r.at)) < Limit, r.id, r.at, TRUE, x5)
  BY <1>1 DEF Limiter!AskRedis
<1>3. PICK id \in 0 .. MaxCalls, t \in 0 .. x1 : id = r.id /\ t = r.at
  BY <1>1, <1>2 DEF Limiter!Inv, Limiter!Sound
<1>4. PICK fresh : fresh = Limiter!Within(x3, t)
  OBVIOUS
<1>5. /\ x1 \in Nat /\ x5 \in Nat /\ t <= x1 /\ t \in Nat /\ x1 \in 0 .. Ticks /\ x5 \in 0 .. 1 + MaxStarts
      /\ IsFiniteSet(x3) /\ fresh \subseteq x3 /\ IsFiniteSet(fresh)
      /\ \A h \in x3 : h \in fresh <=> h.at + Window > t
      /\ \A h \in x3 : h.at \in Nat
  <2>1. x1 \in Nat /\ x5 \in Nat /\ x1 \in 0 .. Ticks /\ x5 \in 0 .. 1 + MaxStarts /\ IsFiniteSet(x3)
    BY LimiterAdmitted DEF Limiter!Inv, Limiter!TypeOK
  <2>2. fresh \subseteq x3 /\ \A h \in x3 : h \in fresh <=> h.at + Window > t
    BY <1>4 DEF Limiter!Within
  <2>3. \A h \in x3 : h.at \in Nat
    BY LimiterAdmitted
  <2> QED
    BY <2>1, <2>2, <2>3, FS_Subset
<1>6. x3' = fresh \cup {Limiter!Hit(id, t)} /\ Limiter!Answer(Cardinality(fresh) < Limit, id, t, TRUE, x5)
  BY <1>2, <1>3, <1>4, LimiterCardinality
<1>7. ASSUME NEW a \in x6, a.redis, a.at + Window > x1
      PROVE  Limiter!Hit(a.id, a.at) \in fresh
  <2>1. Limiter!Hit(a.id, a.at) \in x3
    BY <1>7 DEF Limiter!Inv, Limiter!RedisHolds
  <2>2. a.at + Window > t
    BY <1>5, <1>7, LimiterAdmitted, LimiterConstants
  <2> QED
    BY <1>5, <2>1, <2>2 DEF Limiter!Hit
<1>8. \A a \in Limiter!Prompt(TRUE, x5, x1) : Limiter!Hit(a.id, a.at) \in fresh
  BY <1>7 DEF Limiter!Prompt, Limiter!Counted
<1>9. /\ Limiter!LimitHeld' /\ Limiter!RefusedForCause'
      /\ IsFiniteSet(x6')
      /\ \A a \in x6' : a.at <= x1' /\ a.period <= x5'
      /\ x6' \subseteq [id : 0 .. MaxCalls, at : 0 .. Ticks, redis : BOOLEAN,
                        period : 0 .. 1 + MaxStarts, late : BOOLEAN]
      /\ x7' \subseteq [redis : BOOLEAN, full : BOOLEAN]
      /\ ~(Cardinality(fresh) < Limit) => x6' = x6
      /\ Cardinality(fresh) < Limit => \E late \in BOOLEAN : x6' = x6 \cup
            {[id |-> id, at |-> t, redis |-> TRUE, period |-> x5, late |-> late]}
  <2>1. x1' = x1 /\ x5' \in {x5, x5 + 1} /\ x5' <= 1 + MaxStarts /\ x5' = x5
    BY <1>2, <1>5, LimiterConstants
  <2>2. TRUE \in BOOLEAN
    OBVIOUS
  <2> QED
    BY <1>5, <1>6, <1>8, <2>1, <2>2, LimiterAnswer
<1>10. Limiter!FlightsOK' /\ \A v \in Workers : Limiter!Sound(v)'
  BY <1>2, LimiterFlight
<1>11. Limiter!TypeOK' /\ IsFiniteSet(x3') /\ IsFiniteSet(x4')
  <2>1. x4 \subseteq [id : 0 .. MaxCalls, at : 0 .. Ticks] /\ x3 \subseteq [id : 0 .. MaxCalls, at : 0 .. Ticks]
    BY DEF Limiter!Inv, Limiter!TypeOK
  <2>2. Limiter!Hit(id, t) \in [id : 0 .. MaxCalls, at : 0 .. Ticks]
    <3>1. t \in 0 .. Ticks
      BY <1>5, LimiterConstants
    <3> QED
      BY <3>1 DEF Limiter!Hit
  <2>3. x3' \cup x4' \subseteq [id : 0 .. MaxCalls, at : 0 .. Ticks]
    BY <1>2, <1>5, <1>6, <2>1, <2>2
  <2>4. IsFiniteSet(x3') /\ IsFiniteSet(x4')
    <3>1. IsFiniteSet(fresh \cup {Limiter!Hit(id, t)})
      BY <1>5, FS_AddElement
    <3> QED
      BY <1>2, <1>6, <3>1, LimiterAdmitted
  <2> QED
    BY <1>2, <1>5, <1>9, <1>10, <2>3, <2>4 DEF Limiter!Inv, Limiter!TypeOK
<1>12. Limiter!RedisHolds'
  <2>1. ASSUME NEW a \in x6', a.redis, a.at + Window > x1 PROVE Limiter!Hit(a.id, a.at) \in x3'
    <3>1. a \in x6 \/ (a.id = id /\ a.at = t)
      <4>1. CASE Cardinality(fresh) < Limit
        BY <1>9, <2>1, <4>1
      <4> QED
        BY <1>9, <2>1, <4>1
    <3> QED
      BY <1>6, <1>7, <2>1, <3>1
  <2> QED
    BY <1>2, <2>1 DEF Limiter!RedisHolds
<1>13. Limiter!MemoryHolds'
  <2>1. ASSUME NEW a \in x6' PROVE a \in x6 \/ a.redis
    <3>1. CASE Cardinality(fresh) < Limit
      BY <1>9, <2>1, <3>1
    <3> QED
      BY <1>9, <2>1, <3>1
  <2>2. x6 \subseteq x6'
    BY <1>9
  <2> QED
    BY <1>2, <2>1, <2>2 DEF Limiter!Inv, Limiter!MemoryHolds
<1> QED
  BY <1>2, <1>9, <1>10, <1>11, <1>12, <1>13, LimiterFinite DEF Limiter!Inv

\* Nothing is let through or refused.
LEMMA LimiterRest ==
    ASSUME Limiter!Inv, UNCHANGED <<x3, x6, x7>>,
           x1' \in {x1, x1 + 1}, x1' \in 0 .. Ticks,
           \/ UNCHANGED <<x2, x4, x5>>
           \/ /\ UNCHANGED <<x2, x5>> /\ x4' = {} /\ \A h \in x4 : h.at + MaxAge < x1'
           \/ x2' \in BOOLEAN /\ x4' = {} /\ x5 < MaxStarts /\ x5' = x5 + 1,
           Limiter!FlightsOK', \A w \in Workers : Limiter!Sound(w)'
    PROVE  Limiter!Inv'
<1>1. x1 \in Nat /\ x5 \in Nat /\ IsFiniteSet(x3) /\ IsFiniteSet(x4) /\ IsFiniteSet(x6) /\ x1 <= x1'
  BY LimiterAdmitted
<1>2. /\ x5' \in {x5, x5 + 1} /\ x5' \in 0 .. 1 + MaxStarts /\ x2' \in BOOLEAN
      /\ x2' => x4' = {} /\ x5' <= MaxStarts
      /\ x4' = x4 \/ x4' = {}
  <2>1. x5 \in 0 .. 1 + MaxStarts /\ x2 \in BOOLEAN /\ (x2 => x4 = {} /\ x5 <= MaxStarts)
    BY DEF Limiter!Inv, Limiter!TypeOK
  <2> QED
    BY <1>1, <2>1, LimiterConstants
<1>3. Limiter!LimitHeld'
  BY <1>2, LimiterHeld
<1>4. Limiter!TypeOK' /\ IsFiniteSet(x4')
  <2>1. IsFiniteSet(x4')
    BY <1>1, <1>2, FS_EmptySet
  <2> QED
    BY <1>2, <2>1 DEF Limiter!Inv, Limiter!TypeOK
<1>5. Limiter!RefusedForCause'
  BY DEF Limiter!Inv, Limiter!RefusedForCause
<1>6. \A a \in x6 : a.at <= x1' /\ a.period <= x5' /\ (a.at + Window > x1' => a.at + Window > x1)
  BY <1>1, <1>2, LimiterAdmitted, LimiterConstants
<1>7. Limiter!RedisHolds'
  BY <1>6 DEF Limiter!Inv, Limiter!RedisHolds
<1>8. Limiter!MemoryHolds'
  <2>1. CASE x4' = {} /\ (x5' = x5 + 1 \/ \A h \in x4 : h.at + MaxAge < x1')
    <3>1. ASSUME NEW a \in x6, ~a.redis, a.period = x5', a.at + Window > x1' PROVE FALSE
      <4>1. CASE x5' = x5 + 1
        BY <1>1, <3>1, <4>1, LimiterAdmitted
      <4>2. CASE x5' = x5 /\ \A h \in x4 : h.at + MaxAge < x1'
        <5>1. Limiter!Hit(a.id, a.at) \in x4
          BY <1>6, <3>1, <4>2 DEF Limiter!Inv, Limiter!MemoryHolds
        <5>2. a.at + MaxAge < x1'
          BY <4>2, <5>1 DEF Limiter!Hit
        <5>3. a.at \in Nat
          BY LimiterAdmitted
        <5> QED
          BY <1>1, <3>1, <5>2, <5>3, LimiterConstants
      <4> QED
        BY <1>2, <2>1, <4>1, <4>2
    <3> QED
      BY <2>1, <3>1 DEF Limiter!MemoryHolds
  <2>2. CASE UNCHANGED <<x4, x5>>
    BY <1>6, <2>2 DEF Limiter!Inv, Limiter!MemoryHolds
  <2> QED
    BY <2>1, <2>2
<1> QED
  BY <1>1, <1>2, <1>3, <1>4, <1>5, <1>6, <1>7, <1>8, LimiterFinite DEF Limiter!Inv

LEMMA LimiterNext == Limiter!Inv /\ Limiter!Next => Limiter!Inv'
<1> SUFFICES ASSUME Limiter!Inv, Limiter!Next PROVE Limiter!Inv'
  OBVIOUS
<1> USE DEF Limiter!rateState, Limiter!rateHistory, Limiter!flights
<1>0. x1 \in Nat /\ x1 \in 0 .. Ticks /\ sent \in 0 .. MaxCalls /\ x2 \in BOOLEAN
  BY LimiterAdmitted DEF Limiter!Inv, Limiter!TypeOK, Limiter!FlightsOK
<1>1. CASE Limiter!Tick
  <2>1. x1' = x1 + 1 /\ x1' \in 0 .. Ticks /\ UNCHANGED <<x2, x3, x4, x5, x6, x7, pc, req, sent>>
    BY <1>0, <1>1, LimiterConstants DEF Limiter!Tick
  <2> QED
    BY <2>1, LimiterFlight, LimiterRest
<1>2. CASE Limiter!LimitInMemory
  <2>1. /\ x2 = FALSE /\ sent < MaxCalls /\ sent' = sent + 1 /\ Limiter!AskMemory(sent, x5)
        /\ UNCHANGED <<x1, x2, x3, x5, pc, req>>
    BY <1>0, <1>2 DEF Limiter!LimitInMemory
  <2>2. Limiter!FlightsOK' /\ \A w \in Workers : Limiter!Sound(w)'
    BY <2>1, LimiterFlight
  <2> QED
    BY <1>0, <2>1, <2>2, LimiterMemory
<1>3. CASE Limiter!Cleanup
  <2>1. /\ UNCHANGED <<x1, x2, x3, x5, x6, x7, pc, req, sent>> /\ x4' = {}
        /\ \A h \in x4 : h.at + MaxAge < x1'
    BY <1>3 DEF Limiter!Cleanup
  <2>2. Limiter!FlightsOK' /\ \A w \in Workers : Limiter!Sound(w)'
    BY <2>1, LimiterFlight
  <2> QED
    BY <1>0, <2>1, <2>2, LimiterRest
<1>4. CASE Limiter!Restart
  <2>1. /\ UNCHANGED <<x1, x3, x6, x7, pc, req, sent>> /\ x4' = {}
        /\ x2' \in BOOLEAN /\ x5 < MaxStarts /\ x5' = x5 + 1
    BY <1>4 DEF Limiter!Restart
  <2>2. Limiter!FlightsOK' /\ \A w \in Workers : Limiter!Sound(w)'
    BY <2>1, LimiterFlight
  <2> QED
    BY <1>0, <2>1, <2>2, LimiterRest
<1>5. ASSUME NEW w \in Workers, Limiter!ReadClock(w) \/ Limiter!AbortLimit(w) PROVE Limiter!Inv'
  <2>1. /\ UNCHANGED <<x1, x2, x3, x4, x5, x6, x7>>
        /\ \/ Limiter!Return(w)
           \/ Limiter!Begin(w, [op |-> "limit", id |-> sent, at |-> x1], "asking")
    BY <1>5 DEF Limiter!ReadClock, Limiter!AbortLimit, Limiter!Die
  <2>2. Limiter!FlightsOK' /\ \A v \in Workers : Limiter!Sound(v)'
    BY <2>1, LimiterFlight
  <2> QED
    BY <1>0, <2>1, <2>2, LimiterRest
<1>6. ASSUME NEW w \in Workers, Limiter!FallBack(w) PROVE Limiter!Inv'
  <2>1. PICK id \in 0 .. MaxCalls : id = req[w].id
    BY <1>6 DEF Limiter!FallBack, Limiter!Inv, Limiter!Sound
  <2>2. PICK p : p = IF x2 THEN x5 + 1 ELSE x5
    OBVIOUS
  <2>3. /\ p = x5' /\ Limiter!AskMemory(id, p) /\ Limiter!Return(w)
        /\ x1' = x1 /\ x3' = x3 /\ x2' = FALSE
    BY <1>6, <2>1, <2>2 DEF Limiter!FallBack
  <2>4. p = x5 \/ (x2 /\ p = x5 + 1)
    BY <2>2
  <2>5. Limiter!FlightsOK' /\ \A v \in Workers : Limiter!Sound(v)'
    BY <2>3, LimiterFlight
  <2> QED
    BY <2>3, <2>4, <2>5, LimiterMemory
<1> QED
  BY <1>1, <1>2, <1>3, <1>4, <1>5, <1>6, LimiterRedis DEF Limiter!Next

LEMMA LimiterStays ==
    Limiter!Inv /\ UNCHANGED <<x1, x2, x3, x4, x5, x6, x7, pc, req, sent>> => Limiter!Inv'
<1> SUFFICES ASSUME Limiter!Inv, UNCHANGED <<x1, x2, x3, x4, x5, x6, x7, pc, req, sent>> PROVE Limiter!Inv'
  OBVIOUS
<1>1. Limiter!FlightsOK' /\ \A v \in Workers : Limiter!Sound(v)'
  BY LimiterFlight
<1>2. x1' \in 0 .. Ticks
  BY DEF Limiter!Inv, Limiter!TypeOK
<1> QED
  BY <1>1, <1>2, LimiterRest



-----------------------------------------------------------------------------
\* The invariant of the service a behaviour is of.
ServicesInv ==
    /\ focus = "Plans" => Plans!Inv
    /\ focus = "Locks" => Locks!Inv
    /\ focus = "Courses" => Courses!Inv
    /\ focus = "Sport" => Sport!Inv
    /\ focus = "Minutes" => Minutes!Inv
    /\ focus = "News" => News!Inv
    /\ focus = "Books" => Books!Inv
    /\ focus = "Postes" => Postes!Inv
    /\ focus = "Access" => Access!Inv
    /\ focus = "Logins" => Logins!Inv
    /\ focus = "Families" => Families!Inv
    /\ focus = "People" => People!Inv
    /\ focus = "Library" => Library!Inv
    /\ focus = "Rolls" => Rolls!Inv
    /\ focus = "Limiter" => Limiter!Inv

LEMMA InitInv == Init => ServicesInv
BY PlansInit, LocksInit, CoursesInit, SportInit, MinutesInit, NewsInit, BooksInit, PostesInit,
   AccessInit, LoginsInit, FamiliesInit, PeopleInit,
   LibraryInit, RollsInit, LimiterInit
   DEF Init, ServicesInv

\* What a step of the system keeps, and what it may not do.
LEMMA NextInv ==
    ASSUME ServicesInv, Next
    PROVE  /\ ServicesInv'
           /\ focus = "Courses" => Courses!RegistrationsKept
           /\ focus = "Sport" => Sport!InscriptionsKept
           /\ focus = "Plans" => Plans!PublishedStands
           /\ focus = "Minutes" => Minutes!PublishedStands
           /\ focus = "News" => News!ReadStays
           /\ focus = "Locks" => Locks!LockHolds /\ Locks!LockEndsInTime
<1>1. focus' = focus
  BY DEF Next
<1> QED
  BY <1>1, PlansNext, LocksNext, CoursesNext, SportNext, MinutesNext, NewsNext, BooksNext,
     PostesNext,
     AccessNext, LoginsNext, FamiliesNext, PeopleNext,
     LibraryNext, RollsNext, LimiterNext
     DEF Next, ServicesInv

LEMMA StaysInv == ASSUME ServicesInv, UNCHANGED vars PROVE ServicesInv'
<1>1. UNCHANGED <<focus, x1, x2, x3, x4, x5, x6, x7, x8, x9, pc, req, sent>>
  BY DEF vars, Rest3, flights
<1> QED
  BY <1>1, PlansStays, LocksStays, CoursesStays, SportStays, MinutesStays, NewsStays, BooksStays,
     PostesStays,
     AccessStays, LoginsStays, FamiliesStays, PeopleStays,
     LibraryStays, RollsStays, LimiterStays
     DEF ServicesInv

\* Whatever the service, its invariant holds all along.
THEOREM Invariance == Spec => []ServicesInv
<1>1. Init => ServicesInv
  BY InitInv
<1>2. ServicesInv /\ [Next]_vars => ServicesInv'
  BY NextInv, StaysInv
<1> QED
  BY <1>1, <1>2, PTL DEF Spec

\* A request that ends leaves its work whole: everybody that a broadcast is meant for is
\* told, a child has a parent, a stored file is attached, a view is counted and a
\* justification is the one given last, but for the requests that have met.
THEOREM WorkIsDone == Spec => []NothingHalfDone
<1>1. ServicesInv => NothingHalfDone
  <2>1. Minutes!FilesHeld => Minutes!FilesOnRecord
    BY DEF Minutes!FilesHeld, Minutes!FilesOnRecord
  <2> QED
    BY <2>1 DEF ServicesInv, NothingHalfDone, Minutes!Inv, Families!Inv, News!Inv, News!Listed,
       Library!Inv, Rolls!Inv
<1> QED
  BY <1>1, Invariance, PTL

\* No more are registered or inscribed than there are places, a broadcast notifies nobody
\* twice, a servant has one record for a date and a type, but for the requests that have
\* met; and a window of an address lets through no more requests than the limit.
THEOREM LimitsAreHeld == Spec => []LimitsHold
<1>1. ServicesInv => LimitsHold
  <2>1. News!Inv => News!ToldOnce
    BY NewsToldOnce
  <2> QED
    BY <2>1 DEF ServicesInv, LimitsHold, Courses!Inv, Sport!Inv, Rolls!Inv, Limiter!Inv
<1> QED
  BY <1>1, Invariance, PTL

\* An invitation makes one account, a refresh token is exchanged once and a reset code
\* changes one password, but for the requests that have met on them.
THEOREM CodesAreSpent == Spec => []CodesServeOnce
<1>1. ServicesInv => CodesServeOnce
  BY DEF ServicesInv, CodesServeOnce, People!Inv, Logins!Inv
<1> QED
  BY <1>1, Invariance, PTL

\* An address is of one account and is what its owner gave last, there is one ADMIN and
\* one AUMONIER, and a servant has three parents at most.
THEOREM AccountsAreSound == Spec => []AccountsHold
<1>1. ServicesInv => AccountsHold
  BY DEF ServicesInv, AccountsHold, People!Inv, Families!Inv
<1> QED
  BY <1>1, Invariance, PTL

\* A verified entry is as it was verified and the figures add up; an expense waits for
\* an approval, which is of the expense as it was agreed on.
THEOREM BooksAreKept == Spec => []BooksStand
<1>1. ServicesInv => BooksStand
  BY DEF ServicesInv, BooksStand, Books!Inv, Postes!Inv
<1> QED
  BY <1>1, Invariance, PTL

\* Whichever of the fifteen services a behaviour is of, its tables, what is remembered of them
\* and its requests in flight have their types.
THEOREM RowsHaveTypes == Spec => []RowsTyped
<1>1. /\ Postes!Inv => Postes!TypeOK
      /\ Books!Inv => Books!TypeOK
      /\ Courses!Inv => Courses!TypeOK
      /\ Library!Inv => Library!TypeOK
      /\ Sport!Inv => Sport!TypeOK
  BY DEF Postes!Inv, Books!Inv, Courses!Inv, Library!Inv, Sport!Inv
<1>2. /\ People!Inv => People!TypeOK
      /\ Families!Inv => Families!TypeOK
      /\ Locks!Inv => Locks!TypeOK
      /\ Logins!Inv => Logins!TypeOK
      /\ Access!Inv => Access!TypeOK
  BY DEF People!Inv, Families!Inv, Locks!Inv, Logins!Inv, Access!Inv
<1>3. /\ Plans!Inv => Plans!TypeOK
      /\ Rolls!Inv => Rolls!TypeOK
      /\ News!Inv => News!TypeOK
      /\ Minutes!Inv => Minutes!TypeOK
      /\ Limiter!Inv => Limiter!TypeOK
  BY DEF Plans!Inv, Rolls!Inv, News!Inv, News!Settled, Minutes!Inv, Limiter!Inv
<1>4. ServicesInv => RowsTyped
  BY <1>1, <1>2, <1>3 DEF ServicesInv, RowsTyped
<1> QED
  BY <1>4, Invariance, PTL

\* What a gate lets through was entitled to it when it was looked up, and who is not a
\* secretary is shown no draft.
THEOREM GatesHold == Spec => []ActsAreEntitled
<1>1. ServicesInv => ActsAreEntitled
  BY DEF ServicesInv, ActsAreEntitled, Access!Inv, Minutes!Inv
<1> QED
  BY <1>1, Invariance, PTL

\* What is registered, published or read is not taken back by a request that has looked
\* at it before.
THEOREM RowsAreKept == Spec => RowsStand
<1> DEFINE Step == /\ focus = "Courses" => Courses!RegistrationsKept
                   /\ focus = "Sport" => Sport!InscriptionsKept
                   /\ focus = "Plans" => Plans!PublishedStands
                   /\ focus = "Minutes" => Minutes!PublishedStands
                   /\ focus = "News" => News!ReadStays
<1>1. ServicesInv /\ [Next]_vars => [Step]_vars
  BY NextInv
<1> QED
  BY <1>1, Invariance, PTL DEF Spec, RowsStand

\* A lock after failed logins stands until its time is up, but for the requests that had
\* passed it, and ends when it is.
THEOREM LocksStand == Spec => LockHolds
<1> DEFINE Step == /\ focus = "Locks" => Locks!LockHolds
                   /\ focus = "Locks" => Locks!LockEndsInTime
<1>1. ServicesInv /\ [Next]_vars => [Step]_vars
  BY NextInv
<1> QED
  BY <1>1, Invariance, PTL DEF Spec, LockHolds
=============================================================================
