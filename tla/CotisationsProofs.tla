-------------------------- MODULE CotisationsProofs --------------------------
(***************************************************************************)
(* Proofs about Cotisations, for any number of requests, servants, periods *)
(* and rows.                                                               *)
(***************************************************************************)
EXTENDS Cotisations, FiniteSetTheorems, TLAPS

(***************************************************************************)
(* Types.                                                                  *)
(***************************************************************************)

LEMMA EmptyTypes ==
  /\ UnusedPeriod \in Period /\ UnusedRow \in MemberCotisation
  /\ NoRequest \in Request /\ 0 \in Days
BY CotisationsAssumption
   DEF UnusedPeriod, UnusedRow, NoRequest, Period, MemberCotisation, Request,
       Days, Kinds, Paid

LEMMA FixedAmountsType ==
  /\ FIXED_AMOUNTS \in [{"MENSUEL", "HEBDOMADAIRE"} -> Nat]
  /\ DOMAIN FIXED_AMOUNTS = {"MENSUEL", "HEBDOMADAIRE"}
BY DEF FIXED_AMOUNTS

LEMMA StatusType ==
  ASSUME NEW paid, NEW expected
  PROVE  StatusFor(paid, expected) \in Paid
BY DEF StatusFor, Paid

\* What a request has at hand at each of its places.
RequestInv ==
    /\ pc \in [Workers -> Places] /\ req \in [Workers -> Request]
    /\ \A w \in Workers :
         /\ pc[w] \in {"listing", "lookup", "obligation", "mode", "existing",
                       "update", "insert"} => req[w].period \in Periods
         /\ pc[w] \in {"obligation", "mode", "existing", "update", "insert",
                       "control"} => req[w].servant \in Servants
         /\ pc[w] = "update" => req[w].row \in Rows

\* The tables; a row that was ever used names its period and its servant.
TableInv ==
    /\ today \in Days
    /\ members \in SUBSET Servants /\ responsables \in SUBSET Servants
    /\ periods \in [Periods -> Period]
    /\ rows \in [Rows -> MemberCotisation]
    /\ collected \in [Periods -> [Servants -> Nat]]
    /\ due \in [Periods -> SUBSET Servants]
    /\ calls \in 0..MaxCalls /\ aborts \in 0..MaxAborts
    /\ overlapped \in BOOLEAN
    /\ \A r \in Rows : rows[r].status # "UNUSED" =>
           rows[r].period \in Periods /\ rows[r].servant \in Servants

TypeInv == RequestInv /\ TableInv

LEMMA MoveType ==
  ASSUME RequestInv, NEW w \in Workers, NEW place \in Places,
         NEW q \in Request,
         pc' = [pc EXCEPT ![w] = place], req' = [req EXCEPT ![w] = q],
         place \in {"listing", "lookup", "obligation", "mode", "existing",
                    "update", "insert"} => q.period \in Periods,
         place \in {"obligation", "mode", "existing", "update", "insert",
                    "control"} => q.servant \in Servants,
         place = "update" => q.row \in Rows
  PROVE  RequestInv'
BY DEF RequestInv

LEMMA ReturnType ==
  ASSUME RequestInv, NEW w \in Workers, Return(w)
  PROVE  RequestInv'
<1>1. "idle" \in Places
  BY DEF Places
<1>. QED
  BY <1>1, EmptyTypes, MoveType DEF Return, Goto

\* A step that only moves the request.
LEMMA GotoType ==
  ASSUME RequestInv, NEW w \in Workers, NEW place \in Places,
         Goto(w, place), UNCHANGED req,
         \/ pc[w] \in {"mode", "existing"} /\ place \in {"existing", "insert"}
         \/ pc[w] = "control" /\ place = "report"
  PROVE  RequestInv'
BY DEF RequestInv, Goto

LEMMA ArriveType ==
  ASSUME TypeInv, NEW w \in Workers, Arrive(w)
  PROVE  TypeInv'
<1>0. RequestInv /\ TableInv /\ req[w] \in Request
  BY DEF TypeInv, RequestInv
<1>calls. Called => calls' \in 0..MaxCalls /\ overlapped' \in BOOLEAN
  BY <1>0, CotisationsAssumption DEF Called, TableInv
<1>1. ASSUME NEW c \in Periods, NEW d \in Drafts, CreatePeriod(w, c, d)
      PROVE  TypeInv'
  <2>1. d \in Draft
    BY CotisationsAssumption
  <2>2. [kind |-> d.kind, start |-> d.start, end |-> d.end,
         amount |-> d.amount, state |-> "active"] \in Period
    BY <2>1 DEF Draft, Period
  <2>3. periods' \in [Periods -> Period] /\ due' \in [Periods -> SUBSET Servants]
    BY <1>0, <1>1, <2>2 DEF CreatePeriod, TableInv
  <2>4. TableInv'
    BY <1>0, <1>1, <1>calls, <2>3 DEF CreatePeriod, TableInv, world
  <2>5. RequestInv'
    <3>1. PICK p \in Periods \cup {None}, place \in {"listing", "idle"} :
              /\ req' = [req EXCEPT ![w].period = p] /\ Goto(w, place)
              /\ place = "listing" => p \in Periods
      BY <1>1 DEF CreatePeriod
    <3>2. [req[w] EXCEPT !.period = p] \in Request
      BY <1>0 DEF Request
    <3>3. req' = [req EXCEPT ![w] = [req[w] EXCEPT !.period = p]]
      BY <3>1
    <3>4. [req[w] EXCEPT !.period = p].period = p /\ place \in Places
      BY <1>0 DEF Request, Places
    <3>. QED
      BY <1>0, <3>1, <3>2, <3>3, <3>4, MoveType DEF Goto
  <2>. QED
    BY <2>4, <2>5 DEF TypeInv
<1>2. ASSUME NEW c \in Periods, NEW amount \in Prices \cup {periods[c].amount},
             NEW end \in Ends \cup {periods[c].end}, NEW state \in {"active", "closed"},
             UpdatePeriod(w, c, amount, end, state)
      PROVE  TypeInv'
  <2>6. periods[c] \in Period
    BY <1>0 DEF TableInv
  <2>7. amount \in Nat /\ end \in Days
    BY <2>6, CotisationsAssumption DEF Period
  <2>1. [periods[c] EXCEPT !.amount = amount, !.end = end, !.state = state]
            \in Period
    BY <2>6, <2>7 DEF Period
  <2>2. periods' = [periods EXCEPT ![c] =
            [periods[c] EXCEPT !.amount = amount, !.end = end, !.state = state]]
    BY <1>0, <1>2 DEF UpdatePeriod, TableInv
  <2>5. periods' \in [Periods -> Period]
    BY <1>0, <2>1, <2>2 DEF TableInv
  <2>3. TableInv'
    BY <1>0, <1>2, <1>calls, <2>5 DEF UpdatePeriod, TableInv, world
  <2>4. RequestInv'
    BY <1>0, <1>2 DEF UpdatePeriod, RequestInv
  <2>. QED
    BY <2>3, <2>4 DEF TypeInv
<1>3. ASSUME NEW c \in Periods, DeletePeriod(w, c) PROVE TypeInv'
  <2>1. periods' \in [Periods -> Period]
    <3>1. [periods[c] EXCEPT !.state = "DELETED"] \in Period
      <4>1. periods[c] \in Period
        BY <1>0 DEF TableInv
      <4>. QED
        BY <4>1 DEF Period
    <3>2. periods' = [periods EXCEPT ![c] = [periods[c] EXCEPT !.state = "DELETED"]]
      BY <1>0, <1>3 DEF DeletePeriod, TableInv
    <3>. QED
      BY <1>0, <3>1, <3>2 DEF TableInv
  <2>2. /\ rows' \in [Rows -> MemberCotisation]
        /\ \A r \in Rows : rows'[r].status # "UNUSED" =>
               rows'[r].period \in Periods /\ rows'[r].servant \in Servants
    <3>1. ASSUME NEW r \in Rows
          PROVE  /\ rows'[r] \in MemberCotisation
                 /\ rows'[r].status # "UNUSED" =>
                        rows'[r].period \in Periods /\ rows'[r].servant \in Servants
      <4>1. /\ rows[r] \in MemberCotisation
            /\ rows[r].status # "UNUSED" =>
                   rows[r].period \in Periods /\ rows[r].servant \in Servants
        BY <1>0 DEF TableInv
      <4>2. /\ [rows[r] EXCEPT !.status = "DELETED"] \in MemberCotisation
            /\ [rows[r] EXCEPT !.status = "DELETED"].period = rows[r].period
            /\ [rows[r] EXCEPT !.status = "DELETED"].servant = rows[r].servant
        BY <4>1 DEF MemberCotisation
      <4>3. rows'[r] = IF Live(r) /\ rows[r].period = c
                       THEN [rows[r] EXCEPT !.status = "DELETED"] ELSE rows[r]
        BY <1>3 DEF DeletePeriod
      <4>4. Live(r) => rows[r].status # "UNUSED"
        BY DEF Live, Paid
      <4>. QED
        BY <4>1, <4>2, <4>3, <4>4
    <3>. QED
      BY <1>3, <3>1 DEF DeletePeriod
  <2>3. /\ collected' \in [Periods -> [Servants -> Nat]]
        /\ due' \in [Periods -> SUBSET Servants]
    BY <1>0, <1>3 DEF DeletePeriod, TableInv
  <2>4. TableInv'
    BY <1>0, <1>3, <1>calls, <2>1, <2>2, <2>3 DEF DeletePeriod, TableInv, world
  <2>5. RequestInv'
    BY <1>0, <1>3 DEF DeletePeriod, RequestInv
  <2>. QED
    BY <2>4, <2>5 DEF TypeInv
<1>4. ASSUME NEW c \in Periods, NEW s \in Servants, NEW a \in Payments,
             BeginPay(w, c, s, a)
      PROVE  TypeInv'
  <2>. DEFINE q == [req[w] EXCEPT !.period = c, !.servant = s, !.amount = a,
                                  !.copy = periods[c]]
  <2>1. a \in Nat /\ periods[c] \in Period
    BY <1>0, CotisationsAssumption DEF TableInv
  <2>2. q \in Request /\ q.period = c /\ q.servant = s
    BY <1>0, <2>1 DEF Request
  <2>3. req' = [req EXCEPT ![w] = q]
    BY <1>4 DEF BeginPay
  <2>4. PICK place \in {"mode", "existing"} : Goto(w, place)
    BY <1>4 DEF BeginPay
  <2>5. place \in Places
    BY DEF Places
  <2>6. RequestInv'
    <3>. HIDE DEF q
    <3>. QED
      BY <1>0, <2>2, <2>3, <2>4, <2>5, MoveType DEF Goto
  <2>7. TableInv'
    BY <1>0, <1>4, <1>calls DEF BeginPay, TableInv, world, tables
  <2>. QED
    BY <2>6, <2>7 DEF TypeInv
<1>5. ASSUME NEW s \in Servants, BeginControl(w, s) PROVE TypeInv'
  <2>. DEFINE q == [req[w] EXCEPT !.servant = s, !.listed = Listed,
                                  !.left = Listed]
  <2>1. Listed \in SUBSET Periods
    BY DEF Listed
  <2>2. q \in Request /\ q.servant = s
    BY <1>0, <2>1 DEF Request
  <2>3. req' = [req EXCEPT ![w] = q]
    BY <1>5 DEF BeginControl
  <2>4. "control" \in Places
    BY DEF Places
  <2>5. RequestInv'
    <3>. HIDE DEF q
    <3>. QED
      BY <1>0, <1>5, <2>2, <2>3, <2>4, MoveType DEF BeginControl, Goto
  <2>6. TableInv'
    BY <1>0, <1>5, <1>calls DEF BeginControl, TableInv, world, tables
  <2>. QED
    BY <2>5, <2>6 DEF TypeInv
<1>. QED
  BY <1>1, <1>2, <1>3, <1>4, <1>5 DEF Arrive

LEMMA TablesType ==
  ASSUME TableInv, UNCHANGED <<world, tables, calls, aborts, overlapped>>
  PROVE  TableInv'
BY DEF TableInv, world, tables

LEMMA HandOverType ==
  ASSUME TypeInv, NEW w \in Workers, HandOver(w),
         req[w].period \in Periods, req[w].servant \in Servants
  PROVE  collected' \in [Periods -> [Servants -> Nat]]
<1>1. req[w].amount \in Nat
  BY DEF TypeInv, RequestInv, Request
<1>. QED
  BY <1>1 DEF HandOver, TypeInv, TableInv

LEMMA ServeType ==
  ASSUME TypeInv, NEW w \in Workers, Serve(w)
  PROVE  TypeInv'
<1>0. RequestInv /\ TableInv /\ req[w] \in Request
  BY DEF TypeInv, RequestInv
<1>places. {"idle", "lookup", "obligation", "existing", "update", "insert",
            "control", "report"} \subseteq Places
  BY DEF Places
<1>1. CASE ListServants(w)
  <2>. DEFINE q == [req[w] EXCEPT !.todo = members \ responsables]
  <2>1. q \in Request /\ q.period = req[w].period
    BY <1>0 DEF Request, TableInv
  <2>2. req[w].period \in Periods /\ due' \in [Periods -> SUBSET Servants]
    BY <1>0, <1>1 DEF ListServants, RequestInv, TableInv
  <2>3. req' = [req EXCEPT ![w] = q]
    BY <1>1 DEF ListServants
  <2>4. RequestInv'
    <3>. HIDE DEF q
    <3>. QED
      BY <1>0, <1>1, <1>places, <2>1, <2>2, <2>3, MoveType DEF ListServants, Goto
  <2>. QED
    BY <1>0, <1>1, <2>2, <2>4 DEF ListServants, TypeInv, TableInv, world
<1>2. CASE LookupObligation(w)
  <2>1. TableInv'
    BY <1>0, <1>2, TablesType DEF LookupObligation
  <2>2. CASE Return(w)
    BY <1>0, <2>1, <2>2, ReturnType DEF TypeInv
  <2>3. ASSUME NEW s \in req[w].todo,
               req' = [req EXCEPT ![w].todo = @ \ {s}], UNCHANGED pc
        PROVE  TypeInv'
    <3>1. [req[w] EXCEPT !.todo = @ \ {s}] \in Request
      BY <1>0 DEF Request
    <3>2. req' = [req EXCEPT ![w] = [req[w] EXCEPT !.todo = @ \ {s}]]
      BY <2>3
    <3>3. RequestInv'
      BY <1>0, <2>3, <3>1, <3>2 DEF RequestInv, Request
    <3>. QED
      BY <2>1, <3>3 DEF TypeInv
  <2>4. ASSUME NEW s \in req[w].todo,
               req' = [req EXCEPT ![w].servant = s], Goto(w, "obligation")
        PROVE  TypeInv'
    <3>. DEFINE q == [req[w] EXCEPT !.servant = s]
    <3>1. s \in Servants
      BY <1>0 DEF Request
    <3>2. /\ q \in Request /\ q.servant = s /\ q.period = req[w].period
      BY <1>0, <3>1 DEF Request
    <3>3. req' = [req EXCEPT ![w] = q] /\ req[w].period \in Periods
      BY <1>0, <1>2, <2>4 DEF LookupObligation, RequestInv
    <3>4. RequestInv'
      <4>. HIDE DEF q
      <4>. QED
        BY <1>0, <1>places, <2>4, <3>1, <3>2, <3>3, MoveType DEF Goto
    <3>. QED
      BY <2>1, <3>4 DEF TypeInv
  <2>. QED
    BY <1>2, <2>2, <2>3, <2>4 DEF LookupObligation
<1>3. CASE InsertObligation(w)
  <2>1. CASE Return(w) /\ UNCHANGED rows
    <3>1. RequestInv'
      BY <1>0, <2>1, ReturnType
    <3>. QED
      BY <1>0, <1>3, <2>1, <3>1 DEF InsertObligation, TypeInv, TableInv, world
  <2>2. ASSUME NEW r \in Rows,
               rows' = [rows EXCEPT ![r] =
                   [period |-> req[w].period, servant |-> req[w].servant,
                    paid |-> 0, status |-> "EN_ATTENTE"]],
               req' = [req EXCEPT ![w].todo = @ \ {req[w].servant},
                                  ![w].servant = None],
               Goto(w, "lookup")
        PROVE  TypeInv'
    <3>. DEFINE q == [req[w] EXCEPT !.todo = @ \ {req[w].servant},
                                    !.servant = None]
    <3>1. q \in Request /\ q.period = req[w].period
      BY <1>0 DEF Request
    <3>2. req' = [req EXCEPT ![w] = q]
      BY <1>0, <2>2 DEF RequestInv
    <3>3. req[w].period \in Periods /\ req[w].servant \in Servants
      BY <1>0, <1>3 DEF InsertObligation, RequestInv
    <3>4. RequestInv'
      <4>. HIDE DEF q
      <4>. QED
        BY <1>0, <1>places, <2>2, <3>1, <3>2, <3>3, MoveType DEF Goto
    <3>5. TableInv'
      BY <1>0, <1>3, <2>2, <3>3
         DEF InsertObligation, TableInv, MemberCotisation, world
    <3>. QED
      BY <3>4, <3>5 DEF TypeInv
  <2>. QED
    BY <1>3, <2>1, <2>2 DEF InsertObligation
<1>4. CASE CheckMode(w)
  <2>1. RequestInv'
    <3>1. CASE Return(w)
      BY <1>0, <3>1, ReturnType
    <3>2. CASE Goto(w, "existing") /\ UNCHANGED req
      BY <1>0, <1>4, <1>places, <3>2 DEF CheckMode, Goto, RequestInv
    <3>. QED
      BY <1>4, <3>1, <3>2 DEF CheckMode
  <2>. QED
    BY <1>0, <1>4, <2>1, TablesType DEF CheckMode, TypeInv
<1>5. CASE LookupPayment(w)
  <2>1. req[w].period \in Periods /\ req[w].servant \in Servants
    BY <1>0, <1>5 DEF LookupPayment, RequestInv
  <2>2. RequestInv'
    <3>1. ASSUME NEW r \in RowsOf(req[w].period, req[w].servant),
                 req' = [req EXCEPT ![w].row = r, ![w].seen = rows[r]],
                 Goto(w, "update")
          PROVE  RequestInv'
      <4>. DEFINE q == [req[w] EXCEPT !.row = r, !.seen = rows[r]]
      <4>1. r \in Rows /\ rows[r] \in MemberCotisation
        BY <1>0 DEF RowsOf, TableInv
      <4>2. /\ q \in Request /\ q.period = req[w].period
            /\ q.servant = req[w].servant /\ q.row = r
        BY <1>0, <4>1 DEF Request
      <4>3. req' = [req EXCEPT ![w] = q]
        BY <1>0, <3>1 DEF RequestInv
      <4>. HIDE DEF q
      <4>. QED
        BY <1>0, <1>places, <2>1, <3>1, <4>1, <4>2, <4>3, MoveType DEF Goto
    <3>2. CASE Goto(w, "insert") /\ UNCHANGED req
      BY <1>0, <1>5, <1>places, <3>2 DEF LookupPayment, Goto, RequestInv
    <3>. QED
      BY <1>5, <3>1, <3>2 DEF LookupPayment
  <2>. QED
    BY <1>0, <1>5, <2>2, TablesType DEF LookupPayment, TypeInv
<1>6. CASE CommitPayment(w)
  <2>1. RequestInv'
    BY <1>0, <1>6, ReturnType DEF CommitPayment
  <2>2. /\ req[w].period \in Periods /\ req[w].servant \in Servants
        /\ req[w].row \in Rows
    BY <1>0, <1>6 DEF CommitPayment, RequestInv
  <2>3. req[w].amount \in Nat /\ req[w].seen.paid \in Nat
    BY <1>0 DEF Request, MemberCotisation
  <2>4. CASE UNCHANGED <<rows, collected>>
    BY <1>0, <1>6, <2>1, <2>4 DEF CommitPayment, TypeInv, TableInv, world
  <2>5. CASE ~UNCHANGED <<rows, collected>>
    <3>. DEFINE total == req[w].seen.paid + req[w].amount
                old == rows[req[w].row]
                new == [old EXCEPT
                    !.paid = IF req[w].amount = 0 THEN @ ELSE total,
                    !.status = IF StatusFor(total, req[w].copy.amount)
                                      = req[w].seen.status
                               THEN @
                               ELSE StatusFor(total, req[w].copy.amount)]
    <3>1. /\ Live(req[w].row) /\ HandOver(w)
          /\ rows' = [rows EXCEPT ![req[w].row] = new]
      BY <1>0, <1>6, <2>2, <2>5 DEF CommitPayment, TableInv
    <3>2. /\ old \in MemberCotisation /\ old.period \in Periods
          /\ old.servant \in Servants
      BY <1>0, <2>2, <3>1 DEF TableInv, Live, Paid
    <3>3. total \in Nat /\ StatusFor(total, req[w].copy.amount) \in Paid
      BY <2>3, StatusType
    <3>4. /\ new \in MemberCotisation /\ new.period = old.period
          /\ new.servant = old.servant
      BY <3>2, <3>3 DEF MemberCotisation
    <3>5. /\ rows' \in [Rows -> MemberCotisation]
          /\ \A r \in Rows : rows'[r].status # "UNUSED" =>
                 rows'[r].period \in Periods /\ rows'[r].servant \in Servants
      <4>. HIDE DEF new
      <4>. QED
        BY <1>0, <2>2, <3>1, <3>2, <3>4 DEF TableInv
    <3>. QED
      BY <1>0, <1>6, <2>1, <2>2, <3>1, <3>5, HandOverType
         DEF CommitPayment, TypeInv, TableInv, world
  <2>. QED
    BY <2>4, <2>5
<1>7. CASE InsertPayment(w)
  <2>1. RequestInv'
    BY <1>0, <1>7, ReturnType DEF InsertPayment
  <2>2. req[w].period \in Periods /\ req[w].servant \in Servants
    BY <1>0, <1>7 DEF InsertPayment, RequestInv
  <2>4. CASE UNCHANGED <<rows, collected>>
    BY <1>0, <1>7, <2>1, <2>4 DEF InsertPayment, TypeInv, TableInv, world
  <2>5. CASE ~UNCHANGED <<rows, collected>>
    <3>. DEFINE new == [period |-> req[w].period, servant |-> req[w].servant,
                        paid |-> req[w].amount,
                        status |-> StatusFor(req[w].amount,
                                             req[w].copy.amount)]
    <3>1. PICK r \in Rows : rows' = [rows EXCEPT ![r] = new] /\ HandOver(w)
      BY <1>7, <2>5 DEF InsertPayment
    <3>2. /\ new \in MemberCotisation /\ new.period \in Periods
          /\ new.servant \in Servants
      BY <1>0, <2>2, StatusType DEF MemberCotisation, Request
    <3>3. /\ rows' \in [Rows -> MemberCotisation]
          /\ \A x \in Rows : rows'[x].status # "UNUSED" =>
                 rows'[x].period \in Periods /\ rows'[x].servant \in Servants
      <4>. HIDE DEF new
      <4>. QED
        BY <1>0, <3>1, <3>2 DEF TableInv
    <3>. QED
      BY <1>0, <1>7, <2>1, <2>2, <3>1, <3>3, HandOverType
         DEF InsertPayment, TypeInv, TableInv, world
  <2>. QED
    BY <2>4, <2>5
<1>8. CASE Review(w)
  <2>1. CASE Goto(w, "report") /\ UNCHANGED req
    BY <1>0, <1>8, <1>places, <2>1, GotoType, TablesType DEF Review, TypeInv
  <2>2. ASSUME NEW c \in Periods, NEW gap \in Nat, NEW longest \in Nat,
               req' = [req EXCEPT ![w].left = @ \ {c}, ![w].gap = gap,
                                  ![w].longest = longest],
               UNCHANGED pc
        PROVE  RequestInv'
    <3>. DEFINE q == [req[w] EXCEPT !.left = @ \ {c}, !.gap = gap,
                                    !.longest = longest]
    <3>1. /\ q \in Request /\ q.servant = req[w].servant
          /\ q.period = req[w].period /\ q.row = req[w].row
      BY <1>0 DEF Request
    <3>2. req' = [req EXCEPT ![w] = q]
      BY <1>0, <2>2 DEF RequestInv
    <3>. HIDE DEF q
    <3>. QED
      BY <1>0, <2>2, <3>1, <3>2 DEF RequestInv
  <2>3. req[w].gap \in Nat /\ req[w].longest \in Nat
    BY <1>0 DEF Request
  <2>4. req[w].gap + 1 \in Nat /\ Larger(req[w].longest, req[w].gap + 1) \in Nat
    BY <2>3 DEF Larger
  <2>5. ASSUME NEW c \in Latest(req[w].left), UNCHANGED pc,
               \/ req' = [req EXCEPT ![w].left = @ \ {c}, ![w].gap = 0]
               \/ req' = [req EXCEPT ![w].left = @ \ {c}, ![w].gap = @ + 1,
                     ![w].longest = Larger(@, req[w].gap + 1)]
        PROVE  RequestInv'
    <3>1. c \in Periods
      BY <1>0 DEF Latest, Request
    <3>2. CASE req' = [req EXCEPT ![w].left = @ \ {c}, ![w].gap = 0]
      <4>1. req' = [req EXCEPT ![w].left = @ \ {c}, ![w].gap = 0,
                              ![w].longest = req[w].longest]
        BY <1>0, <3>2 DEF RequestInv, Request
      <4>. QED
        BY <2>2, <2>3, <2>5, <3>1, <4>1
    <3>3. CASE req' = [req EXCEPT ![w].left = @ \ {c}, ![w].gap = @ + 1,
                     ![w].longest = Larger(@, req[w].gap + 1)]
      <4>1. req' = [req EXCEPT ![w].left = @ \ {c}, ![w].gap = req[w].gap + 1,
                  ![w].longest = Larger(req[w].longest, req[w].gap + 1)]
        BY <1>0, <3>3 DEF RequestInv, Request
      <4>. QED
        BY <2>2, <2>3, <2>4, <2>5, <3>1, <4>1
    <3>. QED
      BY <2>5, <3>2, <3>3
  <2>. QED
    BY <1>0, <1>8, <2>1, <2>5, TablesType DEF Review, TypeInv
<1>9. CASE Report(w)
  BY <1>0, <1>9, ReturnType, TablesType DEF Report, TypeInv
<1>. QED
  BY <1>1, <1>2, <1>3, <1>4, <1>5, <1>6, <1>7, <1>8, <1>9 DEF Serve

LEMMA EnvironmentType ==
  ASSUME TypeInv, Environment
  PROVE  TypeInv'
<1>1. ASSUME NextDay PROVE TypeInv'
  BY <1>1, CotisationsAssumption
     DEF NextDay, TypeInv, TableInv, RequestInv, tables, Days
<1>2. ASSUME NEW s \in Servants, Join(s) \/ Nominate(s) PROVE TypeInv'
  BY <1>2 DEF Join, Nominate, TypeInv, TableInv, RequestInv, tables
<1>3. ASSUME NEW w \in Workers, Abort(w) PROVE TypeInv'
  <2>1. aborts' \in 0..MaxAborts
    BY <1>3, CotisationsAssumption DEF Abort, TypeInv, TableInv
  <2>. QED
    BY <1>3, <2>1, ReturnType DEF Abort, TypeInv, TableInv, world, tables
<1>. QED
  BY <1>1, <1>2, <1>3 DEF Environment

LEMMA InitType == Init => TypeInv
<1>. SUFFICES ASSUME Init PROVE TypeInv
  OBVIOUS
<1>1. calls \in 0..MaxCalls /\ aborts \in 0..MaxAborts
  BY CotisationsAssumption DEF Init
<1>2. overlapped \in BOOLEAN
  BY DEF Init
<1>. QED
  BY <1>1, <1>2, EmptyTypes, CotisationsAssumption
     DEF Init, TypeInv, TableInv, RequestInv, Places, UnusedRow

LEMMA NextType == TypeInv /\ [Next]_vars => TypeInv'
<1>. SUFFICES ASSUME TypeInv, [Next]_vars PROVE TypeInv'
  OBVIOUS
<1>1. CASE Next
  BY <1>1, ArriveType, ServeType, EnvironmentType DEF Next
<1>2. CASE UNCHANGED vars
  BY <1>2 DEF vars, TypeInv, TableInv, RequestInv, world, tables
<1>. QED
  BY <1>1, <1>2

LEMMA TypeInvariant == Spec => []TypeInv
BY InitType, NextType, PTL DEF Spec

\* Every reachable state is well typed.
THEOREM TypeCorrect == Spec => []TypeOK
<1>1. TypeInv => TypeOK
  BY DEF TypeInv, TableInv, RequestInv, TypeOK
<1>. QED
  BY <1>1, TypeInvariant, PTL

(***************************************************************************)
(* The amounts of the rules.                                               *)
(***************************************************************************)

LEMMA FixedStep ==
  ASSUME TypeInv, FixedAmountKept, [Next]_vars
  PROVE  FixedAmountKept'
<1>0. periods \in [Periods -> Period]
  BY DEF TypeInv, TableInv
<1>1. CASE UNCHANGED periods
  BY <1>1 DEF FixedAmountKept, Exists
<1>2. ASSUME NEW w, NEW c \in Periods, NEW d, CreatePeriod(w, c, d)
      PROVE  FixedAmountKept'
  BY <1>0, <1>2 DEF CreatePeriod, FixedAmountKept, Exists
<1>3. ASSUME NEW w, NEW c \in Periods, NEW amount, NEW end, NEW state,
             UpdatePeriod(w, c, amount, end, state)
      PROVE  FixedAmountKept'
  <2>1. /\ periods'[c].kind = periods[c].kind /\ periods'[c].amount = amount
        /\ \A d \in Periods \ {c} : periods'[d] = periods[d]
    BY <1>0, <1>3 DEF UpdatePeriod, Period
  <2>2. PriceAllowed(periods[c].kind, amount)
    BY <1>3 DEF UpdatePeriod, FixedAmountKept
  <2>. QED
    BY <2>1, <2>2 DEF FixedAmountKept, Exists
<1>4. ASSUME NEW w, NEW c \in Periods, DeletePeriod(w, c)
      PROVE  FixedAmountKept'
  <2>1. /\ periods'[c].state = "DELETED"
        /\ \A d \in Periods \ {c} : periods'[d] = periods[d]
    BY <1>0, <1>4 DEF DeletePeriod, Period
  <2>. QED
    BY <2>1 DEF FixedAmountKept, Exists
<1>5. ASSUME NEW w \in Workers, Arrive(w) PROVE FixedAmountKept'
  BY <1>1, <1>2, <1>3, <1>4, <1>5 DEF Arrive, BeginPay, BeginControl, tables
<1>6. ASSUME NEW w \in Workers, Serve(w) PROVE UNCHANGED periods
  <2>1. CASE ListServants(w) \/ LookupObligation(w) \/ InsertObligation(w)
    BY <2>1 DEF ListServants, LookupObligation, InsertObligation, tables
  <2>2. CASE CheckMode(w) \/ LookupPayment(w) \/ Review(w) \/ Report(w)
    BY <2>2 DEF CheckMode, LookupPayment, Review, Report, tables
  <2>3. CASE CommitPayment(w) \/ InsertPayment(w)
    BY <2>3 DEF CommitPayment, InsertPayment
  <2>. QED
    BY <1>6, <2>1, <2>2, <2>3 DEF Serve
<1>7. CASE Environment \/ UNCHANGED vars
  BY <1>1, <1>7 DEF Environment, NextDay, Join, Nominate, Abort, vars, tables
<1>. QED
  BY <1>1, <1>5, <1>6, <1>7 DEF Next

\* However requests overlap, monthly and weekly periods ask for the amounts of
\* the rules.
THEOREM FixedAmounts == Spec => []FixedAmountKept
<1>1. Init => FixedAmountKept
  BY DEF Init, FixedAmountKept, Exists, UnusedPeriod
<1>. QED
  BY <1>1, FixedStep, TypeInvariant, PTL DEF Spec

(***************************************************************************)
(* The money.                                                              *)
(***************************************************************************)

\* What a payment has read is the row it will write, is no more than what was
\* handed over since, and an obligation that was paid does not wait again.
SeenInv(w) ==
    LET q == req[w] IN
    /\ rows[q.row].status # "UNUSED"
    /\ rows[q.row].period = q.period /\ rows[q.row].servant = q.servant
    /\ Live(q.row) => q.seen.paid <= collected[q.period][q.servant]
    /\ q.seen.status \in Paid => rows[q.row].status # "EN_ATTENTE"

MoneyInv ==
    /\ NothingInvented
    /\ WaitingIsUnpaid
    /\ \A w \in Workers : pc[w] = "update" => SeenInv(w)

LEMMA MoneyFrame ==
  ASSUME MoneyInv, UNCHANGED <<rows, collected>>,
         \A w \in Workers : pc'[w] = "update" =>
             pc[w] = "update" /\ req'[w] = req[w]
  PROVE  MoneyInv'
BY DEF MoneyInv, NothingInvented, WaitingIsUnpaid, SeenInv, Live

\* A request that goes to a place other than the update.
LEMMA MoneyMove ==
  ASSUME TypeInv, MoneyInv, NEW w \in Workers, NEW place, NEW r,
         Goto(w, place), place # "update", req' = [req EXCEPT ![w] = r],
         UNCHANGED <<rows, collected>>
  PROVE  MoneyInv'
BY MoneyFrame DEF Goto, TypeInv, RequestInv

LEMMA MoneyReturn ==
  ASSUME TypeInv, MoneyInv, NEW w \in Workers, Return(w),
         UNCHANGED <<rows, collected>>
  PROVE  MoneyInv'
BY MoneyMove DEF Return

LEMMA MoneyDelete ==
  ASSUME TypeInv, MoneyInv, NEW w \in Workers, NEW c \in Periods,
         DeletePeriod(w, c)
  PROVE  MoneyInv'
<1>1. \A r \in Rows :
          \/ /\ rows'[r].status = "DELETED"
             /\ Live(r) /\ rows'[r].period = rows[r].period
             /\ rows'[r].servant = rows[r].servant
          \/ rows'[r] = rows[r] /\ ~(Live(r) /\ rows[r].period = c)
  BY DEF DeletePeriod, TypeInv, TableInv, MemberCotisation
<1>2. \A d \in Periods \ {c} : collected'[d] = collected[d]
  BY DEF DeletePeriod, TypeInv, TableInv
<1>3. \A r \in Rows : Live(r)' =>
          /\ Live(r) /\ rows'[r] = rows[r]
          /\ collected'[rows[r].period] = collected[rows[r].period]
  BY <1>1, <1>2 DEF Live, Paid, TypeInv, TableInv
<1>4. NothingInvented' /\ WaitingIsUnpaid'
  BY <1>1, <1>3 DEF MoneyInv, NothingInvented, WaitingIsUnpaid
<1>5. ASSUME NEW v \in Workers, pc'[v] = "update" PROVE SeenInv(v)'
  <2>1. pc[v] = "update" /\ req'[v] = req[v] /\ req[v].row \in Rows
    BY <1>5 DEF DeletePeriod, TypeInv, RequestInv
  <2>2. SeenInv(v)
    BY <2>1 DEF MoneyInv
  <2>3. rows[req[v].row].period = req[v].period
    BY <2>2 DEF SeenInv
  <2>4. CASE rows'[req[v].row] = rows[req[v].row]
    BY <1>3, <2>1, <2>2, <2>3, <2>4 DEF SeenInv, Live
  <2>5. CASE /\ rows'[req[v].row].status = "DELETED"
             /\ rows'[req[v].row].period = rows[req[v].row].period
             /\ rows'[req[v].row].servant = rows[req[v].row].servant
    BY <2>1, <2>2, <2>5 DEF SeenInv, Live, Paid
  <2>. QED
    BY <1>1, <2>1, <2>4, <2>5
<1>. QED
  BY <1>4, <1>5 DEF MoneyInv

\* A new row for a servant who has handed over at least as much.
LEMMA MoneyInsert ==
  ASSUME TypeInv, MoneyInv, NEW w \in Workers, NEW r \in Rows, NEW m,
         rows[r].status = "UNUSED", rows' = [rows EXCEPT ![r] = m],
         \A c \in Periods, s \in Servants : collected'[c][s] >= collected[c][s],
         collected' \in [Periods -> [Servants -> Nat]],
         m \in MemberCotisation, m.status # "UNUSED",
         m.paid <= collected'[m.period][m.servant],
         m.status = "EN_ATTENTE" => m.paid = 0,
         \A v \in Workers : pc'[v] = "update" =>
             pc[v] = "update" /\ req'[v] = req[v]
  PROVE  MoneyInv'
<1>1. rows'[r] = m /\ \A x \in Rows \ {r} : rows'[x] = rows[x]
  BY DEF TypeInv, TableInv
<1>2. WaitingIsUnpaid'
  BY <1>1 DEF MoneyInv, WaitingIsUnpaid
<1>3. ASSUME NEW x \in Rows \ {r}, Live(x)
      PROVE  rows[x].paid <= collected'[rows[x].period][rows[x].servant]
  <2>1. rows[x].period \in Periods /\ rows[x].servant \in Servants
    BY <1>3 DEF Live, Paid, TypeInv, TableInv
  <2>2. /\ rows[x].paid \in Nat
        /\ collected[rows[x].period][rows[x].servant] \in Nat
        /\ collected'[rows[x].period][rows[x].servant] \in Nat
    BY <2>1 DEF TypeInv, TableInv, MemberCotisation
  <2>3. rows[x].paid <= collected[rows[x].period][rows[x].servant]
    BY <1>3 DEF MoneyInv, NothingInvented
  <2>4. collected'[rows[x].period][rows[x].servant]
            >= collected[rows[x].period][rows[x].servant]
    BY <2>1
  <2>. QED
    BY <2>2, <2>3, <2>4
<1>4. NothingInvented'
  BY <1>1, <1>3 DEF NothingInvented, Live
<1>5. ASSUME NEW v \in Workers, pc'[v] = "update" PROVE SeenInv(v)'
  <2>1. /\ pc[v] = "update" /\ req'[v] = req[v] /\ req[v].row \in Rows
        /\ req[v].period \in Periods /\ req[v].servant \in Servants
    BY <1>5 DEF TypeInv, RequestInv
  <2>2. SeenInv(v) /\ req[v].row # r
    BY <2>1 DEF MoneyInv, SeenInv
  <2>3. /\ req[v].seen.paid \in Nat
        /\ collected[req[v].period][req[v].servant] \in Nat
        /\ collected'[req[v].period][req[v].servant] \in Nat
    BY <2>1 DEF TypeInv, TableInv, RequestInv, Request, MemberCotisation
  <2>4. collected'[req[v].period][req[v].servant]
            >= collected[req[v].period][req[v].servant]
    BY <2>1
  <2>5. rows'[req[v].row] = rows[req[v].row]
    BY <1>1, <2>1, <2>2
  <2>6. Live(req[v].row) => req[v].seen.paid
                                <= collected'[req[v].period][req[v].servant]
    BY <2>2, <2>3, <2>4 DEF SeenInv
  <2>. QED
    BY <2>1, <2>2, <2>5, <2>6 DEF SeenInv, Live
<1>. QED
  BY <1>2, <1>4, <1>5 DEF MoneyInv

\* What a hand-over adds.
LEMMA HandOverAdds ==
  ASSUME TypeInv, NEW w \in Workers, HandOver(w),
         req[w].period \in Periods, req[w].servant \in Servants
  PROVE  /\ collected' \in [Periods -> [Servants -> Nat]]
         /\ collected'[req[w].period][req[w].servant]
                = collected[req[w].period][req[w].servant] + req[w].amount
         /\ \A c \in Periods, s \in Servants :
                collected'[c][s] >= collected[c][s]
<1>1. req[w].amount \in Nat
  BY DEF TypeInv, RequestInv, Request
<1>2. collected \in [Periods -> [Servants -> Nat]]
  BY DEF TypeInv, TableInv
<1>3. collected'[req[w].period][req[w].servant]
          = collected[req[w].period][req[w].servant] + req[w].amount
  BY <1>2 DEF HandOver
<1>4. ASSUME NEW c \in Periods, NEW s \in Servants
      PROVE  collected'[c][s] >= collected[c][s]
  <2>1. collected[c][s] \in Nat
    BY <1>2
  <2>2. \/ collected'[c][s] = collected[c][s]
        \/ collected'[c][s] = collected[c][s] + req[w].amount
    BY <1>2 DEF HandOver
  <2>. QED
    BY <1>1, <2>1, <2>2
<1>. QED
  BY <1>3, <1>4, HandOverType

LEMMA MoneyCommit ==
  ASSUME TypeInv, MoneyInv, NEW w \in Workers, CommitPayment(w)
  PROVE  MoneyInv'
<1>. DEFINE q == req[w]
            total == q.seen.paid + q.amount
            status == StatusFor(total, q.copy.amount)
            old == rows[q.row]
<1>1. /\ pc[w] = "update" /\ q.row \in Rows /\ q.period \in Periods
      /\ q.servant \in Servants /\ q.amount \in Nat /\ q.seen.paid \in Nat
      /\ SeenInv(w)
  BY DEF CommitPayment, TypeInv, RequestInv, Request, MemberCotisation, MoneyInv
<1>2. /\ old.period = q.period /\ old.servant = q.servant
      /\ old \in MemberCotisation /\ status \in Paid
  BY <1>1, StatusType DEF SeenInv, TypeInv, TableInv
<1>3. CASE UNCHANGED <<rows, collected>>
  BY <1>3, MoneyReturn DEF CommitPayment
<1>4. CASE ~UNCHANGED <<rows, collected>>
  <2>. DEFINE new == [old EXCEPT
                  !.paid = IF q.amount = 0 THEN @ ELSE total,
                  !.status = IF status = q.seen.status THEN @ ELSE status]
  <2>1. /\ Live(q.row) /\ HandOver(w)
        /\ rows' = [rows EXCEPT ![q.row] = new]
    BY <1>1, <1>4 DEF CommitPayment, TypeInv, TableInv
  <2>2. /\ collected' \in [Periods -> [Servants -> Nat]]
        /\ collected'[q.period][q.servant]
               = collected[q.period][q.servant] + q.amount
        /\ \A c \in Periods, s \in Servants :
               collected'[c][s] >= collected[c][s]
    BY <1>1, <2>1, HandOverAdds
  <2>3. /\ collected[q.period][q.servant] \in Nat /\ old.paid \in Nat
        /\ q.seen.paid <= collected[q.period][q.servant]
        /\ old.paid <= collected[q.period][q.servant]
    BY <1>1, <1>2, <2>1
       DEF SeenInv, TypeInv, TableInv, MemberCotisation, MoneyInv, NothingInvented
  <2>4. /\ new.period = q.period /\ new.servant = q.servant
        /\ new.paid = (IF q.amount = 0 THEN old.paid ELSE total)
        /\ new.status = (IF status = q.seen.status THEN old.status ELSE status)
    BY <1>2 DEF MemberCotisation
  <2>5. new.paid <= collected'[q.period][q.servant]
    BY <1>1, <2>2, <2>3, <2>4
  <2>6. new.status \in Paid
    BY <1>1, <1>2, <2>1, <2>4 DEF SeenInv, Live
  <2>7. rows'[q.row] = new /\ \A x \in Rows \ {q.row} : rows'[x] = rows[x]
    BY <1>1, <2>1 DEF TypeInv, TableInv
  <2>. HIDE DEF new
  <2>8. WaitingIsUnpaid'
    BY <2>6, <2>7 DEF MoneyInv, WaitingIsUnpaid, Paid
  <2>9. ASSUME NEW x \in Rows \ {q.row}, Live(x)
        PROVE  rows[x].paid <= collected'[rows[x].period][rows[x].servant]
    <3>1. rows[x].period \in Periods /\ rows[x].servant \in Servants
      BY <2>9 DEF Live, Paid, TypeInv, TableInv
    <3>2. /\ rows[x].paid \in Nat
          /\ collected[rows[x].period][rows[x].servant] \in Nat
          /\ collected'[rows[x].period][rows[x].servant] \in Nat
      BY <2>2, <3>1 DEF TypeInv, TableInv, MemberCotisation
    <3>3. rows[x].paid <= collected[rows[x].period][rows[x].servant]
      BY <2>9 DEF MoneyInv, NothingInvented
    <3>4. collected'[rows[x].period][rows[x].servant]
              >= collected[rows[x].period][rows[x].servant]
      BY <2>2, <3>1
    <3>. QED
      BY <3>2, <3>3, <3>4
  <2>10. NothingInvented'
    BY <2>4, <2>5, <2>7, <2>9 DEF NothingInvented, Live
  <2>11. ASSUME NEW v \in Workers, pc'[v] = "update" PROVE SeenInv(v)'
    <3>1. /\ pc[v] = "update" /\ req'[v] = req[v] /\ req[v].row \in Rows
          /\ req[v].period \in Periods /\ req[v].servant \in Servants
      BY <2>11 DEF CommitPayment, Return, Goto, TypeInv, RequestInv
    <3>2. SeenInv(v)
      BY <3>1 DEF MoneyInv
    <3>3. /\ req[v].seen.paid \in Nat
          /\ collected[req[v].period][req[v].servant] \in Nat
          /\ collected'[req[v].period][req[v].servant] \in Nat
      BY <2>2, <3>1 DEF TypeInv, TableInv, RequestInv, Request, MemberCotisation
    <3>4. collected'[req[v].period][req[v].servant]
              >= collected[req[v].period][req[v].servant]
      BY <2>2, <3>1
    <3>5. Live(req[v].row) => req[v].seen.paid
                                  <= collected'[req[v].period][req[v].servant]
      BY <3>2, <3>3, <3>4 DEF SeenInv
    <3>6. CASE req[v].row # q.row
      BY <2>7, <3>1, <3>2, <3>5, <3>6 DEF SeenInv, Live
    <3>7. CASE req[v].row = q.row
      BY <1>2, <2>1, <2>4, <2>6, <2>7, <3>1, <3>2, <3>5, <3>7
         DEF SeenInv, Live, Paid
    <3>. QED
      BY <3>6, <3>7
  <2>. QED
    BY <2>8, <2>10, <2>11 DEF MoneyInv
<1>. QED
  BY <1>3, <1>4

LEMMA MoneyInserted ==
  ASSUME TypeInv, MoneyInv, NEW w \in Workers,
         InsertPayment(w) \/ InsertObligation(w)
  PROVE  MoneyInv'
<1>. DEFINE q == req[w]
<1>1. q.period \in Periods /\ q.servant \in Servants /\ q.amount \in Nat
  BY DEF InsertPayment, InsertObligation, TypeInv, RequestInv, Request
<1>2. \A c \in Periods, s \in Servants : collected[c][s] \in Nat
  BY DEF TypeInv, TableInv
<1>3. CASE InsertPayment(w)
  <2>1. CASE UNCHANGED <<rows, collected>>
    BY <1>3, <2>1, MoneyReturn DEF InsertPayment
  <2>2. CASE ~UNCHANGED <<rows, collected>>
    <3>. DEFINE m == [period |-> q.period, servant |-> q.servant,
                      paid |-> q.amount,
                      status |-> StatusFor(q.amount, q.copy.amount)]
    <3>1. PICK r \in Rows : /\ rows[r].status = "UNUSED"
                            /\ rows' = [rows EXCEPT ![r] = m] /\ HandOver(w)
      BY <1>3, <2>2 DEF InsertPayment
    <3>2. m \in MemberCotisation /\ m.status \in Paid
      BY <1>1, StatusType DEF MemberCotisation
    <3>3. m.paid <= collected'[m.period][m.servant]
      BY <1>1, <1>2, <3>1, HandOverAdds
    <3>4. \A v \in Workers : pc'[v] = "update" =>
              pc[v] = "update" /\ req'[v] = req[v]
      BY <1>3 DEF InsertPayment, Return, Goto, TypeInv, RequestInv
    <3>5. m.status # "UNUSED" /\ m.status # "EN_ATTENTE"
      BY <3>2 DEF Paid
    <3>. HIDE DEF m
    <3>. QED
      BY <1>1, <3>1, <3>2, <3>3, <3>4, <3>5, HandOverAdds, MoneyInsert
  <2>. QED
    BY <2>1, <2>2
<1>4. CASE InsertObligation(w)
  <2>1. CASE Return(w) /\ UNCHANGED rows
    BY <1>4, <2>1, MoneyReturn DEF InsertObligation
  <2>2. CASE ~(Return(w) /\ UNCHANGED rows)
    <3>. DEFINE m == [period |-> q.period, servant |-> q.servant, paid |-> 0,
                      status |-> "EN_ATTENTE"]
    <3>1. PICK r \in Rows : /\ rows[r].status = "UNUSED"
                            /\ rows' = [rows EXCEPT ![r] = m]
      BY <1>4, <2>2 DEF InsertObligation
    <3>2. /\ m \in MemberCotisation /\ m.status = "EN_ATTENTE" /\ m.paid = 0
          /\ m.period \in Periods /\ m.servant \in Servants
      BY <1>1 DEF MemberCotisation
    <3>3. \A v \in Workers : pc'[v] = "update" =>
              pc[v] = "update" /\ req'[v] = req[v]
      <4>1. /\ \A v \in Workers \ {w} : pc'[v] = pc[v] /\ req'[v] = req[v]
            /\ pc'[w] # "update"
        BY <1>4 DEF InsertObligation, Return, Goto, TypeInv, RequestInv
      <4>. QED
        BY <4>1
    <3>4. collected' = collected
      BY <1>4 DEF InsertObligation
    <3>5. /\ collected' \in [Periods -> [Servants -> Nat]]
          /\ \A c \in Periods, s \in Servants :
                 collected'[c][s] >= collected[c][s]
          /\ m.paid <= collected'[m.period][m.servant]
      <4>. HIDE DEF m
      <4>. QED
        BY <1>2, <3>2, <3>4 DEF TypeInv, TableInv
    <3>. HIDE DEF m
    <3>. QED
      BY <3>1, <3>2, <3>3, <3>5, MoneyInsert
  <2>. QED
    BY <2>1, <2>2
<1>. QED
  BY <1>3, <1>4

LEMMA MoneyLookup ==
  ASSUME TypeInv, MoneyInv, NEW w \in Workers, LookupPayment(w)
  PROVE  MoneyInv'
<1>1. ASSUME NEW r \in RowsOf(req[w].period, req[w].servant),
             req' = [req EXCEPT ![w].row = r, ![w].seen = rows[r]],
             Goto(w, "update")
      PROVE  MoneyInv'
  <2>1. r \in Rows /\ Live(r) /\ UNCHANGED <<rows, collected>>
    BY <1>1 DEF RowsOf, LookupPayment, tables
  <2>2. /\ req'[w].row = r /\ req'[w].seen = rows[r]
        /\ req'[w].period = rows[r].period /\ req'[w].servant = rows[r].servant
    BY <1>1 DEF RowsOf, TypeInv, RequestInv, Request
  <2>3. SeenInv(w)'
    BY <2>1, <2>2 DEF SeenInv, Live, Paid, MoneyInv, NothingInvented
  <2>4. ASSUME NEW v \in Workers \ {w}, pc'[v] = "update" PROVE SeenInv(v)'
    BY <1>1, <2>1, <2>4 DEF Goto, TypeInv, RequestInv, MoneyInv, SeenInv, Live
  <2>. QED
    BY <2>1, <2>3, <2>4
       DEF MoneyInv, NothingInvented, WaitingIsUnpaid, Live
<1>2. CASE Goto(w, "insert") /\ UNCHANGED req
  BY <1>2, MoneyFrame DEF LookupPayment, Goto, tables, TypeInv, RequestInv
<1>. QED
  BY <1>1, <1>2 DEF LookupPayment

LEMMA MoneyStep == TypeInv /\ MoneyInv /\ [Next]_vars => MoneyInv'
<1>. SUFFICES ASSUME TypeInv, MoneyInv, [Next]_vars PROVE MoneyInv'
  OBVIOUS
<1>1. ASSUME NEW w \in Workers, Arrive(w) PROVE MoneyInv'
  <2>1. ASSUME NEW c \in Periods, NEW d, CreatePeriod(w, c, d) PROVE MoneyInv'
    BY <2>1, MoneyFrame DEF CreatePeriod, Goto, TypeInv, RequestInv
  <2>2. ASSUME NEW c, NEW amount, NEW end, NEW state,
               UpdatePeriod(w, c, amount, end, state)
        PROVE  MoneyInv'
    BY <2>2, MoneyFrame DEF UpdatePeriod
  <2>3. ASSUME NEW c, NEW s, NEW a, BeginPay(w, c, s, a) PROVE MoneyInv'
    BY <2>3, MoneyFrame DEF BeginPay, Goto, TypeInv, RequestInv, tables
  <2>4. ASSUME NEW s, BeginControl(w, s) PROVE MoneyInv'
    BY <2>4, MoneyFrame DEF BeginControl, Goto, TypeInv, RequestInv, tables
  <2>. QED
    BY <1>1, <2>1, <2>2, <2>3, <2>4, MoneyDelete DEF Arrive
<1>2. ASSUME NEW w \in Workers, Serve(w) PROVE MoneyInv'
  <2>1. CASE ListServants(w)
    BY <2>1, MoneyFrame DEF ListServants, Goto, TypeInv, RequestInv
  <2>2. CASE LookupObligation(w)
    <3>1. UNCHANGED <<rows, collected>> /\ pc[w] # "update"
      BY <2>2 DEF LookupObligation, tables
    <3>2. CASE Return(w)
      BY <3>1, <3>2, MoneyReturn
    <3>3. ASSUME NEW s, req' = [req EXCEPT ![w].todo = @ \ {s}], UNCHANGED pc
          PROVE  MoneyInv'
      BY <3>1, <3>3, MoneyFrame DEF TypeInv, RequestInv
    <3>4. ASSUME NEW s, req' = [req EXCEPT ![w].servant = s],
                 Goto(w, "obligation")
          PROVE  MoneyInv'
      BY <3>1, <3>4, MoneyFrame DEF Goto, TypeInv, RequestInv
    <3>. QED
      BY <2>2, <3>2, <3>3, <3>4 DEF LookupObligation
  <2>3. CASE CheckMode(w)
    <3>1. UNCHANGED <<rows, collected>>
      BY <2>3 DEF CheckMode, tables
    <3>2. CASE Goto(w, "existing") /\ UNCHANGED req
      BY <3>1, <3>2, MoneyFrame DEF Goto, TypeInv, RequestInv
    <3>. QED
      BY <2>3, <3>1, <3>2, MoneyReturn DEF CheckMode
  <2>4. CASE Review(w)
    <3>1. UNCHANGED <<rows, collected>> /\ pc[w] # "update"
      BY <2>4 DEF Review, tables
    <3>2. CASE Goto(w, "report") /\ UNCHANGED req
      BY <3>1, <3>2, MoneyFrame DEF Goto, TypeInv, RequestInv
    <3>3. CASE /\ UNCHANGED pc
               /\ \A v \in Workers \ {w} : req'[v] = req[v]
      BY <3>1, <3>3, MoneyFrame
    <3>4. ASSUME NEW c, req' = [req EXCEPT ![w].left = @ \ {c}, ![w].gap = 0]
          PROVE  \A v \in Workers \ {w} : req'[v] = req[v]
      BY <3>4 DEF TypeInv, RequestInv
    <3>5. ASSUME NEW c, req' = [req EXCEPT ![w].left = @ \ {c},
                           ![w].gap = @ + 1,
                           ![w].longest = Larger(@, req[w].gap + 1)]
          PROVE  \A v \in Workers \ {w} : req'[v] = req[v]
      BY <3>5 DEF TypeInv, RequestInv
    <3>. QED
      BY <2>4, <3>2, <3>3, <3>4, <3>5 DEF Review
  <2>5. CASE Report(w)
    BY <2>5, MoneyReturn DEF Report, tables
  <2>. QED
    BY <1>2, <2>1, <2>2, <2>3, <2>4, <2>5, MoneyInserted, MoneyLookup,
       MoneyCommit DEF Serve
<1>3. CASE Environment
  <2>1. ASSUME NEW w \in Workers, Abort(w) PROVE MoneyInv'
    BY <2>1, MoneyReturn DEF Abort, tables
  <2>. QED
    BY <1>3, <2>1, MoneyFrame DEF Environment, NextDay, Join, Nominate, tables
<1>4. CASE UNCHANGED vars
  BY <1>4, MoneyFrame DEF vars, tables
<1>. QED
  BY <1>1, <1>2, <1>3, <1>4 DEF Next

LEMMA MoneyInvariant == Spec => []MoneyInv
<1>1. Init => MoneyInv
  BY DEF Init, MoneyInv, NothingInvented, WaitingIsUnpaid, UnusedRow, Live, Paid
<1>. QED
  BY <1>1, MoneyStep, TypeInvariant, PTL DEF Spec

\* However payments, creations and deletions overlap, no row holds more than
\* the servant has handed over for the period.
THEOREM NoMoneyInvented == Spec => []NothingInvented
BY MoneyInvariant, PTL DEF MoneyInv

\* However requests overlap, an obligation that still waits received nothing.
THEOREM WaitingUnpaid == Spec => []WaitingIsUnpaid
BY MoneyInvariant, PTL DEF MoneyInv

(***************************************************************************)
(* The obligations.                                                        *)
(***************************************************************************)

\* Request w is creating the obligations of period c and has not passed s.
Creating(w, c, s) ==
    /\ req[w].period = c
    /\ \/ pc[w] = "listing"
       \/ pc[w] \in {"lookup", "obligation"} /\ s \in req[w].todo

\* Who owes a period that exists has his row, or a request that gets to him.
\* A period is due by servants who were there: who joins later owes nothing.
ObligedInv ==
    /\ \A c \in Periods : due[c] # {} => Exists(c)
    /\ \A c \in Periods : due[c] \subseteq members
    /\ aborts > 0 \/ \A c \in Periods : \A s \in due[c] :
           RowsOf(c, s) # {} \/ \E w \in Workers : Creating(w, c, s)

\* A step by which nobody new owes anything, and nobody is passed over.
LEMMA ObligedKept ==
  ASSUME ObligedInv, aborts' = aborts, members \subseteq members',
         \A c \in Periods : due'[c] \subseteq due[c],
         \A c \in Periods : Exists(c) /\ due'[c] # {} => Exists(c)',
         \A c \in Periods : \A s \in due'[c] :
             /\ RowsOf(c, s) \subseteq RowsOf(c, s)'
             /\ \A w \in Workers : Creating(w, c, s) =>
                    RowsOf(c, s)' # {} \/ Creating(w, c, s)'
  PROVE  ObligedInv'
<1>1. \A c \in Periods : due'[c] # {} => Exists(c)'
  BY DEF ObligedInv
<1>2. \A c \in Periods : due'[c] \subseteq members'
  BY DEF ObligedInv
<1>3. ASSUME ~(aborts > 0), NEW c \in Periods, NEW s \in due'[c]
      PROVE  RowsOf(c, s)' # {} \/ \E w \in Workers : Creating(w, c, s)'
  <2>1. RowsOf(c, s) # {} \/ \E w \in Workers : Creating(w, c, s)
    BY <1>3 DEF ObligedInv
  <2>. QED
    BY <2>1
<1>. QED
  BY <1>1, <1>2, <1>3 DEF ObligedInv

\* A request w that is not creating, or stops on a period nobody owes.
LEMMA ObligedFrame ==
  ASSUME ObligedInv, NEW w, UNCHANGED <<periods, due, aborts>>,
         members \subseteq members',
         \A c \in Periods : \A s \in due[c] :
             /\ RowsOf(c, s) \subseteq RowsOf(c, s)'
             /\ ~Creating(w, c, s),
         \A v \in Workers \ {w} : pc'[v] = pc[v] /\ req'[v] = req[v]
  PROVE  ObligedInv'
<1>1. \A c \in Periods, s \in Servants : \A v \in Workers \ {w} :
          Creating(v, c, s) => Creating(v, c, s)'
  BY DEF Creating
<1>2. \A c \in Periods : Exists(c) => Exists(c)'
  BY DEF Exists
<1>. QED
  BY <1>2, ObligedKept DEF Creating

LEMMA RowsInserted ==
  ASSUME TypeInv, NEW r \in Rows, NEW m, rows[r].status = "UNUSED",
         rows' = [rows EXCEPT ![r] = m]
  PROVE  \A c, s : RowsOf(c, s) \subseteq RowsOf(c, s)'
<1>1. \A x \in Rows : Live(x) => x # r /\ rows'[x] = rows[x]
  BY DEF Live, Paid, TypeInv, TableInv
<1>. QED
  BY <1>1 DEF RowsOf, Live

LEMMA ObligedCreate ==
  ASSUME TypeInv, ObligedInv, NEW w \in Workers, NEW c \in Periods,
         NEW d \in Drafts, CreatePeriod(w, c, d)
  PROVE  ObligedInv'
<1>0. /\ due \in [Periods -> SUBSET Servants] /\ periods \in [Periods -> Period]
      /\ req \in [Workers -> Request] /\ pc \in [Workers -> Places]
  BY DEF TypeInv, TableInv, RequestInv
<1>1. /\ periods'[c].state = "active"
      /\ \A e \in Periods \ {c} : periods'[e] = periods[e] /\ due'[e] = due[e]
      /\ due'[c] = IF d.kind \in Obligatory THEN members \ responsables ELSE {}
  BY <1>0 DEF CreatePeriod
<1>2. /\ pc[w] = "idle"
      /\ \A v \in Workers \ {w} : pc'[v] = pc[v] /\ req'[v] = req[v]
      /\ d.kind \in Obligatory => pc'[w] = "listing" /\ req'[w].period = c
      /\ rows' = rows /\ members' = members /\ aborts' = aborts
  BY <1>0 DEF CreatePeriod, Goto, world, Request
<1>3. \A e \in Periods : due'[e] # {} => Exists(e)'
  BY <1>1 DEF ObligedInv, Exists
<1>4. \A e \in Periods : due'[e] \subseteq members'
  BY <1>1, <1>2 DEF ObligedInv
<1>5. ASSUME ~(aborts > 0), NEW e \in Periods, NEW s \in due'[e]
      PROVE  RowsOf(e, s)' # {} \/ \E v \in Workers : Creating(v, e, s)'
  <2>1. CASE e = c
    BY <1>1, <1>2, <1>5, <2>1 DEF Creating
  <2>2. CASE e # c
    <3>1. RowsOf(e, s) # {} \/ \E v \in Workers : Creating(v, e, s)
      BY <1>1, <1>5, <2>2 DEF ObligedInv
    <3>2. RowsOf(e, s)' = RowsOf(e, s)
      BY <1>2 DEF RowsOf, Live
    <3>3. \A v \in Workers : Creating(v, e, s) => Creating(v, e, s)'
      BY <1>2 DEF Creating
    <3>. QED
      BY <3>1, <3>2, <3>3
  <2>. QED
    BY <2>1, <2>2
<1>. QED
  BY <1>2, <1>3, <1>4, <1>5 DEF ObligedInv

LEMMA ObligedDelete ==
  ASSUME TypeInv, ObligedInv, NEW w \in Workers, NEW c \in Periods,
         DeletePeriod(w, c)
  PROVE  ObligedInv'
<1>0. /\ due \in [Periods -> SUBSET Servants] /\ periods \in [Periods -> Period]
      /\ rows \in [Rows -> MemberCotisation]
  BY DEF TypeInv, TableInv
<1>1. /\ due'[c] = {}
      /\ \A e \in Periods \ {c} : periods'[e] = periods[e] /\ due'[e] = due[e]
  BY <1>0 DEF DeletePeriod
<1>2. \A r \in Rows : rows[r].period # c => rows'[r] = rows[r]
  BY <1>0 DEF DeletePeriod
<1>3. \A e \in Periods \ {c}, s \in Servants : RowsOf(e, s) \subseteq RowsOf(e, s)'
  BY <1>2 DEF RowsOf, Live
<1>4. UNCHANGED <<pc, req, aborts, members>>
  BY DEF DeletePeriod, world
<1>5. \A e \in Periods : \A s \in due'[e] :
          /\ RowsOf(e, s) \subseteq RowsOf(e, s)'
          /\ \A v \in Workers : Creating(v, e, s) => Creating(v, e, s)'
  BY <1>0, <1>1, <1>3, <1>4 DEF Creating
<1>6. \A e \in Periods : Exists(e) /\ due'[e] # {} => Exists(e)'
  BY <1>1 DEF Exists
<1>. QED
  BY <1>0, <1>1, <1>4, <1>5, <1>6, ObligedKept

LEMMA ObligedArrive ==
  ASSUME TypeInv, ObligedInv, NEW w \in Workers, Arrive(w)
  PROVE  ObligedInv'
<1>1. ASSUME NEW c \in Periods, NEW amount, NEW end, NEW state \in {"active", "closed"},
             UpdatePeriod(w, c, amount, end, state)
      PROVE  ObligedInv'
  <2>1. UNCHANGED <<rows, due, pc, req, aborts, members>>
    BY <1>1 DEF UpdatePeriod, world
  <2>2. \A e \in Periods : Exists(e) => Exists(e)'
    BY <1>1 DEF UpdatePeriod, Exists, TypeInv, TableInv, Period
  <2>. QED
    BY <2>1, <2>2, ObligedKept DEF RowsOf, Live, Creating
<1>2. ASSUME NEW c, NEW s, NEW a, BeginPay(w, c, s, a) PROVE ObligedInv'
  <2>1. UNCHANGED <<rows, due, periods, aborts, members>> /\ pc[w] = "idle"
    BY <1>2 DEF BeginPay, tables, world
  <2>2. \A v \in Workers \ {w} : pc'[v] = pc[v] /\ req'[v] = req[v]
    BY <1>2 DEF BeginPay, Goto, TypeInv, RequestInv
  <2>. QED
    BY <2>1, <2>2, ObligedFrame DEF RowsOf, Live, Creating
<1>3. ASSUME NEW s, BeginControl(w, s) PROVE ObligedInv'
  <2>1. UNCHANGED <<rows, due, periods, aborts, members>> /\ pc[w] = "idle"
    BY <1>3 DEF BeginControl, tables, world
  <2>2. \A v \in Workers \ {w} : pc'[v] = pc[v] /\ req'[v] = req[v]
    BY <1>3 DEF BeginControl, Goto, TypeInv, RequestInv
  <2>. QED
    BY <2>1, <2>2, ObligedFrame DEF RowsOf, Live, Creating
<1>. QED
  BY <1>1, <1>2, <1>3, ObligedCreate, ObligedDelete DEF Arrive

\* The loop over the servants a period is due by.
LEMMA ObligedLoop ==
  ASSUME TypeInv, ObligedInv, NEW w \in Workers,
         ListServants(w) \/ LookupObligation(w) \/ InsertObligation(w)
  PROVE  ObligedInv'
<1>0. /\ due \in [Periods -> SUBSET Servants] /\ req[w] \in Request
      /\ req \in [Workers -> Request] /\ pc \in [Workers -> Places]
      /\ req[w].period \in Periods
  BY DEF TypeInv, TableInv, RequestInv, ListServants, LookupObligation, InsertObligation
<1>1. CASE ListServants(w)
  <2>1. UNCHANGED <<rows, periods, aborts, members>> /\ pc[w] = "listing"
    BY <1>1 DEF ListServants, world
  <2>2. /\ due'[req[w].period] = due[req[w].period] \ responsables
        /\ \A c \in Periods \ {req[w].period} : due'[c] = due[c]
    BY <1>0, <1>1 DEF ListServants
  <2>3. /\ pc'[w] = "lookup" /\ req'[w].period = req[w].period
        /\ req'[w].todo = members \ responsables
        /\ \A v \in Workers \ {w} : pc'[v] = pc[v] /\ req'[v] = req[v]
    BY <1>0, <1>1 DEF ListServants, Goto, Request
  <2>4. ASSUME NEW c \in Periods, NEW s \in due'[c], NEW v \in Workers,
               Creating(v, c, s)
        PROVE  Creating(v, c, s)'
    <3>1. s \in members
      BY <2>2 DEF ObligedInv
    <3>. QED
      BY <2>2, <2>3, <2>4, <3>1 DEF Creating
  <2>5. \A c \in Periods : due'[c] \subseteq due[c] /\ (Exists(c) => Exists(c)')
    BY <2>1, <2>2 DEF Exists
  <2>6. \A c, s : RowsOf(c, s)' = RowsOf(c, s)
    BY <2>1 DEF RowsOf, Live
  <2>. QED
    BY <2>1, <2>4, <2>5, <2>6, ObligedKept
<1>2. CASE LookupObligation(w)
  <2>1. UNCHANGED <<rows, periods, due, aborts, members>> /\ pc[w] = "lookup"
    BY <1>2 DEF LookupObligation, tables, world
  <2>2. \A c, s : RowsOf(c, s)' = RowsOf(c, s) /\ (Exists(c) => Exists(c)')
    BY <2>1 DEF RowsOf, Live, Exists
  <2>3. \A v \in Workers \ {w} : pc'[v] = pc[v] /\ req'[v] = req[v]
    BY <1>0, <1>2 DEF LookupObligation, Return, Goto
  <2>4. ASSUME NEW c, NEW s, Creating(w, c, s)
        PROVE  RowsOf(c, s) # {} \/ Creating(w, c, s)'
    BY <1>0, <1>2, <2>4 DEF LookupObligation, Goto, Creating, Request
  <2>5. \A c, s : \A v \in Workers \ {w} : Creating(v, c, s) => Creating(v, c, s)'
    BY <2>3 DEF Creating
  <2>. QED
    BY <2>1, <2>2, <2>4, <2>5, ObligedKept
<1>3. CASE InsertObligation(w)
  <2>1. UNCHANGED <<periods, due, aborts, members>> /\ pc[w] = "obligation"
    BY <1>3 DEF InsertObligation, world
  <2>2. \A v \in Workers \ {w} : pc'[v] = pc[v] /\ req'[v] = req[v]
    BY <1>0, <1>3 DEF InsertObligation, Return, Goto
  <2>3. CASE ~Exists(req[w].period)
    <3>1. UNCHANGED rows /\ due[req[w].period] = {}
      BY <1>0, <1>3, <2>3 DEF InsertObligation, ObligedInv
    <3>. QED
      BY <2>1, <2>2, <3>1, ObligedFrame DEF Creating, RowsOf, Live
  <2>4. CASE Exists(req[w].period)
    <3>. DEFINE m == [period |-> req[w].period, servant |-> req[w].servant,
                      paid |-> 0, status |-> "EN_ATTENTE"]
    <3>1. PICK r \in Rows : rows[r].status = "UNUSED" /\ rows' = [rows EXCEPT ![r] = m]
      BY <1>3, <2>4 DEF InsertObligation
    <3>2. \A c, s : RowsOf(c, s) \subseteq RowsOf(c, s)'
      BY <3>1, RowsInserted
    <3>3. \A c, s : c = req[w].period /\ s = req[w].servant => r \in RowsOf(c, s)'
      BY <3>1 DEF RowsOf, Live, TypeInv, TableInv
    <3>4. /\ pc'[w] = "lookup" /\ req'[w].period = req[w].period
          /\ req'[w].todo = req[w].todo \ {req[w].servant}
      BY <1>0, <1>3, <2>4 DEF InsertObligation, Goto, Request
    <3>5. \A c, s : \A v \in Workers : Creating(v, c, s) =>
              RowsOf(c, s)' # {} \/ Creating(v, c, s)'
      BY <2>1, <2>2, <3>3, <3>4 DEF Creating
    <3>6. \A c : Exists(c) => Exists(c)'
      BY <2>1 DEF Exists
    <3>. QED
      BY <2>1, <3>2, <3>5, <3>6, ObligedKept
  <2>. QED
    BY <2>3, <2>4
<1>. QED
  BY <1>1, <1>2, <1>3

LEMMA ObligedPayment ==
  ASSUME TypeInv, ObligedInv, NEW w \in Workers,
         CommitPayment(w) \/ InsertPayment(w)
  PROVE  ObligedInv'
<1>1. UNCHANGED <<periods, due, aborts, members>> /\ pc[w] \in {"update", "insert"}
  BY DEF CommitPayment, InsertPayment, world
<1>2. \A v \in Workers \ {w} : pc'[v] = pc[v] /\ req'[v] = req[v]
  BY DEF CommitPayment, InsertPayment, Return, Goto, TypeInv, RequestInv
<1>3. \A c, s : RowsOf(c, s) \subseteq RowsOf(c, s)'
  <2>1. CASE UNCHANGED rows
    BY <2>1 DEF RowsOf, Live
  <2>2. CASE InsertPayment(w) /\ ~UNCHANGED rows
    BY <2>2, RowsInserted DEF InsertPayment
  <2>3. CASE CommitPayment(w) /\ ~UNCHANGED rows
    <3>. DEFINE q == req[w]
                status == StatusFor(q.seen.paid + q.amount, q.copy.amount)
    <3>1. q.row \in Rows /\ rows \in [Rows -> MemberCotisation] /\ Live(q.row)
      BY <2>3 DEF CommitPayment, TypeInv, RequestInv, TableInv
    <3>2. status \in Paid
      BY StatusType
    <3>3. /\ \A r \in Rows \ {q.row} : rows'[r] = rows[r]
          /\ rows'[q.row].period = rows[q.row].period
          /\ rows'[q.row].servant = rows[q.row].servant
          /\ rows'[q.row].status \in {rows[q.row].status, status}
      BY <2>3, <3>1 DEF CommitPayment, MemberCotisation
    <3>. HIDE DEF status
    <3>. QED
      BY <3>1, <3>2, <3>3 DEF RowsOf, Live
  <2>. QED
    BY <2>1, <2>2, <2>3
<1>. QED
  BY <1>1, <1>2, <1>3, ObligedFrame DEF Creating

LEMMA ObligedServe ==
  ASSUME TypeInv, ObligedInv, NEW w \in Workers, Serve(w)
  PROVE  ObligedInv'
<1>1. CASE CheckMode(w) \/ LookupPayment(w) \/ Review(w) \/ Report(w)
  <2>1. /\ UNCHANGED <<rows, due, periods, aborts, members>>
        /\ pc[w] \notin {"listing", "lookup", "obligation"}
    BY <1>1 DEF CheckMode, LookupPayment, Review, Report, tables, world
  <2>2. \A v \in Workers \ {w} : pc'[v] = pc[v] /\ req'[v] = req[v]
    <3>1. pc \in [Workers -> Places] /\ req \in [Workers -> Request]
      BY DEF TypeInv, RequestInv
    <3>2. CASE CheckMode(w) \/ Report(w)
      BY <3>1, <3>2 DEF CheckMode, Report, Return, Goto
    <3>3. CASE LookupPayment(w)
      BY <3>1, <3>3 DEF LookupPayment, Goto
    <3>4. CASE Review(w)
      BY <3>1, <3>4 DEF Review, Goto
    <3>. QED
      BY <1>1, <3>2, <3>3, <3>4
  <2>. QED
    BY <2>1, <2>2, ObligedFrame DEF RowsOf, Live, Creating
<1>. QED
  BY <1>1, ObligedLoop, ObligedPayment DEF Serve

LEMMA ObligedStep == TypeInv /\ ObligedInv /\ [Next]_vars => ObligedInv'
<1>. SUFFICES ASSUME TypeInv, ObligedInv, [Next]_vars PROVE ObligedInv'
  OBVIOUS
<1>1. ASSUME NEW w \in Workers, Abort(w) PROVE ObligedInv'
  <2>1. aborts' > 0 /\ UNCHANGED <<periods, due, members>>
    BY <1>1 DEF Abort, TypeInv, TableInv, world, tables
  <2>. QED
    BY <2>1 DEF ObligedInv, Exists
<1>2. CASE NextDay \/ \E s \in Servants : Join(s) \/ Nominate(s)
  <2>1. /\ UNCHANGED <<periods, rows, due, pc, req, aborts>>
        /\ members \subseteq members'
    BY <1>2 DEF NextDay, Join, Nominate, tables
  <2>. QED
    BY <2>1, ObligedKept DEF RowsOf, Live, Exists, Creating
<1>3. CASE UNCHANGED vars
  BY <1>3, ObligedKept DEF vars, world, tables, RowsOf, Live, Exists, Creating
<1>. QED
  BY <1>1, <1>2, <1>3, ObligedArrive, ObligedServe DEF Next, Environment

\* If no request dies, every servant a period is due by has his row once nobody
\* is creating it, whatever the other requests do meanwhile.
THEOREM EveryObligation == Spec => []ObligationsCreated
<1>1. Init => ObligedInv
  BY DEF Init, ObligedInv
<1>2. TypeInv /\ ObligedInv => ObligationsCreated
  BY DEF TypeInv, TableInv, ObligedInv, ObligationsCreated, Creating
<1>. QED
  BY <1>1, <1>2, ObligedStep, TypeInvariant, PTL DEF Spec

(***************************************************************************)
(* The books, until requests overlap.                                      *)
(***************************************************************************)

\* What a request that is alone has read is still so when it writes.
WorkInv(w) ==
    LET q == req[w]  found == RowsOf(q.period, q.servant) IN
    /\ pc[w] \in {"obligation", "insert"} => found = {}
    /\ pc[w] = "update" => q.row \in found /\ q.seen = rows[q.row]
    /\ pc[w] \in {"mode", "existing", "insert", "update"} =>
           q.copy = periods[q.period]
    /\ pc[w] \in {"existing", "insert", "update"}
           /\ q.copy.kind \in DOMAIN FIXED_AMOUNTS =>
           Overlapping(q.servant, q.copy) = {}

AloneInv ==
    /\ \A c \in Periods, s \in Servants : Booked(c, s)
    /\ \A v, w \in Workers : pc[v] # "idle" /\ pc[w] # "idle" => v = w
    /\ \A w \in Workers : WorkInv(w)

\* A step of the one request that is busy, which writes no money.
LEMMA AloneFrame ==
  ASSUME AloneInv, NEW w \in Workers, UNCHANGED <<rows, collected>>,
         \A v \in Workers \ {w} : pc'[v] = "idle", WorkInv(w)'
  PROVE  AloneInv'
<1>1. \A c \in Periods, s \in Servants : Booked(c, s)'
  BY DEF AloneInv, Booked, RowsOf, Live
<1>2. \A v \in Workers \ {w} : WorkInv(v)'
  BY DEF WorkInv
<1>. QED
  BY <1>1, <1>2 DEF AloneInv

\* The row of c and s has changed by as much as was handed over, and no other.
LEMMA AloneWrites ==
  ASSUME TypeInv, AloneInv, NEW w \in Workers, NEW r \in Rows,
         NEW c \in Periods, NEW s \in Servants,
         RowsOf(c, s) \subseteq {r},
         \A x \in Rows \ {r} : rows'[x] = rows[x],
         Live(r) => rows[r].period = c /\ rows[r].servant = s,
         rows'[r].status \in Paid \cup {"EN_ATTENTE"},
         rows'[r].period = c, rows'[r].servant = s,
         rows'[r].paid = collected'[c][s],
         \A d \in Periods, t \in Servants :
             d # c \/ t # s => collected'[d][t] = collected[d][t],
         \A v \in Workers \ {w} : pc'[v] = "idle", WorkInv(w)'
  PROVE  AloneInv'
<1>1. \A x \in Rows \ {r} : Live(x)' <=> Live(x)
  BY DEF Live
<1>2. Live(r)'
  BY DEF Live
<1>3. Booked(c, s)'
  <2>1. RowsOf(c, s)' = {r}
    BY <1>1, <1>2 DEF RowsOf
  <2>. QED
    BY <2>1 DEF Booked
<1>4. ASSUME NEW d \in Periods, NEW t \in Servants, d # c \/ t # s
      PROVE  Booked(d, t)'
  <2>1. RowsOf(d, t)' = RowsOf(d, t) /\ r \notin RowsOf(d, t)
    BY <1>1, <1>2, <1>4 DEF RowsOf
  <2>2. Booked(d, t)
    BY DEF AloneInv
  <2>3. collected'[d][t] = collected[d][t]
    BY <1>4
  <2>4. CASE RowsOf(d, t) = {} /\ collected[d][t] = 0
    BY <2>1, <2>3, <2>4 DEF Booked
  <2>5. ASSUME NEW x \in Rows, RowsOf(d, t) = {x}, rows[x].paid = collected[d][t]
        PROVE  Booked(d, t)'
    <3>1. x # r
      BY <2>1, <2>5
    <3>. QED
      BY <2>1, <2>3, <2>5, <3>1 DEF Booked
  <2>. QED
    BY <2>2, <2>4, <2>5 DEF Booked
<1>5. \A v \in Workers \ {w} : WorkInv(v)'
  BY DEF WorkInv
<1>. QED
  BY <1>3, <1>4, <1>5 DEF AloneInv

LEMMA AloneArrive ==
  ASSUME TypeInv, overlapped \/ AloneInv, NEW w \in Workers, Arrive(w)
  PROVE  overlapped' \/ AloneInv'
<1>. SUFFICES ASSUME ~overlapped' PROVE AloneInv'
  OBVIOUS
<1>0. /\ periods \in [Periods -> Period] /\ rows \in [Rows -> MemberCotisation]
      /\ collected \in [Periods -> [Servants -> Nat]]
      /\ pc \in [Workers -> Places] /\ req \in [Workers -> Request]
  BY DEF TypeInv, TableInv, RequestInv
<1>1. Called
  <2>1. \A c, d : CreatePeriod(w, c, d) => Called
    BY DEF CreatePeriod
  <2>2. \A c, a, e, st : UpdatePeriod(w, c, a, e, st) => Called
    BY DEF UpdatePeriod
  <2>3. \A c : DeletePeriod(w, c) => Called
    BY DEF DeletePeriod
  <2>4. \A c, s, a : BeginPay(w, c, s, a) => Called
    BY DEF BeginPay
  <2>5. \A s : BeginControl(w, s) => Called
    BY DEF BeginControl
  <2>. QED
    BY <2>1, <2>2, <2>3, <2>4, <2>5 DEF Arrive
<1>2. AloneInv /\ \A v \in Workers : pc[v] = "idle"
  BY <1>1 DEF Called
<1>3. ASSUME NEW c \in Periods, NEW d, CreatePeriod(w, c, d) PROVE AloneInv'
  <2>1. /\ UNCHANGED <<rows, collected>>
        /\ \A v \in Workers \ {w} : pc'[v] = "idle"
        /\ pc'[w] \in {"listing", "idle"}
    BY <1>0, <1>2, <1>3 DEF CreatePeriod, Goto
  <2>2. WorkInv(w)'
    BY <2>1 DEF WorkInv
  <2>. QED
    BY <1>2, <2>1, <2>2, AloneFrame
<1>4. ASSUME NEW c \in Periods, NEW a, NEW e, NEW st, UpdatePeriod(w, c, a, e, st)
      PROVE  AloneInv'
  <2>1. /\ UNCHANGED <<rows, collected>>
        /\ \A v \in Workers : pc'[v] = "idle"
    BY <1>2, <1>4 DEF UpdatePeriod
  <2>2. WorkInv(w)'
    BY <2>1 DEF WorkInv
  <2>. QED
    BY <1>2, <2>1, <2>2, AloneFrame
<1>5. ASSUME NEW c \in Periods, DeletePeriod(w, c) PROVE AloneInv'
  <2>1. \A v \in Workers : pc'[v] = "idle"
    BY <1>2, <1>5 DEF DeletePeriod
  <2>2. \A v \in Workers : WorkInv(v)'
    BY <2>1 DEF WorkInv
  <2>3. \A r \in Rows : IF Live(r) /\ rows[r].period = c
                        THEN ~Live(r)' ELSE rows'[r] = rows[r]
    BY <1>0, <1>5 DEF DeletePeriod, Live, Paid, MemberCotisation
  <2>4. /\ \A s \in Servants : collected'[c][s] = 0
        /\ \A d \in Periods \ {c} : collected'[d] = collected[d]
    BY <1>0, <1>5 DEF DeletePeriod
  <2>5. ASSUME NEW s \in Servants PROVE Booked(c, s)'
    <3>1. RowsOf(c, s)' = {}
      BY <2>3 DEF RowsOf, Live
    <3>. QED
      BY <2>4, <3>1 DEF Booked
  <2>6. ASSUME NEW d \in Periods \ {c}, NEW s \in Servants PROVE Booked(d, s)'
    <3>1. RowsOf(d, s)' = RowsOf(d, s) /\ \A r \in RowsOf(d, s) : rows'[r] = rows[r]
      BY <2>3 DEF RowsOf, Live
    <3>2. Booked(d, s)
      BY <1>2 DEF AloneInv
    <3>. QED
      BY <2>4, <3>1, <3>2 DEF Booked
  <2>. QED
    BY <2>1, <2>2, <2>5, <2>6 DEF AloneInv
<1>6. ASSUME NEW c \in Periods, NEW s \in Servants, NEW a, BeginPay(w, c, s, a)
      PROVE  AloneInv'
  <2>1. /\ UNCHANGED <<rows, collected, periods>>
        /\ \A v \in Workers \ {w} : pc'[v] = "idle"
    BY <1>0, <1>2, <1>6 DEF BeginPay, Goto, tables
  <2>2. /\ req'[w].period = c /\ req'[w].copy = periods[c]
        /\ pc'[w] = IF periods[c].kind \in DOMAIN FIXED_AMOUNTS
                    THEN "mode" ELSE "existing"
    BY <1>0, <1>6 DEF BeginPay, Goto, Request
  <2>3. WorkInv(w)'
    BY <2>1, <2>2 DEF WorkInv
  <2>. QED
    BY <1>2, <2>1, <2>3, AloneFrame
<1>7. ASSUME NEW s \in Servants, BeginControl(w, s) PROVE AloneInv'
  <2>1. /\ UNCHANGED <<rows, collected>>
        /\ \A v \in Workers \ {w} : pc'[v] = "idle"
        /\ pc'[w] = "control"
    BY <1>0, <1>2, <1>7 DEF BeginControl, Goto, tables
  <2>2. WorkInv(w)'
    BY <2>1 DEF WorkInv
  <2>. QED
    BY <1>2, <2>1, <2>2, AloneFrame
<1>. QED
  BY <1>3, <1>4, <1>5, <1>6, <1>7 DEF Arrive

\* A request that is over.
LEMMA AloneReturn ==
  ASSUME TypeInv, AloneInv, NEW w \in Workers, Return(w), pc[w] # "idle",
         UNCHANGED <<rows, collected>>
  PROVE  AloneInv'
<1>1. \A v \in Workers : pc'[v] = "idle"
  BY DEF Return, Goto, TypeInv, RequestInv, AloneInv
<1>2. WorkInv(w)'
  BY <1>1 DEF WorkInv
<1>. QED
  BY <1>1, <1>2, AloneFrame

\* A payment is written to the row that was read, or to a new one.
LEMMA AlonePayment ==
  ASSUME TypeInv, AloneInv, NEW w \in Workers,
         CommitPayment(w) \/ InsertPayment(w)
  PROVE  AloneInv'
<1>. DEFINE q == req[w]
<1>0. /\ rows \in [Rows -> MemberCotisation] /\ q \in Request
      /\ collected \in [Periods -> [Servants -> Nat]]
      /\ q.period \in Periods /\ q.servant \in Servants /\ q.amount \in Nat
      /\ WorkInv(w) /\ Booked(q.period, q.servant)
      /\ pc[w] \in {"update", "insert"} /\ Return(w)
  BY DEF TypeInv, TableInv, RequestInv, AloneInv, CommitPayment, InsertPayment, Request
<1>1. \A v \in Workers : pc'[v] = "idle"
  BY <1>0 DEF Return, Goto, TypeInv, RequestInv, AloneInv
<1>2. WorkInv(w)'
  BY <1>1 DEF WorkInv
<1>3. CASE UNCHANGED <<rows, collected>>
  BY <1>0, <1>3, AloneReturn
<1>4. ASSUME HandOver(w)
      PROVE  /\ collected'[q.period][q.servant]
                    = collected[q.period][q.servant] + q.amount
             /\ \A d \in Periods, t \in Servants :
                    d # q.period \/ t # q.servant => collected'[d][t] = collected[d][t]
  BY <1>0, <1>4 DEF HandOver
<1>5. CASE CommitPayment(w) /\ ~UNCHANGED <<rows, collected>>
  <2>. DEFINE total == q.seen.paid + q.amount
              status == StatusFor(total, q.copy.amount)
  <2>1. /\ pc[w] = "update" /\ q.row \in RowsOf(q.period, q.servant)
        /\ q.seen = rows[q.row] /\ HandOver(w)
        /\ rows' = [rows EXCEPT
              ![q.row].paid = IF q.amount = 0 THEN @ ELSE total,
              ![q.row].status = IF status = q.seen.status THEN @ ELSE status]
    BY <1>0, <1>5 DEF CommitPayment, WorkInv
  <2>2. /\ q.row \in Rows /\ rows[q.row].period = q.period
        /\ rows[q.row].servant = q.servant /\ Live(q.row)
        /\ rows[q.row].paid \in Nat
    BY <1>0, <2>1 DEF RowsOf, MemberCotisation
  <2>3. RowsOf(q.period, q.servant) = {q.row}
        /\ rows[q.row].paid = collected[q.period][q.servant]
    BY <1>0, <2>1 DEF Booked
  <2>4. status \in Paid
    BY StatusType
  <2>5. /\ \A x \in Rows \ {q.row} : rows'[x] = rows[x]
        /\ rows'[q.row].period = q.period /\ rows'[q.row].servant = q.servant
        /\ rows'[q.row].paid = IF q.amount = 0 THEN rows[q.row].paid ELSE total
        /\ rows'[q.row].status \in {rows[q.row].status, status}
    <3>. HIDE DEF status
    <3>1. rows[q.row] \in MemberCotisation
      BY <1>0, <2>2
    <3>. DEFINE new == [rows[q.row] EXCEPT
                    !.paid = IF q.amount = 0 THEN @ ELSE total,
                    !.status = IF status = q.seen.status THEN @ ELSE status]
    <3>2. rows' = [rows EXCEPT ![q.row] = new]
      BY <1>0, <2>1, <2>2
    <3>3. /\ new.period = rows[q.row].period /\ new.servant = rows[q.row].servant
          /\ new.paid = IF q.amount = 0 THEN rows[q.row].paid ELSE total
          /\ new.status = IF status = q.seen.status THEN rows[q.row].status ELSE status
      BY <3>1 DEF MemberCotisation
    <3>. HIDE DEF new
    <3>. QED
      BY <1>0, <2>2, <3>2, <3>3
  <2>6. rows'[q.row].paid = rows[q.row].paid + q.amount
    <3>1. q.seen.paid = rows[q.row].paid
      BY <2>1
    <3>. QED
      BY <1>0, <2>2, <2>5, <3>1
  <2>7. rows'[q.row].status \in Paid \cup {"EN_ATTENTE"}
    BY <2>2, <2>4, <2>5 DEF Live
  <2>. DEFINE r == q.row  c == q.period  s == q.servant
  <2>8. /\ r \in Rows /\ c \in Periods /\ s \in Servants /\ RowsOf(c, s) \subseteq {r}
        /\ \A x \in Rows \ {r} : rows'[x] = rows[x]
        /\ rows[r].period = c /\ rows[r].servant = s
        /\ rows'[r].status \in Paid \cup {"EN_ATTENTE"}
        /\ rows'[r].period = c /\ rows'[r].servant = s
    BY <1>0, <2>2, <2>3, <2>5, <2>7
  <2>9. /\ rows'[r].paid = collected'[c][s]
        /\ \A d \in Periods, t \in Servants :
               d # c \/ t # s => collected'[d][t] = collected[d][t]
    BY <1>4, <2>1, <2>3, <2>6
  <2>. HIDE DEF r, c, s
  <2>. QED
    BY <1>1, <1>2, <2>8, <2>9, AloneWrites
<1>6. CASE InsertPayment(w) /\ ~UNCHANGED <<rows, collected>>
  <2>. DEFINE m == [period |-> q.period, servant |-> q.servant,
                    paid |-> q.amount,
                    status |-> StatusFor(q.amount, q.copy.amount)]
  <2>1. PICK r \in Rows : /\ rows[r].status = "UNUSED" /\ pc[w] = "insert"
                          /\ rows' = [rows EXCEPT ![r] = m] /\ HandOver(w)
    BY <1>6 DEF InsertPayment
  <2>. DEFINE c == q.period  s == q.servant
  <2>2. RowsOf(c, s) = {} /\ collected[c][s] = 0
    BY <1>0, <2>1 DEF WorkInv, Booked
  <2>3. /\ \A x \in Rows \ {r} : rows'[x] = rows[x]
        /\ rows'[r].status \in Paid \cup {"EN_ATTENTE"}
        /\ rows'[r].period = c /\ rows'[r].servant = s
        /\ rows'[r].paid = q.amount
    BY <1>0, <2>1, StatusType
  <2>4. /\ rows'[r].paid = collected'[c][s]
        /\ \A d \in Periods, t \in Servants :
               d # c \/ t # s => collected'[d][t] = collected[d][t]
    BY <1>0, <1>4, <2>1, <2>2, <2>3
  <2>5. ~Live(r) /\ c \in Periods /\ s \in Servants
    BY <1>0, <2>1 DEF Live, Paid
  <2>. HIDE DEF c, s
  <2>. QED
    BY <1>1, <1>2, <2>2, <2>3, <2>4, <2>5, AloneWrites
<1>. QED
  BY <1>3, <1>5, <1>6

LEMMA AloneServe ==
  ASSUME TypeInv, AloneInv, NEW w \in Workers, Serve(w)
  PROVE  AloneInv'
<1>. DEFINE q == req[w]
<1>0. /\ pc[w] # "idle" /\ WorkInv(w)
      /\ pc \in [Workers -> Places] /\ req \in [Workers -> Request]
      /\ rows \in [Rows -> MemberCotisation] /\ q \in Request
  BY DEF Serve, ListServants, LookupObligation, InsertObligation, CheckMode,
         LookupPayment, CommitPayment, InsertPayment, Review, Report,
         AloneInv, TypeInv, TableInv, RequestInv
<1>1. \A v \in Workers \ {w} : pc[v] = "idle"
  BY <1>0 DEF AloneInv
<1>2. ASSUME NEW place, Goto(w, place)
      PROVE  pc'[w] = place /\ \A v \in Workers \ {w} : pc'[v] = "idle"
  BY <1>0, <1>1, <1>2 DEF Goto
<1>3. CASE ListServants(w)
  <2>1. UNCHANGED <<rows, collected>> /\ Goto(w, "lookup")
    BY <1>3 DEF ListServants
  <2>2. WorkInv(w)'
    BY <1>2, <2>1 DEF WorkInv
  <2>. QED
    BY <1>2, <2>1, <2>2, AloneFrame
<1>4. CASE LookupObligation(w)
  <2>1. UNCHANGED <<rows, collected>> /\ pc[w] = "lookup"
    BY <1>4 DEF LookupObligation, tables
  <2>2. ASSUME UNCHANGED pc PROVE AloneInv'
    <3>1. WorkInv(w)'
      BY <2>1, <2>2 DEF WorkInv
    <3>. QED
      BY <1>1, <2>1, <2>2, <3>1, AloneFrame
  <2>3. ASSUME NEW s \in q.todo, RowsOf(q.period, s) = {},
               req' = [req EXCEPT ![w].servant = s], Goto(w, "obligation")
        PROVE  AloneInv'
    <3>1. pc'[w] = "obligation" /\ req'[w].period = q.period /\ req'[w].servant = s
      BY <1>0, <1>2, <2>3 DEF Request
    <3>2. \A c, t : RowsOf(c, t)' = RowsOf(c, t)
      BY <2>1 DEF RowsOf, Live
    <3>3. WorkInv(w)'
      BY <2>3, <3>1, <3>2 DEF WorkInv
    <3>. QED
      BY <1>2, <2>1, <2>3, <3>3, AloneFrame
  <2>. QED
    BY <1>0, <1>4, <2>1, <2>2, <2>3, AloneReturn DEF LookupObligation
<1>5. CASE InsertObligation(w)
  <2>1. CASE UNCHANGED rows /\ Return(w)
    BY <1>0, <1>5, <2>1, AloneReturn DEF InsertObligation
  <2>2. CASE ~(UNCHANGED rows /\ Return(w))
    <3>. DEFINE c == q.period  s == q.servant
                m == [period |-> c, servant |-> s, paid |-> 0,
                      status |-> "EN_ATTENTE"]
    <3>1. PICK r \in Rows : /\ rows[r].status = "UNUSED"
                            /\ rows' = [rows EXCEPT ![r] = m]
                            /\ Goto(w, "lookup") /\ collected' = collected
      BY <1>5, <2>2 DEF InsertObligation
    <3>2. c \in Periods /\ s \in Servants /\ pc[w] = "obligation"
      BY <1>5 DEF InsertObligation, TypeInv, RequestInv
    <3>3. RowsOf(c, s) = {} /\ collected[c][s] = 0
      <4>1. RowsOf(c, s) = {}
        BY <1>0, <3>2 DEF WorkInv
      <4>2. Booked(c, s)
        BY <3>2 DEF AloneInv
      <4>. QED
        BY <4>1, <4>2 DEF Booked
    <3>4. /\ \A x \in Rows \ {r} : rows'[x] = rows[x]
          /\ rows'[r].status \in Paid \cup {"EN_ATTENTE"}
          /\ rows'[r].period = c /\ rows'[r].servant = s
          /\ rows'[r].paid = 0
      BY <1>0, <3>1
    <3>5. ~Live(r)
      BY <3>1 DEF Live, Paid
    <3>6. WorkInv(w)'
      BY <1>2, <3>1 DEF WorkInv
    <3>7. rows'[r].paid = collected'[c][s]
      BY <3>1, <3>3, <3>4
    <3>. HIDE DEF c, s
    <3>. QED
      BY <1>2, <3>1, <3>2, <3>3, <3>4, <3>5, <3>6, <3>7, AloneWrites
  <2>. QED
    BY <2>1, <2>2
<1>6. CASE CheckMode(w)
  <2>1. UNCHANGED <<rows, collected, periods>> /\ pc[w] = "mode"
    BY <1>6 DEF CheckMode, tables
  <2>2. CASE /\ Overlapping(q.servant, q.copy) = {}
             /\ Goto(w, "existing") /\ UNCHANGED req
    <3>1. pc'[w] = "existing" /\ \A s, p : Overlapping(s, p)' = Overlapping(s, p)
      BY <1>2, <2>1, <2>2 DEF Overlapping
    <3>2. WorkInv(w)'
      BY <1>0, <2>1, <2>2, <3>1 DEF WorkInv
    <3>. QED
      BY <1>2, <2>1, <2>2, <3>2, AloneFrame
  <2>. QED
    BY <1>0, <1>6, <2>1, <2>2, AloneReturn DEF CheckMode
<1>7. CASE LookupPayment(w)
  <2>1. UNCHANGED <<rows, collected, periods>> /\ pc[w] = "existing"
    BY <1>7 DEF LookupPayment, tables
  <2>2. /\ \A c, s : RowsOf(c, s)' = RowsOf(c, s)
        /\ \A s, p : Overlapping(s, p)' = Overlapping(s, p)
    BY <2>1 DEF RowsOf, Live, Overlapping
  <2>3. ASSUME NEW r \in RowsOf(q.period, q.servant),
               req' = [req EXCEPT ![w].row = r, ![w].seen = rows[r]],
               Goto(w, "update")
        PROVE  AloneInv'
    <3>1. /\ req'[w].row = r /\ req'[w].seen = rows[r] /\ pc'[w] = "update"
          /\ req'[w].period = q.period /\ req'[w].servant = q.servant
          /\ req'[w].copy = q.copy
      BY <1>0, <1>2, <2>3 DEF Request
    <3>2. WorkInv(w)'
      BY <1>0, <2>1, <2>2, <2>3, <3>1 DEF WorkInv
    <3>. QED
      BY <1>2, <2>1, <2>3, <3>2, AloneFrame
  <2>4. CASE /\ RowsOf(q.period, q.servant) = {}
             /\ Goto(w, "insert") /\ UNCHANGED req
    <3>1. pc'[w] = "insert"
      BY <1>2, <2>4
    <3>2. WorkInv(w)'
      BY <1>0, <2>1, <2>2, <2>4, <3>1 DEF WorkInv
    <3>. QED
      BY <1>2, <2>1, <2>4, <3>2, AloneFrame
  <2>. QED
    BY <1>7, <2>3, <2>4 DEF LookupPayment
<1>8. CASE Review(w)
  <2>1. UNCHANGED <<rows, collected>> /\ pc[w] = "control"
    BY <1>8 DEF Review, tables
  <2>2. pc'[w] \in {"control", "report"} /\ \A v \in Workers \ {w} : pc'[v] = "idle"
    BY <1>1, <1>2, <1>8, <2>1 DEF Review
  <2>3. WorkInv(w)'
    BY <2>2 DEF WorkInv
  <2>. QED
    BY <2>1, <2>2, <2>3, AloneFrame
<1>9. CASE Report(w)
  BY <1>0, <1>9, AloneReturn DEF Report, tables
<1>. QED
  BY <1>3, <1>4, <1>5, <1>6, <1>7, <1>8, <1>9, AlonePayment DEF Serve

LEMMA AloneStep ==
  TypeInv /\ (overlapped \/ AloneInv) /\ [Next]_vars => (overlapped \/ AloneInv)'
<1>. SUFFICES ASSUME TypeInv, overlapped \/ AloneInv, [Next]_vars
              PROVE  overlapped' \/ AloneInv'
  OBVIOUS
<1>1. ASSUME NEW w \in Workers, Serve(w) PROVE overlapped' = overlapped
  BY <1>1 DEF Serve, ListServants, LookupObligation, InsertObligation, CheckMode,
         LookupPayment, CommitPayment, InsertPayment, Review, Report
<1>2. ASSUME AloneInv, NEW w \in Workers, Abort(w) PROVE AloneInv'
  BY <1>2, AloneReturn DEF Abort, tables
<1>3. ASSUME AloneInv, UNCHANGED <<rows, collected, periods, pc, req>>
      PROVE  AloneInv'
  <2>1. /\ \A c, s : RowsOf(c, s)' = RowsOf(c, s)
        /\ \A s, p : Overlapping(s, p)' = Overlapping(s, p)
    BY <1>3 DEF RowsOf, Live, Overlapping
  <2>2. \A c, s : Booked(c, s)' <=> Booked(c, s)
    BY <1>3, <2>1 DEF Booked
  <2>3. \A w \in Workers : WorkInv(w)'
    BY <1>3, <2>1 DEF AloneInv, WorkInv
  <2>. QED
    BY <1>3, <2>2, <2>3 DEF AloneInv
<1>4. CASE Environment
  <2>1. overlapped' = overlapped
    BY <1>4 DEF Environment, NextDay, Join, Nominate, Abort
  <2>2. CASE NextDay \/ \E s \in Servants : Join(s) \/ Nominate(s)
    BY <1>3, <2>1, <2>2 DEF NextDay, Join, Nominate, tables
  <2>. QED
    BY <1>2, <1>4, <2>1, <2>2 DEF Environment
<1>5. CASE UNCHANGED vars
  BY <1>3, <1>5 DEF vars, tables
<1>. QED
  BY <1>1, <1>4, <1>5, AloneArrive, AloneServe DEF Next

LEMMA AloneInvariant == Spec => [](overlapped \/ AloneInv)
<1>1. Init => AloneInv
  BY DEF Init, AloneInv, Booked, WorkInv, RowsOf, Live, Paid, UnusedRow
<1>. QED
  BY <1>1, AloneStep, TypeInvariant, PTL DEF Spec

\* Until requests overlap, the books hold what was handed over, in one row.
THEOREM PaymentsBooked == Spec => []NoPaymentLost
<1>1. (overlapped \/ AloneInv) => NoPaymentLost
  BY DEF AloneInv, NoPaymentLost
<1>. QED
  BY <1>1, AloneInvariant, PTL

\* What a servant has handed over for a period is a payment that the check of
\* the other rhythm finds.
LEMMA PaymentFound ==
  ASSUME TypeInv, AloneInv, WaitingIsUnpaid, NEW c \in Periods,
         NEW s \in Servants, periods[c].kind \in DOMAIN FIXED_AMOUNTS,
         PaidOtherMode(c, s)
  PROVE  Overlapping(s, periods[c]) # {}
<1>1. PICK d \in Periods :
          /\ collected[d][s] > 0
          /\ periods[d].kind \in DOMAIN FIXED_AMOUNTS \ {periods[c].kind}
          /\ \E day \in Days : /\ day \in periods[c].start .. periods[c].end
                               /\ day \in periods[d].start .. periods[d].end
  BY DEF PaidOtherMode
<1>2. PICK r \in Rows : RowsOf(d, s) = {r} /\ rows[r].paid = collected[d][s]
  <2>1. Booked(d, s) /\ collected[d][s] # 0
    BY <1>1 DEF AloneInv
  <2>. QED
    BY <2>1 DEF Booked
<1>3. Live(r) /\ rows[r].period = d /\ rows[r].servant = s
  BY <1>2 DEF RowsOf
<1>4. rows[r].status \in Paid
  <2>1. rows[r].paid # 0
    BY <1>1, <1>2
  <2>. QED
    BY <1>3, <2>1 DEF WaitingIsUnpaid, Live
<1>5. periods[d].kind = OtherMode(periods[c].kind)
  BY <1>1, FixedAmountsType DEF OtherMode
<1>6. /\ periods[c].start \in Nat /\ periods[c].end \in Nat
      /\ periods[d].start \in Nat /\ periods[d].end \in Nat
  BY DEF TypeInv, TableInv, Period, Days
<1>7. periods[d].start <= periods[c].end /\ periods[d].end >= periods[c].start
  BY <1>1, <1>6 DEF Days
<1>. QED
  BY <1>3, <1>4, <1>5, <1>7 DEF Overlapping

\* Only a payment raises what a servant has handed over.
LEMMA RaisedByPayment ==
  ASSUME TypeInv, [Next]_vars, NEW c \in Periods, NEW s \in Servants,
         collected'[c][s] > collected[c][s]
  PROVE  \E w \in Workers : /\ pc[w] \in {"update", "insert"}
                            /\ req[w].period = c /\ req[w].servant = s
<1>0. collected \in [Periods -> [Servants -> Nat]]
  BY DEF TypeInv, TableInv
<1>1. ~(collected' = collected)
  BY <1>0
<1>2. ASSUME NEW w, NEW d \in Periods, DeletePeriod(w, d) PROVE FALSE
  <2>1. collected'[c][s] \in {0, collected[c][s]}
    BY <1>0, <1>2 DEF DeletePeriod
  <2>. QED
    BY <1>0, <2>1
<1>3. PICK w \in Workers : CommitPayment(w) \/ InsertPayment(w)
  <2>1. ASSUME NEW w \in Workers, Arrive(w) PROVE FALSE
    <3>1. ASSUME NEW d, NEW e, CreatePeriod(w, d, e) PROVE FALSE
      BY <1>1, <3>1 DEF CreatePeriod
    <3>2. ASSUME NEW d, NEW a, NEW e, NEW st, UpdatePeriod(w, d, a, e, st)
          PROVE  FALSE
      BY <1>1, <3>2 DEF UpdatePeriod
    <3>3. ASSUME NEW d, NEW t, NEW a, BeginPay(w, d, t, a) \/ BeginControl(w, t)
          PROVE  FALSE
      BY <1>1, <3>3 DEF BeginPay, BeginControl, tables
    <3>. QED
      BY <1>2, <2>1, <3>1, <3>2, <3>3 DEF Arrive
  <2>2. ASSUME NEW w \in Workers, Serve(w) PROVE CommitPayment(w) \/ InsertPayment(w)
    BY <1>1, <2>2 DEF Serve, ListServants, LookupObligation, InsertObligation,
                      CheckMode, LookupPayment, Review, Report, tables
  <2>. QED
    BY <1>1, <2>1, <2>2
       DEF Next, Environment, NextDay, Join, Nominate, Abort, vars, tables
<1>4. HandOver(w) /\ pc[w] \in {"update", "insert"}
  BY <1>1, <1>3 DEF CommitPayment, InsertPayment
<1>5. req[w].period = c /\ req[w].servant = s
  BY <1>0, <1>4 DEF HandOver
<1>. QED
  BY <1>4, <1>5

\* Until requests overlap, no payment is booked for days whose other rhythm the
\* servant has paid.
THEOREM OneModeAccepted == Spec => AcceptsOneMode
<1>1. TypeInv /\ MoneyInv /\ (overlapped \/ AloneInv) /\ [Next]_vars =>
          \A c \in Periods, s \in Servants :
              /\ collected'[c][s] > collected[c][s] /\ ~overlapped
              /\ periods[c].kind \in DOMAIN FIXED_AMOUNTS
              => ~PaidOtherMode(c, s)
  <2>. SUFFICES ASSUME TypeInv, MoneyInv, AloneInv, [Next]_vars,
                       NEW c \in Periods, NEW s \in Servants,
                       collected'[c][s] > collected[c][s],
                       periods[c].kind \in DOMAIN FIXED_AMOUNTS
                PROVE  ~PaidOtherMode(c, s)
    OBVIOUS
  <2>1. PICK w \in Workers : /\ pc[w] \in {"update", "insert"}
                            /\ req[w].period = c /\ req[w].servant = s
    BY RaisedByPayment
  <2>2. WorkInv(w)
    BY DEF AloneInv
  <2>3. Overlapping(s, periods[c]) = {}
    BY <2>1, <2>2 DEF WorkInv
  <2>. QED
    BY <2>3, PaymentFound DEF MoneyInv
<1>. QED
  BY <1>1, AloneInvariant, MoneyInvariant, TypeInvariant, PTL
     DEF Spec, AcceptsOneMode

(***************************************************************************)
(* The control, until requests overlap.  Of a walk through periods from    *)
(* the latest start to the earliest: R is behind it, left ahead of it, and *)
(* P are the periods that are paid.                                        *)
(***************************************************************************)

\* The missed periods since the last paid one.
IsGap(start, P, R, G) ==
    /\ G \subseteq R \ P
    /\ \A c \in G, e \in R \cap P : start[c] <= start[e]
    /\ \A c \in R \ (G \cup P) : \E e \in R \cap P : start[e] <= start[c]

\* S is missed without a payment strictly between, or without one on a day between.
StrictRun(start, P, R, S) ==
    /\ S \subseteq R \ P
    /\ \A c, d \in S, e \in R : start[c] < start[e] /\ start[e] < start[d] => e \notin P
WideRun(start, P, R, S) ==
    /\ S \subseteq R \ P
    /\ \A c, d \in S, e \in R : start[c] <= start[e] /\ start[e] <= start[d] => e \notin P

\* gap counts the current run, and longest the longest so far.
Scanned(start, P, R, left, gap, longest) ==
    /\ IsFiniteSet(R)
    /\ \A c \in R, d \in left : start[d] <= start[c]
    /\ \E G \in SUBSET R : Cardinality(G) = gap /\ IsGap(start, P, R, G)
    /\ \E S \in SUBSET R : Cardinality(S) = longest /\ StrictRun(start, P, R, S)
    /\ \A S \in SUBSET R : WideRun(start, P, R, S) => Cardinality(S) <= longest

LEMMA ScanBegins ==
  ASSUME NEW start, NEW P, NEW left
  PROVE  Scanned(start, P, {}, left, 0, 0)
BY FS_EmptySet DEF Scanned, IsGap, StrictRun, WideRun

\* The walk goes on to c, the latest of those ahead.
LEMMA ScanOrder ==
  ASSUME NEW start \in [Periods -> Nat], NEW R \in SUBSET Periods,
         NEW left \in SUBSET Periods, NEW c \in left,
         \A d \in left : start[d] <= start[c],
         IsFiniteSet(R), \A b \in R, d \in left : start[d] <= start[b]
  PROVE  /\ IsFiniteSet(R \cup {c})
         /\ \A b \in R \cup {c}, d \in left \ {c} : start[d] <= start[b]
BY FS_AddElement

LEMMA ScanPaid ==
  ASSUME NEW start \in [Periods -> Nat], NEW P, NEW R \in SUBSET Periods,
         NEW left \in SUBSET Periods, NEW c \in left, NEW gap, NEW longest,
         \A d \in left : start[d] <= start[c], c \in P,
         Scanned(start, P, R, left, gap, longest)
  PROVE  Scanned(start, P, R \cup {c}, left \ {c}, 0, longest)
<1>. DEFINE T == R \cup {c}
<1>1. /\ IsFiniteSet(T)
      /\ \A b \in T, d \in left \ {c} : start[d] <= start[b]
  BY ScanOrder DEF Scanned
<1>2. IsGap(start, P, T, {}) /\ Cardinality({}) = 0
  BY FS_EmptySet DEF Scanned, IsGap
<1>3. PICK S \in SUBSET R : Cardinality(S) = longest /\ StrictRun(start, P, R, S)
  BY DEF Scanned
<1>4. StrictRun(start, P, T, S)
  <2>1. ASSUME NEW b \in S, start[b] < start[c] PROVE FALSE
    BY <2>1 DEF Scanned
  <2>. QED
    BY <1>3, <2>1 DEF StrictRun
<1>5. ASSUME NEW U \in SUBSET T, WideRun(start, P, T, U)
      PROVE  Cardinality(U) <= longest
  <2>1. U \in SUBSET R /\ WideRun(start, P, R, U)
    BY <1>5 DEF WideRun
  <2>. QED
    BY <2>1 DEF Scanned
<1>. HIDE DEF T
<1>6. /\ {} \in SUBSET T /\ S \in SUBSET T
  BY <1>3 DEF T
<1>7. Scanned(start, P, T, left \ {c}, 0, longest)
  BY <1>1, <1>2, <1>3, <1>4, <1>5, <1>6 DEF Scanned
<1>. QED
  BY <1>7 DEF T

LEMMA ScanMissed ==
  ASSUME NEW start \in [Periods -> Nat], NEW P, NEW R \in SUBSET Periods,
         NEW left \in SUBSET Periods, NEW c \in left \ R,
         NEW gap \in Nat, NEW longest \in Nat,
         \A d \in left : start[d] <= start[c], c \notin P,
         Scanned(start, P, R, left, gap, longest)
  PROVE  Scanned(start, P, R \cup {c}, left \ {c}, gap + 1, Larger(longest, gap + 1))
<1>. DEFINE T == R \cup {c}
<1>0. IsFiniteSet(R) /\ \A b \in R : start[c] <= start[b]
  BY DEF Scanned
<1>1. /\ IsFiniteSet(T)
      /\ \A b \in T, d \in left \ {c} : start[d] <= start[b]
  BY ScanOrder DEF Scanned
<1>2. PICK G \in SUBSET R : Cardinality(G) = gap /\ IsGap(start, P, R, G)
  BY DEF Scanned
<1>. DEFINE H == G \cup {c}
<1>3. IsFiniteSet(G) /\ IsFiniteSet(H) /\ Cardinality(H) = gap + 1 /\ H \in SUBSET T
  BY <1>0, <1>2, FS_Subset, FS_AddElement
<1>4. IsGap(start, P, T, H)
  BY <1>0, <1>2 DEF IsGap
<1>5. StrictRun(start, P, T, H)
  <2>1. \A d \in H, e \in T \cap P : start[d] <= start[e]
    BY <1>0, <1>2 DEF IsGap
  <2>2. \A d \in T : start[d] \in Nat
    OBVIOUS
  <2>3. \A d \in H, e \in T \cap P : ~(start[e] < start[d])
    BY <1>3, <2>1, <2>2
  <2>. QED
    BY <1>2, <2>3 DEF IsGap, StrictRun
<1>6. PICK S \in SUBSET R : Cardinality(S) = longest /\ StrictRun(start, P, R, S)
  BY DEF Scanned
<1>7. StrictRun(start, P, T, S)
  BY <1>6 DEF StrictRun
<1>8. ASSUME NEW U \in SUBSET T, WideRun(start, P, T, U)
      PROVE  Cardinality(U) <= Larger(longest, gap + 1)
  <2>1. CASE c \notin U
    <3>1. U \in SUBSET R /\ WideRun(start, P, R, U)
      BY <1>8, <2>1 DEF WideRun
    <3>2. Cardinality(U) <= longest
      BY <3>1 DEF Scanned
    <3>3. Cardinality(U) \in Nat
      BY <3>1, <1>0, FS_Subset, FS_CardinalityType
    <3>. QED
      BY <3>2, <3>3 DEF Larger
  <2>2. CASE c \in U
    <3>1. ASSUME NEW b \in U, b \notin H PROVE FALSE
      <4>1. b \in R \ (G \cup P)
        BY <1>8, <3>1 DEF WideRun
      <4>2. PICK e \in R \cap P : start[e] <= start[b]
        BY <1>2, <4>1 DEF IsGap
      <4>3. start[c] <= start[e]
        BY <1>0
      <4>. QED
        BY <1>8, <2>2, <4>2, <4>3 DEF WideRun
    <3>2. U \in SUBSET H
      BY <3>1
    <3>3. Cardinality(U) <= gap + 1 /\ Cardinality(U) \in Nat
      BY <3>2, <1>3, FS_Subset, FS_CardinalityType
    <3>. QED
      BY <3>3 DEF Larger
  <2>. QED
    BY <2>1, <2>2
<1>9. Larger(longest, gap + 1) \in {longest, gap + 1}
  BY DEF Larger
<1>10. S \in SUBSET T
  BY <1>6
<1>. HIDE DEF T, H
<1>11. Scanned(start, P, T, left \ {c}, gap + 1, Larger(longest, gap + 1))
  BY <1>1, <1>3, <1>4, <1>5, <1>6, <1>7, <1>8, <1>9, <1>10 DEF Scanned
<1>. QED
  BY <1>11 DEF T

Starts      == [c \in Periods |-> periods[c].start]
PaidBy(s)   == {c \in Periods : PaidFor(c, s)}
Scanning(w) == pc[w] \in {"control", "report"}

\* A control counts from nothing, and has counted what is behind it.
ControlInv(w) ==
    LET q == req[w] IN
    /\ ~Scanning(w) => q.gap = 0 /\ q.longest = 0
    /\ Scanning(w) =>
         /\ q.left \subseteq q.listed
         /\ Scanned(Starts, PaidBy(q.servant), q.listed \ q.left, q.left, q.gap, q.longest)
    /\ pc[w] = "report" => q.left = {}

LEMMA ControlFrame ==
  ASSUME NEW w \in Workers, ControlInv(w), pc'[w] = pc[w],
         req'[w].gap = req[w].gap, req'[w].longest = req[w].longest,
         Scanning(w) => req'[w] = req[w] /\ UNCHANGED <<rows, periods>>
  PROVE  ControlInv(w)'
<1>1. CASE ~Scanning(w)
  BY <1>1 DEF ControlInv, Scanning
<1>2. CASE Scanning(w)
  <2>1. Starts' = Starts /\ \A s : PaidBy(s)' = PaidBy(s)
    BY <1>2 DEF Starts, PaidBy, PaidFor, RowsOf, Live
  <2>. QED
    BY <1>2, <2>1 DEF ControlInv, Scanning
<1>. QED
  BY <1>1, <1>2

LEMMA ControlReturn ==
  ASSUME TypeInv, NEW w \in Workers, Return(w)
  PROVE  ControlInv(w)'
BY DEF TypeInv, RequestInv, Return, Goto, ControlInv, Scanning, NoRequest

\* Each period that is looked at is paid or missed, not both: it has one row.
LEMMA ControlReview ==
  ASSUME TypeInv, AloneInv, NEW w \in Workers, ControlInv(w), Review(w)
  PROVE  ControlInv(w)'
<1>. DEFINE q == req[w]  L == q.listed  F == q.left  P == PaidBy(q.servant)
<1>0. /\ pc \in [Workers -> Places] /\ req \in [Workers -> Request]
      /\ periods \in [Periods -> Period] /\ q \in Request
      /\ pc[w] = "control" /\ q.servant \in Servants
      /\ L \in SUBSET Periods /\ F \in SUBSET Periods
      /\ q.gap \in Nat /\ q.longest \in Nat
  BY DEF TypeInv, RequestInv, TableInv, Review, Request
<1>1. F \subseteq L /\ Scanned(Starts, P, L \ F, F, q.gap, q.longest)
  BY <1>0 DEF ControlInv, Scanning
<1>2. Starts' = Starts /\ \A s : PaidBy(s)' = PaidBy(s)
  BY DEF Review, tables, Starts, PaidBy, PaidFor, RowsOf, Live
<1>3. Starts \in [Periods -> Nat] /\ \A c \in Periods : Starts[c] = periods[c].start
  BY <1>0, CotisationsAssumption DEF Starts, Period, Days
<1>4. CASE F = {} /\ Goto(w, "report") /\ UNCHANGED req
  BY <1>0, <1>1, <1>2, <1>4 DEF Goto, ControlInv, Scanning
<1>5. ASSUME NEW c \in Latest(F), NEW gap, NEW longest, UNCHANGED pc,
             req'[w].servant = q.servant, req'[w].listed = L, req'[w].left = F \ {c},
             req'[w].gap = gap, req'[w].longest = longest,
             Scanned(Starts, P, (L \ F) \cup {c}, F \ {c}, gap, longest)
      PROVE  ControlInv(w)'
  <2>1. c \in F /\ (L \ F) \cup {c} = L \ (F \ {c}) /\ F \ {c} \subseteq L
    BY <1>1, <1>5 DEF Latest
  <2>. QED
    BY <1>0, <1>2, <1>5, <2>1 DEF ControlInv, Scanning
<1>6. ASSUME NEW c \in Latest(F)
      PROVE  /\ c \in F /\ c \in Periods /\ c \in F \ (L \ F)
             /\ \A d \in F : Starts[d] <= Starts[c]
             /\ Missed(c, q.servant) /\ c \in P => FALSE
             /\ Missed(c, q.servant) \/ PaidFor(c, q.servant)
  <2>1. c \in F /\ c \in Periods /\ \A d \in F : Starts[d] <= Starts[c]
    BY <1>0, <1>3 DEF Latest
  <2>2. Booked(c, q.servant)
    BY <1>0, <2>1 DEF AloneInv
  <2>. QED
    BY <2>1, <2>2 DEF Booked, Missed, PaidBy, PaidFor
<1>7. ASSUME NEW c \in Latest(F), PaidFor(c, q.servant), UNCHANGED pc,
             req' = [req EXCEPT ![w].left = @ \ {c}, ![w].gap = 0]
      PROVE  ControlInv(w)'
  <2>1. c \in P
    BY <1>6, <1>7 DEF PaidBy
  <2>2. Scanned(Starts, P, (L \ F) \cup {c}, F \ {c}, 0, q.longest)
    BY <1>0, <1>1, <1>3, <1>6, <2>1, ScanPaid
  <2>3. /\ req'[w].servant = q.servant /\ req'[w].listed = L /\ req'[w].left = F \ {c}
        /\ req'[w].gap = 0 /\ req'[w].longest = q.longest
    BY <1>0, <1>7 DEF Request
  <2>. QED
    BY <1>5, <1>7, <2>2, <2>3
<1>8. ASSUME NEW c \in Latest(F), Missed(c, q.servant), UNCHANGED pc,
             req' = [req EXCEPT ![w].left = @ \ {c}, ![w].gap = @ + 1,
                                ![w].longest = Larger(@, q.gap + 1)]
      PROVE  ControlInv(w)'
  <2>1. c \notin P
    BY <1>6, <1>8
  <2>2. Scanned(Starts, P, (L \ F) \cup {c}, F \ {c}, q.gap + 1,
                Larger(q.longest, q.gap + 1))
    BY <1>0, <1>1, <1>3, <1>6, <2>1, ScanMissed
  <2>3. /\ req'[w].servant = q.servant /\ req'[w].listed = L /\ req'[w].left = F \ {c}
        /\ req'[w].gap = q.gap + 1 /\ req'[w].longest = Larger(q.longest, q.gap + 1)
    BY <1>0, <1>8 DEF Request
  <2>. QED
    BY <1>5, <1>8, <2>2, <2>3
<1>. QED
  BY <1>4, <1>7, <1>8 DEF Review

LEMMA ControlBegins ==
  ASSUME TypeInv, NEW w \in Workers, ControlInv(w), NEW s \in Servants, BeginControl(w, s)
  PROVE  ControlInv(w)'
<1>1. /\ pc'[w] = "control" /\ req'[w].listed = Listed /\ req'[w].left = Listed
      /\ req'[w].gap = 0 /\ req'[w].longest = 0
  BY DEF TypeInv, RequestInv, Request, BeginControl, Goto, ControlInv, Scanning
<1>2. Listed \ Listed = {}
  OBVIOUS
<1>. QED
  BY <1>1, <1>2, ScanBegins DEF ControlInv, Scanning

\* The requests that count nothing.
LEMMA ControlElsewhere ==
  ASSUME TypeInv, NEW w \in Workers, ControlInv(w), ~Scanning(w),
         pc'[w] \notin {"control", "report"},
         req'[w].gap = req[w].gap, req'[w].longest = req[w].longest
  PROVE  ControlInv(w)'
BY DEF ControlInv, Scanning

LEMMA ControlServe ==
  ASSUME TypeInv, AloneInv, NEW w \in Workers, ControlInv(w), Serve(w)
  PROVE  ControlInv(w)'
<1>0. pc \in [Workers -> Places] /\ req \in [Workers -> Request] /\ req[w] \in Request
  BY DEF TypeInv, RequestInv
<1>1. CASE Return(w)
  BY <1>1, ControlReturn
<1>2. CASE ListServants(w)
  BY <1>0, <1>2, ControlElsewhere DEF ListServants, Goto, Scanning, Request
<1>3. CASE LookupObligation(w) /\ ~Return(w)
  <2>1. pc[w] = "lookup" /\ pc'[w] \in {"lookup", "obligation"}
    BY <1>0, <1>3 DEF LookupObligation, Goto
  <2>2. req'[w].gap = req[w].gap /\ req'[w].longest = req[w].longest
    BY <1>0, <1>3 DEF LookupObligation, Request
  <2>. QED
    BY <2>1, <2>2, ControlElsewhere DEF Scanning
<1>4. CASE InsertObligation(w) /\ ~Return(w)
  BY <1>0, <1>4, ControlElsewhere DEF InsertObligation, Goto, Scanning, Request
<1>5. CASE CheckMode(w) /\ ~Return(w)
  BY <1>0, <1>5, ControlElsewhere DEF CheckMode, Goto, Scanning, Request
<1>6. CASE LookupPayment(w) /\ ~Return(w)
  <2>1. pc[w] = "existing" /\ pc'[w] \in {"update", "insert"}
    BY <1>0, <1>6 DEF LookupPayment, Goto
  <2>2. req'[w].gap = req[w].gap /\ req'[w].longest = req[w].longest
    BY <1>0, <1>6 DEF LookupPayment, Request
  <2>. QED
    BY <2>1, <2>2, ControlElsewhere DEF Scanning
<1>7. CASE CommitPayment(w) \/ InsertPayment(w) \/ Report(w)
  BY <1>1, <1>7 DEF CommitPayment, InsertPayment, Report
<1>. QED
  BY <1>1, <1>2, <1>3, <1>4, <1>5, <1>6, <1>7, ControlReview DEF Serve

LEMMA ControlArrive ==
  ASSUME TypeInv, NEW w \in Workers, ControlInv(w), Arrive(w)
  PROVE  ControlInv(w)'
<1>0. pc \in [Workers -> Places] /\ req \in [Workers -> Request] /\ req[w] \in Request
  BY DEF TypeInv, RequestInv
<1>1. ASSUME NEW c, NEW d, CreatePeriod(w, c, d) PROVE ControlInv(w)'
  BY <1>0, <1>1, ControlElsewhere DEF CreatePeriod, Goto, Scanning, Request
<1>2. ASSUME NEW c, NEW a, NEW e, NEW t, UpdatePeriod(w, c, a, e, t) PROVE ControlInv(w)'
  BY <1>0, <1>2, ControlElsewhere DEF UpdatePeriod, Scanning
<1>3. ASSUME NEW c, DeletePeriod(w, c) PROVE ControlInv(w)'
  BY <1>0, <1>3, ControlElsewhere DEF DeletePeriod, Scanning
<1>4. ASSUME NEW c, NEW s, NEW a, BeginPay(w, c, s, a) PROVE ControlInv(w)'
  BY <1>0, <1>4, ControlElsewhere DEF BeginPay, Goto, Scanning, Request
<1>5. ASSUME NEW s \in Servants, BeginControl(w, s) PROVE ControlInv(w)'
  BY <1>5, ControlBegins
<1>. QED
  BY <1>1, <1>2, <1>3, <1>4, <1>5 DEF Arrive

Counted == \A w \in Workers : ControlInv(w)

\* A request that moves does not disturb the others, which are idle.
LEMMA CountedMove ==
  ASSUME Counted, NEW w \in Workers, ControlInv(w)',
         \A v \in Workers \ {w} : pc[v] = "idle",
         \A v \in Workers \ {w} : pc'[v] = pc[v] /\ req'[v] = req[v]
  PROVE  Counted'
<1>1. \A v \in Workers \ {w} : ControlInv(v)'
  BY ControlFrame DEF Counted, Scanning
<1>. QED
  BY <1>1 DEF Counted

LEMMA OthersStay ==
  ASSUME TypeInv, NEW w \in Workers, Arrive(w) \/ Serve(w) \/ Abort(w)
  PROVE  \A v \in Workers \ {w} : pc'[v] = pc[v] /\ req'[v] = req[v]
<1>. USE DEF TypeInv, RequestInv, Goto, Return
<1>1. CASE Arrive(w)
  <2>1. \A c, d : CreatePeriod(w, c, d) =>
            \A v \in Workers \ {w} : pc'[v] = pc[v] /\ req'[v] = req[v]
    BY DEF CreatePeriod
  <2>2. \A c, a, e, t : UpdatePeriod(w, c, a, e, t) => UNCHANGED <<pc, req>>
    BY DEF UpdatePeriod
  <2>3. \A c : DeletePeriod(w, c) => UNCHANGED <<pc, req>>
    BY DEF DeletePeriod
  <2>4. \A c, s, a : BeginPay(w, c, s, a) =>
            \A v \in Workers \ {w} : pc'[v] = pc[v] /\ req'[v] = req[v]
    BY DEF BeginPay
  <2>5. \A s : BeginControl(w, s) =>
            \A v \in Workers \ {w} : pc'[v] = pc[v] /\ req'[v] = req[v]
    BY DEF BeginControl
  <2>. QED
    BY <1>1, <2>1, <2>2, <2>3, <2>4, <2>5 DEF Arrive
<1>2. CASE Abort(w)
  BY <1>2 DEF Abort
<1>3. CASE ListServants(w) \/ LookupObligation(w) \/ InsertObligation(w)
  BY <1>3 DEF ListServants, LookupObligation, InsertObligation
<1>4. CASE CheckMode(w) \/ LookupPayment(w) \/ CommitPayment(w) \/ InsertPayment(w)
  BY <1>4 DEF CheckMode, LookupPayment, CommitPayment, InsertPayment
<1>5. CASE Review(w) \/ Report(w)
  BY <1>5 DEF Review, Report
<1>. QED
  BY <1>1, <1>2, <1>3, <1>4, <1>5 DEF Serve

LEMMA CountedStep ==
  TypeInv /\ (overlapped \/ AloneInv) /\ (overlapped \/ Counted) /\ [Next]_vars
    => (overlapped \/ Counted)'
<1>. SUFFICES ASSUME TypeInv, overlapped \/ AloneInv, overlapped \/ Counted, [Next]_vars,
                     ~overlapped'
              PROVE  Counted'
  OBVIOUS
<1>1. ASSUME NEW w \in Workers, Arrive(w) PROVE Counted'
  <2>1. Called
    BY <1>1 DEF Arrive, CreatePeriod, UpdatePeriod, DeletePeriod, BeginPay, BeginControl
  <2>2. ~overlapped /\ \A v \in Workers : pc[v] = "idle"
    BY <2>1 DEF Called
  <2>3. Counted /\ ControlInv(w)
    BY <2>2 DEF Counted
  <2>. QED
    BY <1>1, <2>2, <2>3, ControlArrive, OthersStay, CountedMove
<1>2. ASSUME NEW w \in Workers, Serve(w) \/ Abort(w) PROVE Counted'
  <2>1. overlapped' = overlapped /\ pc[w] # "idle"
    BY <1>2 DEF Serve, Abort, ListServants, LookupObligation, InsertObligation, CheckMode,
         LookupPayment, CommitPayment, InsertPayment, Review, Report
  <2>2. AloneInv /\ Counted /\ ControlInv(w)
    BY <2>1 DEF Counted
  <2>3. \A v \in Workers \ {w} : pc[v] = "idle"
    BY <2>1, <2>2 DEF AloneInv
  <2>4. ControlInv(w)'
    BY <1>2, <2>2, ControlServe, ControlReturn DEF Abort
  <2>. QED
    BY <1>2, <2>2, <2>3, <2>4, OthersStay, CountedMove
<1>3. ASSUME Counted, UNCHANGED <<rows, periods, pc, req>> PROVE Counted'
  <2>1. ASSUME NEW w \in Workers PROVE ControlInv(w)'
    BY <1>3, ControlFrame DEF Counted
  <2>. QED
    BY <2>1 DEF Counted
<1>4. CASE NextDay \/ \E s \in Servants : Join(s) \/ Nominate(s)
  BY <1>3, <1>4 DEF NextDay, Join, Nominate, tables
<1>5. CASE UNCHANGED vars
  BY <1>3, <1>5 DEF vars, tables
<1>. QED
  BY <1>1, <1>2, <1>4, <1>5 DEF Next, Environment

LEMMA CountedInvariant == Spec => [](overlapped \/ Counted)
<1>1. Init => Counted
  BY DEF Init, Counted, ControlInv, Scanning, NoRequest
<1>. QED
  BY <1>1, CountedStep, AloneInvariant, TypeInvariant, PTL DEF Spec

\* Until requests overlap, what a control reports is the length of the longest run of
\* missed periods.
THEOREM LongestGapReported == Spec => []ReportIsLongestGap
<1>1. TypeInv /\ (overlapped \/ Counted) => ReportIsLongestGap
  <2>. SUFFICES ASSUME TypeInv, Counted, NEW w \in Workers, pc[w] = "report"
                PROVE  /\ \E S \in SUBSET req[w].listed :
                             /\ Cardinality(S) = req[w].longest
                             /\ MissedRun(w, S, <)
                       /\ \A S \in SUBSET req[w].listed :
                             MissedRun(w, S, <=) => Cardinality(S) <= req[w].longest
    BY DEF ReportIsLongestGap
  <2>. DEFINE L == req[w].listed  P == PaidBy(req[w].servant)
  <2>1. L \in SUBSET Periods
    BY DEF TypeInv, RequestInv, Request
  <2>2. L \ req[w].left = L
    BY DEF Counted, ControlInv
  <2>3. Scanned(Starts, P, L, req[w].left, req[w].gap, req[w].longest)
    BY <2>2 DEF Counted, ControlInv, Scanning
  <2>4. \A c \in L : /\ Starts[c] = periods[c].start
                     /\ c \in P <=> PaidFor(c, req[w].servant)
    BY <2>1 DEF Starts, PaidBy
  <2>5. \A S \in SUBSET L : StrictRun(Starts, P, L, S) => MissedRun(w, S, <)
    BY <2>4 DEF StrictRun, MissedRun
  <2>6. \A S \in SUBSET L : MissedRun(w, S, <=) => WideRun(Starts, P, L, S)
    BY <2>4 DEF WideRun, MissedRun
  <2>. QED
    BY <2>3, <2>5, <2>6 DEF Scanned
<1>. QED
  BY <1>1, CountedInvariant, TypeInvariant, PTL
=============================================================================
