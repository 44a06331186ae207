----------------------------- MODULE Cotisations -----------------------------
(***************************************************************************)
(* The contributions of the servants: periods of collection, the           *)
(* obligations that a period creates, the payments that the treasurer      *)
(* records, and the control that looks for missed periods.                 *)
(*                                                                         *)
(* A worker is one request in flight.  The other requests run between any  *)
(* two of its database calls; reads that follow each other with no effect  *)
(* in between are one step.                                                *)
(***************************************************************************)
EXTENDS Naturals, FiniteSets

CONSTANTS
    Workers,   \* requests that can be in flight at the same time
    Servants,  \* accounts with the role SERVANT
    Periods,   \* bound: identifiers for rows of cotisation_periods
    Rows,      \* bound: identifiers for rows of member_cotisations
    LastDay,   \* bound: the calendar is 0..LastDay
    Window,    \* days that the control looks back
    Drafts,    \* bound: the periods an administrator may enter
    Prices,    \* bound: the amounts an administrator may set later,
    Ends,      \* bound: and the dates he may end a period on
    Payments,  \* bound: the amounts a servant may hand over
    None,      \* no value
    MaxCalls,  \* bound: requests served
    MaxAborts  \* bound: requests that die half way

\* The pairs (cotisation_type, period_type) that the code tells apart:
\* "ORDINAIRE" is an ordinary one of another rhythm, "SPECIALE" stands for
\* SPECIALE and AUBE, "AUTRE" for AMENDE and AUTRE.
Kinds == {"MENSUEL", "HEBDOMADAIRE", "ORDINAIRE", "SPECIALE", "AUTRE"}

\* In hundreds of FCFA.
FIXED_AMOUNTS == [MENSUEL |-> 5, HEBDOMADAIRE |-> 1]

Ordinary   == {"MENSUEL", "HEBDOMADAIRE", "ORDINAIRE"}
Obligatory == {"MENSUEL", "HEBDOMADAIRE", "SPECIALE"}
Days       == 0..LastDay

Draft == [kind : Kinds, start : Days, end : Days, amount : Nat]

ASSUME CotisationsAssumption ==
    /\ LastDay \in Nat /\ Window \in Nat /\ MaxCalls \in Nat /\ MaxAborts \in Nat
    /\ Drafts \subseteq Draft /\ Payments \subseteq Nat
    /\ Prices \subseteq Nat /\ Ends \subseteq Days
    /\ None \notin Servants \cup Periods \cup Rows

Period == [kind : Kinds \cup {None}, start : Days, end : Days, amount : Nat,
           state : {"UNUSED", "active", "closed", "DELETED"}]

Paid  == {"PAYE", "PAYE_PARTIELLEMENT"}
MemberCotisation ==
    [period  : Periods \cup {None},
     servant : Servants \cup {None},
     paid    : Nat,
     status  : Paid \cup {"EN_ATTENTE", "UNUSED", "DELETED"}]

VARIABLES
    today,         \* the date
    members,       \* servants with an active account
    responsables,  \* servants with an active nomination
    periods,       \* table cotisation_periods
    rows,          \* table member_cotisations
    collected,     \* what each servant has handed over for each period
    due,           \* the servants that a period was created for
    pc,            \* where each worker is
    req,           \* what each worker serves and what it has read
    calls,         \* requests served so far
    aborts,        \* requests that died so far
    overlapped     \* history: two requests were in flight at the same time

world  == <<today, members, responsables>>
tables == <<periods, rows, collected, due>>
vars   == <<world, tables, pc, req, calls, aborts, overlapped>>

-----------------------------------------------------------------------------
Places == {"idle", "listing", "lookup", "obligation", "mode", "existing",
           "update", "insert", "control", "report"}

Request == [period  : Periods \cup {None},
            servant : Servants \cup {None},
            amount  : Nat,
            copy    : Period,             \* the period, when it was read
            row     : Rows \cup {None},
            seen    : MemberCotisation,   \* the row, when it was read
            todo    : SUBSET Servants,    \* obligations still to create
            listed  : SUBSET Periods,     \* the periods of a control,
            left    : SUBSET Periods,     \* those it has still to look at
            gap     : Nat,                \* consecutive_missing
            longest : Nat]                \* max_consecutive_missing

UnusedPeriod == [kind |-> None, start |-> 0, end |-> 0, amount |-> 0,
                 state |-> "UNUSED"]
UnusedRow    == [period |-> None, servant |-> None, paid |-> 0,
                 status |-> "UNUSED"]
NoRequest    == [period |-> None, servant |-> None, amount |-> 0,
                 copy |-> UnusedPeriod, row |-> None, seen |-> UnusedRow,
                 todo |-> {}, listed |-> {}, left |-> {},
                 gap |-> 0, longest |-> 0]

Goto(w, place) == pc' = [pc EXCEPT ![w] = place]

\* The handler returns or raises: its session and what it had read are gone.
Return(w) == /\ Goto(w, "idle")
             /\ req' = [req EXCEPT ![w] = NoRequest]

Exists(c) == periods[c].state \in {"active", "closed"}
Live(r)   == rows[r].status \in Paid \cup {"EN_ATTENTE"}

\* get_by_period_and_user returns any one of these.
RowsOf(c, s) == {r \in Rows : /\ Live(r)
                              /\ rows[r].period = c
                              /\ rows[r].servant = s}

PriceAllowed(kind, amount) ==
    kind \in DOMAIN FIXED_AMOUNTS => amount = FIXED_AMOUNTS[kind]

\* A new request; calls bounds their number.
Called == /\ calls < MaxCalls
          /\ calls' = calls + 1
          /\ overlapped' = (overlapped \/ \E v \in Workers : pc[v] # "idle")

-----------------------------------------------------------------------------
(***************************************************************************)
(* Periods.                                                                *)
(***************************************************************************)
CreatePeriod(w, c, d) ==
    LET obliges == d.kind \in Obligatory IN
    /\ pc[w] = "idle" /\ periods[c].state = "UNUSED"
    /\ d.start < d.end
    /\ PriceAllowed(d.kind, d.amount)
    /\ Called
    /\ periods' = [periods EXCEPT ![c] =
           [kind |-> d.kind, start |-> d.start, end |-> d.end,
            amount |-> d.amount, state |-> "active"]]
    /\ due' = [due EXCEPT ![c] =
           IF obliges THEN members \ responsables ELSE {}]
    /\ req' = [req EXCEPT ![w].period = IF obliges THEN c ELSE None]
    /\ Goto(w, IF obliges THEN "listing" ELSE "idle")
    /\ UNCHANGED <<world, rows, collected, aborts>>

\* The active servants, and those with a post, who owe nothing.
ListServants(w) ==
    /\ pc[w] = "listing"
    /\ req' = [req EXCEPT ![w].todo = members \ responsables]
    /\ due' = [due EXCEPT ![req[w].period] = @ \ responsables]
    /\ Goto(w, "lookup")
    /\ UNCHANGED <<world, periods, rows, collected, calls, aborts, overlapped>>

\* Mutation: the loop stops at the first servant who has paid already.
LookupObligationBreaks(w) ==
    /\ pc[w] = "lookup"
    /\ IF req[w].todo = {}
       THEN Return(w)
       ELSE \E s \in req[w].todo :
              IF RowsOf(req[w].period, s) # {}
              THEN Return(w)
              ELSE /\ req' = [req EXCEPT ![w].servant = s]
                   /\ Goto(w, "obligation")
    /\ UNCHANGED <<world, tables, calls, aborts, overlapped>>

LookupObligation(w) ==
    /\ pc[w] = "lookup"
    /\ IF req[w].todo = {}
       THEN Return(w)
       ELSE \E s \in req[w].todo :
              IF RowsOf(req[w].period, s) # {}
              THEN /\ req' = [req EXCEPT ![w].todo = @ \ {s}]
                   /\ UNCHANGED pc
              ELSE /\ req' = [req EXCEPT ![w].servant = s]
                   /\ Goto(w, "obligation")
    /\ UNCHANGED <<world, tables, calls, aborts, overlapped>>

\* The foreign key refuses the row of a period that is gone.
InsertObligation(w) ==
    LET c == req[w].period  s == req[w].servant IN
    /\ pc[w] = "obligation"
    /\ IF Exists(c)
       THEN \E r \in Rows :
              /\ rows[r].status = "UNUSED"
              /\ rows' = [rows EXCEPT ![r] =
                     [period |-> c, servant |-> s, paid |-> 0,
                      status |-> "EN_ATTENTE"]]
              /\ req' = [req EXCEPT ![w].todo = @ \ {s}, ![w].servant = None]
              /\ Goto(w, "lookup")
       ELSE Return(w) /\ UNCHANGED rows
    /\ UNCHANGED <<world, periods, collected, due, calls, aborts, overlapped>>

\* The end is not compared with the start.
UpdatePeriod(w, c, amount, end, state) ==
    /\ pc[w] = "idle" /\ Exists(c)
    /\ amount # periods[c].amount => PriceAllowed(periods[c].kind, amount)
    /\ Called
    /\ periods' = [periods EXCEPT ![c].amount = amount, ![c].end = end,
                                  ![c].state = state]
    /\ UNCHANGED <<world, rows, collected, due, pc, req, aborts>>

\* The rows of the period go with it.
DeletePeriod(w, c) ==
    /\ pc[w] = "idle" /\ Exists(c)
    /\ Called
    /\ periods' = [periods EXCEPT ![c].state = "DELETED"]
    /\ rows' = [r \in Rows |->
           IF Live(r) /\ rows[r].period = c
           THEN [rows[r] EXCEPT !.status = "DELETED"] ELSE rows[r]]
    /\ collected' = [collected EXCEPT ![c] = [s \in Servants |-> 0]]
    /\ due' = [due EXCEPT ![c] = {}]
    /\ UNCHANGED <<world, pc, req, aborts>>

-----------------------------------------------------------------------------
(***************************************************************************)
(* Payments.                                                               *)
(***************************************************************************)
BeginPay(w, c, s, a) ==
    /\ pc[w] = "idle" /\ periods[c].state = "active"
    /\ Called
    /\ req' = [req EXCEPT ![w].period = c, ![w].servant = s, ![w].amount = a,
                          ![w].copy = periods[c]]
    /\ Goto(w, IF periods[c].kind \in DOMAIN FIXED_AMOUNTS
               THEN "mode" ELSE "existing")
    /\ UNCHANGED <<world, tables, aborts>>

OtherMode(kind) ==
    IF kind = "MENSUEL" THEN "HEBDOMADAIRE" ELSE "MENSUEL"

\* Mutation: what counts is an obligation that still waits.
OverlappingWaiting(s, p) ==
    {r \in Rows : /\ rows[r].status = "EN_ATTENTE" /\ rows[r].servant = s
                  /\ periods[rows[r].period].kind = OtherMode(p.kind)
                  /\ periods[rows[r].period].start <= p.end
                  /\ periods[rows[r].period].end >= p.start}

\* The payments of s for the other rhythm whose period overlaps p.
Overlapping(s, p) ==
    {r \in Rows : /\ rows[r].status \in Paid /\ rows[r].servant = s
                  /\ periods[rows[r].period].kind = OtherMode(p.kind)
                  /\ periods[rows[r].period].start <= p.end
                  /\ periods[rows[r].period].end >= p.start}

CheckMode(w) ==
    /\ pc[w] = "mode"
    /\ IF Overlapping(req[w].servant, req[w].copy) # {}
       THEN Return(w)
       ELSE Goto(w, "existing") /\ UNCHANGED req
    /\ UNCHANGED <<world, tables, calls, aborts, overlapped>>

LookupPayment(w) ==
    LET found == RowsOf(req[w].period, req[w].servant) IN
    /\ pc[w] = "existing"
    /\ \/ \E r \in found :
            /\ req' = [req EXCEPT ![w].row = r, ![w].seen = rows[r]]
            /\ Goto(w, "update")
       \/ /\ found = {}
          /\ Goto(w, "insert") /\ UNCHANGED req
    /\ UNCHANGED <<world, tables, calls, aborts, overlapped>>

StatusFor(paid, expected) ==
    IF paid >= expected THEN "PAYE" ELSE "PAYE_PARTIELLEMENT"

HandOver(w) ==
    collected' = [collected EXCEPT
        ![req[w].period][req[w].servant] = @ + req[w].amount]

\* Mutation: the payment replaces what was paid before.
CommitPaymentReplaces(w) ==
    LET q == req[w] IN
    /\ pc[w] = "update"
    /\ IF Live(q.row)
       THEN /\ rows' = [rows EXCEPT
                  ![q.row].paid = q.amount,
                  ![q.row].status = StatusFor(q.amount, q.copy.amount)]
            /\ HandOver(w)
       ELSE UNCHANGED <<rows, collected>>
    /\ Return(w)
    /\ UNCHANGED <<world, periods, due, calls, aborts, overlapped>>

\* Mutation: the amount is added twice.
CommitPaymentTwice(w) ==
    LET q == req[w]  total == q.seen.paid + q.amount + q.amount IN
    /\ pc[w] = "update"
    /\ IF Live(q.row)
       THEN /\ rows' = [rows EXCEPT
                  ![q.row].paid = total,
                  ![q.row].status = StatusFor(total, q.copy.amount)]
            /\ HandOver(w)
       ELSE UNCHANGED <<rows, collected>>
    /\ Return(w)
    /\ UNCHANGED <<world, periods, due, calls, aborts, overlapped>>

\* The total and the status come from the row that was read; a column whose
\* value has not changed since is not written.  A row that is gone raises.
CommitPayment(w) ==
    LET q == req[w]  total == q.seen.paid + q.amount
        status == StatusFor(total, q.copy.amount) IN
    /\ pc[w] = "update"
    /\ IF Live(q.row)
       THEN /\ rows' = [rows EXCEPT
                  ![q.row].paid = IF q.amount = 0 THEN @ ELSE total,
                  ![q.row].status = IF status = q.seen.status THEN @ ELSE status]
            /\ HandOver(w)
       ELSE UNCHANGED <<rows, collected>>
    /\ Return(w)
    /\ UNCHANGED <<world, periods, due, calls, aborts, overlapped>>

\* The foreign key refuses the row of a period that is gone.
InsertPayment(w) ==
    LET q == req[w] IN
    /\ pc[w] = "insert"
    /\ IF Exists(q.period)
       THEN \E r \in Rows :
              /\ rows[r].status = "UNUSED"
              /\ rows' = [rows EXCEPT ![r] =
                     [period |-> q.period, servant |-> q.servant,
                      paid |-> q.amount,
                      status |-> StatusFor(q.amount, q.copy.amount)]]
              /\ HandOver(w)
       ELSE UNCHANGED <<rows, collected>>
    /\ Return(w)
    /\ UNCHANGED <<world, periods, due, calls, aborts, overlapped>>

-----------------------------------------------------------------------------
(***************************************************************************)
(* The control: the ordinary periods from the latest to the earliest.      *)
(***************************************************************************)

\* list_ordinaire_since: no period is too recent.
Listed == {c \in Periods : /\ Exists(c)
                           /\ periods[c].kind \in Ordinary
                           /\ periods[c].start + Window >= today}

BeginControl(w, s) ==
    /\ pc[w] = "idle"
    /\ Called
    /\ req' = [req EXCEPT ![w].servant = s, ![w].listed = Listed,
                          ![w].left = Listed]
    /\ Goto(w, "control")
    /\ UNCHANGED <<world, tables, aborts>>

Latest(S) == {c \in S : \A d \in S : periods[d].start <= periods[c].start}

\* The query reads one row, the first that comes.
PaidFor(c, s) == \E r \in RowsOf(c, s) : rows[r].status \in Paid
Missed(c, s)  == \/ RowsOf(c, s) = {}
                 \/ \E r \in RowsOf(c, s) : rows[r].status \notin Paid

Larger(m, n) == IF m >= n THEN m ELSE n

\* Mutation: a payment does not start the count again.
ReviewNoReset(w) ==
    LET q == req[w] IN
    /\ pc[w] = "control"
    /\ IF q.left = {}
       THEN Goto(w, "report") /\ UNCHANGED req
       ELSE \E c \in Latest(q.left) :
              /\ \/ /\ PaidFor(c, q.servant)
                    /\ req' = [req EXCEPT ![w].left = @ \ {c}]
                 \/ /\ Missed(c, q.servant)
                    /\ req' = [req EXCEPT ![w].left = @ \ {c},
                           ![w].gap = @ + 1,
                           ![w].longest = Larger(@, q.gap + 1)]
              /\ UNCHANGED pc
    /\ UNCHANGED <<world, tables, calls, aborts, overlapped>>

Review(w) ==
    LET q == req[w] IN
    /\ pc[w] = "control"
    /\ IF q.left = {}
       THEN Goto(w, "report") /\ UNCHANGED req
       ELSE \E c \in Latest(q.left) :
              /\ \/ /\ PaidFor(c, q.servant)
                    /\ req' = [req EXCEPT ![w].left = @ \ {c}, ![w].gap = 0]
                 \/ /\ Missed(c, q.servant)
                    /\ req' = [req EXCEPT ![w].left = @ \ {c},
                           ![w].gap = @ + 1,
                           ![w].longest = Larger(@, q.gap + 1)]
              /\ UNCHANGED pc
    /\ UNCHANGED <<world, tables, calls, aborts, overlapped>>

\* The parents are convened from here (Convocations).
Report(w) ==
    /\ pc[w] = "report"
    /\ Return(w)
    /\ UNCHANGED <<world, tables, calls, aborts, overlapped>>

NeedsConvocation(w) == pc[w] = "report" /\ req[w].longest >= 2

-----------------------------------------------------------------------------
(***************************************************************************)
(* What happens around it.                                                 *)
(***************************************************************************)
NextDay == /\ today < LastDay
           /\ today' = today + 1
           /\ UNCHANGED <<members, responsables, tables, pc, req, calls, aborts, overlapped>>

Join(s) == /\ s \notin members
           /\ members' = members \cup {s}
           /\ UNCHANGED <<today, responsables, tables, pc, req, calls, aborts, overlapped>>

Nominate(s) ==
    /\ s \in members \ responsables
    /\ responsables' = responsables \cup {s}
    /\ UNCHANGED <<today, members, tables, pc, req, calls, aborts, overlapped>>

\* A database error or a restart ends a request; what it has committed stays.
Abort(w) ==
    /\ pc[w] # "idle"
    /\ aborts < MaxAborts
    /\ aborts' = aborts + 1
    /\ Return(w)
    /\ UNCHANGED <<world, tables, calls, overlapped>>

-----------------------------------------------------------------------------
Init ==
    /\ today = 0
    /\ members \in SUBSET Servants
    /\ responsables = {}
    /\ periods = [c \in Periods |-> UnusedPeriod]
    /\ rows = [r \in Rows |-> UnusedRow]
    /\ collected = [c \in Periods |-> [s \in Servants |-> 0]]
    /\ due = [c \in Periods |-> {}]
    /\ pc = [w \in Workers |-> "idle"]
    /\ req = [w \in Workers |-> NoRequest]
    /\ calls = 0 /\ aborts = 0 /\ overlapped = FALSE

Arrive(w) ==
    \/ \E c \in Periods :
         \/ \E d \in Drafts : CreatePeriod(w, c, d)
         \/ \E amount \in Prices \cup {periods[c].amount},
               end \in Ends \cup {periods[c].end}, state \in {"active", "closed"} :
              UpdatePeriod(w, c, amount, end, state)
         \/ DeletePeriod(w, c)
         \/ \E s \in Servants, a \in Payments : BeginPay(w, c, s, a)
    \/ \E s \in Servants : BeginControl(w, s)

Serve(w) ==
    \/ ListServants(w) \/ LookupObligation(w) \/ InsertObligation(w)
    \/ CheckMode(w) \/ LookupPayment(w) \/ CommitPayment(w) \/ InsertPayment(w)
    \/ Review(w) \/ Report(w)

Environment ==
    \/ NextDay
    \/ \E s \in Servants : Join(s) \/ Nominate(s)
    \/ \E w \in Workers : Abort(w)

Next == Environment \/ \E w \in Workers : Arrive(w) \/ Serve(w)

Spec == Init /\ [][Next]_vars

-----------------------------------------------------------------------------
(***************************************************************************)
(* Properties that every interleaving keeps.                               *)
(***************************************************************************)

\* Every table, every request and every program counter holds values of its
\* type.
TypeOK ==
    /\ today \in Days
    /\ members \in SUBSET Servants /\ responsables \in SUBSET Servants
    /\ periods \in [Periods -> Period]
    /\ rows \in [Rows -> MemberCotisation]
    /\ collected \in [Periods -> [Servants -> Nat]]
    /\ due \in [Periods -> SUBSET Servants]
    /\ pc \in [Workers -> Places]
    /\ req \in [Workers -> Request]
    /\ calls \in 0..MaxCalls /\ aborts \in 0..MaxAborts
    /\ overlapped \in BOOLEAN

\* Article 22: whoever creates or changes it, a monthly or weekly period asks
\* for the amount of the rules.
FixedAmountKept ==
    \A c \in Periods : Exists(c) => PriceAllowed(periods[c].kind, periods[c].amount)

\* A payment writes a total that was computed earlier; it is never more than
\* what the servant has handed over for the period by then.
NothingInvented ==
    \A r \in Rows :
        Live(r) => rows[r].paid <= collected[rows[r].period][rows[r].servant]

\* An obligation that waits for its payment has received none, although the
\* status is not written when it did not change.
WaitingIsUnpaid ==
    \A r \in Rows : rows[r].status = "EN_ATTENTE" => rows[r].paid = 0

\* "Creee immediatement pour chacun": when its creation is over, and no request
\* has died, every servant whom a period is due by has a row, whoever paid while
\* it was running.
ObligationsCreated ==
    aborts > 0 \/ \A c \in Periods, s \in Servants :
        /\ s \in due[c]
        /\ \A w \in Workers :
              pc[w] \in {"listing", "lookup", "obligation"} => req[w].period # c
        => RowsOf(c, s) # {}

-----------------------------------------------------------------------------
(***************************************************************************)
(* Properties of requests that have not overlapped.                        *)
(***************************************************************************)

\* The books hold what servant s has handed over for period c, in one row.
Booked(c, s) ==
    \/ RowsOf(c, s) = {} /\ collected[c][s] = 0
    \/ \E r \in Rows : RowsOf(c, s) = {r} /\ rows[r].paid = collected[c][s]

\* "Le montant sera ajoute": whatever a servant hands over, in however many
\* payments, and whether an obligation waits for it, is in the books once.
NoPaymentLost == overlapped \/ \A c \in Periods, s \in Servants : Booked(c, s)

\* S is a run of missed periods of a control: none in between was paid.
\* Periods that start on the same day come in any order.
MissedRun(w, S, between(_, _)) ==
    /\ S \subseteq req[w].listed
    /\ \A c \in S : ~PaidFor(c, req[w].servant)
    /\ \A c, d \in S, e \in req[w].listed :
          between(periods[c].start, periods[e].start)
          /\ between(periods[e].start, periods[d].start)
          => ~PaidFor(e, req[w].servant)

\* What the control reports is the length of the longest run of missed
\* periods.
ReportIsLongestGap ==
    overlapped \/ \A w \in Workers : pc[w] = "report" =>
        /\ \E S \in SUBSET req[w].listed :
              /\ Cardinality(S) = req[w].longest
              /\ MissedRun(w, S, <)
        /\ \A S \in SUBSET req[w].listed :
              MissedRun(w, S, <=) => Cardinality(S) <= req[w].longest

\* Servant s has paid the other rhythm for days that c has too.
PaidOtherMode(c, s) ==
    \E d \in Periods :
        /\ collected[d][s] > 0
        /\ periods[d].kind \in DOMAIN FIXED_AMOUNTS \ {periods[c].kind}
        /\ \E day \in Days : /\ day \in periods[c].start .. periods[c].end
                             /\ day \in periods[d].start .. periods[d].end

\* "Impossible de cumuler mensuel et hebdomadaire sur la meme periode": no
\* payment is booked for a rhythm while the servant has paid the other one
\* for days they share.
AcceptsOneMode ==
    [][\A c \in Periods, s \in Servants :
           /\ collected'[c][s] > collected[c][s] /\ ~overlapped
           /\ periods[c].kind \in DOMAIN FIXED_AMOUNTS
           => ~PaidOtherMode(c, s)]_vars

-----------------------------------------------------------------------------
(***************************************************************************)
(* What the documentation says and the code does not do.                   *)
(***************************************************************************)

\* "Jamais les deux simultanement": the parents are not convened for periods
\* whose payment record_payment would refuse.
ConvenedCouldPay ==
    \A w \in Workers : NeedsConvocation(w) =>
        \E c \in req[w].listed :
            /\ ~PaidFor(c, req[w].servant)
            /\ Overlapping(req[w].servant, periods[c]) = {}
=============================================================================
