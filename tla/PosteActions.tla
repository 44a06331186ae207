---------------------------- MODULE PosteActions -----------------------------
(***************************************************************************)
(* The actions of the postes: what a responsable writes down, and the      *)
(* expenses, which wait for the approval of the Aumonier.                  *)
(***************************************************************************)
EXTENDS Requests

CONSTANTS
    Actions,    \* rows of poste_actions
    Servants,   \* accounts that may hold a poste
    Clergy,     \* the Aumonier and the Admin
    Amounts     \* sums of money

VARIABLES
    acts,       \* table poste_actions
    holders,    \* table nominations: who holds which poste
    agreed,     \* history: per action, who approved it and what he had read
    passed,     \* history: actions two approvals met at
    edited,     \* history: those their creator has changed
    reworked    \* history: those he has changed after an approver had read them

actVars == <<acts, holders, agreed, passed, edited, reworked>>

-----------------------------------------------------------------------------
\* Two of the postes, and the categories of action allowed to each; AUTRE
\* is any but DEPENSE.
Postes     == {"ECONOME", "CENSEUR"}
Categories == {"DEPENSE", "AUTRE"}
POSTE_ALLOWED_CATEGORIES ==
    [ECONOME |-> {"DEPENSE", "AUTRE"}, CENSEUR |-> {"AUTRE"}]

ActionStatus == {"BROUILLON", "PUBLIE"}

Act == [poste : Postes, category : Categories, amount : Amounts,
        status : ActionStatus, by : Servants \cup Clergy,
        approved : Clergy \cup {None}]

\* The Admin and the Aumonier write for every poste, a servant for his own.
MayWrite(u, p) == u \in Clergy \/ <<u, p>> \in holders

-----------------------------------------------------------------------------
\* Nominations and their end, as the module Nominations has them.
Nominate(u, p) ==
    /\ ~\E h \in holders : h[1] = u \/ h[2] = p
    /\ holders' = holders \cup {<<u, p>>}
    /\ UNCHANGED <<acts, agreed, passed, edited, reworked, flights>>

Revoke(u, p) ==
    /\ <<u, p>> \in holders
    /\ holders' = holders \ {<<u, p>>}
    /\ UNCHANGED <<acts, agreed, passed, edited, reworked, flights>>

-----------------------------------------------------------------------------
\* A request to a poste waits for the look at the nominations first; a is the
\* action it is about, whatever poste that is of: a new one or one there was.
Ask(w, u, p, a, op, status, amount) ==
    /\ op = "create" <=> acts[a] = None
    /\ Begin(w, [op |-> op, by |-> u, poste |-> p, act |-> a, read |-> None,
                 status |-> status, amount |-> amount], "entering")
    /\ UNCHANGED actVars

\* Approvals are for the Aumonier and the Admin, whose role is at hand.
AskApproval(w, u, a) ==
    /\ u \in Clergy /\ acts[a] # None
    /\ Begin(w, [op |-> "approve", by |-> u, poste |-> None, act |-> a, read |-> None,
                 status |-> "PUBLIE", amount |-> None], "reading")
    /\ UNCHANGED actVars

Enter(w) ==
    LET r == req[w] IN
    /\ pc[w] = "entering"
    /\ IF ~MayWrite(r.by, r.poste) THEN Return(w)
       ELSE IF r.op = "create" THEN Continue(w, r, "writing")
       ELSE Continue(w, [r EXCEPT !.poste = None], "reading")
    /\ UNCHANGED actVars

\* Mutation: an expense is stored under the status asked for.
CreateActionAsAsked(w, category) ==
    LET r == req[w] IN
    /\ pc[w] = "writing"
    /\ category \in POSTE_ALLOWED_CATEGORIES[r.poste]
    /\ acts[r.act] = None
    /\ acts' = [acts EXCEPT ![r.act] =
          [poste |-> r.poste, category |-> category, amount |-> r.amount,
           status |-> r.status, by |-> r.by, approved |-> None]]
    /\ Return(w)
    /\ UNCHANGED <<holders, agreed, passed, edited, reworked>>

\* An expense is a draft, whatever status the request asks for.
CreateAction(w, category) ==
    LET r == req[w] IN
    /\ pc[w] = "writing"
    /\ category \in POSTE_ALLOWED_CATEGORIES[r.poste]
    /\ acts[r.act] = None
    /\ acts' = [acts EXCEPT ![r.act] =
          [poste |-> r.poste, category |-> category, amount |-> r.amount,
           status |-> IF category = "DEPENSE" THEN "BROUILLON" ELSE r.status,
           by |-> r.by, approved |-> None]]
    /\ Return(w)
    /\ UNCHANGED <<holders, agreed, passed, edited, reworked>>

\* Mutation: an expense that is approved is approved again.
PermittedAgain(r, row) ==
    IF r.op = "approve" THEN row.category = "DEPENSE" ELSE row.by = r.by

\* Its creator alone changes or deletes an action; an expense alone is
\* approved, once.
Permitted(r, row) ==
    IF r.op = "approve" THEN row.category = "DEPENSE" /\ row.approved = None
                        ELSE row.by = r.by

ReadAction(w) ==
    LET r == req[w]  row == acts[r.act] IN
    /\ pc[w] = "reading"
    /\ IF Exists(row) /\ Permitted(r, row)
       THEN Continue(w, [r EXCEPT !.read = row], "changing")
       ELSE Return(w)
    /\ UNCHANGED actVars

\* The object as it was read and then changed: an update sets what it brings,
\* an approval publishes the expense whatever has become of it.
Changed(r) ==
    [r.read EXCEPT !.status   = IF r.status = None THEN @ ELSE r.status,
                   !.amount   = IF r.amount = None THEN @ ELSE r.amount,
                   !.approved = IF r.op = "approve" THEN r.by ELSE @]

\* An approval that has read the action and not committed yet.
Approving(w, a) == pc[w] = "changing" /\ req[w].op = "approve" /\ req[w].act = a

CommitAction(w) ==
    LET r == req[w]  a == r.act IN
    /\ pc[w] = "changing" /\ r.op # "delete" /\ Exists(acts[a])
    /\ acts' = [acts EXCEPT ![a] = Flush(@, r.read, Changed(r))]
    /\ IF r.op = "approve"
       THEN /\ agreed' = [agreed EXCEPT ![a] = @ \cup {<<r.by, r.read.amount>>}]
            /\ passed' = IF \E v \in Workers \ {w} : Approving(v, a)
                         THEN passed \cup {a} ELSE passed
            /\ UNCHANGED <<edited, reworked>>
       ELSE /\ edited' = edited \cup {a}
            /\ reworked' = IF \/ acts[a].approved # None
                              \/ \E v \in Workers \ {w} : Approving(v, a)
                           THEN reworked \cup {a} ELSE reworked
            /\ UNCHANGED <<agreed, passed>>
    /\ Return(w)
    /\ UNCHANGED holders

DeleteAction(w) ==
    LET r == req[w] IN
    /\ pc[w] = "changing" /\ r.op = "delete" /\ Exists(acts[r.act])
    /\ acts' = [acts EXCEPT ![r.act] = Gone]
    /\ Return(w)
    /\ UNCHANGED <<holders, agreed, passed, edited, reworked>>

\* The second look finds no row: an error, after which nothing has changed.
ActionIsGone(w) ==
    /\ pc[w] = "changing" /\ ~Exists(acts[req[w].act])
    /\ Return(w)
    /\ UNCHANGED actVars

AbortAction(w) == Die(w) /\ UNCHANGED actVars

-----------------------------------------------------------------------------
Init ==
    /\ acts = [a \in Actions |-> None]
    /\ holders = {}
    /\ agreed = [a \in Actions |-> {}]
    /\ passed = {} /\ edited = {} /\ reworked = {}
    /\ InitFlights

Council == \E u \in Servants, p \in Postes : Nominate(u, p) \/ Revoke(u, p)

ActionRequest(w, u, p, a) ==
    \/ \E m \in Amounts : Ask(w, u, p, a, "create", "PUBLIE", m)
    \/ \E s \in {None, "PUBLIE"}, m \in Amounts \cup {None} :
          Ask(w, u, p, a, "update", s, m)

DeletionRequest(w, u, p, a) == Ask(w, u, p, a, "delete", None, None)

ServeAction(w) ==
    \/ Enter(w) \/ ReadAction(w)
    \/ \E c \in Categories : CreateAction(w, c)
    \/ CommitAction(w) \/ DeleteAction(w) \/ ActionIsGone(w) \/ AbortAction(w)

Next == \/ Council
        \/ \E w \in Workers, u \in Servants \cup Clergy, a \in Actions :
              \/ \E p \in Postes : ActionRequest(w, u, p, a) \/ DeletionRequest(w, u, p, a)
              \/ AskApproval(w, u, a)
        \/ \E w \in Workers : ServeAction(w)

Spec == Init /\ [][Next]_<<actVars, flights>>

-----------------------------------------------------------------------------
TypeOK ==
    /\ acts \in [Actions -> Act \cup {None, Gone}]
    /\ holders \subseteq Servants \X Postes
    /\ agreed \in [Actions -> SUBSET (Clergy \X Amounts)]
    /\ passed \subseteq Actions /\ edited \subseteq Actions
    /\ reworked \subseteq edited
    /\ FlightsOK

Published(a) == Exists(acts[a]) /\ acts[a].status = "PUBLIE"

\* An expense is public with an approval, or because its own creator has
\* changed it: the creation never publishes one.
ExpensesWait ==
    \A a \in Actions :
        Published(a) /\ acts[a].category = "DEPENSE" =>
            acts[a].approved # None \/ a \in edited

\* Two approvals of one expense are both answered only if they met, and an
\* approved expense holds the sum that the approver it names has read, unless
\* its creator committed a change after that.
ApprovalStands ==
    \A a \in Actions :
        /\ Cardinality(agreed[a]) > 1 => a \in passed
        /\ Exists(acts[a]) /\ acts[a].approved # None =>
              <<acts[a].approved, acts[a].amount>> \in agreed[a] \/ a \in reworked

\* A request to a poste asks for a new action, or about one there may be.
Asking(w) ==
    LET r == req[w] IN
    \/ /\ pc[w] = "entering"
       /\ r \in [op : {"create"}, by : Servants \cup Clergy, poste : Postes, act : Actions,
                 read : {None}, status : {"PUBLIE"}, amount : Amounts]
    \/ /\ pc[w] = "entering"
       /\ r \in [op : {"update", "delete"}, by : Servants \cup Clergy, poste : Postes,
                 act : Actions, read : {None}, status : {None, "PUBLIE"},
                 amount : Amounts \cup {None}]
    \/ /\ pc[w] = "writing"
       /\ r \in [op : {"create"}, by : Servants \cup Clergy, poste : Postes, act : Actions,
                 read : {None}, status : {"PUBLIE"}, amount : Amounts]

\* An update or a deletion, of which nothing else is to be known: what it has
\* read, an approval of the action included, is written back only when changed.
Revising(w) ==
    LET r == req[w] IN
    /\ pc[w] \in {"reading", "changing"}
    /\ r \in [op : {"update", "delete"}, by : Servants \cup Clergy, poste : {None},
              act : Actions, read : Act \cup {None}, status : {None, "PUBLIE"},
              amount : Amounts \cup {None}]
    /\ pc[w] = "changing" => r.read \in Act

\* An approver that has read the action was the first, or meets the one that was;
\* the sum is as he has read it, unless its creator has changed it since.
Agreeing(w) ==
    LET r == req[w] IN
    /\ pc[w] \in {"reading", "changing"}
    /\ r \in [op : {"approve"}, by : Clergy, poste : {None}, act : Actions,
              read : Act \cup {None}, status : {"PUBLIE"}, amount : {None}]
    /\ pc[w] = "changing" =>
          /\ r.read \in Act /\ r.read.approved = None /\ acts[r.act] # None
          /\ agreed[r.act] = {} \/ r.act \in passed \/ ~Exists(acts[r.act])
          /\ \/ r.act \in reworked \/ ~Exists(acts[r.act])
             \/ acts[r.act].amount = r.read.amount

Sound(w) == pc[w] = "idle" \/ Asking(w) \/ Revising(w) \/ Agreeing(w)

\* Nobody has approved what is not written yet or has no approval.
FirstApproval ==
    \A a \in Actions :
        acts[a] = None \/ (Exists(acts[a]) /\ acts[a].approved = None) => agreed[a] = {}

Inv == /\ TypeOK /\ ExpensesWait /\ ApprovalStands /\ FirstApproval
       /\ \A w \in Workers : Sound(w)

\* As the comments have it: an expense is public only once it is approved.
ExpensesApproved ==
    \A a \in Actions :
        Published(a) /\ acts[a].category = "DEPENSE" => acts[a].approved # None
=============================================================================
