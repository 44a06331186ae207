-------------------------- MODULE FinancialEntries ---------------------------
(***************************************************************************)
(* The books of the commissaire aux comptes: entries that are verified,    *)
(* statistics that are four queries one after the other, and discrepancies, *)
(* whose table no migration creates under the name the entity has.         *)
(***************************************************************************)
EXTENDS Requests, Sequences

CONSTANTS
    Entries,    \* rows of financial_entries
    Sums        \* amounts; all positive (CHECK amount > 0)

VARIABLES
    entries,    \* table financial_entries
    stated,     \* per entry, the sum under which it was last verified, or None
    crossed,    \* history: entries two requests were changing at the same time
    moved,      \* history: statistics under whose queries the books moved
    figures,    \* the statistics that were answered last
    failed      \* history: what ended in an error for want of a table

bookVars == <<entries, stated, crossed, moved, figures, failed>>

-----------------------------------------------------------------------------
VerificationStatus == {"EN_ATTENTE", "VERIFIE", "REJETE"}
Entry == [amount : Sums, status : VerificationStatus]

\* The tables of migration 006 and the one that the Discrepancy entity reads.
MigratedTables   == {"financial_entries", "discrepancies"}
DiscrepancyTable == "financial_discrepancies"

\* The books move under every statistics that is being computed.
Counting(w) == pc[w] = "counting"
Move == moved' = moved \cup {w \in Workers : Counting(w)}

CreateEntry(e, m) ==
    /\ entries[e] = None
    /\ entries' = [entries EXCEPT ![e] = [amount |-> m, status |-> "EN_ATTENTE"]]
    /\ Move
    /\ UNCHANGED <<stated, crossed, figures, failed, flights>>

\* Mutation: the status is looked at no more when an entry is changed.
ReadEntryAnyway(w, e, op, status, amount) ==
    /\ Exists(entries[e])
    /\ Begin(w, [op |-> op, entry |-> e, read |-> entries[e],
                 status |-> status, amount |-> amount], "changing")
    /\ UNCHANGED bookVars

\* A request reads its entry; a verified one is neither changed nor deleted.
ReadEntry(w, e, op, status, amount) ==
    /\ Exists(entries[e])
    /\ op # "verify" => entries[e].status # "VERIFIE"
    /\ Begin(w, [op |-> op, entry |-> e, read |-> entries[e],
                 status |-> status, amount |-> amount], "changing")
    /\ UNCHANGED bookVars

UpdateEntry(w, e, m) == ReadEntry(w, e, "update", None, m)
DeleteEntry(w, e)    == ReadEntry(w, e, "delete", None, None)

\* Any status may be given to an entry, whatever the one it has.
VerifyEntry(w, e, status) == ReadEntry(w, e, "verify", status, None)

Changed(r) == [amount |-> IF r.amount = None THEN r.read.amount ELSE r.amount,
               status |-> IF r.status = None THEN r.read.status ELSE r.status]

\* Another request has read the entry that one of them is committing.
Meet(w, e) == crossed' = IF Alongside(w, "entry", e) THEN crossed \cup {e} ELSE crossed

CommitEntry(w) ==
    LET r == req[w]  e == r.entry IN
    /\ pc[w] = "changing" /\ r.op # "delete" /\ Exists(entries[e])
    /\ entries' = [entries EXCEPT ![e] = Flush(@, r.read, Changed(r))]
    /\ stated' = IF r.op = "update" THEN stated
                 ELSE [stated EXCEPT ![e] = IF r.status = "VERIFIE" THEN r.read.amount ELSE None]
    /\ Move /\ Meet(w, e)
    /\ Return(w)
    /\ UNCHANGED <<figures, failed>>

RemoveEntry(w) ==
    LET e == req[w].entry IN
    /\ pc[w] = "changing" /\ req[w].op = "delete" /\ Exists(entries[e])
    /\ entries' = [entries EXCEPT ![e] = Gone]
    /\ Move /\ Meet(w, e)
    /\ Return(w)
    /\ UNCHANGED <<stated, figures, failed>>

EntryIsGone(w) ==
    /\ pc[w] = "changing" /\ ~Exists(entries[req[w].entry])
    /\ Return(w)
    /\ UNCHANGED bookVars

-----------------------------------------------------------------------------
\* Mutation: the rejected entries are counted among those that wait.
QueriesTwice == <<VerificationStatus, {"VERIFIE"}, {"EN_ATTENTE", "REJETE"}, {"REJETE"}>>

\* The statistics count all entries, then those of each status in turn.
Queries == <<VerificationStatus, {"VERIFIE"}, {"EN_ATTENTE"}, {"REJETE"}>>
Count(statuses) ==
    Cardinality({e \in Entries : Exists(entries[e]) /\ entries[e].status \in statuses})

AskFigures(w, op) ==
    /\ Begin(w, [op |-> op, got |-> <<>>], "counting")
    /\ moved' = moved \ {w}
    /\ UNCHANGED <<entries, stated, crossed, figures, failed>>

Query(w) ==
    LET got == req[w].got IN
    /\ Counting(w) /\ Len(got) < Len(Queries)
    /\ Continue(w, [req[w] EXCEPT !.got = Append(got, Count(Queries[Len(got) + 1]))],
                "counting")
    /\ UNCHANGED bookVars

\* The audit report goes on to list the discrepancies that are not resolved.
AnswerFigures(w) ==
    LET r == req[w] IN
    /\ Counting(w) /\ Len(r.got) = Len(Queries)
    /\ IF r.op = "audit" /\ DiscrepancyTable \notin MigratedTables
       THEN failed' = failed \cup {"audit"} /\ UNCHANGED figures
       ELSE /\ figures' = [got |-> r.got, moved |-> w \in moved]
            /\ UNCHANGED failed
    /\ Return(w)
    /\ UNCHANGED <<entries, stated, crossed, moved>>

\* Every statement on the table that there is not is an error.
Fail(request) ==
    /\ DiscrepancyTable \notin MigratedTables
    /\ failed' = failed \cup {request}
    /\ UNCHANGED <<entries, stated, crossed, moved, figures, flights>>

CreateDiscrepancy(e) == Exists(entries[e]) /\ Fail("discrepancy")

\* A discrepancy is looked for, to be listed, resolved or deleted.
DiscrepancyDesk == Fail("discrepancies")

AbortEntry(w) == Die(w) /\ UNCHANGED bookVars

-----------------------------------------------------------------------------
Init ==
    /\ entries = [e \in Entries |-> None]
    /\ stated = [e \in Entries |-> None]
    /\ crossed = {} /\ moved = {} /\ failed = {}
    /\ figures = [got |-> <<0, 0, 0, 0>>, moved |-> FALSE]
    /\ InitFlights

Commissaire(e) == (\E m \in Sums : CreateEntry(e, m)) \/ CreateDiscrepancy(e)

EntryRequest(w, e) ==
    \/ \E m \in Sums : UpdateEntry(w, e, m)
    \/ DeleteEntry(w, e)
    \/ \E s \in VerificationStatus : VerifyEntry(w, e, s)

ServeEntry(w) ==
    \/ CommitEntry(w) \/ RemoveEntry(w) \/ EntryIsGone(w)
    \/ Query(w) \/ AnswerFigures(w) \/ AbortEntry(w)

Next == \/ \E e \in Entries : \/ Commissaire(e)
                              \/ \E w \in Workers : EntryRequest(w, e)
        \/ DiscrepancyDesk
        \/ \E w \in Workers : \/ \E op \in {"stats", "audit"} : AskFigures(w, op)
                              \/ ServeEntry(w)

Spec == Init /\ [][Next]_<<bookVars, flights>>

-----------------------------------------------------------------------------
TypeOK ==
    /\ entries \in [Entries -> Entry \cup {None, Gone}]
    /\ stated \in [Entries -> Sums \cup {None}]
    /\ crossed \subseteq Entries /\ moved \subseteq Workers
    /\ figures \in [got : Seq(Nat), moved : BOOLEAN] /\ Len(figures.got) = Len(Queries)
    /\ failed \subseteq {"audit", "discrepancy", "discrepancies"}
    /\ FlightsOK

\* An entry that was verified is still there, verified, under the sum that the
\* commissaire had read, until it is verified otherwise, or unless a change had
\* read it before: the rule is looked at before the commit.
VerifiedStands ==
    \A e \in Entries : stated[e] # None /\ e \notin crossed =>
        entries[e] = [amount |-> stated[e], status |-> "VERIFIE"]

\* The statistics that are answered add up, unless the books moved between
\* their queries, which are not one transaction's snapshot.
FiguresAddUp ==
    LET got == figures.got IN figures.moved \/ got[1] = got[2] + got[3] + got[4]

\* What a request carries: an entry that nobody else has changed since it was read,
\* unless they have met, and that was not verified when it is to be changed.
Changing(w) ==
    LET r == req[w] IN
    /\ pc[w] = "changing"
    /\ \/ r \in [op : {"verify"}, entry : Entries, read : Entry,
                 status : VerificationStatus, amount : {None}]
       \/ /\ r \in [op : {"update", "delete"}, entry : Entries, read : Entry,
                    status : {None}, amount : Sums \cup {None}]
          /\ r.read.status # "VERIFIE"
    /\ entries[r.entry] = r.read \/ r.entry \in crossed

\* The figures so far are those of the books, unless they have moved.
Counted(w) ==
    LET r == req[w] IN
    /\ pc[w] = "counting"
    /\ r \in [op : {"stats", "audit"}, got : Seq(Nat)]
    /\ Len(r.got) <= Len(Queries)
    /\ w \in moved \/ \A i \in 1 .. Len(r.got) : r.got[i] = Count(Queries[i])

Sound(w) == pc[w] = "idle" \/ Changing(w) \/ Counted(w)

Inv == TypeOK /\ VerifiedStands /\ FiguresAddUp /\ \A w \in Workers : Sound(w)

\* As the route has it, the commissaire gets his audit report.
AuditsAnswered == "audit" \notin failed
=============================================================================
