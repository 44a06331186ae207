------------------------------ MODULE RollCall -------------------------------
(***************************************************************************)
(* The roll call of a session: each mark of absence counts the absences of *)
(* the servant, warns him at the first threshold and, at the second,       *)
(* summons his parents.  The summons calls the convocations in the same    *)
(* request, so this module is composed with them: a worker whose place is  *)
(* "convened" is served by the actions of Convocations.                    *)
(***************************************************************************)
EXTENDS ConvocationTables, Sequences, TLC

CONSTANTS
    Sessions,     \* identifiers of sessions
    Marks,        \* bound: the statuses that a request gives
    WarnAt,       \* absences that warn the servant
    SummonAt,     \* absences that summon the parents
    AbsenceMotif, \* ABSENCES_REPETEES
    MaxCalls,     \* bound: requests of this module
    MaxFaults     \* bound: those that die, and notifications deleted

AttendanceStatus == {"PRESENT", "ABSENT", "LATE", "EXCUSED"}

ASSUME RollCallAssumption ==
    /\ IsFiniteSet(Workers) /\ IsFiniteSet(Sessions)
    /\ Managers \subseteq Accounts /\ None \notin Accounts \cup {SystemId}
    /\ None \notin Sessions \cup Servants
    /\ Marks \subseteq AttendanceStatus /\ AbsenceMotif \in Motifs
    /\ WarnAt \in Nat \ {0} /\ SummonAt \in Nat \ {0}
    /\ MaxAborts \in Nat /\ MaxCalls \in Nat /\ MaxFaults \in Nat

VARIABLES
    sessions,    \* table attendance_sessions: who conducts each session
    records,     \* table attendance_records: the rows of a session's servant
    warnings,    \* notifications AVERTISSEMENT_ABSENCE of each servant
    summons,     \* notifications CONVOCATION_PARENT of each servant
    at,          \* where each worker is
    job,         \* what each worker serves and what it has read
    calls,       \* requests of this module so far
    lost,        \* those that died
    cleanups,    \* notifications deleted so far
    rolled,      \* history: a roll call has marked somebody absent
    raced        \* history: two roll call requests were in flight together

marks   == <<sessions, records>>
notices == <<warnings, summons>>
history == <<lost, cleanups, rolled>>
own     == <<marks, notices, at, job, calls, history, raced>>
vars    == <<own, convocationVars>>

Parents == INSTANCE Convocations

-----------------------------------------------------------------------------
Places == {"idle", "lookup", "insert", "update", "refresh", "count", "warned",
           "summoned", "alert", "convened", "calling"}

Job == [session : Sessions \cup {None},
        servant : Servants \cup {None},
        status  : Marks \cup {None},
        copy    : Nat,                          \* which row of the servant
        own     : AttendanceStatus \cup {None}, \* that row, when it was read
        by      : Managers \cup {None},         \* who conducts the session
        total   : Nat,                          \* absent_count
        due     : SUBSET {"warn", "summon"},    \* what is still to send
        todo    : SUBSET Servants,              \* servants still to call
        absent  : SUBSET Servants]              \* servants to mark absent

NoJob == [session |-> None, servant |-> None, status |-> None, copy |-> 0,
          own |-> None, by |-> None, total |-> 0, due |-> {}, todo |-> {},
          absent |-> {}]

Goto(w, place) == at' = [at EXCEPT ![w] = place]
Begin(w, j, place) ==
    /\ at[w] = "idle" /\ pc[w] = "idle"
    /\ calls < MaxCalls
    /\ calls' = calls + 1
    /\ job' = [job EXCEPT ![w] = j]
    /\ Goto(w, place)
    /\ raced' = (raced \/ \E v \in Workers : at[v] # "idle")
    /\ UNCHANGED <<marks, notices, history, convocationVars>>

\* The handler returns or raises: its session and what it had read are gone.
Return(w) == /\ Goto(w, "idle")
             /\ job' = [job EXCEPT ![w] = NoJob]

Held(x) == sessions[x] # None

\* The rows of attendance_records that mark s absent, as <<session, copy>>.
Absences(s) ==
    UNION {{<<x, k>> : k \in {i \in DOMAIN records[x][s] :
                                  records[x][s][i] = "ABSENT"}} : x \in Sessions}

\* What a request that has read the row <<x, k>> sees of them: an object that
\* is already in its session is not read again.
Seen(s, row, status) ==
    (Absences(s) \ {row}) \cup (IF status = "ABSENT" THEN {row} ELSE {})

-----------------------------------------------------------------------------
CreateSession(x, by) ==
    /\ ~Held(x)
    /\ sessions' = [sessions EXCEPT ![x] = by]
    /\ UNCHANGED <<records, notices, at, job, calls, history, raced, convocationVars>>

(***************************************************************************)
(* Marking one servant, and changing a mark.                               *)
(***************************************************************************)
BeginMark(w, x, s, status) ==
    /\ Held(x)
    /\ Begin(w, [NoJob EXCEPT !.session = x, !.servant = s, !.status = status],
             "lookup")

\* Mutation: the record of the session is not looked up.
LookupRecordNever(w) ==
    /\ at[w] = "lookup"
    /\ Goto(w, "insert")
    /\ UNCHANGED <<marks, notices, job, calls, history, raced, convocationVars>>

\* A record of the servant, or two of them, end the request.
LookupRecord(w) ==
    /\ at[w] = "lookup"
    /\ IF records[job[w].session][job[w].servant] # <<>>
       THEN Return(w)
       ELSE Goto(w, "insert") /\ UNCHANGED job
    /\ UNCHANGED <<marks, notices, calls, history, raced, convocationVars>>

\* A mark of absence goes on to the thresholds; another mark answers.
Marked(w, x, s, k) ==
    IF job[w].status = "ABSENT"
    THEN /\ job' = [job EXCEPT ![w] = [NoJob EXCEPT
                !.session = x, !.servant = s, !.copy = k, !.by = sessions[x]]]
         /\ Goto(w, "refresh")
    ELSE Return(w)

InsertRecord(w) ==
    LET x == job[w].session  s == job[w].servant IN
    /\ at[w] = "insert"
    /\ records' = [records EXCEPT ![x][s] = Append(@, job[w].status)]
    /\ Marked(w, x, s, Len(records[x][s]) + 1)
    /\ UNCHANGED <<sessions, notices, calls, history, raced, convocationVars>>

BeginUpdate(w, x, s, k, status) ==
    /\ k \in DOMAIN records[x][s]
    /\ Begin(w, [NoJob EXCEPT !.session = x, !.servant = s, !.copy = k,
                              !.own = records[x][s][k], !.status = status],
             "update")

\* The status is written only when it differs from the one that was read.
CommitUpdate(w) ==
    LET j == job[w] IN
    /\ at[w] = "update"
    /\ records' = IF j.status = j.own THEN records
                  ELSE [records EXCEPT ![j.session][j.servant][j.copy] = j.status]
    /\ Marked(w, j.session, j.servant, j.copy)
    /\ UNCHANGED <<sessions, notices, calls, history, raced, convocationVars>>

\* The row is read back after its commit, with what others wrote meanwhile.
Refresh(w) ==
    LET j == job[w] IN
    /\ at[w] = "refresh"
    /\ job' = [job EXCEPT ![w].own = records[j.session][j.servant][j.copy]]
    /\ Goto(w, "count")
    /\ UNCHANGED <<marks, notices, calls, history, raced, convocationVars>>

-----------------------------------------------------------------------------
(***************************************************************************)
(* _handle_absence_thresholds.                                             *)
(***************************************************************************)
CountAbsences(w) ==
    LET j == job[w] IN
    /\ at[w] = "count"
    /\ job' = [job EXCEPT ![w] = [NoJob EXCEPT
           !.servant = j.servant, !.by = j.by,
           !.total = Cardinality(Seen(j.servant, <<j.session, j.copy>>, j.own))]]
    /\ Goto(w, "warned")
    /\ UNCHANGED <<marks, notices, calls, history, raced, convocationVars>>

\* Mutation: only the exact number of absences warns or summons.
DueExactly(alert, s, total) ==
    \/ alert = "warn" /\ total = WarnAt /\ warnings[s] = 0
    \/ alert = "summon" /\ total = SummonAt /\ summons[s] = 0

\* Mutation: what was sent earlier is not looked at.
DueAgain(alert, s, total) ==
    \/ alert = "warn" /\ total >= WarnAt
    \/ alert = "summon" /\ total >= SummonAt

\* An alert is due when its threshold is reached and no earlier notification of
\* its kind is stored.
Due(alert, s, total) ==
    \/ alert = "warn" /\ total >= WarnAt /\ warnings[s] = 0
    \/ alert = "summon" /\ total >= SummonAt /\ summons[s] = 0

\* The notifications are read one kind after the other.
LookupWarning(w) ==
    LET j == job[w] IN
    /\ at[w] = "warned"
    /\ job' = [job EXCEPT ![w].due = {a \in {"warn"} : Due(a, j.servant, j.total)}]
    /\ Goto(w, "summoned")
    /\ UNCHANGED <<marks, notices, calls, history, raced, convocationVars>>

LookupSummons(w) ==
    LET j == job[w]
        due == j.due \cup {a \in {"summon"} : Due(a, j.servant, j.total)}
    IN
    /\ at[w] = "summoned"
    /\ IF due = {}
       THEN Return(w)
       ELSE job' = [job EXCEPT ![w].due = due, ![w].total = 0] /\ Goto(w, "alert")
    /\ UNCHANGED <<marks, notices, calls, history, raced, convocationVars>>

Warn(w) ==
    LET j == job[w] IN
    /\ at[w] = "alert" /\ "warn" \in j.due
    /\ warnings' = [warnings EXCEPT ![j.servant] = @ + 1]
    /\ IF j.due = {"warn"}
       THEN Return(w)
       ELSE job' = [job EXCEPT ![w].due = {"summon"}] /\ UNCHANGED at
    /\ UNCHANGED <<marks, summons, calls, history, raced, convocationVars>>

\* Mutation: the notification is stored and nobody is convened.
SummonOnly(w) ==
    /\ at[w] = "alert" /\ job[w].due = {"summon"}
    /\ summons' = [summons EXCEPT ![job[w].servant] = @ + 1]
    /\ Return(w)
    /\ UNCHANGED <<marks, warnings, calls, history, raced, convocationVars>>

\* Mutation: the convocation is stored here, past create_if_not_pending.
SummonDirectly(w) ==
    LET j == job[w] IN
    /\ at[w] = "alert" /\ j.due = {"summon"}
    /\ summons' = [summons EXCEPT ![j.servant] = @ + 1]
    /\ \E c \in Rows :
         /\ convocations[c].status = "UNUSED"
         /\ convocations' = [convocations EXCEPT ![c] =
                [servant |-> j.servant, motif |-> AbsenceMotif,
                 status |-> "EN_ATTENTE", convenedBy |-> j.by,
                 honoredBy |-> None]]
    /\ Return(w)
    /\ UNCHANGED <<marks, warnings, calls, history, raced, overdue, active, pc, req,
                   aborts, overlapped>>

\* The notifications are committed, then create_if_not_pending is called with
\* the one who conducts the session.
Summon(w) ==
    LET j == job[w] IN
    /\ at[w] = "alert" /\ j.due = {"summon"}
    /\ summons' = [summons EXCEPT ![j.servant] = @ + 1]
    /\ Goto(w, "convened")
    /\ Parents!BeginConvene(w, j.servant, AbsenceMotif, j.by)
    /\ UNCHANGED <<marks, warnings, job, calls, history, raced>>

\* The convocation was stored, was not needed or failed; the error is swallowed.
Answer(w) ==
    /\ at[w] = "convened" /\ pc[w] = "idle"
    /\ Return(w)
    /\ UNCHANGED <<marks, notices, calls, history, raced, convocationVars>>

-----------------------------------------------------------------------------
(***************************************************************************)
(* init_roll_call: every active servant without a record is marked absent, *)
(* in one commit and without a look at the thresholds.                     *)
(***************************************************************************)
BeginRollCall(w, x) ==
    /\ Held(x)
    /\ Begin(w, [NoJob EXCEPT !.session = x, !.todo = active], "calling")

\* Two records of one servant raise, and nothing is stored.
CallServant(w) ==
    /\ at[w] = "calling"
    /\ \E s \in job[w].todo :
         LET rows == records[job[w].session][s] IN
         IF Len(rows) > 1
         THEN Return(w)
         ELSE /\ job' = [job EXCEPT ![w].todo = @ \ {s},
                           ![w].absent = IF rows = <<>> THEN @ \cup {s} ELSE @]
              /\ UNCHANGED at
    /\ UNCHANGED <<marks, notices, calls, history, raced, convocationVars>>

CommitRollCall(w) ==
    LET j == job[w] IN
    /\ at[w] = "calling" /\ j.todo = {}
    /\ records' = [records EXCEPT ![j.session] =
           [s \in Servants |-> IF s \in j.absent THEN Append(@[s], "ABSENT")
                                                 ELSE @[s]]]
    /\ rolled' = (rolled \/ j.absent # {})
    /\ Return(w)
    /\ UNCHANGED <<sessions, notices, calls, lost, cleanups, raced, convocationVars>>

-----------------------------------------------------------------------------
(***************************************************************************)
(* What happens around it.                                                 *)
(***************************************************************************)

\* The nightly task deletes a notification that was read a month ago.
Cleanup(s) ==
    /\ lost + cleanups < MaxFaults
    /\ cleanups' = cleanups + 1
    /\ \/ /\ warnings[s] > 0
          /\ warnings' = [warnings EXCEPT ![s] = @ - 1] /\ UNCHANGED summons
       \/ /\ summons[s] > 0
          /\ summons' = [summons EXCEPT ![s] = @ - 1] /\ UNCHANGED warnings
    /\ UNCHANGED <<marks, at, job, calls, lost, rolled, raced, convocationVars>>

\* A database error or a restart ends a request; what it has committed stays.
\* (One that convenes dies as a process of Convocations.)
Lose(w) ==
    /\ at[w] \notin {"idle", "convened"}
    /\ lost + cleanups < MaxFaults
    /\ lost' = lost + 1
    /\ Return(w)
    /\ UNCHANGED <<marks, notices, calls, cleanups, rolled, raced, convocationVars>>

\* The convocations go on: their own requests, on workers that are free, the
\* daily task, and the requests of this module that convene.
Convocations ==
    /\ \/ Parents!Environment
       \/ \E w \in Workers : at[w] = "idle" /\ Parents!Arrive(w)
       \/ \E t \in Tasks : Parents!BeginExpire(t)
       \/ \E p \in Workers \cup Tasks : Parents!Serve(p)
    /\ UNCHANGED own

-----------------------------------------------------------------------------
Init ==
    /\ sessions = [x \in Sessions |-> None]
    /\ records = [x \in Sessions |-> [s \in Servants |-> <<>>]]
    /\ warnings = [s \in Servants |-> 0]
    /\ summons = [s \in Servants |-> 0]
    /\ at = [w \in Workers |-> "idle"]
    /\ job = [w \in Workers |-> NoJob]
    /\ calls = 0 /\ lost = 0 /\ cleanups = 0
    /\ rolled = FALSE /\ raced = FALSE
    /\ Parents!Init

Arrive(w) ==
    \/ \E x \in Sessions, s \in Servants, status \in Marks :
          \/ BeginMark(w, x, s, status)
          \/ \E k \in DOMAIN records[x][s] : BeginUpdate(w, x, s, k, status)
    \/ \E x \in Sessions : BeginRollCall(w, x)

Serve(w) ==
    \/ LookupRecord(w) \/ InsertRecord(w)
    \/ CommitUpdate(w) \/ Refresh(w)
    \/ CountAbsences(w) \/ LookupWarning(w) \/ LookupSummons(w)
    \/ Warn(w) \/ Summon(w) \/ Answer(w)
    \/ CallServant(w) \/ CommitRollCall(w)

Environment ==
    \/ \E x \in Sessions, by \in Managers : CreateSession(x, by)
    \/ \E s \in Servants : Cleanup(s)
    \/ \E w \in Workers : Lose(w)
    \/ Convocations

Next == Environment \/ \E w \in Workers : Arrive(w) \/ Serve(w)

Spec == Init /\ [][Next]_vars

-----------------------------------------------------------------------------
(***************************************************************************)
(* Properties that every interleaving keeps.                               *)
(***************************************************************************)

\* Every table, every job and every place holds values of its type.
TypeOK ==
    /\ sessions \in [Sessions -> Managers \cup {None}]
    /\ records \in [Sessions -> [Servants -> Seq(AttendanceStatus)]]
    /\ warnings \in [Servants -> Nat] /\ summons \in [Servants -> Nat]
    /\ at \in [Workers -> Places]
    /\ job \in [Workers -> Job]
    /\ calls \in 0..MaxCalls
    /\ lost \in 0..MaxFaults /\ cleanups \in 0..MaxFaults
    /\ rolled \in BOOLEAN /\ raced \in BOOLEAN

\* A roll call drives the convocations only through create_if_not_pending: what
\* they promise holds of the two together.
ImplementsConvocations == Parents!Spec

\* The requests that found servant s without a record of session x, and insert
\* one whatever happens meanwhile.
FoundNoRecord(x, s) ==
    {w \in Workers : /\ job[w].session = x
                     /\ \/ at[w] = "insert" /\ job[w].servant = s
                        \/ at[w] = "calling" /\ s \in job[w].absent}

\* No constraint of the table stops a second record of a servant in a session,
\* but a race cannot leave more of them than there are requests in flight.
RecordsBounded ==
    \A x \in Sessions, s \in Servants :
        Len(records[x][s]) + Cardinality(FoundNoRecord(x, s))
            <= Cardinality(Workers)

\* Nobody who handles an absence of s has still to send his alerts.
Settled(s) ==
    \A w \in Workers : job[w].servant = s =>
        at[w] \in {"idle", "lookup", "insert", "update"}

\* "Meme si le compteur saute la valeur exacte": marks that arrive together do
\* not both miss the threshold they reach together.  No request has died, no
\* notification was deleted, and the absences were marked one by one.
NoMissedAlert ==
    lost = 0 /\ cleanups = 0 /\ ~rolled =>
        \A s \in Servants : Settled(s) =>
            /\ Cardinality(Absences(s)) >= WarnAt => warnings[s] > 0
            /\ Cardinality(Absences(s)) >= SummonAt => summons[s] > 0

\* A servant who was told that his parents are summoned has a convocation on
\* record, with its deadline, as soon as the request has gone on.
SummonsOnRecord ==
    aborts = 0 =>
        \A s \in Servants :
            /\ summons[s] > 0
            /\ \A w \in Workers : at[w] = "convened" => job[w].servant # s
            => \E c \in Rows : /\ convocations[c].status # "UNUSED"
                               /\ convocations[c].servant = s
                               /\ convocations[c].motif = AbsenceMotif

-----------------------------------------------------------------------------
(***************************************************************************)
(* Properties of requests that have not overlapped.                        *)
(***************************************************************************)

\* "Idempotence : ces seuils ne doivent se declencher qu'une seule fois par
\* servant": each alert is stored once, until one is deleted.
AlertsOnce ==
    ~raced /\ cleanups = 0 =>
        \A s \in Servants : warnings[s] <= 1 /\ summons[s] <= 1

\* For TLC: requests and sessions are interchangeable.
Symmetry == Permutations(Workers) \cup Permutations(Sessions)
=============================================================================
