----------------------------- MODULE Attendances ------------------------------
(***************************************************************************)
(* The attendance records of the servants: one for each servant, date and  *)
(* type, looked for before it is inserted, one by one or for a whole roll. *)
(* The entries of a roll share a session: an insert that fails leaves it   *)
(* unusable, and the error is caught for each entry.                       *)
(***************************************************************************)
EXTENDS Requests

CONSTANTS
    Records,    \* rows of attendances
    Servants,   \* accounts
    Days,       \* bound: pairs of a date and a type
    Notes       \* bound: justifications

VARIABLES
    attendances,    \* table attendances
    present,        \* accounts that exist
    met,            \* history: servants two requests have met on
    given           \* history: the justification last given for a record

attendanceTables  == <<attendances, present>>
attendanceHistory == <<met, given>>

-----------------------------------------------------------------------------
\* ABSENT, ABSENT_JUSTIFIE and any other.
AttendanceStatus == {"ABSENT", "ABSENT_JUSTIFIE", "OTHER"}
Attendance == [user : Servants, day : Days, status : AttendanceStatus,
               note : Notes \cup {None}]

RecordsOf(u, d) == {a \in Records : Exists(attendances[a]) /\ attendances[a].user = u
                                                           /\ attendances[a].day = d}

Meet(w, u) == met' = IF Alongside(w, "user", u) THEN met \cup {u} ELSE met

-----------------------------------------------------------------------------
\* One record, or the entries of a roll.
Record(w, batch, users, d, status, note) ==
    /\ batch \/ Cardinality(users) = 1
    /\ Begin(w, [op |-> IF batch THEN "batch" ELSE "one", user |-> None, todo |-> users,
                 day |-> d, status |-> status, note |-> note], "looking")
    /\ UNCHANGED <<attendanceTables, attendanceHistory>>

\* After an entry: the next one of a roll, or the answer.
NextEntry(w) ==
    IF req[w].op = "batch" /\ req[w].todo # {}
    THEN Continue(w, [req[w] EXCEPT !.user = None], "looking")
    ELSE Return(w)

\* Mutation: what is there is looked for under the last entry.
LookOnce(w) ==
    LET r == req[w] IN
    /\ pc[w] = "looking"
    /\ \E u \in r.todo :
          LET rest == [r EXCEPT !.todo = @ \ {u}, !.user = u] IN
          IF u \in present
          THEN Continue(w, rest, "inserting")
          ELSE IF rest.todo # {} THEN Continue(w, [rest EXCEPT !.user = None], "looking")
               ELSE Return(w)
    /\ UNCHANGED <<attendanceTables, attendanceHistory>>

\* Whoever does not exist or is recorded already is refused, or passed over.
LookForRecord(w) ==
    LET r == req[w] IN
    /\ pc[w] = "looking"
    /\ \E u \in r.todo :
          LET rest == [r EXCEPT !.todo = @ \ {u}, !.user = u] IN
          IF u \in present /\ RecordsOf(u, r.day) = {}
          THEN Continue(w, rest, "inserting")
          ELSE IF rest.todo # {} THEN Continue(w, [rest EXCEPT !.user = None], "looking")
               ELSE Return(w)
    /\ UNCHANGED <<attendanceTables, attendanceHistory>>

\* A status ABSENT stays ABSENT here, even with a justification.
InsertRecord(w) ==
    LET r == req[w] IN
    /\ pc[w] = "inserting" /\ r.user \in present
    /\ \E a \in Records :
          /\ attendances[a] = None
          /\ attendances' = [attendances EXCEPT ![a] =
                [user |-> r.user, day |-> r.day, status |-> r.status, note |-> r.note]]
          /\ given' = [given EXCEPT ![a] = r.note]
    /\ Meet(w, r.user)
    /\ NextEntry(w)
    /\ UNCHANGED present

\* The foreign key refuses it: the entries of a roll after it fail with it.
InsertFails(w) ==
    /\ pc[w] = "inserting" /\ req[w].user \notin present
    /\ Return(w)
    /\ UNCHANGED <<attendanceTables, attendanceHistory>>

-----------------------------------------------------------------------------
\* A justification turns ABSENT into ABSENT_JUSTIFIE, on the status as it was
\* read or as it is given.
UpdateAttendance(w, a, status, note) ==
    /\ Exists(attendances[a])
    /\ LET read == attendances[a]
           set  == IF status = None THEN read.status ELSE status
           new  == [read EXCEPT !.note = IF note = None THEN @ ELSE note,
                                !.status = IF note # None /\ set = "ABSENT"
                                           THEN "ABSENT_JUSTIFIE" ELSE set]
       IN Begin(w, [op |-> "update", record |-> a, user |-> read.user, read |-> read,
                    new |-> new, note |-> note], "updating")
    /\ UNCHANGED <<attendanceTables, attendanceHistory>>

\* The justification that was read is encrypted anew: it is written even when
\* none is given.
Written(r) ==
    LET now == attendances[r.record]
    IN [now EXCEPT !.status = IF r.new.status = r.read.status THEN @ ELSE r.new.status,
                   !.note = IF r.new.note = None THEN @ ELSE r.new.note]

CommitAttendance(w) ==
    LET r == req[w] IN
    /\ pc[w] = "updating"
    /\ IF Exists(attendances[r.record])
       THEN /\ attendances' = [attendances EXCEPT ![r.record] = Written(r)]
            /\ given' = IF r.note = None THEN given ELSE [given EXCEPT ![r.record] = r.note]
            /\ Meet(w, r.user)
       ELSE UNCHANGED <<attendances, attendanceHistory>>
    /\ Return(w)
    /\ UNCHANGED present

\* The records of an account go with it.
DeleteUser(u) ==
    /\ u \in present
    /\ present' = present \ {u}
    /\ attendances' = [a \in Records |->
           IF Exists(attendances[a]) /\ attendances[a].user = u THEN Gone ELSE attendances[a]]
    /\ UNCHANGED <<attendanceHistory, flights>>

AbortAttendance(w) == Die(w) /\ UNCHANGED <<attendanceTables, attendanceHistory>>

-----------------------------------------------------------------------------
Init ==
    /\ attendances = [a \in Records |-> None]
    /\ present = Servants
    /\ met = {} /\ given = [a \in Records |-> None]
    /\ InitFlights

AttendanceRequest(w) ==
    \E batch \in BOOLEAN, users \in SUBSET Servants \ {{}}, d \in Days,
       status \in AttendanceStatus, note \in Notes \cup {None} :
          Record(w, batch, users, d, status, note)

UpdateRequest(w) ==
    \E a \in Records, status \in AttendanceStatus \cup {None}, note \in Notes \cup {None} :
          UpdateAttendance(w, a, status, note)

Next ==
    \/ \E u \in Servants : DeleteUser(u)
    \/ \E w \in Workers :
          \/ AttendanceRequest(w) \/ UpdateRequest(w)
          \/ LookForRecord(w) \/ InsertRecord(w) \/ InsertFails(w)
          \/ CommitAttendance(w) \/ AbortAttendance(w)

Spec == Init /\ [][Next]_<<attendanceTables, attendanceHistory, flights>>

-----------------------------------------------------------------------------
TypeOK ==
    /\ attendances \in [Records -> Attendance \cup {None, Gone}]
    /\ present \subseteq Servants /\ met \subseteq Servants
    /\ given \in [Records -> Notes \cup {None}]
    /\ FlightsOK

\* A servant has one record for a date and a type, unless two requests have met
\* on him: no constraint of the table refuses the second one.
RecordedOnce ==
    \A u \in Servants, d \in Days : Cardinality(RecordsOf(u, d)) <= 1 \/ u \in met

\* A record keeps the justification that was given last, unless two requests
\* have met: an update that gives none writes the one it has read.
NotesKept ==
    \A a \in Records : Exists(attendances[a]) =>
        attendances[a].note = given[a] \/ attendances[a].user \in met

\* What a request that waits has read: whoever was looked for is still not recorded, and
\* a record is as it was, unless another request has met it.
Recording(w) ==
    LET r == req[w] IN
    /\ r = [op |-> r.op, user |-> r.user, todo |-> r.todo, day |-> r.day,
            status |-> r.status, note |-> r.note]
    /\ r.op \in {"one", "batch"} /\ r.todo \subseteq Servants /\ r.day \in Days
    /\ r.status \in AttendanceStatus /\ r.note \in Notes \cup {None}

Updating(w) ==
    LET r == req[w] IN
    /\ r = [op |-> "update", record |-> r.record, user |-> r.user, read |-> r.read,
            new |-> r.new, note |-> r.note]
    /\ r.record \in Records /\ attendances[r.record] # None
    /\ r.user \in Servants /\ r.read \in Attendance /\ r.new \in Attendance
    /\ r.note \in Notes \cup {None}
    /\ r.new.note = IF r.note = None THEN r.read.note ELSE r.note
    /\ Exists(attendances[r.record]) =>
          /\ attendances[r.record].user = r.user
          /\ r.user \in met \/ attendances[r.record].note = r.read.note

Sound(w) ==
    \/ pc[w] = "idle"
    \/ pc[w] = "looking" /\ Recording(w)
    \/ /\ pc[w] = "inserting" /\ Recording(w)
       /\ req[w].user \in Servants
       /\ req[w].user \in met \/ RecordsOf(req[w].user, req[w].day) = {}
    \/ pc[w] = "updating" /\ Updating(w)

Inv == TypeOK /\ RecordedOnce /\ NotesKept /\ \A w \in Workers : Sound(w)
=============================================================================
