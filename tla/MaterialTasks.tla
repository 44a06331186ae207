---------------------------- MODULE MaterialTasks ----------------------------
(***************************************************************************)
(* The tasks of the intendance: cleaning, with the servants assigned to    *)
(* it, and the washing of aubes.  Photographs show them before and after.  *)
(***************************************************************************)
EXTENDS Requests

CONSTANTS
    Tasks,      \* tasks, of cleaning or of aubes
    Servants,   \* accounts with the role SERVANT
    Photos      \* bound: photographs that are uploaded

VARIABLES
    tasks,      \* tables cleaning_tasks and aube_tasks
    crew,       \* table task_assignments
    notices,    \* servants told of a task of aubes
    unused,     \* photographs that are not in the storage yet
    untold,     \* history: tasks whose announcement died on its way
    answered,   \* history: the photographs whose upload was answered
    dropped,    \* history: those a completion has replaced by its own
    crossed     \* history: tasks two requests were changing at the same time

taskTables  == <<tasks, crew, notices, unused>>
taskHistory == <<untold, answered, dropped, crossed>>

-----------------------------------------------------------------------------
TaskStatus == {"PLANIFIEE", "EN_COURS", "TERMINEE", "VALIDEE", "ANNULEE"}
Phases     == {"before", "after"}

Task == [kind : {"cleaning", "aube"}, broadcast : BOOLEAN, status : TaskStatus,
         before : SUBSET Photos, after : SUBSET Photos]

NewTask(k, b) == [kind |-> k, broadcast |-> b, status |-> "PLANIFIEE",
                  before |-> {}, after |-> {}]

-----------------------------------------------------------------------------
CreateCleaningTask(t) ==
    /\ tasks[t] = None
    /\ tasks' = [tasks EXCEPT ![t] = NewTask("cleaning", FALSE)]
    /\ UNCHANGED <<crew, notices, unused, taskHistory, flights>>

\* uq_task_servant refuses the whole batch when one of it is assigned.
AssignServants(t, batch) ==
    /\ Exists(tasks[t]) /\ tasks[t].kind = "cleaning"
    /\ \A s \in batch : <<t, s>> \notin crew
    /\ crew' = crew \cup ({t} \X batch)
    /\ UNCHANGED <<tasks, notices, unused, taskHistory, flights>>

RemoveAssignment(t, s) ==
    /\ <<t, s>> \in crew
    /\ crew' = crew \ {<<t, s>>}
    /\ UNCHANGED <<tasks, notices, unused, taskHistory, flights>>

\* ON DELETE CASCADE takes the assignments; the photographs stay stored.
DeleteTask(t) ==
    /\ Exists(tasks[t])
    /\ tasks' = [tasks EXCEPT ![t] = Gone]
    /\ crew' = {a \in crew : a[1] # t}
    /\ answered' = {a \in answered : a[1] # t}
    /\ UNCHANGED <<notices, unused, untold, dropped, crossed, flights>>

\* The row is committed, then every servant is told, one commit each.
CreateAubeTask(w, t, broadcast) ==
    /\ tasks[t] = None
    /\ tasks' = [tasks EXCEPT ![t] = NewTask("aube", broadcast)]
    /\ IF broadcast
       THEN Begin(w, [op |-> "announce", about |-> t, to |-> Servants], "announcing")
       ELSE UNCHANGED flights
    /\ UNCHANGED <<crew, notices, unused, taskHistory>>

\* Mutation: the first recipient alone is told.
BroadcastFirst(w) ==
    /\ pc[w] = "announcing"
    /\ \E s \in req[w].to : notices' = notices \cup {<<req[w].about, s>>}
    /\ Return(w)
    /\ UNCHANGED <<tasks, crew, unused, taskHistory>>

Broadcast(w) ==
    /\ pc[w] = "announcing"
    /\ \/ /\ req[w].to = {}
          /\ Return(w)
          /\ UNCHANGED notices
       \/ \E s \in req[w].to :
             /\ notices' = notices \cup {<<req[w].about, s>>}
             /\ Continue(w, [req[w] EXCEPT !.to = @ \ {s}], "announcing")
    /\ UNCHANGED <<tasks, crew, unused, taskHistory>>

-----------------------------------------------------------------------------
(***************************************************************************)
(* The requests that read the row, change the object and commit.           *)
(***************************************************************************)
ReadTask(w, t, op, arg, place) ==
    /\ Exists(tasks[t])
    /\ Begin(w, [op |-> op, task |-> t, read |-> tasks[t], arg |-> arg], place)
    /\ UNCHANGED <<taskTables, taskHistory>>

\* Any status may be given, whatever the task's is.
UpdateTask(w, t, status) == ReadTask(w, t, "update", status, "changing")

CompleteTask(w, t, photos) == ReadTask(w, t, "complete", photos, "changing")

ValidateTask(w, t) == /\ Exists(tasks[t]) /\ tasks[t].status = "TERMINEE"
                      /\ ReadTask(w, t, "validate", None, "changing")

\* The task is read before the file is stored, which takes its time.
UploadTaskPhoto(w, t, phase) == ReadTask(w, t, phase, None, "uploading")

StoreTaskPhoto(w) ==
    /\ pc[w] = "uploading"
    /\ \E f \in unused :
          /\ unused' = unused \ {f}
          /\ Continue(w, [req[w] EXCEPT !.arg = f], "changing")
    /\ UNCHANGED <<tasks, crew, notices, taskHistory>>

\* A file of another type or over 5 MB.
RefuseTaskPhoto(w) ==
    /\ pc[w] = "uploading"
    /\ Return(w)
    /\ UNCHANGED <<taskTables, taskHistory>>

\* Mutation: the photograph takes the place of the list.
ChangedAlone(r) ==
    CASE r.op = "update"   -> [r.read EXCEPT !.status = r.arg]
      [] r.op = "complete" -> [r.read EXCEPT !.status = "TERMINEE",
                                  !.after = IF r.arg = {} THEN @ ELSE r.arg]
      [] r.op = "validate" -> [r.read EXCEPT !.status = "VALIDEE"]
      [] r.op = "before"   -> [r.read EXCEPT !.before = {r.arg}]
      [] r.op = "after"    -> [r.read EXCEPT !.after = {r.arg}]

\* The object, as the request has read and then changed it: a photograph is
\* appended to the list that was read, a completion brings its own list.
Changed(r) ==
    CASE r.op = "update"   -> [r.read EXCEPT !.status = r.arg]
      [] r.op = "complete" -> [r.read EXCEPT !.status = "TERMINEE",
                                  !.after = IF r.arg = {} THEN @ ELSE r.arg]
      [] r.op = "validate" -> [r.read EXCEPT !.status = "VALIDEE"]
      [] r.op = "before"   -> [r.read EXCEPT !.before = @ \cup {r.arg}]
      [] r.op = "after"    -> [r.read EXCEPT !.after = @ \cup {r.arg}]

CommitTask(w) ==
    LET r == req[w]  t == r.task IN
    /\ pc[w] = "changing" /\ Exists(tasks[t])
    /\ tasks' = [tasks EXCEPT ![t] = Flush(@, r.read, Changed(r))]
    /\ answered' = IF r.op \in Phases THEN answered \cup {<<t, r.arg>>} ELSE answered
    /\ dropped' = IF r.op = "complete" /\ r.arg # {}
                  THEN dropped \cup r.read.after ELSE dropped
    /\ crossed' = IF Alongside(w, "task", t) THEN crossed \cup {t} ELSE crossed
    /\ Return(w)
    /\ UNCHANGED <<crew, notices, unused, untold>>

\* The row was deleted meanwhile: the UPDATE finds none.
CommitTaskGone(w) ==
    /\ pc[w] = "changing" /\ ~Exists(tasks[req[w].task])
    /\ Return(w)
    /\ UNCHANGED <<taskTables, taskHistory>>

AbortTask(w) ==
    /\ Die(w)
    /\ untold' = IF pc[w] = "announcing" THEN untold \cup {req[w].about} ELSE untold
    /\ UNCHANGED <<taskTables, answered, dropped, crossed>>

-----------------------------------------------------------------------------
Init ==
    /\ tasks = [t \in Tasks |-> None]
    /\ crew = {} /\ notices = {}
    /\ unused = Photos
    /\ untold = {} /\ answered = {} /\ dropped = {} /\ crossed = {}
    /\ InitFlights

TaskDesk(t) ==
    \/ CreateCleaningTask(t) \/ DeleteTask(t)
    \/ \E batch \in SUBSET Servants : AssignServants(t, batch)
    \/ \E s \in Servants : RemoveAssignment(t, s)

NewAubeTask(w, t) == \E b \in BOOLEAN : CreateAubeTask(w, t, b)

\* A cleaning task and one of the aubes have the same.
TaskRequest(w, t) ==
    \/ \E s \in TaskStatus : UpdateTask(w, t, s)
    \/ \E photos \in SUBSET (Photos \ unused) : CompleteTask(w, t, photos)
    \/ ValidateTask(w, t)

PhotoRequest(w, t) == \E phase \in Phases : UploadTaskPhoto(w, t, phase)

ServeTask(w) ==
    \/ Broadcast(w) \/ StoreTaskPhoto(w) \/ RefuseTaskPhoto(w)
    \/ CommitTask(w) \/ CommitTaskGone(w) \/ AbortTask(w)

Next == \/ \E t \in Tasks :
              \/ TaskDesk(t)
              \/ \E w \in Workers : NewAubeTask(w, t) \/ TaskRequest(w, t) \/ PhotoRequest(w, t)
        \/ \E w \in Workers : ServeTask(w)

Spec == Init /\ [][Next]_<<taskTables, taskHistory, flights>>

-----------------------------------------------------------------------------
TypeOK ==
    /\ tasks \in [Tasks -> Task \cup {None, Gone}]
    /\ crew \subseteq Tasks \X Servants /\ notices \subseteq Tasks \X Servants
    /\ unused \subseteq Photos /\ untold \subseteq Tasks
    /\ answered \subseteq Tasks \X Photos /\ dropped \subseteq Photos
    /\ crossed \subseteq Tasks
    /\ FlightsOK

\* A photograph whose upload was answered stays with its task, unless another
\* request on this task was in flight with it or a completion brought its own
\* list: what is appended to is the list as it was read before the file was
\* stored.
PhotosKept ==
    \A a \in answered :
        \/ a[2] \in tasks[a[1]].before \cup tasks[a[1]].after
        \/ a[2] \in dropped
        \/ a[1] \in crossed

\* A task of aubes that is to be announced has been announced to every servant,
\* is being announced, or its request died between two recipients.
EverybodyTold ==
    \A t \in Tasks :
        Exists(tasks[t]) /\ tasks[t].broadcast =>
            \/ {t} \X Servants \subseteq notices
            \/ \E w \in Workers : pc[w] = "announcing" /\ req[w].about = t
            \/ t \in untold

\* What a request that waits knows: whom an announcement has told, and the task as it is,
\* unless another request has changed it.
Sound(w) ==
    LET r == req[w] IN
    \/ pc[w] = "idle"
    \/ /\ pc[w] = "announcing"
       /\ r = [op |-> "announce", about |-> r.about, to |-> r.to]
       /\ r.about \in Tasks /\ r.to \subseteq Servants
       /\ {r.about} \X (Servants \ r.to) \subseteq notices
    \/ /\ pc[w] \in {"uploading", "changing"}
       /\ r = [op |-> r.op, task |-> r.task, read |-> r.read, arg |-> r.arg]
       /\ r.task \in Tasks /\ tasks[r.task] # None /\ r.read \in Task
       /\ Exists(tasks[r.task]) => r.task \in crossed \/ r.read = tasks[r.task]
       /\ \/ r.op \in Phases /\ (pc[w] = "changing" => r.arg \in Photos)
          \/ /\ pc[w] = "changing"
             /\ \/ r.op = "update" /\ r.arg \in TaskStatus
                \/ r.op = "complete" /\ r.arg \subseteq Photos
                \/ r.op = "validate"

Inv ==
    /\ TypeOK /\ PhotosKept /\ EverybodyTold
    /\ \A a \in answered : Exists(tasks[a[1]])
    /\ \A w \in Workers : Sound(w)
=============================================================================
