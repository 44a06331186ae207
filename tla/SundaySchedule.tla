--------------------------- MODULE SundaySchedule ----------------------------
(***************************************************************************)
(* The schedules of the Sundays: a template has masses, a mass has posts   *)
(* that servants hold, and posts are filled, emptied and marked while the  *)
(* mass is near.  What is created in several commits can stop between two. *)
(***************************************************************************)
EXTENDS Requests

CONSTANTS
    Templates,  \* rows of sunday_schedule_templates
    Masses,     \* rows of sunday_mass_slots
    Posts,      \* rows of sunday_mass_assignments
    Days,       \* dates of a template, in hours
    Hours,      \* times of a mass, in hours of its day
    Times       \* bound: the hours at which something is looked at

VARIABLES
    templates,  \* table sunday_schedule_templates
    masses,     \* table sunday_mass_slots
    posts,      \* table sunday_mass_assignments
    logs,       \* table sunday_schedule_modification_logs: the marks on record
    clock,      \* what utc_now answers
    asked,      \* history: masses a template was created with
    cut,        \* history: templates whose creation was refused or died
    struck,     \* history: masses that were deleted
    moved,      \* history: masses whose window has moved
    late,       \* history: posts marked after their window was looked at
    untraced    \* history: marks that are committed and whose log failed

sundayTables  == <<templates, masses, posts, logs, clock>>
sundayHistory == <<asked, cut, struck, moved, late, untraced>>

-----------------------------------------------------------------------------
SundayScheduleStatus == {"DRAFT", "PUBLISHED", "ARCHIVED"}
SundayScheduleTemplate == [status : SundayScheduleStatus, day : Days]
SundayMassSlot == [template : Templates, hour : Hours]

\* A mark has the time at which it was set.
SundayMassAssignment == [mass : Masses, present : BOOLEAN \cup {None},
                         marked_at : Times \cup {None}]

\* The hours of the masses of an ordinary Sunday; others are given.
OrdinaryHours == Hours

MassesOf(t) == {m \in Masses : Exists(masses[m]) /\ masses[m].template = t}

\* Mutation: the window is one hour too long.
WithinTheMass(day, hour, now) ==
    /\ day + hour <= now + 1
    /\ now <= day + hour + 3

\* From one hour before the mass to two hours after it has begun.
Within(day, hour, now) ==
    /\ day + hour <= now + 1
    /\ now <= day + hour + 2

InWindow(m) ==
    Exists(masses[m]) /\ LET t == masses[m].template IN
        Exists(templates[t]) /\ Within(templates[t].day, masses[m].hour, clock)

\* The member of an enumeration has a value; what is read back from its text
\* column has none.
PositionAsRead == "text"
HasValue(position) == position = "member"

-----------------------------------------------------------------------------
(***************************************************************************)
(* Creation: the template, then each mass, then the posts of that mass.    *)
(***************************************************************************)
CreateTemplate(w, t, day, wanted) ==
    /\ templates[t] = None
    /\ \A m \in wanted : masses[m] = None /\ \A o \in Templates : m \notin asked[o]
    /\ templates' = [templates EXCEPT ![t] = [status |-> "DRAFT", day |-> day]]
    /\ asked' = [asked EXCEPT ![t] = wanted]
    /\ Begin(w, [op |-> "create", template |-> t, todo |-> wanted, last |-> None],
             "creating")
    /\ UNCHANGED <<masses, posts, logs, clock, cut, struck, moved, late, untraced>>

\* The row of a mass is inserted; the foreign key refuses it when the template
\* was deleted meanwhile.
CreateMass(w, m, hour) ==
    LET r == req[w] IN
    /\ pc[w] = "creating" /\ m \in r.todo
    /\ IF Exists(templates[r.template])
       THEN /\ masses' = [masses EXCEPT ![m] = [template |-> r.template, hour |-> hour]]
            /\ Continue(w, [op |-> "create", template |-> r.template,
                            todo |-> r.todo \ {m}, last |-> m], "filling")
            /\ UNCHANGED cut
       ELSE /\ cut' = cut \cup {r.template}
            /\ Return(w)
            /\ UNCHANGED masses
    /\ UNCHANGED <<templates, posts, logs, clock, asked, struck, moved, late, untraced>>

\* The posts of the mass that was just inserted are all inserted, or none when
\* the mass is gone.
CreateAssignments(w, batch) ==
    LET r == req[w] IN
    /\ pc[w] = "filling"
    /\ \A p \in batch : posts[p] = None
    /\ IF batch = {} \/ Exists(masses[r.last])
       THEN /\ posts' = [p \in Posts |-> IF p \in batch
                   THEN [mass |-> r.last, present |-> None, marked_at |-> None]
                   ELSE posts[p]]
            /\ Continue(w, [op |-> "create", template |-> r.template,
                            todo |-> r.todo, last |-> None], "creating")
            /\ UNCHANGED cut
       ELSE /\ cut' = cut \cup {r.template}
            /\ Return(w)
            /\ UNCHANGED posts
    /\ UNCHANGED <<templates, masses, logs, clock, asked, struck, moved, late, untraced>>

\* One of the posts names an account that is unknown or no servant.
RefuseAssignments(w) ==
    /\ pc[w] = "filling"
    /\ cut' = cut \cup {req[w].template}
    /\ Return(w)
    /\ UNCHANGED <<sundayTables, asked, struck, moved, late, untraced>>

TemplateDone(w) ==
    /\ pc[w] = "creating" /\ req[w].todo = {}
    /\ Return(w)
    /\ UNCHANGED <<sundayTables, sundayHistory>>

\* The ordinary and the exceptional schedules: all masses in one commit.
GenerateTemplate(w, t, day, wanted) ==
    /\ templates[t] = None
    /\ \A m \in wanted : masses[m] = None /\ \A o \in Templates : m \notin asked[o]
    /\ templates' = [templates EXCEPT ![t] = [status |-> "DRAFT", day |-> day]]
    /\ asked' = [asked EXCEPT ![t] = wanted]
    /\ Begin(w, [op |-> "generate", template |-> t, todo |-> wanted], "generating")
    /\ UNCHANGED <<masses, posts, logs, clock, cut, struck, moved, late, untraced>>

\* Mutation: one mass of the batch is left out.
CreateSomeMasses(w, hour) ==
    LET r == req[w] IN
    /\ pc[w] = "generating"
    /\ \E m \in r.todo :
          masses' = [n \in Masses |-> IF n \in r.todo \ {m}
                       THEN [template |-> r.template, hour |-> hour] ELSE masses[n]]
    /\ Return(w)
    /\ UNCHANGED <<templates, posts, logs, clock, sundayHistory>>

CreateMasses(w, hour) ==
    LET r == req[w] IN
    /\ pc[w] = "generating"
    /\ IF Exists(templates[r.template])
       THEN /\ masses' = [m \in Masses |-> IF m \in r.todo
                   THEN [template |-> r.template, hour |-> hour] ELSE masses[m]]
            /\ UNCHANGED cut
       ELSE cut' = cut \cup {r.template} /\ UNCHANGED masses
    /\ Return(w)
    /\ UNCHANGED <<templates, posts, logs, clock, asked, struck, moved, late, untraced>>

-----------------------------------------------------------------------------
(***************************************************************************)
(* The chargé changes a schedule: one commit each, of the columns changed. *)
(***************************************************************************)
UpdateTemplate(t, status, day) ==
    /\ Exists(templates[t])
    /\ templates' = [templates EXCEPT ![t] = [status |-> status, day |-> day]]
    /\ moved' = IF day = templates[t].day THEN moved ELSE moved \cup MassesOf(t)
    /\ UNCHANGED <<masses, posts, logs, clock, asked, cut, struck, late, untraced, flights>>

Publish(t) == /\ Exists(templates[t]) /\ templates[t].status # "PUBLISHED"
              /\ UpdateTemplate(t, "PUBLISHED", templates[t].day)

Archive(t) == /\ Exists(templates[t])
              /\ UpdateTemplate(t, "ARCHIVED", templates[t].day)

\* ON DELETE CASCADE takes what the request has not listed itself.
DeleteTemplate(t) ==
    /\ Exists(templates[t])
    /\ templates' = [templates EXCEPT ![t] = Gone]
    /\ masses' = [m \in Masses |-> IF m \in MassesOf(t) THEN Gone ELSE masses[m]]
    /\ posts' = [p \in Posts |->
          IF Exists(posts[p]) /\ posts[p].mass \in MassesOf(t) THEN Gone ELSE posts[p]]
    /\ struck' = struck \cup MassesOf(t)
    /\ UNCHANGED <<logs, clock, asked, cut, moved, late, untraced, flights>>

UpdateMass(m, hour) ==
    /\ Exists(masses[m]) /\ masses[m].hour # hour
    /\ masses' = [masses EXCEPT ![m].hour = hour]
    /\ moved' = moved \cup {m}
    /\ UNCHANGED <<templates, posts, logs, clock, asked, cut, struck, late, untraced, flights>>

DeleteMass(m) ==
    /\ Exists(masses[m])
    /\ masses' = [masses EXCEPT ![m] = Gone]
    /\ posts' = [p \in Posts |->
          IF Exists(posts[p]) /\ posts[p].mass = m THEN Gone ELSE posts[p]]
    /\ struck' = struck \cup {m}
    /\ UNCHANGED <<templates, logs, clock, asked, cut, moved, late, untraced, flights>>

-----------------------------------------------------------------------------
(***************************************************************************)
(* The posts of a mass, while it is near: the window is looked at first,   *)
(* then accounts are read, then the row is written.                        *)
(***************************************************************************)
AddPost(w, m) ==
    /\ InWindow(m)
    /\ Begin(w, [op |-> "add", mass |-> m], "adding")
    /\ UNCHANGED <<sundayTables, sundayHistory>>

\* The account is no servant, or the mass was deleted: nothing is inserted.
RefusePost(w) ==
    /\ pc[w] = "adding"
    /\ Return(w)
    /\ UNCHANGED <<sundayTables, sundayHistory>>

InsertPost(w, p) ==
    /\ pc[w] = "adding" /\ posts[p] = None /\ Exists(masses[req[w].mass])
    /\ posts' = [posts EXCEPT ![p] =
          [mass |-> req[w].mass, present |-> None, marked_at |-> None]]
    /\ Return(w)
    /\ UNCHANGED <<templates, masses, logs, clock, sundayHistory>>

RemovePost(p) ==
    /\ Exists(posts[p]) /\ InWindow(posts[p].mass)
    /\ posts' = [posts EXCEPT ![p] = Gone]
    /\ UNCHANGED <<templates, masses, logs, clock, sundayHistory, flights>>

\* Every account that is logged in marks presences.
MarkPresence(w, p, present) ==
    /\ Exists(posts[p]) /\ InWindow(posts[p].mass)
    /\ Begin(w, [op |-> "mark", post |-> p, present |-> present, since |-> clock], "marking")
    /\ UNCHANGED <<sundayTables, sundayHistory>>

CommitMark(w) ==
    LET p == req[w].post IN
    /\ pc[w] = "marking"
    /\ IF Exists(posts[p])
       THEN /\ posts' = [posts EXCEPT ![p] = [mass |-> posts[p].mass,
                             present |-> req[w].present, marked_at |-> clock]]
            /\ late' = IF clock > req[w].since THEN late \cup {p} ELSE late \ {p}
            /\ Continue(w, req[w], "logging")
       ELSE Return(w) /\ UNCHANGED <<posts, late>>
    /\ UNCHANGED <<templates, masses, logs, clock, asked, cut, struck, moved, untraced>>

\* The log names the value of the position: text has none, and the request
\* ends in an error after the mark is committed.
LogMark(w) ==
    LET p == req[w].post IN
    /\ pc[w] = "logging"
    /\ IF HasValue(PositionAsRead)
       THEN logs' = logs \cup {p} /\ UNCHANGED untraced
       ELSE untraced' = untraced \cup {p} /\ UNCHANGED logs
    /\ Return(w)
    /\ UNCHANGED <<templates, masses, posts, clock, asked, cut, struck, moved, late>>

Elapse(now) ==
    /\ now > clock
    /\ clock' = now
    /\ UNCHANGED <<templates, masses, posts, logs, sundayHistory, flights>>

\* A request dies on its way.
AbortSunday(w) ==
    /\ Die(w)
    /\ cut' = IF pc[w] \in {"creating", "filling", "generating"}
              THEN cut \cup {req[w].template} ELSE cut
    /\ UNCHANGED <<sundayTables, asked, struck, moved, late, untraced>>

-----------------------------------------------------------------------------
Init ==
    /\ templates = [t \in Templates |-> None]
    /\ masses = [m \in Masses |-> None]
    /\ posts = [p \in Posts |-> None]
    /\ logs = {} /\ clock = CHOOSE x \in Times : \A y \in Times : x <= y
    /\ asked = [t \in Templates |-> {}]
    /\ cut = {} /\ struck = {} /\ moved = {} /\ late = {} /\ untraced = {}
    /\ InitFlights

TemplateDesk(t) ==
    \/ \E s \in SundayScheduleStatus, d \in Days : UpdateTemplate(t, s, d)
    \/ Publish(t) \/ Archive(t) \/ DeleteTemplate(t)

TemplateRequest(w, t) ==
    \E d \in Days, wanted \in SUBSET Masses :
        CreateTemplate(w, t, d, wanted) \/ GenerateTemplate(w, t, d, wanted)

MassDesk(m) == DeleteMass(m) \/ \E h \in Hours : UpdateMass(m, h)

PostRequest(w, p) == \E b \in BOOLEAN : MarkPresence(w, p, b)

ServeSunday(w) ==
    \/ \E m \in Masses, h \in Hours : CreateMass(w, m, h)
    \/ \E batch \in SUBSET Posts : CreateAssignments(w, batch)
    \/ RefuseAssignments(w) \/ TemplateDone(w)
    \/ \E h \in OrdinaryHours : CreateMasses(w, h)
    \/ RefusePost(w) \/ (\E p \in Posts : InsertPost(w, p))
    \/ CommitMark(w) \/ LogMark(w) \/ AbortSunday(w)

AssignmentDesk ==
    \/ \E w \in Workers, m \in Masses : AddPost(w, m)
    \/ \E p \in Posts : RemovePost(p)

Next == \/ \E t \in Templates : TemplateDesk(t)
        \/ \E m \in Masses : MassDesk(m)
        \/ AssignmentDesk
        \/ \E now \in Times : Elapse(now)
        \/ \E w \in Workers :
              \/ \E t \in Templates : TemplateRequest(w, t)
              \/ \E p \in Posts : PostRequest(w, p)
              \/ ServeSunday(w)

Spec == Init /\ [][Next]_<<sundayTables, sundayHistory, flights>>

-----------------------------------------------------------------------------
TypeOK ==
    /\ templates \in [Templates -> SundayScheduleTemplate \cup {None, Gone}]
    /\ masses \in [Masses -> SundayMassSlot \cup {None, Gone}]
    /\ posts \in [Posts -> SundayMassAssignment \cup {None, Gone}]
    /\ clock \in Times /\ asked \in [Templates -> SUBSET Masses]
    /\ cut \subseteq Templates /\ struck \cup moved \subseteq Masses
    /\ logs \cup late \cup untraced \subseteq Posts
    /\ FlightsOK

\* A template lacks a mass that it was created with only while its creation
\* goes on, because the mass was deleted, or because the creation was refused
\* or died after the template was committed.
TemplatesAreWhole ==
    \A t \in Templates : Exists(templates[t]) =>
        \/ asked[t] \ struck = MassesOf(t)
        \/ t \in cut
        \/ \E w \in Workers : pc[w] \in {"creating", "filling", "generating"}
                              /\ req[w].template = t

\* From one hour before a mass to two hours after it has begun.
Near(day, hour, at) == day + hour - 1 <= at /\ at <= day + hour + 2

\* A mark was set within the window of its mass, unless the mass was moved or
\* the window was left between the look at it and the commit.
MarksInWindow ==
    \A p \in Posts : Exists(posts[p]) /\ posts[p].marked_at # None =>
        LET m == posts[p].mass IN
        \/ m \in moved \/ p \in late
        \/ Near(templates[masses[m].template].day, masses[m].hour, posts[p].marked_at)

\* As the route has it, every mark is traced.
MarksAreTraced == untraced = {}

\* A mass is of the template that it was created with, and its posts go with it.
RowsBelong ==
    /\ \A m \in Masses :
          /\ Exists(masses[m]) => /\ Exists(templates[masses[m].template])
                                  /\ m \in asked[masses[m].template]
          /\ m \in struck => masses[m] = Gone
    /\ \A p \in Posts : Exists(posts[p]) => Exists(masses[posts[p].mass])
    /\ \A t, o \in Templates : t # o => asked[t] \cap asked[o] = {}
    /\ \A t \in Templates : templates[t] = None => asked[t] = {}

Creating(w) == pc[w] \in {"creating", "filling", "generating"}

\* What a request that waits knows: the masses that it still has to create are the ones its
\* template lacks, and a mark was let in within the window of its mass.
Sound(w) ==
    LET r == req[w] IN
    \/ pc[w] = "idle"
    \/ /\ Creating(w)
       /\ r.template \in Templates /\ templates[r.template] # None
       /\ r.todo \subseteq asked[r.template]
       /\ \A m \in r.todo : masses[m] = None
       /\ Exists(templates[r.template]) =>
             MassesOf(r.template) = asked[r.template] \ (struck \cup r.todo)
       /\ \A v \in Workers \ {w} : Creating(v) => req[v].template # r.template
       /\ IF pc[w] = "generating" THEN r = [op |-> "generate", template |-> r.template, todo |-> r.todo]
          ELSE r = [op |-> "create", template |-> r.template, todo |-> r.todo, last |-> r.last]
       /\ pc[w] = "filling" => r.last \in Masses
    \/ /\ pc[w] = "adding"
       /\ r = [op |-> "add", mass |-> r.mass] /\ r.mass \in Masses
    \/ /\ pc[w] \in {"marking", "logging"}
       /\ r = [op |-> "mark", post |-> r.post, present |-> r.present, since |-> r.since]
       /\ r.post \in Posts /\ posts[r.post] # None /\ r.present \in BOOLEAN
       /\ r.since \in Times /\ r.since <= clock
       /\ Exists(posts[r.post]) => LET m == posts[r.post].mass IN
             m \in moved \/ Within(templates[masses[m].template].day, masses[m].hour, r.since)

Inv ==
    /\ TypeOK /\ TemplatesAreWhole /\ MarksInWindow /\ RowsBelong
    /\ \A w \in Workers : Sound(w)
=============================================================================
