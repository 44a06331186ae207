--------------------------- MODULE WeeklySchedule ----------------------------
(***************************************************************************)
(* The schedules of the weekday masses: a template covers a period and has *)
(* slots of a weekday and a time, which are created one commit after the   *)
(* other.  The date of a slot is looked for in the period, and servants    *)
(* are added while its mass is near.                                       *)
(***************************************************************************)
EXTENDS Requests

CONSTANTS
    Templates,  \* rows of weekly_schedule_templates
    Slots,      \* rows of weekly_schedule_slots
    Places,     \* rows of slot_servant_assignments
    Starts,     \* bound: start_date, in hours from the midnight of a Monday
    Ends,       \* bound: end_date, likewise
    Times       \* bound: the hours at which something is looked at

VARIABLES
    weeks,      \* table weekly_schedule_templates
    slots,      \* table weekly_schedule_slots
    places,     \* table slot_servant_assignments
    now,        \* what utc_now answers
    asked,      \* history: slots a template was created with
    cut,        \* history: templates whose creation was refused or died
    struck,     \* history: slots that were deleted
    moved,      \* history: templates whose period has moved
    late        \* history: places taken after their window was looked at

weekTables  == <<weeks, slots, places, now>>
weekHistory == <<asked, cut, struck, moved, late>>

-----------------------------------------------------------------------------
WeekDay  == 0 .. 5
MassTime == {"MATIN", "MIDI", "SOIR"}
ScheduleStatus == {"DRAFT", "PUBLISHED", "ARCHIVED"}

\* A mark has the hour at which the servant was added.
Week == [status : ScheduleStatus, start : Starts, end : Ends]
Slot == [template : Templates, day : WeekDay, mass_time : MassTime]
Place == [slot : Slots, added_at : Times]

\* 06h15, 12h00 and 18h00, in hours.
HourOf(mass_time) == CASE mass_time = "MATIN" -> 6
                       [] mass_time = "MIDI"  -> 12
                       [] mass_time = "SOIR"  -> 18

\* The search goes from start_date in steps of a day, with its hour: the last
\* day is left out when the period starts at a later hour than it ends.
DatesOf(week, day) ==
    {d \in {week.start + 24 * i : i \in 0 .. 6} :
        d <= week.end /\ (d \div 24) % 7 = day}

\* The first day of the search, whatever the length of the period.
SlotDate(week, day) ==
    IF DatesOf(week, day) = {} THEN None
    ELSE CHOOSE d \in DatesOf(week, day) : \A x \in DatesOf(week, day) : d <= x

MassStart(week, slot) == (SlotDate(week, slot.day) \div 24) * 24 + HourOf(slot.mass_time)

\* Mutation: the window is one hour too long.
WithinOneMore(start, t) == start <= t + 1 /\ t <= start + 3

\* From one hour before the mass to two hours after it has begun.
Within(start, t) == start <= t + 1 /\ t <= start + 2

SlotsOf(t) == {s \in Slots : Exists(slots[s]) /\ slots[s].template = t}
WeekOf(s)  == weeks[slots[s].template]

-----------------------------------------------------------------------------
CreateWeek(w, t, start, end, wanted) ==
    /\ weeks[t] = None
    /\ \A s \in wanted : slots[s] = None /\ \A o \in Templates : s \notin asked[o]
    /\ weeks' = [weeks EXCEPT ![t] = [status |-> "DRAFT", start |-> start, end |-> end]]
    /\ asked' = [asked EXCEPT ![t] = wanted]
    /\ Begin(w, [op |-> "create", template |-> t, todo |-> wanted, last |-> None],
             "creating")
    /\ UNCHANGED <<slots, places, now, cut, struck, moved, late>>

\* Mutation: a slot of the request is left out.
CreateSlotOfTwo(w, s, day, mass_time) ==
    LET r == req[w] IN
    /\ pc[w] = "creating" /\ s \in r.todo /\ Exists(weeks[r.template])
    /\ slots' = [slots EXCEPT ![s] =
          [template |-> r.template, day |-> day, mass_time |-> mass_time]]
    /\ Continue(w, [r EXCEPT !.todo = {}, !.last = s], "filling")
    /\ UNCHANGED <<weeks, places, now, weekHistory>>

\* The foreign key refuses the slot when the template was deleted meanwhile.
CreateSlot(w, s, day, mass_time) ==
    LET r == req[w] IN
    /\ pc[w] = "creating" /\ s \in r.todo
    /\ IF Exists(weeks[r.template])
       THEN /\ slots' = [slots EXCEPT ![s] =
                  [template |-> r.template, day |-> day, mass_time |-> mass_time]]
            /\ Continue(w, [op |-> "create", template |-> r.template,
                            todo |-> r.todo \ {s}, last |-> s], "filling")
            /\ UNCHANGED cut
       ELSE /\ cut' = cut \cup {r.template}
            /\ Return(w)
            /\ UNCHANGED slots
    /\ UNCHANGED <<weeks, places, now, asked, struck, moved, late>>

\* The servants of the slot that was just inserted: all of them, at any hour,
\* or none when one is unknown or no servant, or the slot is gone.
FillSlot(w, batch) ==
    LET r == req[w] IN
    /\ pc[w] = "filling" /\ \A p \in batch : places[p] = None
    /\ IF batch = {} \/ Exists(slots[r.last])
       THEN /\ places' = [p \in Places |->
                  IF p \in batch THEN [slot |-> r.last, added_at |-> now] ELSE places[p]]
            /\ late' = late \cup batch
            /\ Continue(w, [op |-> "create", template |-> r.template,
                            todo |-> r.todo, last |-> None], "creating")
            /\ UNCHANGED cut
       ELSE cut' = cut \cup {r.template} /\ Return(w) /\ UNCHANGED <<places, late>>
    /\ UNCHANGED <<weeks, slots, now, asked, struck, moved>>

RefuseServants(w) ==
    /\ pc[w] = "filling"
    /\ cut' = cut \cup {req[w].template}
    /\ Return(w)
    /\ UNCHANGED <<weekTables, asked, struck, moved, late>>

WeekDone(w) ==
    /\ pc[w] = "creating" /\ req[w].todo = {}
    /\ Return(w)
    /\ UNCHANGED <<weekTables, weekHistory>>

-----------------------------------------------------------------------------
UpdateWeek(t, status, start, end) ==
    /\ Exists(weeks[t])
    /\ weeks' = [weeks EXCEPT ![t] = [status |-> status, start |-> start, end |-> end]]
    /\ moved' = IF start = weeks[t].start /\ end = weeks[t].end
                THEN moved ELSE moved \cup {t}
    /\ UNCHANGED <<slots, places, now, asked, cut, struck, late, flights>>

PublishWeek(t) == /\ Exists(weeks[t]) /\ weeks[t].status # "PUBLISHED"
                  /\ UpdateWeek(t, "PUBLISHED", weeks[t].start, weeks[t].end)

ArchiveWeek(t) == /\ Exists(weeks[t])
                  /\ UpdateWeek(t, "ARCHIVED", weeks[t].start, weeks[t].end)

\* What the request has not listed itself goes by ON DELETE CASCADE.
DeleteWeek(t) ==
    /\ Exists(weeks[t])
    /\ weeks' = [weeks EXCEPT ![t] = Gone]
    /\ slots' = [s \in Slots |-> IF s \in SlotsOf(t) THEN Gone ELSE slots[s]]
    /\ places' = [p \in Places |->
          IF Exists(places[p]) /\ places[p].slot \in SlotsOf(t) THEN Gone ELSE places[p]]
    /\ struck' = struck \cup SlotsOf(t)
    /\ UNCHANGED <<now, asked, cut, moved, late, flights>>

DeleteSlot(s) ==
    /\ Exists(slots[s])
    /\ slots' = [slots EXCEPT ![s] = Gone]
    /\ places' = [p \in Places |->
          IF Exists(places[p]) /\ places[p].slot = s THEN Gone ELSE places[p]]
    /\ struck' = struck \cup {s}
    /\ UNCHANGED <<weeks, now, asked, cut, moved, late, flights>>

-----------------------------------------------------------------------------
\* The window of a slot is looked at first, then the account, then the row is
\* inserted.  A slot whose day is not found takes nobody.
AddServantToSlot(w, s) ==
    /\ Exists(slots[s]) /\ Exists(WeekOf(s))
    /\ SlotDate(WeekOf(s), slots[s].day) # None
    /\ Within(MassStart(WeekOf(s), slots[s]), now)
    /\ Begin(w, [op |-> "add", slot |-> s, since |-> now], "adding")
    /\ UNCHANGED <<weekTables, weekHistory>>

InsertPlace(w, p) ==
    LET r == req[w] IN
    /\ pc[w] = "adding" /\ places[p] = None /\ Exists(slots[r.slot])
    /\ places' = [places EXCEPT ![p] = [slot |-> r.slot, added_at |-> now]]
    /\ late' = IF now > r.since THEN late \cup {p} ELSE late
    /\ Return(w)
    /\ UNCHANGED <<weeks, slots, now, asked, cut, struck, moved>>

\* The account is no servant, or the slot was deleted.
RefusePlace(w) ==
    /\ pc[w] = "adding"
    /\ Return(w)
    /\ UNCHANGED <<weekTables, weekHistory>>

\* A slot whose day is not found has no window to keep.
RemoveServantFromSlot(p) ==
    /\ Exists(places[p])
    /\ LET s == places[p].slot IN
          SlotDate(WeekOf(s), slots[s].day) # None =>
              Within(MassStart(WeekOf(s), slots[s]), now)
    /\ places' = [places EXCEPT ![p] = Gone]
    /\ UNCHANGED <<weeks, slots, now, weekHistory, flights>>

TimePasses(t) == /\ t > now /\ now' = t
                 /\ UNCHANGED <<weeks, slots, places, weekHistory, flights>>

AbortWeek(w) ==
    /\ Die(w)
    /\ cut' = IF pc[w] \in {"creating", "filling"} THEN cut \cup {req[w].template} ELSE cut
    /\ UNCHANGED <<weekTables, asked, struck, moved, late>>

-----------------------------------------------------------------------------
Init ==
    /\ weeks = [t \in Templates |-> None]
    /\ slots = [s \in Slots |-> None]
    /\ places = [p \in Places |-> None]
    /\ now = CHOOSE x \in Times : \A y \in Times : x <= y
    /\ asked = [t \in Templates |-> {}]
    /\ cut = {} /\ struck = {} /\ moved = {} /\ late = {}
    /\ InitFlights

WeekDesk(t) ==
    \/ \E status \in ScheduleStatus, start \in Starts, end \in Ends :
          UpdateWeek(t, status, start, end)
    \/ PublishWeek(t) \/ ArchiveWeek(t) \/ DeleteWeek(t)

WeekRequest(w, t) ==
    \E start \in Starts, end \in Ends, wanted \in SUBSET Slots :
        CreateWeek(w, t, start, end, wanted)

\* The days and the times of the slots that are asked for.
ServeWeek(w) ==
    \/ \E s \in Slots, day \in {0, 1}, m \in {"MATIN", "SOIR"} : CreateSlot(w, s, day, m)
    \/ \E batch \in SUBSET Places : FillSlot(w, batch)
    \/ RefuseServants(w) \/ WeekDone(w)
    \/ \E p \in Places : InsertPlace(w, p)
    \/ RefusePlace(w) \/ AbortWeek(w)

SlotDesk(s) == DeleteSlot(s) \/ \E w \in Workers : AddServantToSlot(w, s)

Next == \/ \E t \in Templates : \/ WeekDesk(t)
                                \/ \E w \in Workers : WeekRequest(w, t)
        \/ \E s \in Slots : SlotDesk(s)
        \/ \E p \in Places : RemoveServantFromSlot(p)
        \/ \E t \in Times : TimePasses(t)
        \/ \E w \in Workers : ServeWeek(w)

Spec == Init /\ [][Next]_<<weekTables, weekHistory, flights>>

-----------------------------------------------------------------------------
TypeOK ==
    /\ weeks \in [Templates -> Week \cup {None, Gone}]
    /\ slots \in [Slots -> Slot \cup {None, Gone}]
    /\ places \in [Places -> Place \cup {None, Gone}]
    /\ now \in Times /\ asked \in [Templates -> SUBSET Slots]
    /\ cut \cup moved \subseteq Templates /\ struck \subseteq Slots /\ late \subseteq Places
    /\ FlightsOK

\* A template lacks a slot that it was created with only while its creation
\* goes on, because the slot was deleted, or because the creation was refused
\* or died after the template was committed.
WeeksAreWhole ==
    \A t \in Templates : Exists(weeks[t]) =>
        \/ asked[t] \ struck = SlotsOf(t)
        \/ t \in cut
        \/ \E w \in Workers : pc[w] \in {"creating", "filling"} /\ req[w].template = t

\* From one hour before a mass to two hours after it has begun.
Near(start, at) == start - 1 <= at /\ at <= start + 2

\* A servant was added within the window of his mass, unless the period was
\* changed, he came with the template, or the window was left between the look
\* at it and the commit.
AddedInWindow ==
    \A p \in Places : Exists(places[p]) =>
        LET s == places[p].slot IN
        \/ p \in late \/ slots[s].template \in moved
        \/ Near(MassStart(WeekOf(s), slots[s]), places[p].added_at)

\* A slot is of the template that it was created with, and its places go with it.
RowsBelong ==
    /\ \A s \in Slots :
          /\ Exists(slots[s]) => /\ Exists(weeks[slots[s].template])
                                 /\ s \in asked[slots[s].template]
          /\ s \in struck => slots[s] = Gone
    /\ \A p \in Places : Exists(places[p]) => Exists(slots[places[p].slot])
    /\ \A t, o \in Templates : t # o => asked[t] \cap asked[o] = {}
    /\ \A t \in Templates : weeks[t] = None => asked[t] = {}

\* The slot is found in its week, and its window is open.
Open(week, slot, at) ==
    SlotDate(week, slot.day) # None /\ Within(MassStart(week, slot), at)

Creating(w) == pc[w] \in {"creating", "filling"}

\* What a request that waits knows: the slots that it still has to create are the ones its
\* template lacks, and a servant was let in within the window of his mass.
Sound(w) ==
    LET r == req[w] IN
    \/ pc[w] = "idle"
    \/ /\ Creating(w)
       /\ r = [op |-> "create", template |-> r.template, todo |-> r.todo, last |-> r.last]
       /\ r.template \in Templates /\ weeks[r.template] # None
       /\ r.todo \subseteq asked[r.template]
       /\ \A s \in r.todo : slots[s] = None
       /\ Exists(weeks[r.template]) =>
             SlotsOf(r.template) = asked[r.template] \ (struck \cup r.todo)
       /\ \A v \in Workers \ {w} : Creating(v) => req[v].template # r.template
       /\ pc[w] = "filling" => r.last \in Slots
    \/ /\ pc[w] = "adding"
       /\ r = [op |-> "add", slot |-> r.slot, since |-> r.since]
       /\ r.slot \in Slots /\ slots[r.slot] # None /\ r.since \in Times /\ r.since <= now
       /\ Exists(slots[r.slot]) => LET s == slots[r.slot] IN
             s.template \in moved \/ Open(weeks[s.template], s, r.since)

Inv ==
    /\ TypeOK /\ WeeksAreWhole /\ AddedInWindow /\ RowsBelong
    /\ \A w \in Workers : Sound(w)
=============================================================================
