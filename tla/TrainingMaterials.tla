-------------------------- MODULE TrainingMaterials --------------------------
(***************************************************************************)
(* The teaching materials of the courses: their files, the sessions they   *)
(* are linked to, and the counter of how often each was shown.             *)
(***************************************************************************)
EXTENDS Requests

CONSTANTS
    Sessions,   \* rows of training_sessions
    Materials   \* rows of training_materials

VARIABLES
    alive,      \* sessions there are
    materials,  \* table training_materials: how often each was shown
    links,      \* table training_session_materials
    stored,     \* files in the storage
    shown,      \* history: how often each was shown in an answer
    crossed     \* history: materials two showings have met on

libraryTables  == <<alive, materials, links, stored>>
libraryHistory == <<shown, crossed>>

-----------------------------------------------------------------------------
\* Of a row, the views it has been counted.
NewMaterial == 0

\* The file is stored, then its row is inserted.
UploadMaterial(w, m) ==
    /\ materials[m] = None /\ m \notin stored
    /\ stored' = stored \cup {m}
    /\ Begin(w, [op |-> "upload", upload |-> m], "creating")
    /\ UNCHANGED <<alive, materials, links, libraryHistory>>

InsertMaterial(w) ==
    /\ pc[w] = "creating"
    /\ materials' = [materials EXCEPT ![req[w].upload] = NewMaterial]
    /\ Return(w)
    /\ UNCHANGED <<alive, links, stored, libraryHistory>>

\* The row of a file that is somewhere else.
CreateMaterial(m) ==
    /\ materials[m] = None /\ m \notin stored
    /\ materials' = [materials EXCEPT ![m] = NewMaterial]
    /\ UNCHANGED <<alive, links, stored, libraryHistory, flights>>

\* The row is read and keeps what was read for this session.
GetMaterial(w, m) ==
    /\ Exists(materials[m])
    /\ Begin(w, [op |-> "show", material |-> m, read |-> materials[m]], "showing")
    /\ UNCHANGED <<libraryTables, libraryHistory>>

\* Mutation: a showing counts twice.
IncrementTwice(w) ==
    LET r == req[w]  m == r.material IN
    /\ pc[w] = "showing" /\ Exists(materials[m])
    /\ materials' = [materials EXCEPT ![m] = r.read + 2]
    /\ shown' = [shown EXCEPT ![m] = @ + 1]
    /\ crossed' = IF Alongside(w, "material", m) THEN crossed \cup {m} ELSE crossed
    /\ Return(w)
    /\ UNCHANGED <<alive, links, stored>>

\* What was read is increased by one and written.
IncrementViewCount(w) ==
    LET r == req[w]  m == r.material IN
    /\ pc[w] = "showing" /\ Exists(materials[m])
    /\ materials' = [materials EXCEPT ![m] = r.read + 1]
    /\ shown' = [shown EXCEPT ![m] = @ + 1]
    /\ crossed' = IF Alongside(w, "material", m) THEN crossed \cup {m} ELSE crossed
    /\ Return(w)
    /\ UNCHANGED <<alive, links, stored>>

MaterialIsGone(w) ==
    /\ pc[w] = "showing" /\ ~Exists(materials[req[w].material])
    /\ Return(w)
    /\ UNCHANGED <<libraryTables, libraryHistory>>

\* The links go with the material or the session (ON DELETE CASCADE), the file
\* stays in the storage.
DeleteMaterial(m) ==
    /\ Exists(materials[m])
    /\ materials' = [materials EXCEPT ![m] = Gone]
    /\ links' = {l \in links : l[2] # m}
    /\ UNCHANGED <<alive, stored, libraryHistory, flights>>

SessionGoes(s) ==
    /\ s \in alive
    /\ alive' = alive \ {s}
    /\ links' = {l \in links : l[1] # s}
    /\ UNCHANGED <<materials, stored, libraryHistory, flights>>

AddMaterialToSession(s, m) ==
    /\ s \in alive /\ Exists(materials[m])
    /\ links' = links \cup {<<s, m>>}
    /\ UNCHANGED <<alive, materials, stored, libraryHistory, flights>>

RemoveMaterialFromSession(s, m) ==
    /\ <<s, m>> \in links
    /\ links' = links \ {<<s, m>>}
    /\ UNCHANGED <<alive, materials, stored, libraryHistory, flights>>

AbortLibrary(w) == Die(w) /\ UNCHANGED <<libraryTables, libraryHistory>>

-----------------------------------------------------------------------------
Init ==
    /\ alive = Sessions
    /\ materials = [m \in Materials |-> None]
    /\ links = {} /\ stored = {}
    /\ shown = [m \in Materials |-> 0]
    /\ crossed = {}
    /\ InitFlights

LinkDesk(s, m) == AddMaterialToSession(s, m) \/ RemoveMaterialFromSession(s, m)

MaterialDesk(m) == CreateMaterial(m) \/ DeleteMaterial(m)

ServeLibrary(w) ==
    \/ InsertMaterial(w) \/ IncrementViewCount(w) \/ MaterialIsGone(w) \/ AbortLibrary(w)

Next == \/ \E m \in Materials :
              \/ MaterialDesk(m)
              \/ \E w \in Workers : UploadMaterial(w, m) \/ GetMaterial(w, m)
              \/ \E s \in Sessions : LinkDesk(s, m)
        \/ \E s \in Sessions : SessionGoes(s)
        \/ \E w \in Workers : ServeLibrary(w)

Spec == Init /\ [][Next]_<<libraryTables, libraryHistory, flights>>

-----------------------------------------------------------------------------
TypeOK ==
    /\ alive \subseteq Sessions
    /\ materials \in [Materials -> (0 .. MaxCalls) \cup {None, Gone}]
    /\ links \subseteq Sessions \X Materials /\ stored \subseteq Materials
    /\ shown \in [Materials -> 0 .. MaxCalls] /\ crossed \subseteq Materials
    /\ FlightsOK

\* The counter of a material says how often it was shown, unless two showings
\* have met: then both have written the same count.
ViewsCounted ==
    \A m \in Materials :
        Exists(materials[m]) =>
            IF m \in crossed THEN materials[m] <= shown[m] ELSE materials[m] = shown[m]

\* What a request that waits has read: a showing the count as it is, unless another has
\* met it; who uploads is alone with the file.
Sound(w) ==
    LET r == req[w] IN
    \/ pc[w] = "idle"
    \/ /\ pc[w] = "creating"
       /\ r = [op |-> "upload", upload |-> r.upload]
       /\ r.upload \in stored /\ materials[r.upload] = None
       /\ \A v \in Workers \ {w} : pc[v] = "creating" => req[v].upload # r.upload
    \/ /\ pc[w] = "showing"
       /\ r = [op |-> "show", material |-> r.material, read |-> r.read]
       /\ r.material \in Materials /\ materials[r.material] # None
       /\ r.read \in 0 .. shown[r.material]
       /\ Exists(materials[r.material]) =>
             r.material \in crossed \/ r.read = materials[r.material]

\* The requests in flight, and what was shown, have come in.
Busy == {w \in Workers : pc[w] # "idle"}

Inv ==
    /\ TypeOK /\ ViewsCounted
    /\ \A m \in Materials :
          /\ materials[m] = None => shown[m] = 0 /\ m \notin crossed
          /\ shown[m] + Cardinality(Busy) <= sent
    /\ \A w \in Workers : Sound(w)
=============================================================================
