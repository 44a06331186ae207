------------------------- MODULE MoreServicesProofs --------------------------
(***************************************************************************)
(* The services of the parish's life, proved for any number of requests in *)
(* flight, of rows and of calls, as ServicesProofs does it: a section is a *)
(* service, whose invariant Inv holds at first (Init), is kept by a step   *)
(* of the service (Next) and by a step that changes nothing of it (Stays). *)
(* Constants is what is assumed of its constants, Other what a request     *)
(* that does not move still knows after the step of another; a lemma       *)
(* between them is a kind of step that several actions are.  The last      *)
(* section puts the services together.                                     *)
(***************************************************************************)
EXTENDS MoreServices, Sequences, FiniteSetTheorems, TLAPS

------------------------------------------------------------------------------
\* MaterialItems

LEMMA ItemsConstants ==
    /\ MaxCalls \in Nat
    /\ None # Gone /\ None # Elsewhere /\ None \notin Rows /\ Elsewhere \notin Rows
    /\ None \notin Upkeeps
    /\ None \notin Items!Item /\ Gone \notin Items!Item
BY MoreServicesAssumption

LEMMA ItemsInit == Items!Init => Items!Inv
BY ItemsConstants
   DEF Items!Init, Items!InitFlights, Items!NoRequest, Items!Exists, Items!Inv, Items!TypeOK,
       Items!FlightsOK, Items!PhotoOnFile, Items!Recorded, Items!OwnPhotos, Items!Names, Items!Sound

\* A row that stands has its two fields.
LEMMA ItemsRow ==
    ASSUME Items!Inv, NEW i \in Ones
    PROVE  /\ x1[i] \in Items!Item \cup {None, Gone}
           /\ Items!Exists(x1[i]) <=> x1[i] \in Items!Item
           /\ Items!Exists(x1[i]) => /\ x1[i].photo \in Rows \cup {None, Elsewhere}
                                     /\ x1[i].serviced \in Upkeeps \cup {None}
                                     /\ x1[i] = [photo |-> x1[i].photo, serviced |-> x1[i].serviced]
BY ItemsConstants DEF Items!Inv, Items!TypeOK, Items!Exists, Items!Item

\* A request that moves.
LEMMA ItemsMove ==
    ASSUME Items!Inv, NEW w \in Workers, NEW r, NEW place,
           Items!At(w, r, place), place = "idle" <=> r = Items!NoRequest,
           sent' \in 0 .. MaxCalls
    PROVE  /\ Items!FlightsOK' /\ pc'[w] = place /\ req'[w] = r
           /\ \A v \in Workers \ {w} : pc'[v] = pc[v] /\ req'[v] = req[v]
BY DEF Items!Inv, Items!TypeOK, Items!FlightsOK, Items!At

LEMMA ItemsEnd ==
    ASSUME Items!Inv, NEW w \in Workers, Items!Return(w)
    PROVE  /\ Items!FlightsOK' /\ pc'[w] = "idle" /\ Items!Sound(w)'
           /\ \A v \in Workers \ {w} : pc'[v] = pc[v] /\ req'[v] = req[v]
<1>1. Items!At(w, Items!NoRequest, "idle") /\ sent' \in 0 .. MaxCalls
  BY DEF Items!Return, Items!Continue, Items!Inv, Items!TypeOK, Items!FlightsOK
<1> QED
  BY <1>1, ItemsMove DEF Items!Sound

\* What a step of request w, or of the desk, leaves to the other requests: no row comes
\* back, no file is new again, and no photograph that another holds is named or lost.
LEMMA ItemsOther ==
    ASSUME Items!Inv, NEW v \in Workers, pc'[v] = pc[v], req'[v] = req[v],
           \A i \in Ones : x1[i] # None => x1'[i] # None,
           \A f \in Rows : x3[f] # "new" => x3'[f] # "new",
           \A i \in Ones : Items!Exists(x1'[i]) /\ x1'[i].photo \in Rows =>
               \/ Items!Exists(x1[i]) /\ x1[i].photo = x1'[i].photo
               \/ /\ pc[v] = "replacing" => req[v].old # x1'[i].photo
                  /\ pc[v] = "naming" => req[v].photo # x1'[i].photo,
           pc[v] = "naming" =>
               /\ x3'[req[v].photo] = "stored"
               /\ \A u \in Workers \ {v} :
                     /\ pc'[u] = "replacing" => req'[u].old # req[v].photo
                     /\ pc'[u] = "naming" => req'[u].photo # req[v].photo
    PROVE  Items!Sound(v)'
<1> USE DEF Items!Inv
<1>1. CASE pc[v] = "idle"
  BY <1>1 DEF Items!Sound
<1>2. CASE pc[v] \in {"changing", "recording"}
  <2>1. PICK i \in Ones : i = req[v].item /\ x1[i] # None
    BY <1>2 DEF Items!Sound
  <2>2. x1'[req[v].item] # None
    BY <2>1
  <2> QED
    BY <1>2, <2>2 DEF Items!Sound
<1>3. CASE pc[v] = "storing"
  <2>1. PICK i \in Ones : i = req[v].item /\ x1[i] # None
    BY <1>3 DEF Items!Sound
  <2>2. x1'[req[v].item] # None
    BY <2>1
  <2> QED
    BY <1>3, <2>2 DEF Items!Sound
<1>4. CASE pc[v] = "replacing"
  <2>1. PICK i \in Ones : i = req[v].item /\ x1[i] # None
    BY <1>4 DEF Items!Sound
  <2>2. x1'[req[v].item] # None
    BY <2>1
  <2>3. PICK f : f = req[v].old
    OBVIOUS
  <2>4. f \in Rows => x3'[f] # "new" /\ \A j \in Ones : Items!Exists(x1'[j]) /\ x1'[j].photo = f => j = i
    <3>1. f \in Rows => x3[f] # "new" /\ \A j \in Ones : Items!Exists(x1[j]) /\ x1[j].photo = f => j = i
      BY <1>4, <2>1, <2>3 DEF Items!Sound, Items!Names
    <3> QED
      BY <1>4, <2>3, <3>1
  <2> QED
    BY <1>4, <2>1, <2>2, <2>3, <2>4 DEF Items!Sound, Items!Names
<1>5. CASE pc[v] = "naming"
  <2>1. PICK i \in Ones : i = req[v].item /\ x1[i] # None
    BY <1>5 DEF Items!Sound
  <2>2. x1'[req[v].item] # None
    BY <2>1
  <2>3. PICK f \in Rows : f = req[v].photo /\ \A j \in Ones : ~(Items!Exists(x1[j]) /\ x1[j].photo = f)
    BY <1>5 DEF Items!Sound, Items!Names
  <2>4. \A j \in Ones : ~(Items!Exists(x1'[j]) /\ x1'[j].photo = f)
    BY <1>5, <2>3
  <2>5. /\ x3'[f] = "stored"
        /\ \A u \in Workers \ {v} :
              /\ pc'[u] = "replacing" => req'[u].old # f
              /\ pc'[u] = "naming" => req'[u].photo # f
    BY <1>5, <2>3
  <2> QED
    <3>1. /\ pc'[v] = "naming" /\ req'[v] = req[v]
          /\ req[v] = [op |-> "replace", item |-> i, old |-> req[v].old, photo |-> f]
      BY <1>5, <2>1, <2>3 DEF Items!Sound
    <3>2. PICK r : r = req[v]
      OBVIOUS
    <3>3. /\ pc'[v] = "naming" /\ req'[v] = r /\ r.item = i /\ r.photo = f
          /\ r = [op |-> "replace", item |-> r.item, old |-> r.old, photo |-> r.photo]
      BY <3>1, <3>2
    <3>4. x1'[i] # None
      BY <2>1, <2>2
    <3> QED
      BY <2>3, <2>4, <2>5, <3>3, <3>4 DEF Items!Sound, Items!Names
<1> QED
  BY <1>1, <1>2, <1>3, <1>4, <1>5 DEF Items!Sound

\* What the other requests have of their photographs.
LEMMA ItemsHeld ==
    ASSUME Items!Inv, NEW v \in Workers
    PROVE  /\ pc[v] = "replacing" /\ req[v].old \in Rows =>
                 x3[req[v].old] # "new" /\ \A i \in Ones :
                     Items!Exists(x1[i]) /\ x1[i].photo = req[v].old => i = req[v].item
           /\ pc[v] = "naming" =>
                 /\ req[v].photo \in Rows /\ x3[req[v].photo] = "stored"
                 /\ \A i \in Ones : ~(Items!Exists(x1[i]) /\ x1[i].photo = req[v].photo)
                 /\ \A u \in Workers \ {v} :
                       /\ pc[u] = "replacing" => req[u].old # req[v].photo
                       /\ pc[u] = "naming" => req[u].photo # req[v].photo
           /\ pc[v] # "idle" => req[v].item \in Ones /\ x1[req[v].item] # None
BY DEF Items!Inv, Items!Sound, Items!Names

\* The rows when the requests M move, one or none: the photographs that are named, the
\* days that are dated, and whose the photographs are.
LEMMA ItemsFiled ==
    ASSUME Items!Inv, NEW M \in SUBSET Workers, x4 \subseteq x4',
           \A v \in Workers \ M : pc'[v] = pc[v] /\ req'[v] = req[v],
           \* what is named
           \A i \in Ones : Items!Exists(x1'[i]) /\ x1'[i].photo \in Rows =>
               \/ Items!Exists(x1[i]) /\ x1'[i].photo = x1[i].photo
               \/ \E w \in M : /\ pc[w] = "naming" /\ req[w].item = i
                               /\ x1'[i].photo = req[w].photo /\ x3'[req[w].photo] = "stored",
           \* what is deleted
           \A f \in Rows : x3[f] = "stored" /\ x3'[f] # "stored" =>
               \E w \in M : /\ pc[w] = "replacing" /\ req[w].old = f
                            /\ pc'[w] = "storing" /\ req'[w].item = req[w].item,
           \* who is waited for
           \A i \in Ones, w \in M : pc[w] \in {"storing", "naming"} /\ req[w].item = i =>
               \/ pc'[w] \in {"storing", "naming"} /\ req'[w].item = i
               \/ i \in x4'
               \/ ~Items!Exists(x1'[i])
               \/ x3'[x1'[i].photo] = "stored"
    PROVE  Items!PhotoOnFile'
<1> SUFFICES ASSUME NEW i \in Ones, Items!Exists(x1'[i]), x1'[i].photo \in Rows
             PROVE  \/ x3'[x1'[i].photo] = "stored"
                    \/ \E v \in Workers : pc'[v] \in {"storing", "naming"} /\ req'[v].item = i
                    \/ i \in x4'
  BY DEF Items!PhotoOnFile, Items!Waiting
<1>1. PICK f \in Rows : f = x1'[i].photo
  OBVIOUS
<1>2. CASE Items!Exists(x1[i]) /\ f = x1[i].photo
  <2>1. \/ x3[f] = "stored"
        \/ \E v \in Workers : pc[v] \in {"storing", "naming"} /\ req[v].item = i
        \/ i \in x4
    BY <1>2 DEF Items!Inv, Items!PhotoOnFile, Items!Waiting
  <2>2. CASE x3[f] = "stored" /\ x3'[f] # "stored"
    <3>1. PICK w \in M : /\ pc[w] = "replacing" /\ req[w].old = f
                         /\ pc'[w] = "storing" /\ req'[w].item = req[w].item
      BY <2>2
    <3>2. i = req[w].item
      BY <1>2, <3>1, ItemsHeld
    <3> QED
      BY <3>1, <3>2
  <2>3. ASSUME NEW v \in Workers, pc[v] \in {"storing", "naming"}, req[v].item = i
        PROVE  \/ x3'[f] = "stored"
               \/ \E u \in Workers : pc'[u] \in {"storing", "naming"} /\ req'[u].item = i
               \/ i \in x4'
    <3>1. CASE v \in M
      BY <1>1, <2>3, <3>1
    <3>2. CASE v \notin M
      BY <2>3, <3>2
    <3> QED
      BY <3>1, <3>2
  <2> QED
    BY <1>1, <2>1, <2>2, <2>3
<1>3. CASE x3'[f] = "stored"
  BY <1>1, <1>3
<1> QED
  BY <1>1, <1>2, <1>3

LEMMA ItemsDated ==
    ASSUME Items!Inv, NEW M \in SUBSET Workers, x5 \subseteq x5',
           \A v \in Workers \ M : pc'[v] = pc[v] /\ req'[v] = req[v],
           \A i \in Ones : Items!Exists(x1'[i]) => \A d : <<i, d>> \in x2 => <<i, d>> \in x2',
           \* what is dated
           \A i \in Ones : Items!Exists(x1'[i]) /\ x1'[i].serviced # None =>
               \/ Items!Exists(x1[i]) /\ x1'[i].serviced = x1[i].serviced
               \/ \E w \in M : /\ pc'[w] = "recording" /\ req'[w].item = i
                               /\ req'[w].on = x1'[i].serviced
               \/ i \in x5',
           \A i \in Ones, w \in M : pc[w] = "recording" /\ req[w].item = i /\ Items!Exists(x1'[i]) =>
               <<i, req[w].on>> \in x2' \/ i \in x5'
    PROVE  Items!Recorded'
<1> SUFFICES ASSUME NEW i \in Ones, Items!Exists(x1'[i]), x1'[i].serviced # None
             PROVE  \/ <<i, x1'[i].serviced>> \in x2'
                    \/ \E v \in Workers : /\ pc'[v] = "recording" /\ req'[v].item = i
                                          /\ req'[v].on = x1'[i].serviced
                    \/ i \in x5'
  BY DEF Items!Recorded
<1>1. PICK d : d = x1'[i].serviced
  OBVIOUS
<1>2. CASE Items!Exists(x1[i]) /\ d = x1[i].serviced
  <2>1. \/ <<i, d>> \in x2
        \/ \E v \in Workers : pc[v] = "recording" /\ req[v].item = i /\ req[v].on = d
        \/ i \in x5
    BY <1>1, <1>2 DEF Items!Inv, Items!Recorded
  <2>2. ASSUME NEW v \in Workers, pc[v] = "recording", req[v].item = i, req[v].on = d
        PROVE  \/ <<i, d>> \in x2'
               \/ \E u \in Workers : pc'[u] = "recording" /\ req'[u].item = i /\ req'[u].on = d
               \/ i \in x5'
    <3>1. CASE v \in M
      BY <2>2, <3>1
    <3>2. CASE v \notin M
      BY <2>2, <3>2
    <3> QED
      BY <3>1, <3>2
  <2> QED
    BY <1>1, <2>1, <2>2
<1> QED
  BY <1>1, <1>2

LEMMA ItemsOwn ==
    ASSUME Items!Inv, NEW M \in SUBSET Workers,
           \A f \in Rows : x3[f] # "new" => x3'[f] # "new",
           \* what is named
           \A i \in Ones : Items!Exists(x1'[i]) /\ x1'[i].photo \in Rows =>
               \/ Items!Exists(x1[i]) /\ x1'[i].photo = x1[i].photo
               \/ \E w \in M : /\ pc[w] = "naming" /\ req[w].item = i
                               /\ x1'[i].photo = req[w].photo /\ x3'[req[w].photo] = "stored"
    PROVE  Items!OwnPhotos'
<1> SUFFICES ASSUME NEW f \in Rows, NEW i \in Ones, Items!Exists(x1'[i]), x1'[i].photo = f
             PROVE  /\ x3'[f] # "new"
                    /\ \A j \in Ones : Items!Exists(x1'[j]) /\ x1'[j].photo = f => j = i
  BY DEF Items!OwnPhotos, Items!Names
<1>1. ASSUME NEW j \in Ones, Items!Exists(x1'[j]), x1'[j].photo = f
      PROVE  \/ Items!Exists(x1[j]) /\ x1[j].photo = f
             \/ \E w \in M : /\ pc[w] = "naming" /\ req[w].item = j
                            /\ f = req[w].photo /\ x3'[f] = "stored"
  BY <1>1
<1>2. CASE Items!Exists(x1[i]) /\ x1[i].photo = f
  <2>1. x3[f] # "new" /\ \A j \in Ones : Items!Exists(x1[j]) /\ x1[j].photo = f => j = i
    BY <1>2 DEF Items!Inv, Items!OwnPhotos, Items!Names
  <2>2. \A w \in M : ~(pc[w] = "naming" /\ f = req[w].photo)
    BY <1>2, ItemsHeld
  <2> QED
    BY <1>1, <2>1, <2>2
<1>3. ASSUME NEW w \in M, pc[w] = "naming", req[w].item = i, f = req[w].photo, x3'[f] = "stored"
      PROVE  x3'[f] # "new" /\ \A j \in Ones : Items!Exists(x1'[j]) /\ x1'[j].photo = f => j = i
  <2>1. \A j \in Ones : ~(Items!Exists(x1[j]) /\ x1[j].photo = f)
    BY <1>3, ItemsHeld
  <2>2. \A v \in M : pc[v] = "naming" /\ req[v].photo = f => v = w
    BY <1>3, ItemsHeld
  <2> QED
    BY <1>1, <1>3, <2>1, <2>2
<1> QED
  BY <1>1, <1>2, <1>3

LEMMA ItemsRows ==
    ASSUME Items!Inv, NEW M \in SUBSET Workers,
           \A v \in Workers \ M : pc'[v] = pc[v] /\ req'[v] = req[v],
           x4 \subseteq x4', x5 \subseteq x5',
           \A i \in Ones : Items!Exists(x1'[i]) => \A d : <<i, d>> \in x2 => <<i, d>> \in x2',
           \A f \in Rows : x3[f] # "new" => x3'[f] # "new",
           \* what is named
           \A i \in Ones : Items!Exists(x1'[i]) /\ x1'[i].photo \in Rows =>
               \/ Items!Exists(x1[i]) /\ x1'[i].photo = x1[i].photo
               \/ \E w \in M : /\ pc[w] = "naming" /\ req[w].item = i
                               /\ x1'[i].photo = req[w].photo /\ x3'[req[w].photo] = "stored",
           \* what is deleted
           \A f \in Rows : x3[f] = "stored" /\ x3'[f] # "stored" =>
               \E w \in M : /\ pc[w] = "replacing" /\ req[w].old = f
                            /\ pc'[w] = "storing" /\ req'[w].item = req[w].item,
           \* who is waited for
           \A i \in Ones, w \in M : pc[w] \in {"storing", "naming"} /\ req[w].item = i =>
               \/ pc'[w] \in {"storing", "naming"} /\ req'[w].item = i
               \/ i \in x4'
               \/ ~Items!Exists(x1'[i])
               \/ x3'[x1'[i].photo] = "stored",
           \* what is dated
           \A i \in Ones : Items!Exists(x1'[i]) /\ x1'[i].serviced # None =>
               \/ Items!Exists(x1[i]) /\ x1'[i].serviced = x1[i].serviced
               \/ \E w \in M : /\ pc'[w] = "recording" /\ req'[w].item = i
                               /\ req'[w].on = x1'[i].serviced
               \/ i \in x5',
           \A i \in Ones, w \in M : pc[w] = "recording" /\ req[w].item = i /\ Items!Exists(x1'[i]) =>
               <<i, req[w].on>> \in x2' \/ i \in x5'
    PROVE  Items!PhotoOnFile' /\ Items!Recorded' /\ Items!OwnPhotos'
BY ItemsFiled, ItemsDated, ItemsOwn

\* An article that is entered or deleted at the desk.
LEMMA ItemsDesk ==
    ASSUME Items!Inv, NEW i \in Ones, Items!ItemDesk(i)
    PROVE  Items!Inv'
<1>1. /\ UNCHANGED <<x3, x4, x5, pc, req, sent>>
      /\ \/ /\ x2' = x2 /\ \E url \in {None, Elsewhere} : x1' = [x1 EXCEPT ![i] = [photo |-> url, serviced |-> None]]
         \/ x1' = [x1 EXCEPT ![i] = Gone] /\ x2' = {l \in x2 : l[1] # i}
  BY DEF Items!ItemDesk, Items!CreateItem, Items!DeleteItem, Items!flights, Items!NewItem
<1>2. /\ \A j \in Ones \ {i} : x1'[j] = x1[j]
      /\ x1'[i] # None /\ x1' \in [Ones -> Items!Item \cup {None, Gone}]
      /\ Items!Exists(x1'[i]) => x1'[i].photo \notin Rows /\ x1'[i].serviced = None
  <2>1. CASE x1' = [x1 EXCEPT ![i] = Gone]
    BY <2>1, ItemsConstants DEF Items!Inv, Items!TypeOK, Items!Exists
  <2>2. ASSUME NEW url \in {None, Elsewhere}, x1' = [x1 EXCEPT ![i] = [photo |-> url, serviced |-> None]]
        PROVE  /\ \A j \in Ones \ {i} : x1'[j] = x1[j]
               /\ x1'[i] # None /\ x1' \in [Ones -> Items!Item \cup {None, Gone}]
               /\ Items!Exists(x1'[i]) => x1'[i].photo \notin Rows /\ x1'[i].serviced = None
    <3>1. PICK row : row = [photo |-> url, serviced |-> None]
      OBVIOUS
    <3>2. row \in Items!Item /\ row.photo = url /\ row.serviced = None
      BY <3>1 DEF Items!Item
    <3> QED
      BY <2>2, <3>1, <3>2, ItemsConstants DEF Items!Inv, Items!TypeOK
  <2> QED
    BY <1>1, <2>1, <2>2
<1>3. x2' \subseteq x2 /\ \A j \in Ones : Items!Exists(x1'[j]) => \A d : <<j, d>> \in x2 => <<j, d>> \in x2'
  <2>1. CASE x2' = x2
    BY <2>1
  <2>2. CASE x1' = [x1 EXCEPT ![i] = Gone] /\ x2' = {l \in x2 : l[1] # i}
    <3>1. ~Items!Exists(x1'[i])
      BY <2>2 DEF Items!Inv, Items!TypeOK, Items!Exists
    <3>2. ASSUME NEW j \in Ones, j # i, NEW d, <<j, d>> \in x2 PROVE <<j, d>> \in x2'
      BY <2>2, <3>2
    <3> QED
      BY <2>2, <3>1, <3>2
  <2> QED
    BY <1>1, <2>1, <2>2
<1>4. Items!TypeOK'
  BY <1>1, <1>2, <1>3 DEF Items!Inv, Items!TypeOK, Items!FlightsOK
<1>5. Items!PhotoOnFile' /\ Items!Recorded' /\ Items!OwnPhotos'
  <2>1. PICK M \in SUBSET Workers : M = {}
    OBVIOUS
  <2>2. ASSUME NEW j \in Ones, Items!Exists(x1'[j]), x1'[j].photo \in Rows
        PROVE  Items!Exists(x1[j]) /\ x1'[j].photo = x1[j].photo
    <3>1. j # i
      BY <1>2, <2>2
    <3>2. x1'[j] = x1[j]
      BY <1>2, <3>1
    <3> QED
      BY <2>2, <3>2
  <2>3. ASSUME NEW j \in Ones, Items!Exists(x1'[j]), x1'[j].serviced # None
        PROVE  Items!Exists(x1[j]) /\ x1'[j].serviced = x1[j].serviced
    <3>1. j # i
      BY <1>2, <2>3
    <3>2. x1'[j] = x1[j]
      BY <1>2, <3>1
    <3> QED
      BY <2>3, <3>2
  <2>4. /\ \A v \in Workers \ M : pc'[v] = pc[v] /\ req'[v] = req[v]
        /\ x4 \subseteq x4' /\ x5 \subseteq x5'
        /\ x3' = x3
    BY <1>1
  <2> QED
    BY <1>3, <2>1, <2>2, <2>3, <2>4, ItemsRows
<1>6. ASSUME NEW v \in Workers PROVE Items!Sound(v)'
  <2>1. pc[v] = "naming" =>
            /\ x3'[req[v].photo] = "stored"
            /\ \A u \in Workers \ {v} :
                  /\ pc'[u] = "replacing" => req'[u].old # req[v].photo
                  /\ pc'[u] = "naming" => req'[u].photo # req[v].photo
    BY <1>1, ItemsHeld
  <2> QED
    BY <1>1, <1>2, <2>1, ItemsOther
<1> QED
  BY <1>4, <1>5, <1>6 DEF Items!Inv

\* A request that comes in.
LEMMA ItemsAsks ==
    ASSUME Items!Inv, NEW w \in Workers, NEW i \in Ones, Items!ItemRequest(w, i) \/ Items!UpkeepDesk(w, i)
    PROVE  Items!Inv'
<1> DEFINE Row(r, place) ==
             \/ /\ place = "changing"
                /\ \E op \in {"edit", "upkeep"}, url \in {None, Elsewhere}, d \in Upkeeps \cup {None} :
                      /\ r = [op |-> op, item |-> i, read |-> x1[i], photo |-> url, on |-> d]
                      /\ op = "upkeep" => d # None
             \/ /\ place = "replacing"
                /\ r = [op |-> "replace", item |-> i, old |-> x1[i].photo, photo |-> None]
<1>0. UNCHANGED <<x1, x2, x3, x4, x5>> /\ Items!Exists(x1[i])
  BY
     DEF Items!ItemRequest, Items!UpkeepDesk, Items!EditItem, Items!AddMaintenance,
            Items!ReplacePhoto,
         Items!itemVars, Items!itemTables
<1>1. PICK r, place : /\ Items!Begin(w, r, place) /\ Row(r, place)
                      /\ UNCHANGED <<x1, x2, x3, x4, x5>> /\ Items!Exists(x1[i])
  <2>1. ASSUME NEW url \in {None, Elsewhere}, NEW d \in Upkeeps \cup {None}, Items!EditItem(w, i, url, d)
        PROVE  \E r, place : Items!Begin(w, r, place) /\ Row(r, place)
    <3>1. PICK r : r = [op |-> "edit", item |-> i, read |-> x1[i], photo |-> url, on |-> d]
      OBVIOUS
    <3>2. Row(r, "changing")
      BY <3>1
    <3>3. Items!Begin(w, r, "changing")
      BY <2>1, <3>1 DEF Items!EditItem
    <3> QED
      BY <3>2, <3>3
  <2>2. ASSUME NEW d \in Upkeeps, Items!AddMaintenance(w, i, d)
        PROVE  \E r, place : Items!Begin(w, r, place) /\ Row(r, place)
    <3>1. PICK r : r = [op |-> "upkeep", item |-> i, read |-> x1[i], photo |-> None, on |-> d]
      OBVIOUS
    <3>2. Row(r, "changing")
      BY <3>1, ItemsConstants
    <3>3. Items!Begin(w, r, "changing")
      BY <2>2, <3>1 DEF Items!AddMaintenance
    <3> QED
      BY <3>2, <3>3
  <2>3. ASSUME Items!ReplacePhoto(w, i)
        PROVE  \E r, place : Items!Begin(w, r, place) /\ Row(r, place)
    <3>1. PICK r : r = [op |-> "replace", item |-> i, old |-> x1[i].photo, photo |-> None]
      OBVIOUS
    <3>2. Row(r, "replacing")
      BY <3>1
    <3>3. Items!Begin(w, r, "replacing")
      BY <2>3, <3>1 DEF Items!ReplacePhoto
    <3> QED
      BY <3>2, <3>3
  <2> QED
    BY <1>0, <2>1, <2>2, <2>3 DEF Items!ItemRequest, Items!UpkeepDesk
<1>2. r # Items!NoRequest /\ place # "idle" /\ pc[w] = "idle" /\ Items!At(w, r, place)
  BY <1>1 DEF Items!NoRequest, Items!Begin
<1>3. sent' \in 0 .. MaxCalls
  BY <1>1, ItemsConstants DEF Items!Begin, Items!Inv, Items!TypeOK, Items!FlightsOK
<1>4. /\ Items!FlightsOK' /\ pc'[w] = place /\ req'[w] = r
      /\ \A v \in Workers \ {w} : pc'[v] = pc[v] /\ req'[v] = req[v]
  BY <1>2, <1>3, ItemsMove
<1>5. Items!TypeOK'
  BY <1>1, <1>4 DEF Items!Inv, Items!TypeOK
<1>6. place \notin {"idle", "storing", "naming", "recording"}
  BY <1>1, <1>2
<1>7. Items!PhotoOnFile' /\ Items!Recorded' /\ Items!OwnPhotos'
  <2>1. PICK M \in SUBSET Workers : M = {w}
    OBVIOUS
  <2> QED
    BY <1>1, <1>2, <1>4, <2>1, ItemsRows
<1>8. ASSUME NEW v \in Workers, v # w PROVE Items!Sound(v)'
  <2>1. pc[v] = "naming" =>
            /\ x3'[req[v].photo] = "stored"
            /\ \A u \in Workers \ {v} :
                  /\ pc'[u] = "replacing" => req'[u].old # req[v].photo
                  /\ pc'[u] = "naming" => req'[u].photo # req[v].photo
    <3>1. pc[v] = "naming" => x1[i].photo # req[v].photo
      BY <1>1, ItemsHeld
    <3>2. place = "replacing" => r.old = x1[i].photo
      BY <1>1
    <3> QED
      BY <1>1, <1>4, <1>6, <1>8, <3>1, <3>2, ItemsHeld
  <2> QED
    BY <1>1, <1>4, <1>8, <2>1, ItemsOther
<1>9. Items!Sound(w)'
  <2>0. x1[i] \in Items!Item /\ x1'[i] # None
    BY <1>1, ItemsRow DEF Items!Exists
  <2>1. CASE place = "changing"
    BY <1>1, <1>4, <2>0, <2>1 DEF Items!Sound
  <2>2. CASE place = "replacing"
    <3>1. x1[i].photo \in Rows => x3[x1[i].photo] # "new" /\ \A j \in Ones : Items!Names(j, x1[i].photo) => j = i
      BY <1>1 DEF Items!Inv, Items!OwnPhotos, Items!Names
    <3>2. PICK f : f = x1[i].photo
      OBVIOUS
    <3>3. f \in Rows => x3'[f] # "new" /\ \A j \in Ones : Items!Exists(x1'[j]) /\ x1'[j].photo = f => j = i
      BY <1>1, <3>1, <3>2 DEF Items!Names
    <3>4. r = [op |-> "replace", item |-> i, old |-> f, photo |-> None]
      BY <1>1, <2>2, <3>2
    <3> QED
      BY <1>4, <2>0, <2>2, <3>3, <3>4 DEF Items!Sound, Items!Names
  <2> QED
    BY <1>1, <2>1, <2>2
<1> QED
  BY <1>5, <1>7, <1>8, <1>9 DEF Items!Inv

\* A request that ends and changes no row and no file.
LEMMA ItemsEnds ==
    ASSUME Items!Inv, NEW w \in Workers, Items!Return(w), UNCHANGED <<x1, x3>>,
           x4' \in {x4, x4 \cup {req[w].item}}, x5' \in {x5, x5 \cup {req[w].item}},
           x2 \subseteq x2', x2' \subseteq Ones \X Upkeeps,
           pc[w] # "idle",
           pc[w] \in {"storing", "naming"} => req[w].item \in x4',
           pc[w] = "recording" /\ Items!Exists(x1[req[w].item]) =>
               <<req[w].item, req[w].on>> \in x2' \/ req[w].item \in x5'
    PROVE  Items!Inv'
<1>1. /\ Items!FlightsOK' /\ pc'[w] = "idle" /\ Items!Sound(w)'
      /\ \A v \in Workers \ {w} : pc'[v] = pc[v] /\ req'[v] = req[v]
  BY ItemsEnd
<1>2. req[w].item \in Ones
  BY ItemsHeld
<1>3. x4 \subseteq x4' /\ x5 \subseteq x5' /\ x4' \subseteq Ones /\ x5' \subseteq Ones
  BY <1>2 DEF Items!Inv, Items!TypeOK
<1>4. Items!TypeOK'
  BY <1>1, <1>3 DEF Items!Inv, Items!TypeOK
<1>5. Items!PhotoOnFile' /\ Items!Recorded' /\ Items!OwnPhotos'
  <2>1. PICK M \in SUBSET Workers : M = {w}
    OBVIOUS
  <2>2. ASSUME NEW i \in Ones, NEW v \in M, pc[v] \in {"storing", "naming"}, req[v].item = i
        PROVE  i \in x4'
    BY <2>1, <2>2
  <2>3. ASSUME NEW i \in Ones, NEW v \in M, pc[v] = "recording", req[v].item = i, Items!Exists(x1'[i])
        PROVE  <<i, req[v].on>> \in x2' \/ i \in x5'
    <3>1. v = w
      BY <2>1
    <3> QED
      BY <2>3, <3>1
  <2> QED
    BY <1>1, <1>3, <2>1, <2>2, <2>3, ItemsRows
<1>6. ASSUME NEW v \in Workers, v # w PROVE Items!Sound(v)'
  BY <1>1, <1>6, ItemsHeld, ItemsOther
<1> QED
  BY <1>1, <1>4, <1>5, <1>6 DEF Items!Inv

\* The first commit: of the columns that the request has changed.
LEMMA ItemsCommit ==
    ASSUME Items!Inv, NEW w \in Workers, Items!CommitItem(w)
    PROVE  Items!Inv'
<1>1. PICK r : r = req[w]
  OBVIOUS
<1>2. PICK i : i = r.item
  OBVIOUS
<1>3. /\ pc[w] = "changing" /\ i \in Ones /\ Items!Exists(x1[i])
      /\ r = [op |-> r.op, item |-> i, read |-> r.read, photo |-> r.photo, on |-> r.on]
      /\ r.op \in {"edit", "upkeep"} /\ r.read \in Items!Item
      /\ r.photo \in {None, Elsewhere} /\ r.on \in Upkeeps \cup {None}
      /\ r.op = "upkeep" => r.on # None
      /\ UNCHANGED <<x2, x3, x4>>
  <2>1. pc[w] = "changing" /\ Items!Exists(x1[i]) /\ UNCHANGED <<x2, x3, x4>>
    BY <1>1, <1>2 DEF Items!CommitItem
  <2> QED
    BY <1>1, <1>2, <2>1 DEF Items!Inv, Items!Sound
<1>4. PICK new : new = [photo    |-> IF r.photo = None THEN r.read.photo ELSE r.photo,
                        serviced |-> IF r.on = None THEN r.read.serviced ELSE r.on]
  OBVIOUS
<1>5. PICK row : row = Items!Flush(x1[i], r.read, new)
  OBVIOUS
<1>6. /\ x1' = [x1 EXCEPT ![i] = row]
      /\ IF r.op = "upkeep"
         THEN Items!Continue(w, r, "recording") /\ x5' = x5
         ELSE /\ x5' = IF r.on = None THEN x5 ELSE x5 \cup {i}
              /\ Items!Return(w)
  BY <1>1, <1>2, <1>4, <1>5 DEF Items!CommitItem
<1>7. PICK ph, se : /\ x1[i] = [photo |-> ph, serviced |-> se]
                    /\ ph \in Rows \cup {None, Elsewhere} /\ se \in Upkeeps \cup {None}
  BY <1>3, ItemsRow
<1>8. /\ row = [photo    |-> IF new.photo = r.read.photo THEN ph ELSE new.photo,
                serviced |-> IF new.serviced = r.read.serviced THEN se ELSE new.serviced]
  BY <1>5, <1>7 DEF Items!Flush
<1>9. row.photo = ph \/ row.photo = Elsewhere
  BY <1>3, <1>4, <1>8
<1>10. row.serviced = se \/ (row.serviced = r.on /\ r.on # None)
  BY <1>3, <1>4, <1>8
<1>11. row \in Items!Item /\ Items!Exists(row)
  <2>1. row = [photo |-> row.photo, serviced |-> row.serviced]
    BY <1>8
  <2>2. row.photo \in Rows \cup {None, Elsewhere} /\ row.serviced \in Upkeeps \cup {None}
    BY <1>3, <1>7, <1>9, <1>10
  <2>3. row \in Items!Item
    BY <2>1, <2>2 DEF Items!Item
  <2> QED
    BY <2>3, ItemsConstants DEF Items!Exists
<1>12. /\ x1'[i] = row /\ \A j \in Ones \ {i} : x1'[j] = x1[j]
       /\ x1' \in [Ones -> Items!Item \cup {None, Gone}]
  BY <1>3, <1>6, <1>11 DEF Items!Inv, Items!TypeOK
<1>13. x5 \subseteq x5' /\ x5' \subseteq Ones
  BY <1>3, <1>6 DEF Items!Inv, Items!TypeOK
<1>14. PICK place, q :
          /\ Items!At(w, q, place) /\ sent' = sent
          /\ \/ place = "recording" /\ q = r /\ r.op = "upkeep"
             \/ place = "idle" /\ q = Items!NoRequest /\ r.op # "upkeep"
  BY <1>6 DEF Items!Continue, Items!Return
<1>15. /\ Items!FlightsOK' /\ pc'[w] = place /\ req'[w] = q
       /\ \A v \in Workers \ {w} : pc'[v] = pc[v] /\ req'[v] = req[v]
  <2>1. place = "idle" <=> q = Items!NoRequest
    BY <1>3, <1>14 DEF Items!NoRequest
  <2>2. sent' \in 0 .. MaxCalls
    BY <1>14 DEF Items!Inv, Items!TypeOK, Items!FlightsOK
  <2> QED
    BY <1>14, <2>1, <2>2, ItemsMove
<1>16. Items!TypeOK'
  BY <1>3, <1>12, <1>13, <1>15 DEF Items!Inv, Items!TypeOK
<1>17. \A j \in Ones : x1[j] # None => x1'[j] # None
  BY <1>11, <1>12 DEF Items!Exists
<1>18. ASSUME NEW j \in Ones, Items!Exists(x1'[j]), x1'[j].photo \in Rows
       PROVE  Items!Exists(x1[j]) /\ x1'[j].photo = x1[j].photo
  <2>1. CASE j = i
    BY <1>3, <1>7, <1>9, <1>12, <1>18, <2>1, ItemsConstants
  <2>2. CASE j # i
    BY <1>12, <1>18, <2>2
  <2> QED
    BY <2>1, <2>2
<1>19. ASSUME NEW j \in Ones, Items!Exists(x1'[j]), x1'[j].serviced # None
       PROVE  \/ Items!Exists(x1[j]) /\ x1'[j].serviced = x1[j].serviced
              \/ pc'[w] = "recording" /\ req'[w].item = j /\ req'[w].on = x1'[j].serviced
              \/ j \in x5'
  <2>1. CASE j = i /\ row.serviced = se
    BY <1>3, <1>7, <1>12, <2>1
  <2>2. CASE j = i /\ row.serviced = r.on /\ r.on # None
    <3>1. CASE r.op = "upkeep"
      BY <1>2, <1>12, <1>14, <1>15, <2>2, <3>1
    <3>2. CASE r.op # "upkeep"
      BY <1>6, <2>2, <3>2
    <3> QED
      BY <3>1, <3>2
  <2>3. CASE j # i
    BY <1>12, <1>19, <2>3
  <2> QED
    BY <1>10, <2>1, <2>2, <2>3
<1>20. Items!PhotoOnFile' /\ Items!Recorded' /\ Items!OwnPhotos'
  <2>1. PICK M \in SUBSET Workers : M = {w}
    OBVIOUS
  <2>2. \A v \in M : pc[v] = "changing"
    BY <1>3, <2>1
  <2> QED
    BY <1>3, <1>13, <1>15, <1>18, <1>19, <2>1, <2>2, ItemsRows
<1>21. ASSUME NEW v \in Workers, v # w PROVE Items!Sound(v)'
  <2>1. \A j \in Ones : Items!Exists(x1'[j]) /\ x1'[j].photo \in Rows =>
               Items!Exists(x1[j]) /\ x1[j].photo = x1'[j].photo
    BY <1>18
  <2>2. pc[v] = "naming" =>
            /\ x3'[req[v].photo] = "stored"
            /\ \A u \in Workers \ {v} :
                  /\ pc'[u] = "replacing" => req'[u].old # req[v].photo
                  /\ pc'[u] = "naming" => req'[u].photo # req[v].photo
    BY <1>3, <1>14, <1>15, <1>21, ItemsHeld
  <2> QED
    BY <1>3, <1>15, <1>17, <1>21, <2>1, <2>2, ItemsOther
<1>22. Items!Sound(w)'
  <2>1. CASE place = "idle"
    BY <1>15, <2>1 DEF Items!Sound
  <2>2. CASE place = "recording"
    <3>1. q = r /\ r.op = "upkeep"
      BY <1>14, <2>2
    <3>2. x1'[i] # None
      BY <1>11, <1>12 DEF Items!Exists
    <3> QED
      BY <1>2, <1>3, <1>15, <2>2, <3>1, <3>2 DEF Items!Sound
  <2> QED
    BY <1>14, <2>1, <2>2
<1> QED
  BY <1>16, <1>20, <1>21, <1>22 DEF Items!Inv

\* The photographs: the old one is deleted, the new one is stored, and named.
LEMMA ItemsPhoto ==
    ASSUME Items!Inv, NEW w \in Workers,
           Items!DeleteOldPhoto(w) \/ Items!StoreItemPhoto(w) \/ Items!NamePhoto(w)
    PROVE  Items!Inv'
<1>0. PICK r : r = req[w]
  OBVIOUS
<1>1. PICK i \in Ones :
         /\ r = req[w] /\ i = r.item /\ x1[i] # None
         /\ r = [op |-> "replace", item |-> i, old |-> r.old, photo |-> r.photo]
  <2>1. pc[w] \in {"replacing", "storing", "naming"}
    BY DEF Items!DeleteOldPhoto, Items!StoreItemPhoto, Items!NamePhoto
  <2>2. Items!Sound(w)
    BY DEF Items!Inv
  <2> QED
    BY <1>0, <2>1, <2>2 DEF Items!Sound
<1>2. x1 \in [Ones -> Items!Item \cup {None, Gone}] /\ x3 \in [Rows -> {"new", "stored", "deleted"}]
  BY DEF Items!Inv, Items!TypeOK
<1>3. PICK M \in SUBSET Workers : M = {w}
  OBVIOUS
<1>4. sent \in 0 .. MaxCalls
  BY DEF Items!Inv, Items!TypeOK, Items!FlightsOK
<1>5. CASE Items!DeleteOldPhoto(w)
  <2>1. /\ pc[w] = "replacing" /\ Items!At(w, r, "storing") /\ sent' = sent
        /\ x3' = IF r.old \in Rows THEN [x3 EXCEPT ![r.old] = "deleted"] ELSE x3
        /\ UNCHANGED <<x1, x2, x4, x5>>
    BY <1>1, <1>5 DEF Items!DeleteOldPhoto, Items!Continue
  <2>2. /\ Items!FlightsOK' /\ pc'[w] = "storing" /\ req'[w] = r
        /\ \A v \in Workers \ {w} : pc'[v] = pc[v] /\ req'[v] = req[v]
    <3>1. r # Items!NoRequest
      BY <1>1 DEF Items!NoRequest
    <3> QED
      BY <1>4, <2>1, <3>1, ItemsMove
  <2>3. /\ x3' \in [Rows -> {"new", "stored", "deleted"}]
        /\ \A f \in Rows : x3'[f] = x3[f] \/ (f = r.old /\ x3'[f] = "deleted")
    BY <1>2, <2>1
  <2>4. Items!TypeOK'
    BY <2>1, <2>2, <2>3 DEF Items!Inv, Items!TypeOK
  <2>5. \A f \in Rows : /\ x3[f] # "new" => x3'[f] # "new"
                        /\ x3[f] = "stored" /\ x3'[f] # "stored" => req[w].old = f
    BY <1>1, <2>3
  <2>6. Items!PhotoOnFile' /\ Items!Recorded' /\ Items!OwnPhotos'
    BY <1>1, <1>3, <2>1, <2>2, <2>5, ItemsRows
  <2>7. ASSUME NEW v \in Workers, v # w PROVE Items!Sound(v)'
    <3>1. pc[v] = "naming" =>
            /\ x3'[req[v].photo] = "stored"
            /\ \A u \in Workers \ {v} :
                  /\ pc'[u] = "replacing" => req'[u].old # req[v].photo
                  /\ pc'[u] = "naming" => req'[u].photo # req[v].photo
      <4>1. pc[v] = "naming" => req[v].photo # r.old
        BY <1>1, <2>1, <2>7, ItemsHeld
      <4> QED
        BY <2>2, <2>3, <2>7, <4>1, ItemsHeld
    <3> QED
      BY <2>1, <2>2, <2>5, <2>7, <3>1, ItemsOther
  <2>8. Items!Sound(w)'
    BY <1>1, <2>1, <2>2 DEF Items!Sound
  <2> QED
    BY <2>4, <2>6, <2>7, <2>8 DEF Items!Inv
<1>6. CASE Items!StoreItemPhoto(w)
  <2>1. PICK g \in Rows : /\ pc[w] = "storing" /\ x3[g] = "new" /\ x3' = [x3 EXCEPT ![g] = "stored"]
                          /\ Items!Continue(w, [r EXCEPT !.photo = g], "naming")
                          /\ UNCHANGED <<x1, x2, x4, x5>>
    BY <1>1, <1>6 DEF Items!StoreItemPhoto
  <2>2. PICK q : q = [op |-> "replace", item |-> i, old |-> r.old, photo |-> g]
    OBVIOUS
  <2>3. Items!At(w, q, "naming") /\ sent' = sent
    <3>1. [r EXCEPT !.photo = g] = q
      BY <1>1, <2>2
    <3> QED
      BY <2>1, <3>1 DEF Items!Continue
  <2>4. /\ Items!FlightsOK' /\ pc'[w] = "naming" /\ req'[w] = q
        /\ \A v \in Workers \ {w} : pc'[v] = pc[v] /\ req'[v] = req[v]
    <3>1. q # Items!NoRequest
      BY <2>2 DEF Items!NoRequest
    <3> QED
      BY <1>4, <2>3, <3>1, ItemsMove
  <2>5. /\ x3' \in [Rows -> {"new", "stored", "deleted"}] /\ x3'[g] = "stored"
        /\ \A f \in Rows \ {g} : x3'[f] = x3[f]
    BY <1>2, <2>1
  <2>6. \A f \in Rows : /\ x3[f] # "new" => x3'[f] # "new"
                        /\ x3[f] = "stored" => x3'[f] = "stored"
    BY <2>5
  <2>7. Items!TypeOK'
    BY <2>1, <2>4, <2>5 DEF Items!Inv, Items!TypeOK
  <2>8. Items!PhotoOnFile' /\ Items!Recorded' /\ Items!OwnPhotos'
    <3>1. req'[w].item = i /\ req[w].item = i
      BY <1>1, <2>2, <2>4
    <3>2. \A v \in Workers \ M : pc'[v] = pc[v] /\ req'[v] = req[v]
      BY <1>3, <2>4
    <3>3. \A v \in M : /\ pc[v] = "storing" /\ pc'[v] = "naming" /\ req'[v].item = req[v].item
      BY <1>3, <2>1, <2>4, <3>1
    <3>4. /\ \A f \in Rows : x3[f] # "new" => x3'[f] # "new"
          /\ \A f \in Rows : x3[f] = "stored" => x3'[f] = "stored"
      BY <2>6
    <3>5. x1' = x1 /\ x2' = x2 /\ x4' = x4 /\ x5' = x5
      BY <2>1
    <3>6. \A j \in Ones, v \in M : pc[v] \in {"storing", "naming"} /\ req[v].item = j =>
             pc'[v] \in {"storing", "naming"} /\ req'[v].item = j
      BY <3>3
    <3>7. \A v \in M : pc[v] # "recording"
      BY <3>3
    <3> QED
      BY <3>2, <3>4, <3>5, <3>6, <3>7, ItemsRows
  <2>9. ASSUME NEW v \in Workers, v # w PROVE Items!Sound(v)'
    <3>1. pc[v] = "naming" =>
            /\ x3'[req[v].photo] = "stored"
            /\ \A u \in Workers \ {v} :
                  /\ pc'[u] = "replacing" => req'[u].old # req[v].photo
                  /\ pc'[u] = "naming" => req'[u].photo # req[v].photo
      <4>1. pc[v] = "naming" => req[v].photo # g /\ req[v].photo \in Rows
        BY <2>1, ItemsHeld
      <4>2. q.photo = g
        BY <2>2
      <4> QED
        BY <2>4, <2>6, <2>9, <4>1, <4>2, ItemsHeld
    <3> QED
      BY <2>1, <2>4, <2>6, <2>9, <3>1, ItemsOther
  <2>10. Items!Sound(w)'
    <3>1. \A j \in Ones : ~(Items!Exists(x1'[j]) /\ x1'[j].photo = g)
      BY <2>1 DEF Items!Inv, Items!OwnPhotos, Items!Names
    <3>2. \A v \in Workers \ {w} : /\ pc[v] = "replacing" => req[v].old # g
                                   /\ pc[v] = "naming" => req[v].photo # g
      BY <2>1, ItemsHeld
    <3>3. /\ q.item = i /\ q.photo = g /\ x1'[i] # None
          /\ q = [op |-> "replace", item |-> q.item, old |-> q.old, photo |-> q.photo]
      BY <1>1, <2>1, <2>2
    <3> QED
      BY <2>4, <2>5, <3>1, <3>2, <3>3 DEF Items!Sound, Items!Names
  <2> QED
    BY <2>7, <2>8, <2>9, <2>10 DEF Items!Inv
<1>7. CASE Items!NamePhoto(w)
  <2>1. /\ pc[w] = "naming" /\ Items!Return(w) /\ UNCHANGED <<x2, x3, x4, x5>>
        /\ x1' = IF Items!Exists(x1[i]) THEN [x1 EXCEPT ![i].photo = r.photo] ELSE x1
    BY <1>1, <1>7 DEF Items!NamePhoto
  <2>2. r.photo \in Rows /\ x3[r.photo] = "stored"
    BY <1>1, <2>1, ItemsHeld
  <2>3. /\ Items!FlightsOK' /\ pc'[w] = "idle" /\ Items!Sound(w)'
        /\ \A v \in Workers \ {w} : pc'[v] = pc[v] /\ req'[v] = req[v]
    BY <2>1, ItemsEnd
  <2>4. /\ x1' \in [Ones -> Items!Item \cup {None, Gone}]
        /\ \A j \in Ones : \/ x1'[j] = x1[j] /\ (j = i => ~Items!Exists(x1[j]))
                           \/ /\ j = i /\ Items!Exists(x1[j]) /\ Items!Exists(x1'[j])
                              /\ x1'[j].photo = r.photo /\ x1'[j].serviced = x1[j].serviced
    <3>1. CASE ~Items!Exists(x1[i])
      BY <1>2, <2>1, <3>1
    <3>2. CASE Items!Exists(x1[i])
      <4>1. PICK row : row = [x1[i] EXCEPT !.photo = r.photo]
        OBVIOUS
      <4>2. row \in Items!Item /\ row.photo = r.photo /\ row.serviced = x1[i].serviced
        BY <2>2, <3>2, <4>1, ItemsRow DEF Items!Item
      <4>3. x1' = [x1 EXCEPT ![i] = row]
        BY <2>1, <3>2, <4>1
      <4>4. Items!Exists(row)
        BY <4>2, ItemsConstants DEF Items!Exists
      <4> QED
        BY <1>2, <3>2, <4>2, <4>3, <4>4
    <3> QED
      BY <3>1, <3>2
  <2>5. Items!TypeOK'
    BY <2>1, <2>3, <2>4 DEF Items!Inv, Items!TypeOK
  <2>6. \A j \in Ones : x1[j] # None => x1'[j] # None
    BY <2>4 DEF Items!Exists
  <2>7. ASSUME NEW j \in Ones, Items!Exists(x1'[j])
        PROVE  /\ Items!Exists(x1[j]) /\ x1'[j].serviced = x1[j].serviced
               /\ x1'[j].photo = x1[j].photo \/ (j = i /\ x1'[j].photo = r.photo)
               /\ j = i => x1'[j].photo = r.photo
    BY <2>4, <2>7
  <2>8. Items!PhotoOnFile' /\ Items!Recorded' /\ Items!OwnPhotos'
    <3>1. ASSUME NEW j \in Ones, Items!Exists(x1'[j]), x1'[j].photo \in Rows
          PROVE  \/ Items!Exists(x1[j]) /\ x1'[j].photo = x1[j].photo
                 \/ \E v \in M : /\ pc[v] = "naming" /\ req[v].item = j
                                 /\ x1'[j].photo = req[v].photo /\ x3'[req[v].photo] = "stored"
      BY <1>1, <1>3, <2>1, <2>2, <2>7, <3>1
    <3>2. ASSUME NEW j \in Ones, NEW v \in M, pc[v] \in {"storing", "naming"}, req[v].item = j
          PROVE  ~Items!Exists(x1'[j]) \/ x3'[x1'[j].photo] = "stored"
      BY <1>1, <1>3, <2>1, <2>2, <2>7, <3>2
    <3>3. /\ \A v \in M : pc[v] # "recording" /\ pc[v] # "replacing"
          /\ \A v \in Workers \ M : pc'[v] = pc[v] /\ req'[v] = req[v]
      BY <1>3, <2>1, <2>3
    <3>4. \A j \in Ones : Items!Exists(x1'[j]) => Items!Exists(x1[j]) /\ x1'[j].serviced = x1[j].serviced
      BY <2>7
    <3>5. x2' = x2 /\ x3' = x3 /\ x4' = x4 /\ x5' = x5
      BY <2>1
    <3>6. /\ \A f \in Rows : x3[f] # "new" => x3'[f] # "new"
          /\ \A f \in Rows : ~(x3[f] = "stored" /\ x3'[f] # "stored")
          /\ \A j \in Ones : Items!Exists(x1'[j]) => \A d : <<j, d>> \in x2 => <<j, d>> \in x2'
          /\ \A v \in Workers \ M : pc'[v] = pc[v] /\ req'[v] = req[v]
          /\ \A j \in Ones, v \in M : ~(pc[v] = "recording" /\ req[v].item = j /\ Items!Exists(x1'[j]))
          /\ x4 \subseteq x4' /\ x5 \subseteq x5'
      BY <3>3, <3>5
    <3>7. \A j \in Ones : Items!Exists(x1'[j]) /\ x1'[j].photo \in Rows =>
              \/ Items!Exists(x1[j]) /\ x1'[j].photo = x1[j].photo
              \/ \E v \in M : /\ pc[v] = "naming" /\ req[v].item = j
                              /\ x1'[j].photo = req[v].photo /\ x3'[req[v].photo] = "stored"
      BY <3>1
    <3>8. \A j \in Ones, v \in M : pc[v] \in {"storing", "naming"} /\ req[v].item = j =>
              ~Items!Exists(x1'[j]) \/ x3'[x1'[j].photo] = "stored"
      BY <3>2
    <3>9. Items!PhotoOnFile' /\ Items!Recorded' /\ Items!OwnPhotos'
      <4>1. Items!PhotoOnFile'
        BY <3>6, <3>7, <3>8, ItemsFiled
      <4>2. Items!Recorded'
        BY <3>4, <3>6, ItemsDated
      <4>3. Items!OwnPhotos'
        BY <3>6, <3>7, ItemsOwn
      <4> QED
        BY <4>1, <4>2, <4>3
    <3> QED
      BY <3>9
  <2>9. ASSUME NEW v \in Workers, v # w PROVE Items!Sound(v)'
    <3>1. pc[v] = "naming" =>
            /\ x3'[req[v].photo] = "stored"
            /\ \A u \in Workers \ {v} :
                  /\ pc'[u] = "replacing" => req'[u].old # req[v].photo
                  /\ pc'[u] = "naming" => req'[u].photo # req[v].photo
      BY <2>1, <2>3, <2>9, ItemsHeld
    <3>2. /\ pc[v] = "replacing" => req[v].old # r.photo
          /\ pc[v] = "naming" => req[v].photo # r.photo
      BY <1>1, <2>1, <2>9, ItemsHeld
    <3>3. \A j \in Ones : Items!Exists(x1'[j]) /\ x1'[j].photo \in Rows =>
               \/ Items!Exists(x1[j]) /\ x1[j].photo = x1'[j].photo
               \/ /\ pc[v] = "replacing" => req[v].old # x1'[j].photo
                  /\ pc[v] = "naming" => req[v].photo # x1'[j].photo
      BY <2>7, <3>2
    <3> QED
      BY <2>1, <2>3, <2>6, <2>9, <3>1, <3>3, ItemsOther
  <2> QED
    BY <2>3, <2>5, <2>8, <2>9 DEF Items!Inv
<1> QED
  BY <1>5, <1>6, <1>7

LEMMA ItemsNext == Items!Inv /\ Items!Next => Items!Inv'
<1> SUFFICES ASSUME Items!Inv, Items!Next PROVE Items!Inv'
  OBVIOUS
<1>1. ASSUME NEW w \in Workers, Items!ServeItem(w) PROVE Items!Inv'
  <2> USE DEF Items!itemTables, Items!itemVars
  <2>1. x2 \subseteq Ones \X Upkeeps
    BY DEF Items!Inv, Items!TypeOK
  <2>2. CASE Items!CommitItemGone(w)
    BY <2>1, <2>2, ItemsEnds DEF Items!CommitItemGone
  <2>3. CASE Items!RefuseItemPhoto(w)
    BY <2>1, <2>3, ItemsEnds DEF Items!RefuseItemPhoto
  <2>4. CASE Items!RecordMaintenance(w)
    <3>1. /\ pc[w] = "recording" /\ Items!Return(w) /\ UNCHANGED <<x1, x3, x4, x5>>
          /\ x2' = IF Items!Exists(x1[req[w].item])
                   THEN x2 \cup {<<req[w].item, req[w].on>>} ELSE x2
      BY <2>4 DEF Items!RecordMaintenance
    <3>2. req[w].item \in Ones /\ req[w].on \in Upkeeps
      BY <3>1 DEF Items!Inv, Items!Sound
    <3>3. x2 \subseteq x2' /\ x2' \subseteq Ones \X Upkeeps
      BY <2>1, <3>1, <3>2
    <3>4. Items!Exists(x1[req[w].item]) => <<req[w].item, req[w].on>> \in x2'
      BY <3>1
    <3> QED
      BY <3>1, <3>3, <3>4, ItemsEnds
  <2>5. CASE Items!AbortItem(w)
    <3>1. /\ pc[w] # "idle" /\ Items!Return(w) /\ UNCHANGED <<x1, x2, x3>>
          /\ x4' = IF pc[w] \in {"storing", "naming"} THEN x4 \cup {req[w].item} ELSE x4
          /\ x5' = IF pc[w] = "recording" THEN x5 \cup {req[w].item} ELSE x5
      BY <2>5 DEF Items!AbortItem, Items!Die
    <3> QED
      BY <2>1, <3>1, ItemsEnds
  <2> QED
    BY <1>1, <2>2, <2>3, <2>4, <2>5, ItemsCommit, ItemsPhoto DEF Items!ServeItem
<1> QED
  BY <1>1, ItemsDesk, ItemsAsks DEF Items!Next

LEMMA ItemsStays == Items!Inv /\ UNCHANGED <<x1, x2, x3, x4, x5, pc, req, sent>> => Items!Inv'
<1> SUFFICES ASSUME Items!Inv, UNCHANGED <<x1, x2, x3, x4, x5, pc, req, sent>> PROVE Items!Inv'
  OBVIOUS
<1>1. \A v \in Workers : Items!Sound(v)'
  BY DEF Items!Inv, Items!Sound, Items!Names, Items!Exists
<1> QED
  BY <1>1
     DEF Items!Inv, Items!TypeOK, Items!FlightsOK, Items!PhotoOnFile, Items!Recorded,
            Items!OwnPhotos,
     Items!Waiting, Items!Names, Items!Exists

LEMMA ItemsHold == Items!Inv => Items!UpkeepOnRecord
BY DEF Items!Inv, Items!Recorded, Items!UpkeepOnRecord, Items!Waiting

------------------------------------------------------------------------------
\* MaterialTasks

LEMMA TasksConstants ==
    /\ MaxCalls \in Nat
    /\ None # Gone
    /\ None \notin Tasks!Task /\ Gone \notin Tasks!Task
BY MoreServicesAssumption

LEMMA TasksInit == Tasks!Init => Tasks!Inv
BY TasksConstants
   DEF Tasks!Init, Tasks!InitFlights, Tasks!NoRequest, Tasks!Exists, Tasks!Inv, Tasks!TypeOK,
       Tasks!FlightsOK, Tasks!PhotosKept, Tasks!EverybodyTold, Tasks!Sound

\* A request that moves.
LEMMA TasksMove ==
    ASSUME Tasks!Inv, NEW w \in Workers, NEW r, NEW place,
           Tasks!At(w, r, place), place = "idle" <=> r = Tasks!NoRequest,
           sent' \in 0 .. MaxCalls
    PROVE  /\ Tasks!FlightsOK' /\ pc'[w] = place /\ req'[w] = r
           /\ \A v \in Workers \ {w} : pc'[v] = pc[v] /\ req'[v] = req[v]
BY DEF Tasks!Inv, Tasks!TypeOK, Tasks!FlightsOK, Tasks!At

LEMMA TasksEnd ==
    ASSUME Tasks!Inv, NEW w \in Workers, Tasks!Return(w)
    PROVE  /\ Tasks!FlightsOK' /\ pc'[w] = "idle" /\ Tasks!Sound(w)'
           /\ \A v \in Workers \ {w} : pc'[v] = pc[v] /\ req'[v] = req[v]
<1>1. Tasks!At(w, Tasks!NoRequest, "idle") /\ sent' \in 0 .. MaxCalls
  BY DEF Tasks!Return, Tasks!Continue, Tasks!Inv, Tasks!TypeOK, Tasks!FlightsOK
<1> QED
  BY <1>1, TasksMove DEF Tasks!Sound

LEMMA TasksRows ==
    ASSUME Tasks!Inv
    PROVE  /\ x1 \in [Ones -> Tasks!Task \cup {None, Gone}]
           /\ x2 \subseteq Ones \X Others /\ x3 \subseteq Ones \X Others
           /\ x4 \subseteq Rows /\ x5 \subseteq Ones /\ x6 \subseteq Ones \X Rows
           /\ x7 \subseteq Rows /\ x8 \subseteq Ones
           /\ sent \in 0 .. MaxCalls
BY DEF Tasks!Inv, Tasks!TypeOK, Tasks!FlightsOK

LEMMA TasksRow ==
    ASSUME Tasks!Inv, NEW t \in Ones
    PROVE  /\ Tasks!Exists(x1[t]) <=> x1[t] \in Tasks!Task
           /\ Tasks!Exists(x1[t]) =>
                 /\ x1[t].before \subseteq Rows /\ x1[t].after \subseteq Rows
                 /\ x1[t] = [kind |-> x1[t].kind, broadcast |-> x1[t].broadcast, status |-> x1[t].status,
                             before |-> x1[t].before, after |-> x1[t].after]
BY TasksConstants DEF Tasks!Inv, Tasks!TypeOK, Tasks!Exists, Tasks!Task

\* Another request: the task is as it has read it, or they have met.
LEMMA TasksOther ==
    ASSUME Tasks!Inv, NEW v \in Workers, pc'[v] = pc[v], req'[v] = req[v], x3 \subseteq x3',
           \A t \in Ones : x1[t] # None => x1'[t] # None,
           \A t \in Ones : Tasks!Exists(x1'[t]) /\ pc[v] \in {"uploading", "changing"} /\ req[v].task = t =>
               t \in x8' \/ (Tasks!Exists(x1[t]) /\ x1'[t] = x1[t] /\ (t \in x8 => t \in x8'))
    PROVE  Tasks!Sound(v)'
<1>0. Tasks!Sound(v)
  BY DEF Tasks!Inv
<1>1. CASE pc[v] = "idle"
  BY <1>1 DEF Tasks!Sound
<1>2. CASE pc[v] = "announcing"
  BY <1>0, <1>2 DEF Tasks!Sound
<1>3. CASE pc[v] \in {"uploading", "changing"}
  <2>1. PICK r : r = req[v]
    OBVIOUS
  <2>2. PICK t \in Ones : t = r.task
    BY <1>0, <1>3, <2>1 DEF Tasks!Sound
  <2>3. /\ r = [op |-> r.op, task |-> r.task, read |-> r.read, arg |-> r.arg]
        /\ x1[t] # None /\ r.read \in Tasks!Task
        /\ Tasks!Exists(x1[t]) => t \in x8 \/ r.read = x1[t]
        /\ \/ r.op \in Tasks!Phases /\ (pc[v] = "changing" => r.arg \in Rows)
           \/ /\ pc[v] = "changing"
              /\ \/ r.op = "update" /\ r.arg \in Tasks!TaskStatus
                 \/ r.op = "complete" /\ r.arg \subseteq Rows
                 \/ r.op = "validate"
    BY <1>0, <1>3, <2>1, <2>2 DEF Tasks!Sound
  <2>4. /\ x1'[t] # None
        /\ Tasks!Exists(x1'[t]) => t \in x8' \/ r.read = x1'[t]
    BY <1>3, <2>1, <2>2, <2>3
  <2>5. req'[v] = r /\ pc'[v] = pc[v]
    BY <2>1
  <2> QED
    BY <1>3, <2>2, <2>3, <2>4, <2>5 DEF Tasks!Sound
<1> QED
  BY <1>0, <1>1, <1>2, <1>3 DEF Tasks!Sound

\* A step of the requests of M, or of none.
LEMMA TasksKept ==
    ASSUME Tasks!Inv, NEW M \in SUBSET Workers, Tasks!FlightsOK',
           \A v \in Workers \ M : pc'[v] = pc[v] /\ req'[v] = req[v],
           \A w \in M : Tasks!Sound(w)',
           x1' \in [Ones -> Tasks!Task \cup {None, Gone}],
           x2' \subseteq Ones \X Others, x3' \subseteq Ones \X Others,
           x4' \subseteq Rows, x5' \subseteq Ones, x6' \subseteq Ones \X Rows,
           x7' \subseteq Rows, x8' \subseteq Ones,
           x3 \subseteq x3', x5 \subseteq x5',
           \A t \in Ones : x1[t] # None => x1'[t] # None,
           \* whom a task is announced to
           \A t \in Ones : Tasks!Exists(x1'[t]) =>
               \/ Tasks!Exists(x1[t]) /\ x1'[t].broadcast = x1[t].broadcast
               \/ /\ x1[t] = None
                  /\ x1'[t].broadcast => \E w \in M : pc'[w] = "announcing" /\ req'[w].about = t,
           \A w \in M : pc[w] = "announcing" =>
               \/ {req[w].about} \X Others \subseteq x3'
               \/ req[w].about \in x5'
               \/ pc'[w] = "announcing" /\ req'[w].about = req[w].about,
           \* the photographs
           \A a \in x6' : /\ Tasks!Exists(x1'[a[1]])
                          /\ \/ a[2] \in x1'[a[1]].before \cup x1'[a[1]].after
                             \/ a[2] \in x7' \/ a[1] \in x8',
           \* what the other requests have read
           \A v \in Workers \ M, t \in Ones :
               Tasks!Exists(x1'[t]) /\ pc[v] \in {"uploading", "changing"} /\ req[v].task = t =>
               t \in x8' \/ (Tasks!Exists(x1[t]) /\ x1'[t] = x1[t] /\ (t \in x8 => t \in x8'))
    PROVE  Tasks!Inv'
<1>1. Tasks!TypeOK'
  BY DEF Tasks!TypeOK
<1>2. Tasks!PhotosKept' /\ \A a \in x6' : Tasks!Exists(x1'[a[1]])
  BY DEF Tasks!PhotosKept
<1>3. Tasks!EverybodyTold'
  <2> SUFFICES ASSUME NEW t \in Ones, Tasks!Exists(x1'[t]), x1'[t].broadcast
               PROVE  \/ {t} \X Others \subseteq x3'
                      \/ \E w \in Workers : pc'[w] = "announcing" /\ req'[w].about = t
                      \/ t \in x5'
    BY DEF Tasks!EverybodyTold
  <2>1. CASE Tasks!Exists(x1[t]) /\ x1'[t].broadcast = x1[t].broadcast
    <3>1. \/ {t} \X Others \subseteq x3
          \/ t \in x5
          \/ \E w \in Workers : pc[w] = "announcing" /\ req[w].about = t
      BY <2>1 DEF Tasks!Inv, Tasks!EverybodyTold
    <3>2. ASSUME NEW w \in Workers, pc[w] = "announcing", req[w].about = t
          PROVE  \/ {t} \X Others \subseteq x3'
                 \/ t \in x5'
                 \/ pc'[w] = "announcing" /\ req'[w].about = t
      <4>1. CASE w \in M
        BY <3>2, <4>1
      <4>2. CASE w \notin M
        BY <3>2, <4>2
      <4> QED
        BY <4>1, <4>2
    <3> QED
      BY <3>1, <3>2
  <2>2. CASE x1[t] = None
    BY <2>2 DEF Tasks!Exists
  <2> QED
    BY <2>1, <2>2
<1>4. ASSUME NEW v \in Workers PROVE Tasks!Sound(v)'
  <2>1. CASE v \in M
    BY <2>1
  <2>2. CASE v \notin M
    <3>1. \A t \in Ones :
             Tasks!Exists(x1'[t]) /\ pc[v] \in {"uploading", "changing"} /\ req[v].task = t =>
             t \in x8' \/ (Tasks!Exists(x1[t]) /\ x1'[t] = x1[t] /\ (t \in x8 => t \in x8'))
      BY <2>2
    <3>2. pc'[v] = pc[v] /\ req'[v] = req[v]
      BY <2>2
    <3> QED
      BY <3>1, <3>2, TasksOther
  <2> QED
    BY <2>1, <2>2
<1> QED
  BY <1>1, <1>2, <1>3, <1>4 DEF Tasks!Inv

\* The photographs of the tasks that stand as they are.
LEMMA TasksPhotos ==
    ASSUME Tasks!Inv, x6' \subseteq x6, x7' = x7, x8' = x8,
           \A a \in x6' : x1'[a[1]] = x1[a[1]]
    PROVE  \A a \in x6' : /\ Tasks!Exists(x1'[a[1]])
                          /\ \/ a[2] \in x1'[a[1]].before \cup x1'[a[1]].after
                             \/ a[2] \in x7' \/ a[1] \in x8'
BY DEF Tasks!Inv, Tasks!PhotosKept

\* What is done at the desk.
LEMMA TasksDesk ==
    ASSUME Tasks!Inv, UNCHANGED <<pc, req, sent, x3, x4, x5, x7, x8>>, x2' \subseteq Ones \X Others,
           x6' \subseteq x6,
           \/ x1' = x1
           \/ \E t \in Ones : /\ Tasks!Exists(x1[t]) /\ x1' = [x1 EXCEPT ![t] = Gone]
                              /\ \A a \in x6' : a[1] # t
           \/ \E t \in Ones, row \in Tasks!Task :
                 x1[t] = None /\ x1' = [x1 EXCEPT ![t] = row] /\ ~row.broadcast
    PROVE  Tasks!Inv'
<1>1. /\ x1' \in [Ones -> Tasks!Task \cup {None, Gone}]
      /\ \A t \in Ones : x1[t] # None => x1'[t] # None
      /\ \A t \in Ones : Tasks!Exists(x1'[t]) =>
            \/ Tasks!Exists(x1[t]) /\ x1'[t] = x1[t]
            \/ x1[t] = None /\ ~x1'[t].broadcast
      /\ \A a \in x6' : x1'[a[1]] = x1[a[1]]
  <2>1. \A a \in x6' : a[1] \in Ones /\ Tasks!Exists(x1[a[1]])
    BY TasksRows DEF Tasks!Inv
  <2>2. CASE x1' = x1
    BY <2>2, TasksRows, TasksConstants DEF Tasks!Exists
  <2>3. ASSUME NEW t \in Ones, Tasks!Exists(x1[t]), x1' = [x1 EXCEPT ![t] = Gone],
               \A a \in x6' : a[1] # t
        PROVE  <1>1!:
    BY <2>1, <2>3, TasksRows, TasksConstants DEF Tasks!Exists
  <2>4. ASSUME NEW t \in Ones, NEW row \in Tasks!Task, x1[t] = None,
               x1' = [x1 EXCEPT ![t] = row], ~row.broadcast
        PROVE  <1>1!:
    BY <2>1, <2>4, TasksRows, TasksConstants DEF Tasks!Exists
  <2> QED
    BY <2>2, <2>3, <2>4
<1>2. PICK M \in SUBSET Workers : M = {}
  OBVIOUS
<1>3. /\ \A v \in Workers \ M : pc'[v] = pc[v] /\ req'[v] = req[v]
      /\ \A w \in M : Tasks!Sound(w)' /\ pc[w] # "announcing"
  BY <1>2
<1>4. Tasks!FlightsOK'
  BY DEF Tasks!Inv, Tasks!TypeOK, Tasks!FlightsOK
<1>5. \A a \in x6' : /\ Tasks!Exists(x1'[a[1]])
                     /\ \/ a[2] \in x1'[a[1]].before \cup x1'[a[1]].after
                        \/ a[2] \in x7' \/ a[1] \in x8'
  BY <1>1, TasksPhotos
<1>6. \A v \in Workers \ M, t \in Ones :
         Tasks!Exists(x1'[t]) /\ pc[v] \in {"uploading", "changing"} /\ req[v].task = t =>
         Tasks!Exists(x1[t]) /\ x1'[t] = x1[t] /\ (t \in x8 => t \in x8')
  <2> SUFFICES ASSUME NEW v \in Workers, NEW t \in Ones, Tasks!Exists(x1'[t]),
                      pc[v] \in {"uploading", "changing"}, req[v].task = t
               PROVE  Tasks!Exists(x1[t]) /\ x1'[t] = x1[t]
    OBVIOUS
  <2>1. x1[t] # None
    BY DEF Tasks!Inv, Tasks!Sound
  <2> QED
    BY <1>1, <2>1
<1>7. \A t \in Ones : Tasks!Exists(x1'[t]) =>
         \/ Tasks!Exists(x1[t]) /\ x1'[t].broadcast = x1[t].broadcast
         \/ /\ x1[t] = None
            /\ x1'[t].broadcast => \E w \in M : pc'[w] = "announcing" /\ req'[w].about = t
  BY <1>1
<1>8. /\ x3' \subseteq Ones \X Others /\ x4' \subseteq Rows /\ x5' \subseteq Ones
      /\ x6' \subseteq Ones \X Rows /\ x7' \subseteq Rows /\ x8' \subseteq Ones
      /\ x3 \subseteq x3' /\ x5 \subseteq x5'
  BY TasksRows
<1> QED
  BY <1>1, <1>3, <1>4, <1>5, <1>6, <1>7, <1>8, TasksKept

LEMMA TasksDeskNext ==
    ASSUME Tasks!Inv, NEW t \in Ones, Tasks!TaskDesk(t)
    PROVE  Tasks!Inv'
<1> USE TasksRows DEF Tasks!taskHistory, Tasks!flights
<1>1. CASE Tasks!CreateCleaningTask(t)
  <2>1. PICK row : row = Tasks!NewTask("cleaning", FALSE)
    OBVIOUS
  <2>2. row \in Tasks!Task /\ ~row.broadcast
    BY <2>1 DEF Tasks!NewTask, Tasks!Task, Tasks!TaskStatus
  <2>3. x1[t] = None /\ x1' = [x1 EXCEPT ![t] = row]
    BY <1>1, <2>1 DEF Tasks!CreateCleaningTask
  <2>4. UNCHANGED <<pc, req, sent, x3, x4, x5, x7, x8>> /\ x2' \subseteq Ones \X Others /\ x6' \subseteq x6
    BY <1>1 DEF Tasks!CreateCleaningTask
  <2> QED
    BY <2>2, <2>3, <2>4, TasksDesk
<1>2. ASSUME NEW batch \in SUBSET Others, Tasks!AssignServants(t, batch) PROVE Tasks!Inv'
  <2>1. UNCHANGED <<pc, req, sent, x1, x3, x4, x5, x7, x8>> /\ x2' \subseteq Ones \X Others /\ x6' \subseteq x6
    BY <1>2 DEF Tasks!AssignServants
  <2> QED
    BY <2>1, TasksDesk
<1>3. ASSUME NEW s \in Others, Tasks!RemoveAssignment(t, s) PROVE Tasks!Inv'
  <2>1. UNCHANGED <<pc, req, sent, x1, x3, x4, x5, x7, x8>> /\ x2' \subseteq Ones \X Others /\ x6' \subseteq x6
    BY <1>3 DEF Tasks!RemoveAssignment
  <2> QED
    BY <2>1, TasksDesk
<1>4. CASE Tasks!DeleteTask(t)
  <2>1. UNCHANGED <<pc, req, sent, x3, x4, x5, x7, x8>> /\ x2' \subseteq Ones \X Others /\ x6' \subseteq x6
    BY <1>4 DEF Tasks!DeleteTask
  <2>2. Tasks!Exists(x1[t]) /\ x1' = [x1 EXCEPT ![t] = Gone] /\ \A a \in x6' : a[1] # t
    BY <1>4 DEF Tasks!DeleteTask
  <2> QED
    BY <2>1, <2>2, TasksDesk
<1> QED
  BY <1>1, <1>2, <1>3, <1>4 DEF Tasks!TaskDesk

\* A request that moves, with no task changed.
LEMMA TasksMoves ==
    ASSUME Tasks!Inv, NEW w \in Workers, Tasks!FlightsOK', Tasks!Sound(w)',
           \A v \in Workers \ {w} : pc'[v] = pc[v] /\ req'[v] = req[v],
           x1' = x1, x2' = x2, x6' = x6, x7' = x7, x8' = x8,
           x3 \subseteq x3', x3' \subseteq Ones \X Others, x4' \subseteq Rows,
           x5 \subseteq x5', x5' \subseteq Ones,
           pc[w] = "announcing" =>
               \/ {req[w].about} \X Others \subseteq x3'
               \/ req[w].about \in x5'
               \/ pc'[w] = "announcing" /\ req'[w].about = req[w].about
    PROVE  Tasks!Inv'
<1>1. PICK M \in SUBSET Workers : M = {w}
  OBVIOUS
<1>2. /\ \A v \in Workers \ M : pc'[v] = pc[v] /\ req'[v] = req[v]
      /\ \A v \in M : Tasks!Sound(v)'
      /\ \A v \in M : pc[v] = "announcing" =>
            \/ {req[v].about} \X Others \subseteq x3'
            \/ req[v].about \in x5'
            \/ pc'[v] = "announcing" /\ req'[v].about = req[v].about
  BY <1>1
<1>3. \A a \in x6' : /\ Tasks!Exists(x1'[a[1]])
                     /\ \/ a[2] \in x1'[a[1]].before \cup x1'[a[1]].after
                        \/ a[2] \in x7' \/ a[1] \in x8'
  BY TasksPhotos
<1> QED
  BY <1>2, <1>3, TasksRows, TasksKept

\* A task of aubes is entered, and announced in the background or not.
LEMMA TasksCreate ==
    ASSUME Tasks!Inv, NEW w \in Workers, NEW t \in Ones, Tasks!NewAubeTask(w, t)
    PROVE  Tasks!Inv'
<1>1. PICK b \in BOOLEAN : Tasks!CreateAubeTask(w, t, b)
  BY DEF Tasks!NewAubeTask
<1>2. PICK row : row = Tasks!NewTask("aube", b)
  OBVIOUS
<1>3. row \in Tasks!Task /\ row.broadcast = b
  BY <1>2 DEF Tasks!NewTask, Tasks!Task, Tasks!TaskStatus
<1>4. /\ x1[t] = None /\ x1' = [x1 EXCEPT ![t] = row]
      /\ x2' = x2 /\ x3' = x3 /\ x4' = x4 /\ x5' = x5 /\ x6' = x6 /\ x7' = x7 /\ x8' = x8
  BY <1>1, <1>2 DEF Tasks!CreateAubeTask, Tasks!taskHistory
<1>5. CASE ~b
  <2>1. UNCHANGED <<pc, req, sent>>
    BY <1>1, <1>5 DEF Tasks!CreateAubeTask, Tasks!flights
  <2>2. /\ UNCHANGED <<pc, req, sent, x3, x4, x5, x7, x8>> /\ x2' \subseteq Ones \X Others
        /\ x6' \subseteq x6 /\ ~row.broadcast
    BY <1>3, <1>4, <1>5, <2>1, TasksRows
  <2> QED
    BY <1>3, <1>4, <2>2, TasksDesk
<1>6. CASE b
  <2>1. PICK r : r = [op |-> "announce", about |-> t, to |-> Others]
    OBVIOUS
  <2>2. /\ pc[w] = "idle" /\ Tasks!At(w, r, "announcing") /\ r # Tasks!NoRequest
        /\ sent < MaxCalls /\ sent' = sent + 1
    BY <1>1, <1>6, <2>1 DEF Tasks!CreateAubeTask, Tasks!Begin, Tasks!NoRequest
  <2>3. sent' \in 0 .. MaxCalls
    BY <2>2, TasksRows, TasksConstants
  <2>4. /\ Tasks!FlightsOK' /\ pc'[w] = "announcing" /\ req'[w] = r
        /\ \A v \in Workers \ {w} : pc'[v] = pc[v] /\ req'[v] = req[v]
    BY <2>2, <2>3, TasksMove
  <2>5. Tasks!Sound(w)'
    BY <2>1, <2>4 DEF Tasks!Sound
  <2>6. PICK M \in SUBSET Workers : M = {w}
    OBVIOUS
  <2>7. /\ \A v \in Workers \ M : pc'[v] = pc[v] /\ req'[v] = req[v]
        /\ \A v \in M : Tasks!Sound(v)' /\ pc[v] # "announcing"
        /\ \E v \in M : pc'[v] = "announcing" /\ req'[v].about = t
    BY <2>1, <2>2, <2>4, <2>5, <2>6
  <2>8. /\ x1' \in [Ones -> Tasks!Task \cup {None, Gone}]
        /\ \A o \in Ones \ {t} : x1'[o] = x1[o]
        /\ x1'[t] = row
    BY <1>3, <1>4, TasksRows
  <2>9. /\ \A o \in Ones : x1[o] # None => x1'[o] # None
        /\ \A o \in Ones : Tasks!Exists(x1'[o]) =>
               \/ Tasks!Exists(x1[o]) /\ x1'[o].broadcast = x1[o].broadcast
               \/ /\ x1[o] = None
                  /\ x1'[o].broadcast => \E v \in M : pc'[v] = "announcing" /\ req'[v].about = o
    BY <1>4, <2>7, <2>8
  <2>10. \A a \in x6' : x1'[a[1]] = x1[a[1]]
    BY <1>4, <2>8, TasksRows DEF Tasks!Inv, Tasks!Exists
  <2>11. \A a \in x6' : /\ Tasks!Exists(x1'[a[1]])
                        /\ \/ a[2] \in x1'[a[1]].before \cup x1'[a[1]].after
                           \/ a[2] \in x7' \/ a[1] \in x8'
    BY <1>4, <2>10, TasksPhotos
  <2>12. \A v \in Workers \ M, o \in Ones :
            Tasks!Exists(x1'[o]) /\ pc[v] \in {"uploading", "changing"} /\ req[v].task = o =>
            Tasks!Exists(x1[o]) /\ x1'[o] = x1[o] /\ (o \in x8 => o \in x8')
    <3> SUFFICES ASSUME NEW v \in Workers, NEW o \in Ones, Tasks!Exists(x1'[o]),
                        pc[v] \in {"uploading", "changing"}, req[v].task = o
                 PROVE  Tasks!Exists(x1[o]) /\ x1'[o] = x1[o]
      BY <1>4
    <3>1. x1[o] # None
      BY DEF Tasks!Inv, Tasks!Sound
    <3> QED
      BY <1>4, <2>8, <3>1
  <2>13. /\ x2' \subseteq Ones \X Others /\ x3' \subseteq Ones \X Others /\ x4' \subseteq Rows
         /\ x5' \subseteq Ones /\ x6' \subseteq Ones \X Rows /\ x7' \subseteq Rows /\ x8' \subseteq Ones
         /\ x3 \subseteq x3' /\ x5 \subseteq x5'
    BY <1>4, TasksRows
  <2> QED
    BY <2>4, <2>7, <2>8, <2>9, <2>11, <2>12, <2>13, TasksKept
<1> QED
  BY <1>5, <1>6

\* A request that reads a task.
LEMMA TasksAsks ==
    ASSUME Tasks!Inv, NEW w \in Workers, NEW t \in Ones,
           Tasks!TaskRequest(w, t) \/ Tasks!PhotoRequest(w, t)
    PROVE  Tasks!Inv'
<1>1. ASSUME NEW op, NEW arg, NEW place,
             Tasks!ReadTask(w, t, op, arg, place),
             \/ place = "uploading" /\ op \in Tasks!Phases
             \/ /\ place = "changing"
                /\ \/ op = "update" /\ arg \in Tasks!TaskStatus
                   \/ op = "complete" /\ arg \subseteq Rows
                   \/ op = "validate"
      PROVE  Tasks!Inv'
  <2>1. PICK r : r = [op |-> op, task |-> t, read |-> x1[t], arg |-> arg]
    OBVIOUS
  <2>2. /\ Tasks!Exists(x1[t]) /\ pc[w] = "idle" /\ Tasks!At(w, r, place) /\ r # Tasks!NoRequest
        /\ sent < MaxCalls /\ sent' = sent + 1
        /\ x1' = x1 /\ x2' = x2 /\ x3' = x3 /\ x4' = x4 /\ x5' = x5 /\ x6' = x6 /\ x7' = x7 /\ x8' = x8
    BY <1>1, <2>1
       DEF Tasks!ReadTask, Tasks!Begin, Tasks!NoRequest, Tasks!taskTables, Tasks!taskHistory
  <2>3. sent' \in 0 .. MaxCalls /\ place # "idle"
    BY <1>1, <2>2, TasksRows, TasksConstants
  <2>4. /\ Tasks!FlightsOK' /\ pc'[w] = place /\ req'[w] = r
        /\ \A v \in Workers \ {w} : pc'[v] = pc[v] /\ req'[v] = req[v]
    BY <2>2, <2>3, TasksMove
  <2>5. x1[t] \in Tasks!Task
    BY <2>2, TasksRow
  <2>6. Tasks!Sound(w)'
    BY <1>1, <2>1, <2>2, <2>4, <2>5 DEF Tasks!Sound, Tasks!Exists
  <2> QED
    BY <2>2, <2>4, <2>6, TasksMoves, TasksRows
<1>2. ASSUME NEW s \in Tasks!TaskStatus, Tasks!UpdateTask(w, t, s) PROVE Tasks!Inv'
  BY <1>1, <1>2 DEF Tasks!UpdateTask
<1>3. ASSUME NEW photos \in SUBSET (Rows \ x4), Tasks!CompleteTask(w, t, photos) PROVE Tasks!Inv'
  <2>1. photos \subseteq Rows
    OBVIOUS
  <2> QED
    BY <1>1, <1>3, <2>1 DEF Tasks!CompleteTask
<1>4. ASSUME Tasks!ValidateTask(w, t) PROVE Tasks!Inv'
  BY <1>1, <1>4 DEF Tasks!ValidateTask
<1>5. ASSUME NEW phase \in Tasks!Phases, Tasks!UploadTaskPhoto(w, t, phase) PROVE Tasks!Inv'
  BY <1>1, <1>5 DEF Tasks!UploadTaskPhoto
<1> QED
  BY <1>2, <1>3, <1>4, <1>5 DEF Tasks!TaskRequest, Tasks!PhotoRequest

\* What a commit leaves of a task that is as it was read, and of any.
LEMMA TasksFlush ==
    ASSUME NEW row \in Tasks!Task, NEW r, r.read \in Tasks!Task,
           \/ r.op \in Tasks!Phases /\ r.arg \in Rows
           \/ r.op = "update" /\ r.arg \in Tasks!TaskStatus
           \/ r.op = "complete" /\ r.arg \subseteq Rows
           \/ r.op = "validate",
           NEW made, made = Tasks!Flush(row, r.read, Tasks!Changed(r))
    PROVE  /\ made \in Tasks!Task /\ made.broadcast = row.broadcast
           /\ row = r.read =>
                 /\ r.op \in Tasks!Phases => r.arg \in made.before \cup made.after
                 /\ r.op # "complete" => /\ row.before \subseteq made.before
                                         /\ row.after \subseteq made.after
                 /\ r.op = "complete" => /\ row.before \subseteq made.before
                                         /\ r.arg = {} => row.after \subseteq made.after
<1>1. PICK read \in Tasks!Task : read = r.read
  OBVIOUS
<1>2. PICK new : new = Tasks!Changed(r)
  OBVIOUS
<1>3. /\ new \in Tasks!Task /\ new.broadcast = read.broadcast
      /\ r.op \in Tasks!Phases => r.arg \in new.before \cup new.after
      /\ read.before \subseteq new.before
      /\ r.op # "complete" \/ r.arg = {} => read.after \subseteq new.after
  <2>1. CASE r.op = "update" /\ r.arg \in Tasks!TaskStatus
    <3>1. new = [read EXCEPT !.status = r.arg]
      BY <1>1, <1>2, <2>1 DEF Tasks!Changed
    <3> QED
      BY <2>1, <3>1 DEF Tasks!Task, Tasks!Phases
  <2>2. CASE r.op = "validate"
    <3>1. new = [read EXCEPT !.status = "VALIDEE"]
      BY <1>1, <1>2, <2>2 DEF Tasks!Changed
    <3> QED
      BY <2>2, <3>1 DEF Tasks!Task, Tasks!Phases, Tasks!TaskStatus
  <2>3. CASE r.op = "before" /\ r.arg \in Rows
    <3>1. new = [read EXCEPT !.before = read.before \cup {r.arg}]
      BY <1>1, <1>2, <2>3 DEF Tasks!Changed
    <3> QED
      BY <2>3, <3>1 DEF Tasks!Task
  <2>4. CASE r.op = "after" /\ r.arg \in Rows
    <3>1. new = [read EXCEPT !.after = read.after \cup {r.arg}]
      BY <1>1, <1>2, <2>4 DEF Tasks!Changed
    <3> QED
      BY <2>4, <3>1 DEF Tasks!Task
  <2>5. CASE r.op = "complete" /\ r.arg \subseteq Rows
    <3>1. PICK list : list = IF r.arg = {} THEN read.after ELSE r.arg
      OBVIOUS
    <3>2. PICK p : p = [read EXCEPT !.status = "TERMINEE"]
      OBVIOUS
    <3>3. p \in Tasks!Task /\ p.before = read.before /\ p.after = read.after /\ p.broadcast = read.broadcast
      BY <3>2 DEF Tasks!Task, Tasks!TaskStatus
    <3>4. new = [p EXCEPT !.after = list]
      BY <1>1, <1>2, <2>5, <3>1, <3>2, <3>3 DEF Tasks!Changed
    <3>5. list \subseteq Rows
      BY <2>5, <3>1 DEF Tasks!Task
    <3>6. new \in Tasks!Task /\ new.before = p.before /\ new.after = list /\ new.broadcast = p.broadcast
      BY <3>3, <3>4, <3>5 DEF Tasks!Task
    <3> QED
      BY <2>5, <3>1, <3>3, <3>6 DEF Tasks!Phases
  <2> QED
    BY <2>1, <2>2, <2>3, <2>4, <2>5 DEF Tasks!Phases
<1>4. made = [f \in DOMAIN row |-> IF new[f] = read[f] THEN row[f] ELSE new[f]]
  BY <1>1, <1>2 DEF Tasks!Flush
<1>5. /\ made \in Tasks!Task
      /\ made.before = IF new.before = read.before THEN row.before ELSE new.before
      /\ made.after = IF new.after = read.after THEN row.after ELSE new.after
      /\ made.broadcast = row.broadcast
  BY <1>3, <1>4 DEF Tasks!Task
<1> QED
  BY <1>1, <1>3, <1>5

\* A commit of the columns that a request has changed.
LEMMA TasksCommit ==
    ASSUME Tasks!Inv, NEW w \in Workers, Tasks!CommitTask(w)
    PROVE  Tasks!Inv'
<1>1. PICK r : r = req[w]
  OBVIOUS
<1>2. PICK t \in Ones :
         /\ t = r.task /\ Tasks!Exists(x1[t]) /\ pc[w] = "changing" /\ r.read \in Tasks!Task
         /\ t \in x8 \/ r.read = x1[t]
         /\ \/ r.op \in Tasks!Phases /\ r.arg \in Rows
            \/ r.op = "update" /\ r.arg \in Tasks!TaskStatus
            \/ r.op = "complete" /\ r.arg \subseteq Rows
            \/ r.op = "validate"
  BY <1>1 DEF Tasks!CommitTask, Tasks!Inv, Tasks!Sound
<1>3. x1[t] \in Tasks!Task
  BY <1>2, TasksRow
<1>4. PICK row : row = Tasks!Flush(x1[t], r.read, Tasks!Changed(r))
  OBVIOUS
<1>5. /\ row \in Tasks!Task /\ row.broadcast = x1[t].broadcast
      /\ x1[t] = r.read =>
            /\ r.op \in Tasks!Phases => r.arg \in row.before \cup row.after
            /\ r.op # "complete" => x1[t].before \subseteq row.before /\ x1[t].after \subseteq row.after
            /\ r.op = "complete" => /\ x1[t].before \subseteq row.before
                                    /\ r.arg = {} => x1[t].after \subseteq row.after
  BY <1>2, <1>3, <1>4, TasksFlush
<1>6. /\ x1' = [x1 EXCEPT ![t] = row]
      /\ x6' = IF r.op \in Tasks!Phases THEN x6 \cup {<<t, r.arg>>} ELSE x6
      /\ x7' = IF r.op = "complete" /\ r.arg # {} THEN x7 \cup r.read.after ELSE x7
      /\ x8' = IF Tasks!Alongside(w, "task", t) THEN x8 \cup {t} ELSE x8
      /\ Tasks!Return(w) /\ x2' = x2 /\ x3' = x3 /\ x4' = x4 /\ x5' = x5
  BY <1>1, <1>2, <1>4 DEF Tasks!CommitTask
<1>7. /\ x1' \in [Ones -> Tasks!Task \cup {None, Gone}]
      /\ \A o \in Ones \ {t} : x1'[o] = x1[o]
      /\ x1'[t] = row /\ Tasks!Exists(x1'[t])
  BY <1>5, <1>6, TasksRows, TasksConstants DEF Tasks!Exists
<1>8. /\ Tasks!FlightsOK' /\ pc'[w] = "idle" /\ Tasks!Sound(w)'
      /\ \A v \in Workers \ {w} : pc'[v] = pc[v] /\ req'[v] = req[v]
  BY <1>6, TasksEnd
<1>9. /\ x7 \subseteq x7' /\ x8 \subseteq x8' /\ x8' \subseteq Ones
      /\ r.op = "complete" /\ r.arg # {} => r.read.after \subseteq x7'
  BY <1>6, TasksRows
<1>10. x7' \subseteq Rows /\ x6' \subseteq Ones \X Rows
  <2>1. r.read.after \subseteq Rows
    BY <1>2 DEF Tasks!Task
  <2>2. r.op \in Tasks!Phases => r.arg \in Rows
    BY <1>2 DEF Tasks!Phases
  <2> QED
    BY <1>6, <2>1, <2>2, TasksRows
<1>11. ASSUME NEW a \in x6'
       PROVE  /\ Tasks!Exists(x1'[a[1]])
              /\ \/ a[2] \in x1'[a[1]].before \cup x1'[a[1]].after
                 \/ a[2] \in x7' \/ a[1] \in x8'
  <2>1. CASE a \in x6
    <3>1. a[1] \in Ones /\ Tasks!Exists(x1[a[1]])
      BY <2>1, TasksRows DEF Tasks!Inv
    <3>2. \/ a[2] \in x1[a[1]].before \cup x1[a[1]].after
          \/ a[2] \in x7 \/ a[1] \in x8
      BY <2>1 DEF Tasks!Inv, Tasks!PhotosKept
    <3>3. CASE a[1] # t
      BY <1>7, <1>9, <3>1, <3>2, <3>3
    <3>4. CASE a[1] = t
      <4>1. CASE t \in x8
        BY <1>7, <1>9, <3>4, <4>1
      <4>2. CASE x1[t] = r.read
        BY <1>5, <1>7, <1>9, <3>2, <3>4, <4>2
      <4> QED
        BY <1>2, <4>1, <4>2
    <3> QED
      BY <3>3, <3>4
  <2>2. CASE a = <<t, r.arg>> /\ r.op \in Tasks!Phases
    BY <1>2, <1>5, <1>7, <1>9, <2>2
  <2> QED
    BY <1>6, <2>1, <2>2
<1>12. PICK M \in SUBSET Workers : M = {w}
  OBVIOUS
<1>13. /\ \A v \in Workers \ M : pc'[v] = pc[v] /\ req'[v] = req[v]
       /\ \A v \in M : Tasks!Sound(v)' /\ pc[v] # "announcing"
  BY <1>2, <1>8, <1>12
<1>14. \A v \in Workers \ M, o \in Ones :
          Tasks!Exists(x1'[o]) /\ pc[v] \in {"uploading", "changing"} /\ req[v].task = o =>
          o \in x8' \/ (Tasks!Exists(x1[o]) /\ x1'[o] = x1[o] /\ (o \in x8 => o \in x8'))
  <2> SUFFICES ASSUME NEW v \in Workers \ M, NEW o \in Ones, Tasks!Exists(x1'[o]),
                      pc[v] \in {"uploading", "changing"}, req[v].task = o
               PROVE  o \in x8' \/ (Tasks!Exists(x1[o]) /\ x1'[o] = x1[o] /\ (o \in x8 => o \in x8'))
    OBVIOUS
  <2>1. CASE o # t
    BY <1>7, <1>9, <2>1
  <2>2. CASE o = t
    <3>1. req[v] = [op |-> req[v].op, task |-> t, read |-> req[v].read, arg |-> req[v].arg]
      BY <2>2 DEF Tasks!Inv, Tasks!Sound
    <3>2. "task" \in DOMAIN req[v] /\ req[v]["task"] = t
      BY <3>1
    <3>3. v \in Workers \ {w}
      BY <1>12
    <3>4. Tasks!Alongside(w, "task", t)
      BY <3>2, <3>3 DEF Tasks!Alongside
    <3> QED
      BY <1>6, <2>2, <3>4
  <2> QED
    BY <2>1, <2>2
<1>15. /\ \A o \in Ones : x1[o] # None => x1'[o] # None
       /\ \A o \in Ones : Tasks!Exists(x1'[o]) =>
             Tasks!Exists(x1[o]) /\ x1'[o].broadcast = x1[o].broadcast
  <2>1. x1'[t] # None
    BY <1>7 DEF Tasks!Exists
  <2> QED
    BY <1>2, <1>5, <1>7, <2>1
<1>16. /\ x2' \subseteq Ones \X Others /\ x3' \subseteq Ones \X Others /\ x4' \subseteq Rows
       /\ x5' \subseteq Ones /\ x3 \subseteq x3' /\ x5 \subseteq x5'
  BY <1>6, TasksRows
<1> QED
  BY <1>7, <1>8, <1>9, <1>10, <1>11, <1>13, <1>14, <1>15, <1>16, TasksKept

LEMMA TasksNext == Tasks!Inv /\ Tasks!Next => Tasks!Inv'
<1> SUFFICES ASSUME Tasks!Inv, Tasks!Next PROVE Tasks!Inv'
  OBVIOUS
<1> USE DEF Tasks!taskTables, Tasks!taskHistory
<1>1. ASSUME NEW w \in Workers, Tasks!Broadcast(w) PROVE Tasks!Inv'
  <2>1. PICK r : r = req[w]
    OBVIOUS
  <2>2. PICK t \in Ones : /\ t = r.about /\ r = [op |-> "announce", about |-> t, to |-> r.to]
                          /\ r.to \subseteq Others /\ {t} \X (Others \ r.to) \subseteq x3
                          /\ pc[w] = "announcing"
    BY <1>1, <2>1 DEF Tasks!Broadcast, Tasks!Inv, Tasks!Sound
  <2>3. /\ x1' = x1 /\ x2' = x2 /\ x4' = x4 /\ x5' = x5 /\ x6' = x6 /\ x7' = x7 /\ x8' = x8
    BY <1>1 DEF Tasks!Broadcast
  <2>4. CASE r.to = {} /\ Tasks!Return(w) /\ x3' = x3
    <3>1. /\ Tasks!FlightsOK' /\ pc'[w] = "idle" /\ Tasks!Sound(w)'
          /\ \A v \in Workers \ {w} : pc'[v] = pc[v] /\ req'[v] = req[v]
      BY <2>4, TasksEnd
    <3>2. {req[w].about} \X Others \subseteq x3'
      BY <2>1, <2>2, <2>4
    <3> QED
      BY <2>3, <2>4, <3>1, <3>2, TasksMoves, TasksRows
  <2>5. ASSUME NEW m \in r.to, x3' = x3 \cup {<<t, m>>},
               Tasks!Continue(w, [r EXCEPT !.to = @ \ {m}], "announcing")
        PROVE  Tasks!Inv'
    <3>1. PICK rest : rest = r.to \ {m}
      OBVIOUS
    <3>2. PICK q : q = [op |-> "announce", about |-> t, to |-> rest]
      OBVIOUS
    <3>3. [r EXCEPT !.to = @ \ {m}] = q /\ q # Tasks!NoRequest
      BY <2>2, <3>1, <3>2 DEF Tasks!NoRequest
    <3>4. Tasks!At(w, q, "announcing") /\ sent' \in 0 .. MaxCalls
      BY <2>5, <3>3, TasksRows DEF Tasks!Continue
    <3>5. /\ Tasks!FlightsOK' /\ pc'[w] = "announcing" /\ req'[w] = q
          /\ \A v \in Workers \ {w} : pc'[v] = pc[v] /\ req'[v] = req[v]
      BY <3>3, <3>4, TasksMove
    <3>6. rest \subseteq Others /\ {t} \X (Others \ rest) \subseteq x3'
      BY <2>2, <2>5, <3>1
    <3>7. Tasks!Sound(w)'
      BY <3>2, <3>5, <3>6 DEF Tasks!Sound
    <3>8. req'[w].about = req[w].about
      BY <2>1, <2>2, <3>2, <3>5
    <3>9. x3 \subseteq x3' /\ x3' \subseteq Ones \X Others
      BY <2>2, <2>5, TasksRows
    <3> QED
      BY <2>3, <3>5, <3>7, <3>8, <3>9, TasksMoves, TasksRows
  <2> QED
    BY <1>1, <2>1, <2>2, <2>4, <2>5 DEF Tasks!Broadcast
<1>2. ASSUME NEW w \in Workers, Tasks!StoreTaskPhoto(w) PROVE Tasks!Inv'
  <2>1. PICK r : r = req[w]
    OBVIOUS
  <2>2. PICK f \in x4 : /\ pc[w] = "uploading" /\ x4' = x4 \ {f}
                        /\ Tasks!Continue(w, [r EXCEPT !.arg = f], "changing")
                        /\ x1' = x1 /\ x2' = x2 /\ x3' = x3 /\ x5' = x5 /\ x6' = x6 /\ x7' = x7 /\ x8' = x8
    BY <1>2, <2>1 DEF Tasks!StoreTaskPhoto
  <2>3. /\ r = [op |-> r.op, task |-> r.task, read |-> r.read, arg |-> r.arg]
        /\ r.task \in Ones /\ x1[r.task] # None /\ r.read \in Tasks!Task /\ r.op \in Tasks!Phases
        /\ Tasks!Exists(x1[r.task]) => r.task \in x8 \/ r.read = x1[r.task]
    BY <2>1, <2>2 DEF Tasks!Inv, Tasks!Sound
  <2>4. PICK q : q = [op |-> r.op, task |-> r.task, read |-> r.read, arg |-> f]
    OBVIOUS
  <2>5. [r EXCEPT !.arg = f] = q /\ q # Tasks!NoRequest
    BY <2>3, <2>4 DEF Tasks!NoRequest
  <2>6. Tasks!At(w, q, "changing") /\ sent' \in 0 .. MaxCalls
    BY <2>2, <2>5, TasksRows DEF Tasks!Continue
  <2>7. /\ Tasks!FlightsOK' /\ pc'[w] = "changing" /\ req'[w] = q
        /\ \A v \in Workers \ {w} : pc'[v] = pc[v] /\ req'[v] = req[v]
    BY <2>5, <2>6, TasksMove
  <2>8. q.task = r.task /\ q.read = r.read /\ q.arg = f /\ q.op = r.op /\ f \in Rows
    BY <2>2, <2>4, TasksRows
  <2>9. Tasks!Sound(w)'
    BY <2>2, <2>3, <2>4, <2>7, <2>8 DEF Tasks!Sound
  <2>10. x4' \subseteq Rows
    BY <2>2, TasksRows
  <2> QED
    BY <2>2, <2>7, <2>9, <2>10, TasksMoves, TasksRows
<1>3. ASSUME NEW w \in Workers, Tasks!Return(w),
             x1' = x1, x2' = x2, x3' = x3, x4' = x4, x6' = x6, x7' = x7, x8' = x8,
             x5 \subseteq x5', x5' \subseteq Ones,
             pc[w] = "announcing" => req[w].about \in x5'
      PROVE  Tasks!Inv'
  <2>1. /\ Tasks!FlightsOK' /\ pc'[w] = "idle" /\ Tasks!Sound(w)'
        /\ \A v \in Workers \ {w} : pc'[v] = pc[v] /\ req'[v] = req[v]
    BY <1>3, TasksEnd
  <2> QED
    BY <1>3, <2>1, TasksMoves, TasksRows
<1>4. ASSUME NEW w \in Workers, Tasks!RefuseTaskPhoto(w) \/ Tasks!CommitTaskGone(w) PROVE Tasks!Inv'
  <2>1. /\ Tasks!Return(w) /\ pc[w] # "announcing"
        /\ x1' = x1 /\ x2' = x2 /\ x3' = x3 /\ x4' = x4 /\ x5' = x5 /\ x6' = x6 /\ x7' = x7 /\ x8' = x8
    BY <1>4 DEF Tasks!RefuseTaskPhoto, Tasks!CommitTaskGone
  <2> QED
    BY <1>3, <2>1, TasksRows
<1>5. ASSUME NEW w \in Workers, Tasks!AbortTask(w) PROVE Tasks!Inv'
  <2>1. /\ Tasks!Return(w)
        /\ x1' = x1 /\ x2' = x2 /\ x3' = x3 /\ x4' = x4 /\ x6' = x6 /\ x7' = x7 /\ x8' = x8
        /\ x5' = IF pc[w] = "announcing" THEN x5 \cup {req[w].about} ELSE x5
    BY <1>5 DEF Tasks!AbortTask, Tasks!Die
  <2>2. pc[w] = "announcing" => req[w].about \in Ones
    BY DEF Tasks!Inv, Tasks!Sound
  <2>3. x5 \subseteq x5' /\ x5' \subseteq Ones /\ (pc[w] = "announcing" => req[w].about \in x5')
    BY <2>1, <2>2, TasksRows
  <2> QED
    BY <1>3, <2>1, <2>3
<1> QED
  BY <1>1, <1>2, <1>4, <1>5, TasksCreate, TasksAsks, TasksCommit, TasksDeskNext
     DEF Tasks!Next, Tasks!ServeTask

LEMMA TasksStays == Tasks!Inv /\ UNCHANGED <<x1, x2, x3, x4, x5, x6, x7, x8, pc, req, sent>> => Tasks!Inv'
BY TasksRows, TasksDesk

------------------------------------------------------------------------------
\* SundaySchedule

LEMMA SundayConstants ==
    /\ MaxCalls \in Nat /\ None # Gone
    /\ Days \subseteq Int /\ Hours \subseteq Int /\ Times \subseteq Int
    /\ \E x \in Times : \A y \in Times : x <= y
    /\ None \notin Sunday!SundayScheduleTemplate /\ Gone \notin Sunday!SundayScheduleTemplate
    /\ None \notin Sunday!SundayMassSlot /\ Gone \notin Sunday!SundayMassSlot
    /\ None \notin Sunday!SundayMassAssignment /\ Gone \notin Sunday!SundayMassAssignment
BY MoreServicesAssumption

LEMMA SundayInit == Sunday!Init => Sunday!Inv
<1> SUFFICES ASSUME Sunday!Init PROVE Sunday!Inv
  OBVIOUS
<1>1. x5 \in Times
  BY SundayConstants DEF Sunday!Init
<1>2. Sunday!TypeOK
  BY <1>1, SundayConstants
     DEF Sunday!Init, Sunday!InitFlights, Sunday!NoRequest, Sunday!TypeOK, Sunday!FlightsOK
<1>3. Sunday!TemplatesAreWhole /\ Sunday!MarksInWindow /\ Sunday!RowsBelong
  BY SundayConstants
     DEF Sunday!Init, Sunday!Exists, Sunday!TemplatesAreWhole, Sunday!MarksInWindow,
            Sunday!RowsBelong
<1>4. \A w \in Workers : Sunday!Sound(w)
  BY DEF Sunday!Init, Sunday!InitFlights, Sunday!Sound
<1> QED
  BY <1>2, <1>3, <1>4 DEF Sunday!Inv

LEMMA SundayRows ==
    ASSUME Sunday!Inv
    PROVE  /\ x1 \in [Ones -> Sunday!SundayScheduleTemplate \cup {None, Gone}]
           /\ x2 \in [Rows -> Sunday!SundayMassSlot \cup {None, Gone}]
           /\ x3 \in [Thirds -> Sunday!SundayMassAssignment \cup {None, Gone}]
           /\ x5 \in Times /\ x5 \in Int /\ x6 \in [Ones -> SUBSET Rows]
           /\ x7 \subseteq Ones /\ x8 \subseteq Rows /\ x9 \subseteq Rows
           /\ x4 \subseteq Thirds /\ x10 \subseteq Thirds /\ x11 \subseteq Thirds
           /\ sent \in 0 .. MaxCalls
BY SundayConstants DEF Sunday!Inv, Sunday!TypeOK, Sunday!FlightsOK

LEMMA SundayTemplate ==
    ASSUME Sunday!Inv, NEW t \in Ones
    PROVE  /\ Sunday!Exists(x1[t]) <=> x1[t] \in Sunday!SundayScheduleTemplate
           /\ Sunday!Exists(x1[t]) => x1[t].day \in Days /\ x1[t].day \in Int
BY SundayConstants, SundayRows DEF Sunday!Exists, Sunday!SundayScheduleTemplate

LEMMA SundayMass ==
    ASSUME Sunday!Inv, NEW m \in Rows
    PROVE  /\ Sunday!Exists(x2[m]) <=> x2[m] \in Sunday!SundayMassSlot
           /\ Sunday!Exists(x2[m]) =>
                 /\ x2[m].hour \in Hours /\ x2[m].hour \in Int /\ x2[m].template \in Ones
                 /\ Sunday!Exists(x1[x2[m].template]) /\ m \in x6[x2[m].template]
                 /\ m \notin x8
           /\ Sunday!Exists(x2[m]) <=> x2[m] \notin {None, Gone}
<1>1. /\ Sunday!Exists(x2[m]) <=> x2[m] \in Sunday!SundayMassSlot
      /\ Sunday!Exists(x2[m]) <=> x2[m] \notin {None, Gone}
  BY SundayConstants, SundayRows DEF Sunday!Exists
<1>2. Sunday!Exists(x2[m]) => x2[m].hour \in Hours /\ x2[m].hour \in Int /\ x2[m].template \in Ones
  BY <1>1, SundayConstants DEF Sunday!SundayMassSlot
<1>3. Sunday!Exists(x2[m]) =>
                 /\ Sunday!Exists(x1[x2[m].template]) /\ m \in x6[x2[m].template]
                 /\ m \notin x8
  BY <1>1 DEF Sunday!Inv, Sunday!RowsBelong
<1> QED
  BY <1>1, <1>2, <1>3

LEMMA SundayPost ==
    ASSUME Sunday!Inv, NEW p \in Thirds
    PROVE  /\ Sunday!Exists(x3[p]) <=> x3[p] \in Sunday!SundayMassAssignment
           /\ Sunday!Exists(x3[p]) =>
                 /\ x3[p].mass \in Rows /\ Sunday!Exists(x2[x3[p].mass])
                 /\ x3[p].marked_at \in Times \cup {None}
<1>1. Sunday!Exists(x3[p]) <=> x3[p] \in Sunday!SundayMassAssignment
  BY SundayConstants, SundayRows DEF Sunday!Exists
<1>2. Sunday!Exists(x3[p]) => x3[p].mass \in Rows /\ x3[p].marked_at \in Times \cup {None}
  BY <1>1 DEF Sunday!SundayMassAssignment
<1>3. Sunday!Exists(x3[p]) => Sunday!Exists(x2[x3[p].mass])
  BY DEF Sunday!Inv, Sunday!RowsBelong
<1> QED
  BY <1>1, <1>2, <1>3

\* The masses of a template, before a step and after it.
LEMMA SundayMasses ==
    ASSUME NEW t, NEW m
    PROVE  /\ m \in Sunday!MassesOf(t) <=>
                 m \in Rows /\ Sunday!Exists(x2[m]) /\ x2[m].template = t
           /\ m \in Sunday!MassesOf(t)' <=>
                 m \in Rows /\ Sunday!Exists(x2'[m]) /\ x2'[m].template = t
BY DEF Sunday!MassesOf, Sunday!Exists

LEMMA SundayNotStruck ==
    ASSUME Sunday!Inv, NEW t
    PROVE  Sunday!MassesOf(t) \ x8 = Sunday!MassesOf(t)
BY SundayMass, SundayMasses

\* A request that moves.
LEMMA SundayMove ==
    ASSUME Sunday!Inv, NEW w \in Workers, NEW r, NEW place,
           Sunday!At(w, r, place), place = "idle" <=> r = Sunday!NoRequest,
           sent' \in 0 .. MaxCalls
    PROVE  /\ Sunday!FlightsOK' /\ pc'[w] = place /\ req'[w] = r
           /\ \A v \in Workers \ {w} : pc'[v] = pc[v] /\ req'[v] = req[v]
BY DEF Sunday!Inv, Sunday!TypeOK, Sunday!FlightsOK, Sunday!At

LEMMA SundayEnd ==
    ASSUME Sunday!Inv, NEW w \in Workers, Sunday!Return(w)
    PROVE  /\ Sunday!FlightsOK' /\ pc'[w] = "idle" /\ Sunday!Sound(w)' /\ ~Sunday!Creating(w)'
           /\ \A v \in Workers \ {w} : pc'[v] = pc[v] /\ req'[v] = req[v]
<1>1. Sunday!At(w, Sunday!NoRequest, "idle") /\ sent' \in 0 .. MaxCalls
  BY DEF Sunday!Return, Sunday!Continue, Sunday!Inv, Sunday!TypeOK, Sunday!FlightsOK
<1>2. pc'[w] = "idle"
  BY <1>1, SundayMove
<1> QED
  BY <1>1, <1>2, SundayMove DEF Sunday!Sound, Sunday!Creating

\* What a request that creates a template knows.
LEMMA SundayCreates ==
    ASSUME Sunday!Inv, NEW w \in Workers, Sunday!Creating(w), NEW r, r = req[w]
    PROVE  /\ r.template \in Ones /\ x1[r.template] # None
           /\ r.todo \subseteq x6[r.template] /\ r.todo \subseteq Rows
           /\ \A m \in r.todo : x2[m] = None
           /\ Sunday!Exists(x1[r.template]) =>
                 Sunday!MassesOf(r.template) = x6[r.template] \ (x8 \cup r.todo)
           /\ \A v \in Workers \ {w} : Sunday!Creating(v) => req[v].template # r.template
           /\ pc[w] \in {"creating", "filling", "generating"}
           /\ pc[w] = "generating" => r = [op |-> "generate", template |-> r.template, todo |-> r.todo]
           /\ pc[w] # "generating" =>
                 r = [op |-> "create", template |-> r.template, todo |-> r.todo, last |-> r.last]
           /\ pc[w] = "filling" => r.last \in Rows
<1>1. Sunday!Sound(w) /\ pc[w] \in {"creating", "filling", "generating"}
  <2>1. Sunday!Sound(w)
    BY DEF Sunday!Inv
  <2>2. pc[w] \in {"creating", "filling", "generating"}
    BY DEF Sunday!Creating
  <2> QED
    BY <2>1, <2>2
<1>2. /\ r.template \in Ones /\ x1[r.template] # None
      /\ r.todo \subseteq x6[r.template]
      /\ \A m \in r.todo : x2[m] = None
      /\ Sunday!Exists(x1[r.template]) =>
                 Sunday!MassesOf(r.template) = x6[r.template] \ (x8 \cup r.todo)
      /\ \A v \in Workers \ {w} : Sunday!Creating(v) => req[v].template # r.template
      /\ pc[w] = "generating" => r = [op |-> "generate", template |-> r.template, todo |-> r.todo]
      /\ pc[w] # "generating" =>
                 r = [op |-> "create", template |-> r.template, todo |-> r.todo, last |-> r.last]
      /\ pc[w] = "filling" => r.last \in Rows
  BY <1>1 DEF Sunday!Sound
<1>3. r.todo \subseteq Rows
  <2>1. x6[r.template] \in SUBSET Rows
    BY <1>2, SundayRows
  <2> QED
    BY <1>2, <2>1
<1> QED
  BY <1>1, <1>2, <1>3

\* What one that marks a presence knows.
LEMMA SundayMarks ==
    ASSUME Sunday!Inv, NEW w \in Workers, pc[w] \in {"marking", "logging"}, NEW r, r = req[w]
    PROVE  /\ r = [op |-> "mark", post |-> r.post, present |-> r.present, since |-> r.since]
           /\ r.post \in Thirds /\ x3[r.post] # None /\ r.present \in BOOLEAN
           /\ r.since \in Times /\ r.since \in Int /\ r.since <= x5
           /\ Sunday!Exists(x3[r.post]) =>
                 \/ x3[r.post].mass \in x9
                 \/ Sunday!Within(x1[x2[x3[r.post].mass].template].day, x2[x3[r.post].mass].hour, r.since)
<1>1. Sunday!Sound(w)
  BY DEF Sunday!Inv
<1>2. /\ r = [op |-> "mark", post |-> r.post, present |-> r.present, since |-> r.since]
      /\ r.post \in Thirds /\ x3[r.post] # None /\ r.present \in BOOLEAN
      /\ r.since \in Times /\ r.since <= x5
      /\ Sunday!Exists(x3[r.post]) =>
                 \/ x3[r.post].mass \in x9
                 \/ Sunday!Within(x1[x2[x3[r.post].mass].template].day, x2[x3[r.post].mass].hour, r.since)
  <2>1. ~Sunday!Creating(w) /\ pc[w] # "idle" /\ pc[w] # "adding"
    BY DEF Sunday!Creating
  <2> QED
    BY <1>1, <2>1 DEF Sunday!Sound
<1> QED
  BY <1>2, SundayConstants

\* The window of a mass stays, or it is noted that it has moved.
SundaySame(m) == \/ m \in x9'
                 \/ /\ x1'[x2'[m].template].day = x1[x2[m].template].day
                    /\ x2'[m].hour = x2[m].hour

\* A request that waits.
LEMMA SundayOther ==
    ASSUME Sunday!Inv, NEW v \in Workers, pc'[v] = pc[v], req'[v] = req[v],
           x5 <= x5', x5' \in Times, x8 \subseteq x8', x9 \subseteq x9',
           \A t \in Ones : x1[t] # None =>
               x1'[t] # None /\ x6'[t] = x6[t] /\ (Sunday!Exists(x1'[t]) => Sunday!Exists(x1[t])),
           \A t \in Ones : Sunday!Creating(v) /\ req[v].template = t /\ Sunday!Exists(x1'[t]) =>
               Sunday!MassesOf(t)' = Sunday!MassesOf(t) \ x8',
           \A m \in Rows : Sunday!Creating(v) /\ m \in req[v].todo => x2'[m] = None,
           \A u \in Workers \ {v} : Sunday!Creating(v) /\ Sunday!Creating(u)' =>
               req'[u].template # req[v].template,
           \A p \in Thirds : x3[p] # None => x3'[p] # None,
           \A p \in Thirds : x3[p] # None /\ Sunday!Exists(x3'[p]) =>
               /\ Sunday!Exists(x3[p]) /\ x3'[p].mass = x3[p].mass
               /\ SundaySame(x3[p].mass)
    PROVE  Sunday!Sound(v)'
<1>1. CASE pc[v] = "idle"
  BY <1>1 DEF Sunday!Sound
<1>2. CASE Sunday!Creating(v)
  <2>1. PICK r : r = req[v]
    OBVIOUS
  <2>2. PICK t \in Ones : t = r.template
    BY <1>2, <2>1, SundayCreates
  <2>3. /\ x1[t] # None /\ r.todo \subseteq x6[t] /\ r.todo \subseteq Rows
        /\ Sunday!Exists(x1[t]) => Sunday!MassesOf(t) = x6[t] \ (x8 \cup r.todo)
        /\ pc[v] \in {"creating", "filling", "generating"}
        /\ pc[v] = "generating" => r = [op |-> "generate", template |-> t, todo |-> r.todo]
        /\ pc[v] # "generating" =>
                 r = [op |-> "create", template |-> t, todo |-> r.todo, last |-> r.last]
        /\ pc[v] = "filling" => r.last \in Rows
    BY <1>2, <2>1, <2>2, SundayCreates
  <2>4. x1'[t] # None /\ x6'[t] = x6[t] /\ (Sunday!Exists(x1'[t]) => Sunday!Exists(x1[t]))
    BY <2>3
  <2>5. Sunday!Exists(x1'[t]) => Sunday!MassesOf(t)' = x6'[t] \ (x8' \cup r.todo)
    <3> SUFFICES ASSUME Sunday!Exists(x1'[t])
                 PROVE  Sunday!MassesOf(t)' = x6'[t] \ (x8' \cup r.todo)
      OBVIOUS
    <3>1. Sunday!MassesOf(t)' = Sunday!MassesOf(t) \ x8'
      BY <1>2, <2>1, <2>2
    <3>2. Sunday!MassesOf(t) = x6'[t] \ (x8 \cup r.todo)
      BY <2>3, <2>4
    <3> QED
      BY <3>1, <3>2
  <2>6. \A m \in r.todo : x2'[m] = None
    BY <1>2, <2>1, <2>3
  <2>7. \A u \in Workers \ {v} : Sunday!Creating(u)' => req'[u].template # t
    BY <1>2, <2>1, <2>2
  <2>8. pc'[v] = pc[v] /\ req'[v] = r /\ Sunday!Creating(v)'
    BY <2>1, <2>3 DEF Sunday!Creating
  <2> QED
    BY <2>2, <2>3, <2>4, <2>5, <2>6, <2>7, <2>8 DEF Sunday!Sound
<1>3. CASE pc[v] = "adding"
  <2>1. PICK r : r = req[v]
    OBVIOUS
  <2>2. r = [op |-> "add", mass |-> r.mass] /\ r.mass \in Rows
    BY <1>3, <2>1 DEF Sunday!Inv, Sunday!Sound, Sunday!Creating
  <2>3. pc'[v] = "adding" /\ req'[v] = r
    BY <1>3, <2>1
  <2> QED
    BY <2>2, <2>3 DEF Sunday!Sound
<1>4. CASE pc[v] \in {"marking", "logging"}
  <2>1. PICK r : r = req[v]
    OBVIOUS
  <2>2. PICK p \in Thirds : p = r.post
    BY <1>4, <2>1, SundayMarks
  <2>3. /\ r = [op |-> "mark", post |-> p, present |-> r.present, since |-> r.since]
        /\ x3[p] # None /\ r.present \in BOOLEAN
        /\ r.since \in Times /\ r.since \in Int /\ r.since <= x5
        /\ Sunday!Exists(x3[p]) =>
                 \/ x3[p].mass \in x9
                 \/ Sunday!Within(x1[x2[x3[p].mass].template].day, x2[x3[p].mass].hour, r.since)
    BY <1>4, <2>1, <2>2, SundayMarks
  <2>4. r.since <= x5'
    BY <2>3, SundayRows, SundayConstants
  <2>5. /\ x3'[p] # None
        /\ Sunday!Exists(x3'[p]) =>
                 \/ x3'[p].mass \in x9'
                 \/ Sunday!Within(x1'[x2'[x3'[p].mass].template].day, x2'[x3'[p].mass].hour, r.since)
    BY <2>3 DEF SundaySame
  <2>6. pc'[v] = pc[v] /\ req'[v] = r
    BY <2>1
  <2> QED
    BY <1>4, <2>2, <2>3, <2>4, <2>5, <2>6 DEF Sunday!Sound
<1>5. \/ pc[v] = "idle" \/ Sunday!Creating(v) \/ pc[v] = "adding"
      \/ pc[v] \in {"marking", "logging"}
  <2>1. Sunday!Sound(v)
    BY DEF Sunday!Inv
  <2> QED
    BY <2>1 DEF Sunday!Sound
<1> QED
  BY <1>1, <1>2, <1>3, <1>4, <1>5

\* The rows as they are after a step, so far as the next lemmas do not say it.
SundayTyped ==
    /\ x1 \in [Ones -> Sunday!SundayScheduleTemplate \cup {None, Gone}]
    /\ x2 \in [Rows -> Sunday!SundayMassSlot \cup {None, Gone}]
    /\ x3 \in [Thirds -> Sunday!SundayMassAssignment \cup {None, Gone}]
    /\ x5 \in Times /\ x6 \in [Ones -> SUBSET Rows]
    /\ x7 \subseteq Ones /\ x8 \subseteq Rows /\ x9 \subseteq Rows
    /\ x4 \subseteq Thirds /\ x10 \subseteq Thirds /\ x11 \subseteq Thirds

LEMMA SundayTypes == SundayTyped' /\ Sunday!FlightsOK' => Sunday!TypeOK'
BY DEF SundayTyped, Sunday!TypeOK

LEMMA SundayMarksThen ==
    ASSUME \A p \in Thirds : Sunday!Exists(x3'[p]) /\ x3'[p].marked_at # None =>
               \/ x3'[p].mass \in x9' \/ p \in x10'
               \/ Sunday!Near(x1'[x2'[x3'[p].mass].template].day, x2'[x3'[p].mass].hour,
                              x3'[p].marked_at)
    PROVE  Sunday!MarksInWindow'
BY DEF Sunday!MarksInWindow, Sunday!Exists

\* Of a mark: it stays as it was, or is within its window.
LEMMA SundayWindows ==
    ASSUME Sunday!Inv, SundayTyped', x9 \subseteq x9',
           \A p \in Thirds : Sunday!Exists(x3'[p]) /\ x3'[p].marked_at # None =>
               \/ p \in x10' \/ x3'[p].mass \in x9'
               \/ /\ Sunday!Exists(x3[p]) /\ x3'[p].mass = x3[p].mass
                  /\ x3'[p].marked_at = x3[p].marked_at
                  /\ p \notin x10 /\ SundaySame(x3[p].mass)
               \/ Sunday!Within(x1'[x2'[x3'[p].mass].template].day, x2'[x3'[p].mass].hour,
                                x3'[p].marked_at)
                  /\ x1'[x2'[x3'[p].mass].template].day \in Int
                  /\ x2'[x3'[p].mass].hour \in Int
    PROVE  Sunday!MarksInWindow'
<1> SUFFICES ASSUME NEW p \in Thirds, Sunday!Exists(x3'[p]), x3'[p].marked_at # None
             PROVE  \/ x3'[p].mass \in x9' \/ p \in x10'
                    \/ Sunday!Near(x1'[x2'[x3'[p].mass].template].day, x2'[x3'[p].mass].hour,
                                   x3'[p].marked_at)
  BY SundayMarksThen
<1>1. CASE /\ Sunday!Exists(x3[p]) /\ x3'[p].mass = x3[p].mass
           /\ x3'[p].marked_at = x3[p].marked_at
           /\ p \notin x10 /\ SundaySame(x3[p].mass)
  <2>1. \/ x3[p].mass \in x9
        \/ Sunday!Near(x1[x2[x3[p].mass].template].day, x2[x3[p].mass].hour, x3[p].marked_at)
    <3>1. Sunday!MarksInWindow /\ x3[p].marked_at # None
      BY <1>1 DEF Sunday!Inv
    <3> QED
      BY <1>1, <3>1 DEF Sunday!MarksInWindow
  <2> QED
    BY <1>1, <2>1 DEF SundaySame
<1>2. ASSUME Sunday!Within(x1'[x2'[x3'[p].mass].template].day, x2'[x3'[p].mass].hour,
                           x3'[p].marked_at),
             x1'[x2'[x3'[p].mass].template].day \in Int,
             x2'[x3'[p].mass].hour \in Int
      PROVE  Sunday!Near(x1'[x2'[x3'[p].mass].template].day, x2'[x3'[p].mass].hour, x3'[p].marked_at)
  <2>1. PICK row : row = x3'[p]
    OBVIOUS
  <2>2. row \in Sunday!SundayMassAssignment
    BY <2>1 DEF SundayTyped, Sunday!Exists
  <2>3. row.marked_at \in Int
    BY <2>1, <2>2, SundayConstants DEF Sunday!SundayMassAssignment
  <2> QED
    BY <1>2, <2>1, <2>3 DEF Sunday!Within, Sunday!Near
<1> QED
  BY <1>1, <1>2

\* A step that leaves the templates and the masses as they are.
LEMMA SundaySteady ==
    ASSUME Sunday!Inv, NEW M \in SUBSET Workers, Sunday!FlightsOK', SundayTyped',
           \A v \in Workers \ M : pc'[v] = pc[v] /\ req'[v] = req[v],
           \A w \in M : Sunday!Sound(w)',
           x1' = x1, x2' = x2, x6' = x6, x8' = x8, x9' = x9, x5 <= x5', x7 \subseteq x7',
           \A w \in M : Sunday!Creating(w)' =>
               Sunday!Creating(w) /\ req'[w].template = req[w].template,
           \A w \in M : Sunday!Creating(w) =>
               Sunday!Creating(w)' \/ req[w].todo = {} \/ req[w].template \in x7',
           \A p \in Thirds : x3[p] # None => x3'[p] # None,
           \A p \in Thirds : x3[p] # None /\ Sunday!Exists(x3'[p]) =>
               Sunday!Exists(x3[p]) /\ x3'[p].mass = x3[p].mass,
           \A p \in Thirds : Sunday!Exists(x3'[p]) =>
               x3'[p].mass \in Rows /\ Sunday!Exists(x2[x3'[p].mass]),
           \A p \in Thirds : Sunday!Exists(x3'[p]) /\ x3'[p].marked_at # None =>
               \/ p \in x10' \/ x3'[p].mass \in x9
               \/ /\ Sunday!Exists(x3[p]) /\ x3'[p].mass = x3[p].mass
                  /\ x3'[p].marked_at = x3[p].marked_at /\ p \notin x10
               \/ Sunday!Within(x1[x2[x3'[p].mass].template].day, x2[x3'[p].mass].hour,
                                x3'[p].marked_at)
    PROVE  Sunday!Inv'
<1>1. Sunday!TypeOK'
  BY SundayTypes
<1>2. \A t : Sunday!MassesOf(t)' = Sunday!MassesOf(t)
  BY DEF Sunday!MassesOf, Sunday!Exists
<1>3. Sunday!TemplatesAreWhole'
  <2> SUFFICES ASSUME NEW t \in Ones, Sunday!Exists(x1[t])
               PROVE  \/ x6[t] \ x8 = Sunday!MassesOf(t) \/ t \in x7'
                      \/ \E w \in Workers : Sunday!Creating(w)' /\ req'[w].template = t
    BY <1>2 DEF Sunday!TemplatesAreWhole, Sunday!Exists, Sunday!Creating
  <2>1. \/ x6[t] \ x8 = Sunday!MassesOf(t) \/ t \in x7
        \/ \E w \in Workers : Sunday!Creating(w) /\ req[w].template = t
    BY DEF Sunday!Inv, Sunday!TemplatesAreWhole, Sunday!Creating
  <2>2. ASSUME NEW w \in Workers, Sunday!Creating(w), req[w].template = t
        PROVE  \/ x6[t] \ x8 = Sunday!MassesOf(t) \/ t \in x7'
               \/ \E v \in Workers : Sunday!Creating(v)' /\ req'[v].template = t
    <3>1. CASE w \notin M
      BY <2>2, <3>1 DEF Sunday!Creating
    <3>2. CASE Sunday!Creating(w)' /\ w \in M
      BY <2>2, <3>2
    <3>3. CASE req[w].todo = {}
      <4>1. Sunday!MassesOf(t) = x6[t] \ (x8 \cup {})
        BY <2>2, <3>3, SundayCreates
      <4> QED
        BY <4>1
    <3> QED
      BY <2>2, <3>1, <3>2, <3>3
  <2> QED
    BY <2>1, <2>2
<1>4. Sunday!MarksInWindow'
  <2> SUFFICES ASSUME NEW p \in Thirds, Sunday!Exists(x3'[p]), x3'[p].marked_at # None
               PROVE  \/ p \in x10' \/ x3'[p].mass \in x9'
                      \/ /\ Sunday!Exists(x3[p]) /\ x3'[p].mass = x3[p].mass
                         /\ x3'[p].marked_at = x3[p].marked_at
                         /\ p \notin x10 /\ SundaySame(x3[p].mass)
                      \/ Sunday!Within(x1'[x2'[x3'[p].mass].template].day, x2'[x3'[p].mass].hour,
                                       x3'[p].marked_at)
                         /\ x1'[x2'[x3'[p].mass].template].day \in Int
                         /\ x2'[x3'[p].mass].hour \in Int
    BY SundayWindows
  <2>1. PICK m \in Rows : m = x3'[p].mass /\ Sunday!Exists(x2[m])
    OBVIOUS
  <2>2. PICK t \in Ones : t = x2[m].template /\ Sunday!Exists(x1[t])
    BY <2>1, SundayMass
  <2>3. x1[x2[m].template].day \in Int /\ x2[m].hour \in Int
    BY <2>1, <2>2, SundayMass, SundayTemplate
  <2> QED
    BY <2>1, <2>3 DEF SundaySame
<1>5. Sunday!RowsBelong'
  BY DEF Sunday!Inv, Sunday!RowsBelong
<1>6. ASSUME NEW v \in Workers PROVE Sunday!Sound(v)'
  <2>1. CASE v \in M
    BY <2>1
  <2>2. CASE v \notin M
    <3>1. \A t \in Ones : Sunday!Creating(v) /\ req[v].template = t /\ Sunday!Exists(x1'[t]) =>
               Sunday!MassesOf(t)' = Sunday!MassesOf(t) \ x8'
      BY <1>2, SundayNotStruck
    <3>2. \A m \in Rows : Sunday!Creating(v) /\ m \in req[v].todo => x2'[m] = None
      BY SundayCreates
    <3>3. ASSUME NEW u \in Workers \ {v}, Sunday!Creating(v), Sunday!Creating(u)'
          PROVE  req'[u].template # req[v].template
      <4>1. Sunday!Creating(u) /\ req'[u].template = req[u].template
        BY <3>3 DEF Sunday!Creating
      <4> QED
        BY <3>3, <4>1, SundayCreates
    <3>4. \A p \in Thirds : x3[p] # None /\ Sunday!Exists(x3'[p]) =>
               /\ Sunday!Exists(x3[p]) /\ x3'[p].mass = x3[p].mass
               /\ SundaySame(x3[p].mass)
      BY DEF SundaySame
    <3>5. pc'[v] = pc[v] /\ req'[v] = req[v] /\ x5' \in Times
      BY <2>2 DEF SundayTyped
    <3> QED
      BY <3>1, <3>2, <3>3, <3>4, <3>5, SundayOther
  <2> QED
    BY <2>1, <2>2
<1> QED
  BY <1>1, <1>3, <1>4, <1>5, <1>6 DEF Sunday!Inv

\* A step that changes the template or the hour of a mass, and notes it.
LEMMA SundayMoved ==
    ASSUME Sunday!Inv, SundayTyped', pc' = pc, req' = req, sent' = sent,
           x3' = x3, x5' = x5, x6' = x6, x7' = x7, x8' = x8, x10' = x10, x9 \subseteq x9',
           \A t \in Ones : /\ Sunday!Exists(x1'[t]) <=> Sunday!Exists(x1[t])
                           /\ x1'[t] = None <=> x1[t] = None,
           \A m \in Rows : \/ x2'[m] = x2[m]
                           \/ /\ Sunday!Exists(x2[m]) /\ Sunday!Exists(x2'[m])
                              /\ x2'[m].template = x2[m].template,
           \A m \in Rows : Sunday!Exists(x2[m]) => SundaySame(m)
    PROVE  Sunday!Inv'
<1>1. Sunday!TypeOK'
  BY SundayTypes DEF Sunday!Inv, Sunday!TypeOK, Sunday!FlightsOK
<1>2. \A t \in Ones : Sunday!MassesOf(t)' = Sunday!MassesOf(t)
  <2> SUFFICES ASSUME NEW t \in Ones, NEW m \in Rows
               PROVE  m \in Sunday!MassesOf(t)' <=> m \in Sunday!MassesOf(t)
    BY SundayMasses
  <2> QED
    BY SundayMasses
<1>3. Sunday!TemplatesAreWhole'
  BY <1>2 DEF Sunday!Inv, Sunday!TemplatesAreWhole, Sunday!Exists
<1>4. Sunday!MarksInWindow'
  <2> SUFFICES ASSUME NEW p \in Thirds, Sunday!Exists(x3'[p])
               PROVE  p \in x10' \/ SundaySame(x3[p].mass)
    BY SundayWindows
  <2>1. PICK m \in Rows : m = x3[p].mass /\ Sunday!Exists(x2[m])
    BY SundayPost
  <2> QED
    BY <2>1
<1>5. Sunday!RowsBelong'
  <2>1. ASSUME NEW m \in Rows
        PROVE  /\ Sunday!Exists(x2'[m]) => /\ Sunday!Exists(x1'[x2'[m].template])
                                           /\ m \in x6'[x2'[m].template]
               /\ m \in x8' => x2'[m] = Gone
    <3>1. Sunday!Exists(x2'[m]) => Sunday!Exists(x2[m]) /\ x2'[m].template = x2[m].template
      OBVIOUS
    <3>2. m \in x8 => x2[m] = Gone /\ ~Sunday!Exists(x2[m])
      BY SundayMass DEF Sunday!Inv, Sunday!RowsBelong
    <3> QED
      BY <3>1, <3>2, SundayMass
  <2>2. ASSUME NEW p \in Thirds, Sunday!Exists(x3'[p]) PROVE Sunday!Exists(x2'[x3'[p].mass])
    <3>1. PICK m \in Rows : m = x3[p].mass /\ Sunday!Exists(x2[m])
      BY <2>2, SundayPost
    <3> QED
      BY <3>1
  <2>3. /\ \A t, o \in Ones : t # o => x6'[t] \cap x6'[o] = {}
        /\ \A t \in Ones : x1'[t] = None => x6'[t] = {}
    BY DEF Sunday!Inv, Sunday!RowsBelong
  <2> QED
    BY <2>1, <2>2, <2>3 DEF Sunday!RowsBelong, Sunday!Exists
<1>6. ASSUME NEW v \in Workers PROVE Sunday!Sound(v)'
  <2>1. /\ \A t \in Ones : Sunday!Creating(v) /\ req[v].template = t /\ Sunday!Exists(x1'[t]) =>
               Sunday!MassesOf(t)' = Sunday!MassesOf(t) \ x8'
        /\ \A t \in Ones : x1[t] # None =>
               x1'[t] # None /\ x6'[t] = x6[t] /\ (Sunday!Exists(x1'[t]) => Sunday!Exists(x1[t]))
    BY <1>2, SundayNotStruck
  <2>2. \A m \in Rows : Sunday!Creating(v) /\ m \in req[v].todo => x2'[m] = None
    <3> SUFFICES ASSUME NEW m \in Rows, Sunday!Creating(v), m \in req[v].todo PROVE x2'[m] = None
      OBVIOUS
    <3>1. x2[m] = None
      BY SundayCreates
    <3> QED
      BY <3>1, SundayMass
  <2>3. ASSUME NEW u \in Workers \ {v}, Sunday!Creating(v), Sunday!Creating(u)'
        PROVE  req'[u].template # req[v].template
    <3>1. Sunday!Creating(u)
      BY <2>3 DEF Sunday!Creating
    <3> QED
      BY <2>3, <3>1, SundayCreates
  <2>4. \A p \in Thirds : x3[p] # None /\ Sunday!Exists(x3'[p]) =>
               /\ Sunday!Exists(x3[p]) /\ x3'[p].mass = x3[p].mass
               /\ SundaySame(x3[p].mass)
    BY SundayPost
  <2>5. x5 <= x5' /\ x5' \in Times
    BY SundayRows
  <2> QED
    BY <2>1, <2>2, <2>3, <2>4, <2>5, SundayOther
<1> QED
  BY <1>1, <1>3, <1>4, <1>5, <1>6 DEF Sunday!Inv

\* A step that deletes the masses of D, with their posts and perhaps with their template.
LEMMA SundayStruck ==
    ASSUME Sunday!Inv, SundayTyped', pc' = pc, req' = req, sent' = sent, NEW D \in SUBSET Rows,
           x5' = x5, x6' = x6, x7' = x7, x9' = x9, x10' = x10, x8' = x8 \cup D,
           \A m \in D : Sunday!Exists(x2[m]),
           \A m \in Rows : x2'[m] = IF m \in D THEN Gone ELSE x2[m],
           \A p \in Thirds :
               x3'[p] = IF Sunday!Exists(x3[p]) /\ x3[p].mass \in D THEN Gone ELSE x3[p],
           \A t \in Ones : \/ x1'[t] = x1[t]
                           \/ /\ x1'[t] = Gone /\ Sunday!Exists(x1[t])
                              /\ Sunday!MassesOf(t) \subseteq D
    PROVE  Sunday!Inv'
<1>1. Sunday!TypeOK'
  BY SundayTypes DEF Sunday!Inv, Sunday!TypeOK, Sunday!FlightsOK
<1>2. ~Sunday!Exists(Gone) /\ Gone # None
  BY SundayConstants DEF Sunday!Exists
<1>3. /\ \A m \in Rows : Sunday!Exists(x2'[m]) => m \notin D /\ x2'[m] = x2[m]
      /\ \A p \in Thirds : Sunday!Exists(x3'[p]) => x3'[p] = x3[p] /\ x3[p].mass \notin D
      /\ \A t \in Ones : Sunday!Exists(x1'[t]) => x1'[t] = x1[t]
  BY <1>2
<1>4. \A t \in Ones : Sunday!MassesOf(t)' = Sunday!MassesOf(t) \ x8'
  <2> SUFFICES ASSUME NEW t \in Ones, NEW m \in Rows
               PROVE  m \in Sunday!MassesOf(t)' <=> m \in Sunday!MassesOf(t) /\ m \notin x8'
    BY SundayMasses
  <2>1. m \in Sunday!MassesOf(t) => m \notin x8
    BY SundayMasses, SundayMass
  <2> QED
    BY <1>2, <2>1, SundayMasses
<1>5. Sunday!TemplatesAreWhole'
  <2> SUFFICES ASSUME NEW t \in Ones, Sunday!Exists(x1[t])
               PROVE  \/ x6[t] \ x8' = Sunday!MassesOf(t)' \/ t \in x7
                      \/ \E w \in Workers : pc[w] \in {"creating", "filling", "generating"}
                                            /\ req[w].template = t
    BY <1>3 DEF Sunday!TemplatesAreWhole, Sunday!Exists
  <2>1. \/ x6[t] \ x8 = Sunday!MassesOf(t) \/ t \in x7
        \/ \E w \in Workers : pc[w] \in {"creating", "filling", "generating"}
                              /\ req[w].template = t
    BY DEF Sunday!Inv, Sunday!TemplatesAreWhole
  <2> QED
    BY <1>4, <2>1
<1>6. \A p \in Thirds : Sunday!Exists(x3'[p]) =>
          /\ x3[p].mass \in Rows \ D /\ Sunday!Exists(x2[x3[p].mass])
          /\ x2'[x3[p].mass] = x2[x3[p].mass]
  BY <1>3, SundayPost
<1>7. \A m \in Rows \ D : Sunday!Exists(x2[m]) =>
          Sunday!Exists(x1'[x2[m].template]) /\ x1'[x2[m].template] = x1[x2[m].template]
  <2> SUFFICES ASSUME NEW m \in Rows \ D, Sunday!Exists(x2[m])
               PROVE  x1'[x2[m].template] = x1[x2[m].template]
    BY SundayMass
  <2>1. PICK t \in Ones : t = x2[m].template /\ Sunday!Exists(x1[t])
    BY SundayMass
  <2>2. m \in Sunday!MassesOf(t)
    BY <2>1, SundayMasses
  <2> QED
    BY <2>1, <2>2
<1>8. \A p \in Thirds : Sunday!Exists(x3'[p]) => SundaySame(x3[p].mass)
  BY <1>6, <1>7 DEF SundaySame
<1>9. Sunday!MarksInWindow'
  <2> SUFFICES ASSUME NEW p \in Thirds, Sunday!Exists(x3'[p])
               PROVE  x3'[p] = x3[p] /\ SundaySame(x3[p].mass)
    BY SundayWindows
  <2> QED
    BY <1>3, <1>8
<1>10. Sunday!RowsBelong'
  <2>1. ASSUME NEW m \in Rows
        PROVE  /\ Sunday!Exists(x2'[m]) => /\ Sunday!Exists(x1'[x2'[m].template])
                                           /\ m \in x6'[x2'[m].template]
               /\ m \in x8' => x2'[m] = Gone
    <3>1. m \in x8 => x2[m] = Gone
      BY DEF Sunday!Inv, Sunday!RowsBelong
    <3> QED
      BY <1>3, <1>7, <3>1, SundayMass
  <2>2. ASSUME NEW p \in Thirds, Sunday!Exists(x3'[p]) PROVE Sunday!Exists(x2'[x3'[p].mass])
    BY <1>3, <1>6, <2>2
  <2>3. /\ \A t, o \in Ones : t # o => x6'[t] \cap x6'[o] = {}
        /\ \A t \in Ones : x1'[t] = None => x6'[t] = {}
    BY <1>2 DEF Sunday!Inv, Sunday!RowsBelong
  <2> QED
    BY <2>1, <2>2, <2>3 DEF Sunday!RowsBelong, Sunday!Exists
<1>11. ASSUME NEW v \in Workers PROVE Sunday!Sound(v)'
  <2>1. \A t \in Ones : x1[t] # None =>
               x1'[t] # None /\ x6'[t] = x6[t] /\ (Sunday!Exists(x1'[t]) => Sunday!Exists(x1[t]))
    BY <1>2
  <2>2. \A m \in Rows : Sunday!Creating(v) /\ m \in req[v].todo => x2'[m] = None
    <3> SUFFICES ASSUME NEW m \in Rows, Sunday!Creating(v), m \in req[v].todo PROVE x2'[m] = None
      OBVIOUS
    <3>1. x2[m] = None
      BY SundayCreates
    <3> QED
      BY <3>1, SundayMass
  <2>3. ASSUME NEW u \in Workers \ {v}, Sunday!Creating(v), Sunday!Creating(u)'
        PROVE  req'[u].template # req[v].template
    <3>1. Sunday!Creating(u)
      BY <2>3 DEF Sunday!Creating
    <3> QED
      BY <2>3, <3>1, SundayCreates
  <2>4. /\ \A p \in Thirds : x3[p] # None => x3'[p] # None
        /\ \A p \in Thirds : x3[p] # None /\ Sunday!Exists(x3'[p]) =>
               /\ Sunday!Exists(x3[p]) /\ x3'[p].mass = x3[p].mass
               /\ SundaySame(x3[p].mass)
    BY <1>2, <1>3, <1>8
  <2>5. x5 <= x5' /\ x5' \in Times
    BY SundayRows
  <2> QED
    BY <1>4, <2>1, <2>2, <2>3, <2>4, <2>5, SundayOther
<1> QED
  BY <1>1, <1>5, <1>9, <1>10, <1>11 DEF Sunday!Inv

\* A step of the request w that inserts the masses of D, which its template still lacks.
LEMMA SundayAdded ==
    ASSUME Sunday!Inv, SundayTyped', Sunday!FlightsOK', NEW w \in Workers, NEW t \in Ones,
           Sunday!Creating(w), t = req[w].template, Sunday!Sound(w)', Sunday!Exists(x1[t]),
           NEW D \in SUBSET Rows, D \subseteq req[w].todo, NEW row,
           Sunday!Exists(row), row.template = t,
           x1' = x1, x3' = x3, x5' = x5, x6' = x6, x7' = x7, x8' = x8, x9' = x9, x10' = x10,
           \A m \in Rows : x2'[m] = IF m \in D THEN row ELSE x2[m],
           \A v \in Workers \ {w} : pc'[v] = pc[v] /\ req'[v] = req[v],
           Sunday!Creating(w)' => req'[w].template = t,
           Sunday!Creating(w)' \/ D = req[w].todo
    PROVE  Sunday!Inv'
<1>1. Sunday!TypeOK'
  BY SundayTypes
<1>2. PICK todo : todo = req[w].todo
  OBVIOUS
<1>3. /\ todo \subseteq x6[t] /\ \A m \in todo : x2[m] = None
      /\ Sunday!MassesOf(t) = x6[t] \ (x8 \cup todo)
      /\ \A v \in Workers \ {w} : Sunday!Creating(v) => req[v].template # t
  BY <1>2, SundayCreates
<1>4. \A m \in D : m \in x6[t] /\ x2[m] = None /\ ~Sunday!Exists(x2[m]) /\ m \notin x8
  <2> SUFFICES ASSUME NEW m \in D
               PROVE  m \in x6[t] /\ x2[m] = None /\ ~Sunday!Exists(x2[m]) /\ m \notin x8
    OBVIOUS
  <2>1. m \in x6[t] /\ x2[m] = None
    BY <1>2, <1>3
  <2>2. m \in x8 => x2[m] = Gone
    BY DEF Sunday!Inv, Sunday!RowsBelong
  <2> QED
    BY <2>1, <2>2, SundayMass, SundayConstants
<1>5. \A o \in Ones : o # t => Sunday!MassesOf(o)' = Sunday!MassesOf(o)
  <2> SUFFICES ASSUME NEW o \in Ones, o # t, NEW m \in Rows
               PROVE  m \in Sunday!MassesOf(o)' <=> m \in Sunday!MassesOf(o)
    BY SundayMasses
  <2> QED
    BY <1>4, SundayMasses
<1>6. Sunday!MassesOf(t)' = Sunday!MassesOf(t) \cup D
  <2> SUFFICES ASSUME NEW m \in Rows
               PROVE  m \in Sunday!MassesOf(t)' <=> m \in Sunday!MassesOf(t) \/ m \in D
    BY SundayMasses
  <2> QED
    BY <1>4, SundayMasses
<1>7. Sunday!TemplatesAreWhole'
  <2> SUFFICES ASSUME NEW o \in Ones, Sunday!Exists(x1[o])
               PROVE  \/ x6[o] \ x8 = Sunday!MassesOf(o)' \/ o \in x7
                      \/ \E v \in Workers : Sunday!Creating(v)' /\ req'[v].template = o
    BY DEF Sunday!TemplatesAreWhole, Sunday!Exists, Sunday!Creating
  <2>1. CASE o = t
    <3>1. CASE D = req[w].todo
      <4>1. x6[t] \ x8 = (x6[t] \ (x8 \cup todo)) \cup D
        BY <1>2, <1>4, <3>1
      <4> QED
        BY <1>3, <1>6, <2>1, <4>1
    <3> QED
      BY <2>1, <3>1
  <2>2. CASE o # t
    <3>1. \/ x6[o] \ x8 = Sunday!MassesOf(o) \/ o \in x7
          \/ \E v \in Workers : Sunday!Creating(v) /\ req[v].template = o
      BY DEF Sunday!Inv, Sunday!TemplatesAreWhole, Sunday!Creating
    <3>2. ASSUME NEW v \in Workers, Sunday!Creating(v), req[v].template = o
          PROVE  Sunday!Creating(v)' /\ req'[v].template = o
      <4>1. v # w
        BY <2>2, <3>2
      <4> QED
        BY <3>2, <4>1 DEF Sunday!Creating
    <3> QED
      BY <1>5, <2>2, <3>1, <3>2
  <2> QED
    BY <2>1, <2>2
<1>8. \A p \in Thirds : Sunday!Exists(x3[p]) => x2'[x3[p].mass] = x2[x3[p].mass]
  BY <1>4, SundayPost
<1>9. \A p \in Thirds : Sunday!Exists(x3[p]) => SundaySame(x3[p].mass)
  BY <1>8 DEF SundaySame
<1>10. Sunday!MarksInWindow'
  <2> SUFFICES ASSUME NEW p \in Thirds, Sunday!Exists(x3'[p])
               PROVE  x3'[p] = x3[p] /\ SundaySame(x3[p].mass)
    BY SundayWindows
  <2> QED
    BY <1>9
<1>11. Sunday!RowsBelong'
  <2>1. ASSUME NEW m \in Rows
        PROVE  /\ Sunday!Exists(x2'[m]) => /\ Sunday!Exists(x1'[x2'[m].template])
                                           /\ m \in x6'[x2'[m].template]
               /\ m \in x8' => x2'[m] = Gone
    <3>1. m \in x8 => x2[m] = Gone
      BY DEF Sunday!Inv, Sunday!RowsBelong
    <3> QED
      BY <1>4, <3>1, SundayMass
  <2>2. ASSUME NEW p \in Thirds, Sunday!Exists(x3'[p]) PROVE Sunday!Exists(x2'[x3'[p].mass])
    BY <1>8, <2>2, SundayPost
  <2>3. /\ \A a, o \in Ones : a # o => x6'[a] \cap x6'[o] = {}
        /\ \A a \in Ones : x1'[a] = None => x6'[a] = {}
    BY DEF Sunday!Inv, Sunday!RowsBelong
  <2> QED
    BY <2>1, <2>2, <2>3 DEF Sunday!RowsBelong, Sunday!Exists
<1>12. ASSUME NEW v \in Workers PROVE Sunday!Sound(v)'
  <2>1. CASE v = w
    BY <2>1
  <2>2. CASE v # w
    <3>1. \A o \in Ones : Sunday!Creating(v) /\ req[v].template = o /\ Sunday!Exists(x1'[o]) =>
               Sunday!MassesOf(o)' = Sunday!MassesOf(o) \ x8'
      BY <1>3, <1>5, <2>2, SundayNotStruck
    <3>2. \A m \in Rows : Sunday!Creating(v) /\ m \in req[v].todo => x2'[m] = None
      <4> SUFFICES ASSUME NEW m \in Rows, Sunday!Creating(v), m \in req[v].todo PROVE x2'[m] = None
        OBVIOUS
      <4>1. PICK o \in Ones : o = req[v].template
        BY SundayCreates
      <4>2. x2[m] = None /\ m \in x6[o] /\ o # t
        BY <1>3, <2>2, <4>1, SundayCreates
      <4>3. x6[o] \cap x6[t] = {}
        BY <4>2 DEF Sunday!Inv, Sunday!RowsBelong
      <4> QED
        BY <1>4, <4>2, <4>3
    <3>3. ASSUME NEW u \in Workers \ {v}, Sunday!Creating(v), Sunday!Creating(u)'
          PROVE  req'[u].template # req[v].template
      <4>1. CASE u = w
        BY <1>3, <2>2, <3>3, <4>1
      <4>2. CASE u # w
        <5>1. Sunday!Creating(u) /\ req'[u] = req[u]
          BY <3>3, <4>2 DEF Sunday!Creating
        <5> QED
          BY <3>3, <5>1, SundayCreates
      <4> QED
        BY <4>1, <4>2
    <3>4. \A p \in Thirds : x3[p] # None /\ Sunday!Exists(x3'[p]) =>
               /\ Sunday!Exists(x3[p]) /\ x3'[p].mass = x3[p].mass
               /\ SundaySame(x3[p].mass)
      BY <1>9
    <3>5. pc'[v] = pc[v] /\ req'[v] = req[v] /\ x5' \in Times /\ x5 <= x5'
      BY <2>2, SundayRows
    <3> QED
      BY <3>1, <3>2, <3>3, <3>4, <3>5, SundayOther
  <2> QED
    BY <2>1, <2>2
<1> QED
  BY <1>1, <1>7, <1>10, <1>11, <1>12 DEF Sunday!Inv

\* A template that a request has inserted, and whose masses it is going to insert.
LEMMA SundayNew ==
    ASSUME Sunday!Inv, SundayTyped', Sunday!FlightsOK', NEW w \in Workers, NEW t \in Ones,
           NEW wanted \in SUBSET Rows, NEW row \in Sunday!SundayScheduleTemplate,
           pc[w] = "idle", x1[t] = None, \A m \in wanted : x2[m] = None,
           \A m \in wanted : \A o \in Ones : m \notin x6[o],
           x1' = [x1 EXCEPT ![t] = row], x6' = [x6 EXCEPT ![t] = wanted],
           x2' = x2, x3' = x3, x5' = x5, x7' = x7, x8' = x8, x9' = x9, x10' = x10,
           \A v \in Workers \ {w} : pc'[v] = pc[v] /\ req'[v] = req[v],
           \/ /\ pc'[w] = "creating"
              /\ req'[w] = [op |-> "create", template |-> t, todo |-> wanted, last |-> None]
           \/ /\ pc'[w] = "generating"
              /\ req'[w] = [op |-> "generate", template |-> t, todo |-> wanted]
    PROVE  Sunday!Inv'
<1>1. Sunday!TypeOK'
  BY SundayTypes
<1>2. /\ x1'[t] = row /\ \A o \in Ones \ {t} : x1'[o] = x1[o]
      /\ x6'[t] = wanted /\ \A o \in Ones \ {t} : x6'[o] = x6[o]
      /\ Sunday!Exists(row) /\ row # None /\ ~Sunday!Exists(x1[t])
  BY SundayRows, SundayConstants DEF Sunday!Exists
<1>3. \A o \in Ones : Sunday!MassesOf(o)' = Sunday!MassesOf(o)
  BY DEF Sunday!MassesOf, Sunday!Exists
<1>4. Sunday!MassesOf(t) = {}
  BY <1>2, SundayMass, SundayMasses
<1>5. Sunday!Creating(w)' /\ req'[w].template = t /\ req'[w].todo = wanted /\ ~Sunday!Creating(w)
  BY DEF Sunday!Creating
<1>6. \A v \in Workers : Sunday!Creating(v) => v # w /\ req[v].template # t
  <2> SUFFICES ASSUME NEW v \in Workers, Sunday!Creating(v) PROVE req[v].template # t
    BY <1>5
  <2> QED
    BY SundayCreates
<1>7. Sunday!TemplatesAreWhole'
  <2> SUFFICES ASSUME NEW o \in Ones, Sunday!Exists(x1'[o])
               PROVE  \/ x6'[o] \ x8 = Sunday!MassesOf(o) \/ o \in x7
                      \/ \E v \in Workers : Sunday!Creating(v)' /\ req'[v].template = o
    BY <1>3 DEF Sunday!TemplatesAreWhole, Sunday!Exists, Sunday!Creating
  <2>1. CASE o = t
    BY <1>5, <2>1
  <2>2. CASE o # t
    <3>1. \/ x6[o] \ x8 = Sunday!MassesOf(o) \/ o \in x7
          \/ \E v \in Workers : Sunday!Creating(v) /\ req[v].template = o
      BY <1>2, <2>2 DEF Sunday!Inv, Sunday!TemplatesAreWhole, Sunday!Creating
    <3>2. ASSUME NEW v \in Workers, Sunday!Creating(v), req[v].template = o
          PROVE  Sunday!Creating(v)' /\ req'[v].template = o
      <4>1. v # w
        BY <1>6, <3>2
      <4> QED
        BY <3>2, <4>1 DEF Sunday!Creating
    <3> QED
      BY <1>2, <2>2, <3>1, <3>2
  <2> QED
    BY <2>1, <2>2
<1>8. \A p \in Thirds : Sunday!Exists(x3[p]) => SundaySame(x3[p].mass)
  <2> SUFFICES ASSUME NEW p \in Thirds, Sunday!Exists(x3[p]) PROVE SundaySame(x3[p].mass)
    OBVIOUS
  <2>1. PICK m \in Rows : m = x3[p].mass /\ Sunday!Exists(x2[m])
    BY SundayPost
  <2>2. PICK o \in Ones : o = x2[m].template /\ Sunday!Exists(x1[o])
    BY <2>1, SundayMass
  <2>3. o # t
    BY <1>2, <2>2
  <2> QED
    BY <1>2, <2>1, <2>2, <2>3 DEF SundaySame
<1>9. Sunday!MarksInWindow'
  <2> SUFFICES ASSUME NEW p \in Thirds, Sunday!Exists(x3'[p])
               PROVE  x3'[p] = x3[p] /\ SundaySame(x3[p].mass)
    BY SundayWindows
  <2> QED
    BY <1>8
<1>10. Sunday!RowsBelong'
  <2>1. ASSUME NEW m \in Rows
        PROVE  /\ Sunday!Exists(x2'[m]) => /\ Sunday!Exists(x1'[x2'[m].template])
                                           /\ m \in x6'[x2'[m].template]
               /\ m \in x8' => x2'[m] = Gone
    <3>1. m \in x8 => x2[m] = Gone
      BY DEF Sunday!Inv, Sunday!RowsBelong
    <3>2. Sunday!Exists(x2[m]) => x2[m].template \in Ones \ {t}
      BY <1>2, SundayMass
    <3> QED
      BY <1>2, <3>1, <3>2, SundayMass
  <2>2. \A p \in Thirds : Sunday!Exists(x3'[p]) => Sunday!Exists(x2'[x3'[p].mass])
    BY SundayPost
  <2>3. ASSUME NEW a \in Ones, NEW o \in Ones, a # o PROVE x6'[a] \cap x6'[o] = {}
    <3>1. x6[a] \cap x6[o] = {}
      BY <2>3 DEF Sunday!Inv, Sunday!RowsBelong
    <3> QED
      BY <1>2, <2>3, <3>1
  <2>4. \A a \in Ones : x1'[a] = None => x6'[a] = {}
    BY <1>2 DEF Sunday!Inv, Sunday!RowsBelong
  <2> QED
    BY <2>1, <2>2, <2>3, <2>4 DEF Sunday!RowsBelong, Sunday!Exists
<1>11. Sunday!Sound(w)'
  <2>1. \A v \in Workers \ {w} : Sunday!Creating(v)' => req'[v].template # t
    BY <1>6 DEF Sunday!Creating
  <2>2. Sunday!MassesOf(t)' = x6'[t] \ (x8' \cup wanted)
    BY <1>2, <1>3, <1>4
  <2>3. x1'[t] # None /\ wanted \subseteq x6'[t] /\ \A m \in wanted : x2'[m] = None
    BY <1>2
  <2>4. CASE /\ pc'[w] = "creating"
             /\ req'[w] = [op |-> "create", template |-> t, todo |-> wanted, last |-> None]
    BY <1>5, <2>1, <2>2, <2>3, <2>4 DEF Sunday!Sound
  <2>5. CASE /\ pc'[w] = "generating"
             /\ req'[w] = [op |-> "generate", template |-> t, todo |-> wanted]
    BY <1>5, <2>1, <2>2, <2>3, <2>5 DEF Sunday!Sound
  <2> QED
    BY <2>4, <2>5
<1>12. ASSUME NEW v \in Workers, v # w PROVE Sunday!Sound(v)'
  <2>1. \A o \in Ones : Sunday!Creating(v) /\ req[v].template = o /\ Sunday!Exists(x1'[o]) =>
             Sunday!MassesOf(o)' = Sunday!MassesOf(o) \ x8'
    BY <1>3, SundayNotStruck
  <2>2. \A m \in Rows : Sunday!Creating(v) /\ m \in req[v].todo => x2'[m] = None
    <3> SUFFICES ASSUME NEW m \in Rows, Sunday!Creating(v), m \in req[v].todo PROVE x2[m] = None
      OBVIOUS
    <3> QED
      BY SundayCreates
  <2>3. ASSUME NEW u \in Workers \ {v}, Sunday!Creating(v), Sunday!Creating(u)'
        PROVE  req'[u].template # req[v].template
    <3>1. CASE u = w
      BY <1>5, <1>6, <2>3, <3>1
    <3>2. CASE u # w
      <4>1. Sunday!Creating(u) /\ req'[u] = req[u]
        BY <2>3, <3>2 DEF Sunday!Creating
      <4> QED
        BY <2>3, <4>1, SundayCreates
    <3> QED
      BY <3>1, <3>2
  <2>4. \A p \in Thirds : x3[p] # None /\ Sunday!Exists(x3'[p]) =>
             /\ Sunday!Exists(x3[p]) /\ x3'[p].mass = x3[p].mass
             /\ SundaySame(x3[p].mass)
    BY <1>8
  <2>5. pc'[v] = pc[v] /\ req'[v] = req[v] /\ x5' \in Times /\ x5 <= x5'
    BY <1>12, SundayRows
  <2>6. \A o \in Ones : x1[o] # None =>
               x1'[o] # None /\ x6'[o] = x6[o] /\ (Sunday!Exists(x1'[o]) => Sunday!Exists(x1[o]))
    BY <1>2
  <2> QED
    BY <2>1, <2>2, <2>3, <2>4, <2>5, <2>6, SundayOther
<1> QED
  BY <1>1, <1>7, <1>9, <1>10, <1>11, <1>12 DEF Sunday!Inv

LEMMA SundayTypedNow == Sunday!Inv => SundayTyped
BY SundayRows DEF SundayTyped

\* A request that moves while the rows stay.
LEMMA SundayPasses ==
    ASSUME Sunday!Inv, NEW w \in Workers, Sunday!FlightsOK', Sunday!Sound(w)',
           \A v \in Workers \ {w} : pc'[v] = pc[v] /\ req'[v] = req[v],
           x1' = x1, x2' = x2, x3' = x3, x5' = x5, x6' = x6, x8' = x8, x9' = x9, x10' = x10,
           x7 \subseteq x7', x7' \subseteq Ones, x4' \subseteq Thirds, x11' \subseteq Thirds,
           Sunday!Creating(w)' => Sunday!Creating(w) /\ req'[w].template = req[w].template,
           Sunday!Creating(w) => Sunday!Creating(w)' \/ req[w].todo = {} \/ req[w].template \in x7'
    PROVE  Sunday!Inv'
<1>1. PICK M \in SUBSET Workers : M = {w}
  OBVIOUS
<1>2. /\ \A v \in Workers \ M : pc'[v] = pc[v] /\ req'[v] = req[v]
      /\ \A v \in M : Sunday!Sound(v)'
      /\ \A v \in M : Sunday!Creating(v)' =>
               Sunday!Creating(v) /\ req'[v].template = req[v].template
      /\ \A v \in M : Sunday!Creating(v) =>
               Sunday!Creating(v)' \/ req[v].todo = {} \/ req[v].template \in x7'
  BY <1>1
<1>3. SundayTyped'
  BY SundayTypedNow DEF SundayTyped
<1>4. /\ \A p \in Thirds : Sunday!Exists(x3'[p]) =>
               x3'[p].mass \in Rows /\ Sunday!Exists(x2[x3'[p].mass])
      /\ x5 <= x5'
  BY SundayPost, SundayRows
<1> QED
  BY <1>2, <1>3, <1>4, SundaySteady

\* A request that comes in.
LEMMA SundayAsks ==
    ASSUME Sunday!Inv, NEW w \in Workers,
           \/ \E t \in Ones : Sunday!TemplateRequest(w, t)
           \/ \E p \in Thirds : Sunday!PostRequest(w, p)
           \/ \E m \in Rows : Sunday!AddPost(w, m)
    PROVE  Sunday!Inv'
<1>1. ASSUME NEW r, NEW place, Sunday!Begin(w, r, place), place # "idle", r # Sunday!NoRequest
      PROVE  /\ Sunday!FlightsOK' /\ pc[w] = "idle" /\ pc'[w] = place /\ req'[w] = r
             /\ \A v \in Workers \ {w} : pc'[v] = pc[v] /\ req'[v] = req[v]
  <2>1. Sunday!At(w, r, place) /\ sent' \in 0 .. MaxCalls /\ pc[w] = "idle"
    BY <1>1, SundayRows, SundayConstants DEF Sunday!Begin
  <2> QED
    BY <1>1, <2>1, SundayMove
<1>2. ASSUME NEW t \in Ones, NEW day \in Days, NEW wanted \in SUBSET Rows,
             \/ Sunday!CreateTemplate(w, t, day, wanted)
             \/ Sunday!GenerateTemplate(w, t, day, wanted)
      PROVE  Sunday!Inv'
  <2>1. PICK row : row = [status |-> "DRAFT", day |-> day]
    OBVIOUS
  <2>2. row \in Sunday!SundayScheduleTemplate
    BY <2>1 DEF Sunday!SundayScheduleTemplate, Sunday!SundayScheduleStatus
  <2>3. /\ x1[t] = None /\ \A m \in wanted : x2[m] = None /\ \A o \in Ones : m \notin x6[o]
        /\ x1' = [x1 EXCEPT ![t] = row] /\ x6' = [x6 EXCEPT ![t] = wanted]
        /\ x2' = x2 /\ x3' = x3 /\ x4' = x4 /\ x5' = x5 /\ x7' = x7 /\ x8' = x8 /\ x9' = x9
        /\ x10' = x10 /\ x11' = x11
    BY <1>2, <2>1 DEF Sunday!CreateTemplate, Sunday!GenerateTemplate
  <2>4. SundayTyped'
    BY <2>2, <2>3, SundayTypedNow DEF SundayTyped
  <2>5. \/ Sunday!Begin(w, [op |-> "create", template |-> t, todo |-> wanted, last |-> None],
                        "creating")
        \/ Sunday!Begin(w, [op |-> "generate", template |-> t, todo |-> wanted], "generating")
    BY <1>2 DEF Sunday!CreateTemplate, Sunday!GenerateTemplate
  <2>6. CASE Sunday!Begin(w, [op |-> "create", template |-> t, todo |-> wanted, last |-> None],
                          "creating")
    <3>1. [op |-> "create", template |-> t, todo |-> wanted, last |-> None] # Sunday!NoRequest
      BY DEF Sunday!NoRequest
    <3>2. /\ Sunday!FlightsOK' /\ pc[w] = "idle" /\ pc'[w] = "creating"
          /\ req'[w] = [op |-> "create", template |-> t, todo |-> wanted, last |-> None]
          /\ \A v \in Workers \ {w} : pc'[v] = pc[v] /\ req'[v] = req[v]
      BY <1>1, <2>6, <3>1
    <3> QED
      BY <2>2, <2>3, <2>4, <3>2, SundayNew
  <2>7. CASE Sunday!Begin(w, [op |-> "generate", template |-> t, todo |-> wanted], "generating")
    <3>1. [op |-> "generate", template |-> t, todo |-> wanted] # Sunday!NoRequest
      BY DEF Sunday!NoRequest
    <3>2. /\ Sunday!FlightsOK' /\ pc[w] = "idle" /\ pc'[w] = "generating"
          /\ req'[w] = [op |-> "generate", template |-> t, todo |-> wanted]
          /\ \A v \in Workers \ {w} : pc'[v] = pc[v] /\ req'[v] = req[v]
      BY <1>1, <2>7, <3>1
    <3> QED
      BY <2>2, <2>3, <2>4, <3>2, SundayNew
  <2> QED
    BY <2>5, <2>6, <2>7
<1>3. ASSUME NEW p \in Thirds, NEW present \in BOOLEAN, Sunday!MarkPresence(w, p, present)
      PROVE  Sunday!Inv'
  <2>1. PICK r : r = [op |-> "mark", post |-> p, present |-> present, since |-> x5]
    OBVIOUS
  <2>2. /\ Sunday!Exists(x3[p]) /\ Sunday!InWindow(x3[p].mass) /\ Sunday!Begin(w, r, "marking")
        /\ x1' = x1 /\ x2' = x2 /\ x3' = x3 /\ x4' = x4 /\ x5' = x5 /\ x6' = x6
        /\ x7' = x7 /\ x8' = x8 /\ x9' = x9 /\ x10' = x10 /\ x11' = x11
    BY <1>3, <2>1 DEF Sunday!MarkPresence, Sunday!sundayTables, Sunday!sundayHistory
  <2>3. r # Sunday!NoRequest
    BY <2>1 DEF Sunday!NoRequest
  <2>4. /\ Sunday!FlightsOK' /\ pc[w] = "idle" /\ pc'[w] = "marking" /\ req'[w] = r
        /\ \A v \in Workers \ {w} : pc'[v] = pc[v] /\ req'[v] = req[v]
    BY <1>1, <2>2, <2>3
  <2>5. /\ x3[p] # None
        /\ Sunday!Within(x1[x2[x3[p].mass].template].day, x2[x3[p].mass].hour, x5)
        /\ x5 \in Times /\ x5 <= x5
    BY <2>2, SundayRows DEF Sunday!InWindow, Sunday!Exists
  <2>6. Sunday!Sound(w)'
    BY <2>1, <2>2, <2>4, <2>5 DEF Sunday!Sound
  <2>7. ~Sunday!Creating(w)' /\ ~Sunday!Creating(w)
    BY <2>4 DEF Sunday!Creating
  <2> QED
    BY <2>2, <2>4, <2>6, <2>7, SundayRows, SundayPasses
<1>4. ASSUME NEW m \in Rows, Sunday!AddPost(w, m)
      PROVE  Sunday!Inv'
  <2>1. PICK r : r = [op |-> "add", mass |-> m]
    OBVIOUS
  <2>2. /\ Sunday!Begin(w, r, "adding")
        /\ x1' = x1 /\ x2' = x2 /\ x3' = x3 /\ x4' = x4 /\ x5' = x5 /\ x6' = x6
        /\ x7' = x7 /\ x8' = x8 /\ x9' = x9 /\ x10' = x10 /\ x11' = x11
    BY <1>4, <2>1 DEF Sunday!AddPost, Sunday!sundayTables, Sunday!sundayHistory
  <2>3. r # Sunday!NoRequest
    BY <2>1 DEF Sunday!NoRequest
  <2>4. /\ Sunday!FlightsOK' /\ pc[w] = "idle" /\ pc'[w] = "adding" /\ req'[w] = r
        /\ \A v \in Workers \ {w} : pc'[v] = pc[v] /\ req'[v] = req[v]
    BY <1>1, <2>2, <2>3
  <2>5. Sunday!Sound(w)' /\ ~Sunday!Creating(w)' /\ ~Sunday!Creating(w)
    BY <2>1, <2>4 DEF Sunday!Sound, Sunday!Creating
  <2> QED
    BY <2>2, <2>4, <2>5, SundayRows, SundayPasses
<1> QED
  BY <1>2, <1>3, <1>4 DEF Sunday!TemplateRequest, Sunday!PostRequest

\* The chargé's changes, and the time that passes.
LEMMA SundayDesk ==
    ASSUME Sunday!Inv,
           \/ \E t \in Ones : Sunday!TemplateDesk(t)
           \/ \E m \in Rows : Sunday!MassDesk(m)
    PROVE  Sunday!Inv'
<1>1. ASSUME NEW t \in Ones, NEW status \in Sunday!SundayScheduleStatus, NEW day \in Days,
             Sunday!UpdateTemplate(t, status, day)
      PROVE  Sunday!Inv'
  <2>1. PICK row : row = [status |-> status, day |-> day]
    OBVIOUS
  <2>2. row \in Sunday!SundayScheduleTemplate /\ row.day = day
    BY <2>1 DEF Sunday!SundayScheduleTemplate
  <2>3. /\ Sunday!Exists(x1[t]) /\ x1' = [x1 EXCEPT ![t] = row]
        /\ x9' = IF day = x1[t].day THEN x9 ELSE x9 \cup Sunday!MassesOf(t)
        /\ x2' = x2 /\ x3' = x3 /\ x4' = x4 /\ x5' = x5 /\ x6' = x6 /\ x7' = x7 /\ x8' = x8
        /\ x10' = x10 /\ x11' = x11 /\ pc' = pc /\ req' = req /\ sent' = sent
    BY <1>1, <2>1 DEF Sunday!UpdateTemplate, Sunday!flights
  <2>4. Sunday!MassesOf(t) \subseteq Rows
    BY DEF Sunday!MassesOf
  <2>5. SundayTyped' /\ x9 \subseteq x9'
    BY <2>2, <2>3, <2>4, SundayTypedNow DEF SundayTyped
  <2>6. /\ x1'[t] = row /\ Sunday!Exists(row) /\ row # None
        /\ \A o \in Ones \ {t} : x1'[o] = x1[o]
    BY <2>2, <2>3, SundayRows, SundayConstants DEF Sunday!Exists
  <2>7. x1[t] # None
    BY <2>3 DEF Sunday!Exists
  <2>8. \A m \in Rows : Sunday!Exists(x2[m]) => SundaySame(m)
    <3> SUFFICES ASSUME NEW m \in Rows, Sunday!Exists(x2[m]) PROVE SundaySame(m)
      OBVIOUS
    <3>1. PICK o \in Ones : o = x2[m].template
      BY SundayMass
    <3>2. CASE o # t
      BY <2>3, <2>6, <3>1, <3>2 DEF SundaySame
    <3>3. CASE o = t /\ day = x1[t].day
      BY <2>2, <2>3, <2>6, <3>1, <3>3 DEF SundaySame
    <3>4. CASE o = t /\ day # x1[t].day
      <4>1. m \in Sunday!MassesOf(t)
        BY <3>1, <3>4, SundayMasses
      <4> QED
        BY <2>3, <3>4, <4>1 DEF SundaySame
    <3> QED
      BY <3>2, <3>3, <3>4
  <2>9. \A o \in Ones : /\ Sunday!Exists(x1'[o]) <=> Sunday!Exists(x1[o])
                        /\ x1'[o] = None <=> x1[o] = None
    BY <2>3, <2>6, <2>7
  <2> QED
    BY <2>3, <2>5, <2>8, <2>9, SundayMoved
<1>2. ASSUME NEW t \in Ones, Sunday!Publish(t) \/ Sunday!Archive(t)
      PROVE  Sunday!Inv'
  <2>1. x1[t].day \in Days
    BY <1>2, SundayTemplate DEF Sunday!Publish, Sunday!Archive
  <2>2. /\ "PUBLISHED" \in Sunday!SundayScheduleStatus /\ "ARCHIVED" \in Sunday!SundayScheduleStatus
        /\ \/ Sunday!UpdateTemplate(t, "PUBLISHED", x1[t].day)
           \/ Sunday!UpdateTemplate(t, "ARCHIVED", x1[t].day)
    BY <1>2 DEF Sunday!Publish, Sunday!Archive, Sunday!SundayScheduleStatus
  <2> QED
    BY <1>1, <2>1, <2>2
<1>3. ASSUME NEW m \in Rows, NEW hour \in Hours, Sunday!UpdateMass(m, hour)
      PROVE  Sunday!Inv'
  <2>1. PICK old \in Sunday!SundayMassSlot : old = x2[m]
    BY <1>3, SundayMass DEF Sunday!UpdateMass
  <2>2. PICK row : row = [old EXCEPT !.hour = hour]
    OBVIOUS
  <2>3. row \in Sunday!SundayMassSlot /\ row.template = old.template
    BY <2>1, <2>2 DEF Sunday!SundayMassSlot
  <2>4. /\ Sunday!Exists(x2[m]) /\ x2' = [x2 EXCEPT ![m].hour = hour] /\ x9' = x9 \cup {m}
        /\ x1' = x1 /\ x3' = x3 /\ x4' = x4 /\ x5' = x5 /\ x6' = x6 /\ x7' = x7 /\ x8' = x8
        /\ x10' = x10 /\ x11' = x11 /\ pc' = pc /\ req' = req /\ sent' = sent
    BY <1>3 DEF Sunday!UpdateMass, Sunday!flights
  <2>5. /\ x2' \in [Rows -> Sunday!SundayMassSlot \cup {None, Gone}]
        /\ x2'[m] = row /\ \A o \in Rows \ {m} : x2'[o] = x2[o]
    BY <2>1, <2>2, <2>3, <2>4, SundayRows
  <2>6. SundayTyped' /\ x9 \subseteq x9'
    BY <2>4, <2>5, SundayTypedNow DEF SundayTyped
  <2>7. Sunday!Exists(row)
    BY <2>3, SundayConstants DEF Sunday!Exists
  <2>8. \A o \in Rows : /\ \/ x2'[o] = x2[o]
                           \/ /\ Sunday!Exists(x2[o]) /\ Sunday!Exists(x2'[o])
                              /\ x2'[o].template = x2[o].template
                        /\ SundaySame(o)
    BY <2>1, <2>3, <2>4, <2>5, <2>7 DEF SundaySame
  <2> QED
    BY <2>4, <2>6, <2>8, SundayMoved
<1>4. ASSUME NEW D \in SUBSET Rows, \A m \in D : Sunday!Exists(x2[m]),
             NEW E \in SUBSET Ones, \A t \in E : Sunday!Exists(x1[t]) /\ Sunday!MassesOf(t) \subseteq D,
             x1' = [t \in Ones |-> IF t \in E THEN Gone ELSE x1[t]],
             x2' = [m \in Rows |-> IF m \in D THEN Gone ELSE x2[m]],
             x3' = [p \in Thirds |->
                       IF Sunday!Exists(x3[p]) /\ x3[p].mass \in D THEN Gone ELSE x3[p]],
             x8' = x8 \cup D, x4' = x4, x5' = x5, x6' = x6, x7' = x7, x9' = x9, x10' = x10,
             x11' = x11, pc' = pc, req' = req, sent' = sent
      PROVE  Sunday!Inv'
  <2>1. SundayTyped'
    BY <1>4, SundayTypedNow DEF SundayTyped
  <2>2. /\ \A m \in Rows : x2'[m] = IF m \in D THEN Gone ELSE x2[m]
        /\ \A p \in Thirds :
               x3'[p] = IF Sunday!Exists(x3[p]) /\ x3[p].mass \in D THEN Gone ELSE x3[p]
        /\ \A t \in Ones : \/ x1'[t] = x1[t]
                           \/ /\ x1'[t] = Gone /\ Sunday!Exists(x1[t])
                              /\ Sunday!MassesOf(t) \subseteq D
    BY <1>4
  <2> QED
    BY <1>4, <2>1, <2>2, SundayStruck
<1>5. ASSUME NEW t \in Ones, Sunday!DeleteTemplate(t)
      PROVE  Sunday!Inv'
  <2>1. PICK D \in SUBSET Rows : D = Sunday!MassesOf(t)
    BY DEF Sunday!MassesOf
  <2>2. PICK E \in SUBSET Ones : E = {t}
    OBVIOUS
  <2>3. /\ Sunday!Exists(x1[t]) /\ x1' = [x1 EXCEPT ![t] = Gone]
        /\ x2' = [m \in Rows |-> IF m \in D THEN Gone ELSE x2[m]]
        /\ x3' = [p \in Thirds |->
                       IF Sunday!Exists(x3[p]) /\ x3[p].mass \in D THEN Gone ELSE x3[p]]
        /\ x8' = x8 \cup D /\ x4' = x4 /\ x5' = x5 /\ x6' = x6 /\ x7' = x7 /\ x9' = x9 /\ x10' = x10
        /\ x11' = x11 /\ pc' = pc /\ req' = req /\ sent' = sent
    BY <1>5, <2>1 DEF Sunday!DeleteTemplate, Sunday!flights
  <2>4. x1' = [o \in Ones |-> IF o \in E THEN Gone ELSE x1[o]]
    BY <2>2, <2>3, SundayRows
  <2>5. /\ \A m \in D : Sunday!Exists(x2[m])
        /\ \A o \in E : Sunday!Exists(x1[o]) /\ Sunday!MassesOf(o) \subseteq D
    BY <2>1, <2>2, <2>3, SundayMasses
  <2> QED
    BY <1>4, <2>3, <2>4, <2>5
<1>6. ASSUME NEW m \in Rows, Sunday!DeleteMass(m)
      PROVE  Sunday!Inv'
  <2>1. PICK D \in SUBSET Rows : D = {m}
    OBVIOUS
  <2>2. PICK E \in SUBSET Ones : E = {}
    OBVIOUS
  <2>3. /\ Sunday!Exists(x2[m]) /\ x2' = [x2 EXCEPT ![m] = Gone]
        /\ x3' = [p \in Thirds |->
                       IF Sunday!Exists(x3[p]) /\ x3[p].mass = m THEN Gone ELSE x3[p]]
        /\ x8' = x8 \cup {m} /\ x1' = x1
        /\ x4' = x4 /\ x5' = x5 /\ x6' = x6 /\ x7' = x7 /\ x9' = x9 /\ x10' = x10
        /\ x11' = x11 /\ pc' = pc /\ req' = req /\ sent' = sent
    BY <1>6 DEF Sunday!DeleteMass, Sunday!flights
  <2>4. /\ x1' = [o \in Ones |-> IF o \in E THEN Gone ELSE x1[o]]
        /\ x2' = [o \in Rows |-> IF o \in D THEN Gone ELSE x2[o]]
        /\ x8' = x8 \cup D
    BY <2>1, <2>2, <2>3, SundayRows
  <2>5. x3' = [p \in Thirds |->
                       IF Sunday!Exists(x3[p]) /\ x3[p].mass \in D THEN Gone ELSE x3[p]]
    BY <2>1, <2>3
  <2>6. /\ \A o \in D : Sunday!Exists(x2[o])
        /\ \A o \in E : Sunday!Exists(x1[o]) /\ Sunday!MassesOf(o) \subseteq D
    BY <2>1, <2>2, <2>3
  <2> QED
    BY <1>4, <2>3, <2>4, <2>5, <2>6
<1> QED
  BY <1>1, <1>2, <1>3, <1>5, <1>6 DEF Sunday!TemplateDesk, Sunday!MassDesk

\* A post is emptied, or time passes.
LEMMA SundayPassing ==
    ASSUME Sunday!Inv,
           \/ \E p \in Thirds : Sunday!RemovePost(p)
           \/ \E now \in Times : Sunday!Elapse(now)
    PROVE  Sunday!Inv'
<1>1. PICK M \in SUBSET Workers : M = {}
  OBVIOUS
<1>2. Sunday!FlightsOK /\ x5 \in Times /\ x5 \in Int
  BY SundayRows DEF Sunday!Inv, Sunday!TypeOK
<1>3. ASSUME pc' = pc, req' = req, sent' = sent
      PROVE  Sunday!FlightsOK' /\ \A v \in Workers \ M : pc'[v] = pc[v] /\ req'[v] = req[v]
  BY <1>2, <1>3 DEF Sunday!FlightsOK
<1>4. ASSUME NEW p \in Thirds, Sunday!RemovePost(p)
      PROVE  Sunday!Inv'
  <2>1. /\ Sunday!Exists(x3[p]) /\ x3' = [x3 EXCEPT ![p] = Gone]
        /\ x1' = x1 /\ x2' = x2 /\ x4' = x4 /\ x5' = x5 /\ x6' = x6 /\ x7' = x7 /\ x8' = x8
        /\ x9' = x9 /\ x10' = x10 /\ x11' = x11 /\ pc' = pc /\ req' = req /\ sent' = sent
    BY <1>4 DEF Sunday!RemovePost, Sunday!sundayHistory, Sunday!flights
  <2>2. SundayTyped'
    BY <2>1, SundayTypedNow DEF SundayTyped
  <2>3. /\ x3'[p] = Gone /\ \A q \in Thirds \ {p} : x3'[q] = x3[q]
        /\ ~Sunday!Exists(Gone) /\ Gone # None
    BY <2>1, SundayRows, SundayConstants DEF Sunday!Exists
  <2>4. /\ \A q \in Thirds : x3[q] # None => x3'[q] # None
        /\ \A q \in Thirds : Sunday!Exists(x3'[q]) =>
               /\ x3'[q] = x3[q] /\ x3'[q].mass \in Rows /\ Sunday!Exists(x2[x3'[q].mass])
    BY <2>3, SundayPost
  <2>5. \A q \in Thirds : Sunday!Exists(x3'[q]) /\ x3'[q].marked_at # None =>
               \/ q \in x10' \/ x3'[q].mass \in x9
               \/ /\ Sunday!Exists(x3[q]) /\ x3'[q].mass = x3[q].mass
                  /\ x3'[q].marked_at = x3[q].marked_at /\ q \notin x10
    BY <2>1, <2>4
  <2>6. x5 <= x5'
    BY <1>2, <2>1
  <2> QED
    BY <1>1, <1>3, <2>1, <2>2, <2>4, <2>5, <2>6, SundaySteady
<1>5. ASSUME NEW now \in Times, Sunday!Elapse(now)
      PROVE  Sunday!Inv'
  <2>1. /\ x5' = now /\ now > x5
        /\ x1' = x1 /\ x2' = x2 /\ x3' = x3 /\ x4' = x4 /\ x6' = x6 /\ x7' = x7 /\ x8' = x8
        /\ x9' = x9 /\ x10' = x10 /\ x11' = x11 /\ pc' = pc /\ req' = req /\ sent' = sent
    BY <1>5 DEF Sunday!Elapse, Sunday!sundayHistory, Sunday!flights
  <2>2. SundayTyped'
    BY <2>1, SundayTypedNow DEF SundayTyped
  <2>3. x5 <= x5'
    BY <1>2, <2>1, SundayConstants
  <2>4. \A q \in Thirds : Sunday!Exists(x3'[q]) =>
               x3'[q].mass \in Rows /\ Sunday!Exists(x2[x3'[q].mass])
    BY <2>1, SundayPost
  <2>5. \A q \in Thirds : Sunday!Exists(x3'[q]) /\ x3'[q].marked_at # None =>
               \/ q \in x10' \/ x3'[q].mass \in x9
               \/ /\ Sunday!Exists(x3[q]) /\ x3'[q].mass = x3[q].mass
                  /\ x3'[q].marked_at = x3[q].marked_at /\ q \notin x10
    BY <2>1
  <2> QED
    BY <1>1, <1>3, <2>1, <2>2, <2>3, <2>4, <2>5, SundaySteady
<1> QED
  BY <1>4, <1>5

\* A creation that is refused, or that has come to its end.
LEMMA SundayStops ==
    ASSUME Sunday!Inv, NEW w \in Workers, Sunday!Return(w),
           x1' = x1, x2' = x2, x3' = x3, x5' = x5, x6' = x6, x8' = x8, x9' = x9, x10' = x10,
           x7 \subseteq x7', x7' \subseteq Ones, x4' \subseteq Thirds, x11' \subseteq Thirds,
           Sunday!Creating(w) => req[w].todo = {} \/ req[w].template \in x7'
    PROVE  Sunday!Inv'
<1>1. /\ Sunday!FlightsOK' /\ Sunday!Sound(w)' /\ ~Sunday!Creating(w)'
      /\ \A v \in Workers \ {w} : pc'[v] = pc[v] /\ req'[v] = req[v]
  BY SundayEnd
<1> QED
  BY <1>1, SundayPasses

LEMMA SundayStopping ==
    ASSUME Sunday!Inv, NEW w \in Workers,
           \/ Sunday!RefuseAssignments(w) \/ Sunday!TemplateDone(w) \/ Sunday!RefusePost(w)
           \/ Sunday!LogMark(w) \/ Sunday!AbortSunday(w)
    PROVE  Sunday!Inv'
<1>1. /\ x4 \subseteq Thirds /\ x11 \subseteq Thirds /\ x7 \subseteq Ones
  BY SundayRows
<1>2. Sunday!Creating(w) => req[w].template \in Ones
  BY SundayCreates
<1>3. CASE Sunday!RefuseAssignments(w) \/ Sunday!AbortSunday(w)
  <2>1. /\ x1' = x1 /\ x2' = x2 /\ x3' = x3 /\ x4' = x4 /\ x5' = x5 /\ x6' = x6 /\ x8' = x8
        /\ x9' = x9 /\ x10' = x10 /\ x11' = x11 /\ Sunday!Return(w)
        /\ x7' = IF Sunday!Creating(w) THEN x7 \cup {req[w].template} ELSE x7
    BY <1>3 DEF Sunday!RefuseAssignments, Sunday!AbortSunday, Sunday!Die, Sunday!Creating,
                Sunday!sundayTables
  <2>2. x7 \subseteq x7' /\ x7' \subseteq Ones /\ (Sunday!Creating(w) => req[w].template \in x7')
    BY <1>1, <1>2, <2>1
  <2> QED
    BY <1>1, <2>1, <2>2, SundayStops
<1>4. CASE Sunday!TemplateDone(w) \/ Sunday!RefusePost(w)
  <2>1. /\ x1' = x1 /\ x2' = x2 /\ x3' = x3 /\ x4' = x4 /\ x5' = x5 /\ x6' = x6 /\ x7' = x7
        /\ x8' = x8 /\ x9' = x9 /\ x10' = x10 /\ x11' = x11 /\ Sunday!Return(w)
        /\ Sunday!Creating(w) => req[w].todo = {}
    BY <1>4 DEF Sunday!TemplateDone, Sunday!RefusePost, Sunday!Creating,
                Sunday!sundayTables, Sunday!sundayHistory
  <2> QED
    BY <1>1, <2>1, SundayStops
<1>5. CASE Sunday!LogMark(w)
  <2>1. PICK p : p = req[w].post
    OBVIOUS
  <2>2. pc[w] = "logging"
    BY <1>5 DEF Sunday!LogMark
  <2>3. p \in Thirds /\ ~Sunday!Creating(w)
    BY <2>1, <2>2, SundayMarks DEF Sunday!Creating
  <2>4. /\ x1' = x1 /\ x2' = x2 /\ x3' = x3 /\ x5' = x5 /\ x6' = x6 /\ x7' = x7
        /\ x8' = x8 /\ x9' = x9 /\ x10' = x10 /\ Sunday!Return(w)
        /\ \/ x4' = x4 \cup {p} /\ x11' = x11
           \/ x11' = x11 \cup {p} /\ x4' = x4
    BY <1>5, <2>1 DEF Sunday!LogMark
  <2>5. x4' \subseteq Thirds /\ x11' \subseteq Thirds
    BY <1>1, <2>3, <2>4
  <2> QED
    BY <1>1, <2>3, <2>4, <2>5, SundayStops
<1> QED
  BY <1>3, <1>4, <1>5

\* The masses of a template are inserted.
LEMMA SundayInserts ==
    ASSUME Sunday!Inv, NEW w \in Workers, NEW hour \in Hours,
           \/ \E m \in Rows : Sunday!CreateMass(w, m, hour)
           \/ Sunday!CreateMasses(w, hour)
    PROVE  Sunday!Inv'
<1>1. PICK r : r = req[w]
  OBVIOUS
<1>2. Sunday!Creating(w)
  BY DEF Sunday!CreateMass, Sunday!CreateMasses, Sunday!Creating
<1>3. PICK t \in Ones : t = r.template
  BY <1>1, <1>2, SundayCreates
<1>4. /\ x1[t] # None /\ r.todo \subseteq x6[t] /\ r.todo \in SUBSET Rows
      /\ \A m \in r.todo : x2[m] = None
      /\ Sunday!Exists(x1[t]) => Sunday!MassesOf(t) = x6[t] \ (x8 \cup r.todo)
      /\ \A v \in Workers \ {w} : Sunday!Creating(v) => req[v].template # t
  <2>1. /\ x1[t] # None /\ r.todo \subseteq x6[t] /\ r.todo \subseteq Rows
        /\ \A m \in r.todo : x2[m] = None
        /\ Sunday!Exists(x1[t]) => Sunday!MassesOf(t) = x6[t] \ (x8 \cup r.todo)
        /\ \A v \in Workers \ {w} : Sunday!Creating(v) => req[v].template # t
    BY <1>1, <1>2, <1>3, SundayCreates
  <2> QED
    BY <2>1
<1>5. PICK row : row = [template |-> t, hour |-> hour]
  OBVIOUS
<1>6. row \in Sunday!SundayMassSlot /\ row.template = t /\ Sunday!Exists(row)
  BY <1>5, SundayConstants DEF Sunday!SundayMassSlot, Sunday!Exists
<1>7. x7 \cup {t} \subseteq Ones /\ x4 \subseteq Thirds /\ x11 \subseteq Thirds
  BY SundayRows
<1>8. ASSUME Sunday!Return(w), x7' = x7 \cup {t},
             x1' = x1, x2' = x2, x3' = x3, x4' = x4, x5' = x5, x6' = x6, x8' = x8, x9' = x9,
             x10' = x10, x11' = x11
      PROVE  Sunday!Inv'
  <2>1. req[w].template \in x7' /\ x7 \subseteq x7'
    BY <1>1, <1>3, <1>8
  <2> QED
    BY <1>7, <1>8, <2>1, SundayStops
<1>9. ASSUME NEW m \in Rows, Sunday!CreateMass(w, m, hour)
      PROVE  Sunday!Inv'
  <2>1. pc[w] = "creating" /\ m \in r.todo
    BY <1>1, <1>9 DEF Sunday!CreateMass
  <2>2. CASE ~Sunday!Exists(x1[t])
    BY <1>1, <1>3, <1>8, <1>9, <2>2 DEF Sunday!CreateMass
  <2>3. CASE Sunday!Exists(x1[t])
    <3>1. PICK T \in SUBSET Rows : T = r.todo \ {m}
      BY <1>4
    <3>2. PICK s : s = [op |-> "create", template |-> t, todo |-> T, last |-> m]
      OBVIOUS
    <3>4. /\ x2' = [x2 EXCEPT ![m] = row] /\ Sunday!Continue(w, s, "filling")
          /\ x1' = x1 /\ x3' = x3 /\ x4' = x4 /\ x5' = x5 /\ x6' = x6 /\ x7' = x7 /\ x8' = x8
          /\ x9' = x9 /\ x10' = x10 /\ x11' = x11
      BY <1>1, <1>3, <1>5, <1>9, <2>3, <3>1, <3>2 DEF Sunday!CreateMass
    <3>5. Sunday!At(w, s, "filling") /\ sent' \in 0 .. MaxCalls /\ s # Sunday!NoRequest
      BY <3>2, <3>4, SundayRows DEF Sunday!Continue, Sunday!NoRequest
    <3>6. /\ Sunday!FlightsOK' /\ pc'[w] = "filling" /\ req'[w] = s
          /\ \A v \in Workers \ {w} : pc'[v] = pc[v] /\ req'[v] = req[v]
      BY <3>5, SundayMove
    <3>7. /\ x2' \in [Rows -> Sunday!SundayMassSlot \cup {None, Gone}]
          /\ x2'[m] = row /\ \A o \in Rows \ {m} : x2'[o] = x2[o]
      BY <1>6, <3>4, SundayRows
    <3>8. SundayTyped'
      BY <3>4, <3>7, SundayTypedNow DEF SundayTyped
    <3>9. /\ \A o \in T : x2'[o] = None
          /\ T \subseteq x6[t]
      BY <1>4, <3>1, <3>7
    <3>10. Sunday!MassesOf(t)' = x6[t] \ (x8 \cup T)
      <4> SUFFICES ASSUME NEW o
                   PROVE  o \in Sunday!MassesOf(t)' <=> o \in x6[t] \ (x8 \cup T)
        OBVIOUS
      <4>1. o \in Sunday!MassesOf(t) <=> o \in x6[t] \ (x8 \cup r.todo)
        BY <1>4, <2>3
      <4>2. o \in Sunday!MassesOf(t)' <=> o = m \/ o \in Sunday!MassesOf(t)
        BY <1>4, <1>6, <2>1, <3>7, SundayMasses
      <4>3. m \notin x8
        BY <1>4, <2>1, SundayConstants DEF Sunday!Inv, Sunday!RowsBelong
      <4> QED
        BY <1>4, <2>1, <3>1, <4>1, <4>2, <4>3
    <3>11. \A v \in Workers \ {w} : Sunday!Creating(v)' => req'[v].template # t
      BY <1>4, <3>6 DEF Sunday!Creating
    <3>12. Sunday!Creating(w)' /\ req'[w].template = t
      BY <3>2, <3>6 DEF Sunday!Creating
    <3>13. Sunday!Sound(w)'
      BY <1>4, <3>2, <3>4, <3>6, <3>9, <3>10, <3>11, <3>12 DEF Sunday!Sound
    <3>14. PICK D \in SUBSET Rows : D = {m}
      OBVIOUS
    <3>15. D \subseteq req[w].todo /\ \A o \in Rows : x2'[o] = IF o \in D THEN row ELSE x2[o]
      BY <1>1, <2>1, <3>7, <3>14
    <3>16. /\ t = req[w].template
           /\ Sunday!Creating(w)' => req'[w].template = t
           /\ Sunday!Creating(w)' \/ D = req[w].todo
      BY <1>1, <1>3, <3>12
    <3>17. /\ x1' = x1 /\ x3' = x3 /\ x4' = x4 /\ x5' = x5 /\ x6' = x6 /\ x7' = x7 /\ x8' = x8
           /\ x9' = x9 /\ x10' = x10 /\ x11' = x11
      BY <3>4
    <3> QED
      BY <1>2, <1>6, <2>3, <3>6, <3>8, <3>13, <3>15, <3>16, <3>17, SundayAdded
  <2> QED
    BY <2>2, <2>3
<1>10. ASSUME Sunday!CreateMasses(w, hour)
       PROVE  Sunday!Inv'
  <2>1. Sunday!Return(w)
    BY <1>10 DEF Sunday!CreateMasses
  <2>2. CASE ~Sunday!Exists(x1[t])
    BY <1>1, <1>3, <1>8, <1>10, <2>2 DEF Sunday!CreateMasses
  <2>3. CASE Sunday!Exists(x1[t])
    <3>1. PICK D \in SUBSET Rows : D = r.todo
      BY <1>4
    <3>2. /\ x2' = [m \in Rows |-> IF m \in D THEN row ELSE x2[m]]
          /\ x1' = x1 /\ x3' = x3 /\ x4' = x4 /\ x5' = x5 /\ x6' = x6 /\ x7' = x7 /\ x8' = x8
          /\ x9' = x9 /\ x10' = x10 /\ x11' = x11
      BY <1>1, <1>3, <1>5, <1>10, <2>3, <3>1 DEF Sunday!CreateMasses
    <3>3. SundayTyped'
      BY <1>6, <3>2, SundayTypedNow DEF SundayTyped
    <3>4. /\ Sunday!FlightsOK' /\ Sunday!Sound(w)' /\ ~Sunday!Creating(w)'
          /\ \A v \in Workers \ {w} : pc'[v] = pc[v] /\ req'[v] = req[v]
      BY <2>1, SundayEnd
    <3>5. D = req[w].todo /\ \A o \in Rows : x2'[o] = IF o \in D THEN row ELSE x2[o]
      BY <1>1, <3>1, <3>2
    <3> QED
      BY <1>1, <1>2, <1>3, <1>6, <2>3, <3>2, <3>3, <3>4, <3>5, SundayAdded
  <2> QED
    BY <2>2, <2>3
<1> QED
  BY <1>9, <1>10

\* Posts are inserted, by a creation or on their own.
LEMMA SundayFills ==
    ASSUME Sunday!Inv, NEW w \in Workers, NEW m \in Rows, NEW B \in SUBSET Thirds,
           Sunday!FlightsOK', Sunday!Sound(w)',
           \A v \in Workers \ {w} : pc'[v] = pc[v] /\ req'[v] = req[v],
           Sunday!Creating(w)' => Sunday!Creating(w) /\ req'[w].template = req[w].template,
           Sunday!Creating(w) => Sunday!Creating(w)',
           \A p \in B : x3[p] = None,
           B = {} \/ Sunday!Exists(x2[m]),
           x3' = [p \in Thirds |-> IF p \in B
                     THEN [mass |-> m, present |-> None, marked_at |-> None] ELSE x3[p]],
           x1' = x1, x2' = x2, x4' = x4, x5' = x5, x6' = x6, x7' = x7, x8' = x8, x9' = x9,
           x10' = x10, x11' = x11
    PROVE  Sunday!Inv'
<1>1. PICK M \in SUBSET Workers : M = {w}
  OBVIOUS
<1>2. PICK row : row = [mass |-> m, present |-> None, marked_at |-> None]
  OBVIOUS
<1>3. row \in Sunday!SundayMassAssignment /\ row.mass = m /\ row.marked_at = None /\ row # None
  BY <1>2, SundayConstants DEF Sunday!SundayMassAssignment
<1>4. \A p \in Thirds : x3'[p] = IF p \in B THEN row ELSE x3[p]
  BY <1>2
<1>5. SundayTyped'
  <2>1. x3' \in [Thirds -> Sunday!SundayMassAssignment \cup {None, Gone}]
    BY <1>2, <1>3, SundayRows
  <2> QED
    BY <2>1, SundayTypedNow DEF SundayTyped
<1>6. /\ \A p \in Thirds : x3[p] # None => x3'[p] # None
      /\ \A p \in Thirds : x3[p] # None /\ Sunday!Exists(x3'[p]) =>
               Sunday!Exists(x3[p]) /\ x3'[p].mass = x3[p].mass
  BY <1>4
<1>7. /\ \A p \in Thirds : Sunday!Exists(x3'[p]) =>
               x3'[p].mass \in Rows /\ Sunday!Exists(x2[x3'[p].mass])
      /\ \A p \in Thirds : Sunday!Exists(x3'[p]) /\ x3'[p].marked_at # None =>
               \/ p \in x10' \/ x3'[p].mass \in x9
               \/ /\ Sunday!Exists(x3[p]) /\ x3'[p].mass = x3[p].mass
                  /\ x3'[p].marked_at = x3[p].marked_at /\ p \notin x10
  <2> SUFFICES ASSUME NEW p \in Thirds, Sunday!Exists(x3'[p])
               PROVE  /\ x3'[p].mass \in Rows /\ Sunday!Exists(x2[x3'[p].mass])
                      /\ x3'[p].marked_at # None =>
                            \/ p \in x10' \/ x3'[p].mass \in x9
                            \/ /\ Sunday!Exists(x3[p]) /\ x3'[p].mass = x3[p].mass
                               /\ x3'[p].marked_at = x3[p].marked_at /\ p \notin x10
    OBVIOUS
  <2>1. CASE p \in B
    BY <1>3, <1>4, <2>1
  <2>2. CASE p \notin B
    BY <1>4, <2>2, SundayPost
  <2> QED
    BY <2>1, <2>2
<1>8. x5 <= x5'
  BY SundayRows
<1>9. /\ \A v \in Workers \ M : pc'[v] = pc[v] /\ req'[v] = req[v]
      /\ \A v \in M : Sunday!Sound(v)'
      /\ \A v \in M : Sunday!Creating(v)' =>
               Sunday!Creating(v) /\ req'[v].template = req[v].template
      /\ \A v \in M : Sunday!Creating(v) =>
               Sunday!Creating(v)' \/ req[v].todo = {} \/ req[v].template \in x7'
  BY <1>1
<1> QED
  BY <1>5, <1>6, <1>7, <1>8, <1>9, SundaySteady

LEMMA SundayFilling ==
    ASSUME Sunday!Inv, NEW w \in Workers,
           \/ \E batch \in SUBSET Thirds : Sunday!CreateAssignments(w, batch)
           \/ \E p \in Thirds : Sunday!InsertPost(w, p)
    PROVE  Sunday!Inv'
<1>1. PICK r : r = req[w]
  OBVIOUS
<1>2. ASSUME NEW B \in SUBSET Thirds, Sunday!CreateAssignments(w, B)
      PROVE  Sunday!Inv'
  <2>1. pc[w] = "filling" /\ Sunday!Creating(w)
    BY <1>2 DEF Sunday!CreateAssignments, Sunday!Creating
  <2>2. PICK t \in Ones : t = r.template
    BY <1>1, <2>1, SundayCreates
  <2>3. PICK m \in Rows : m = r.last
    BY <1>1, <2>1, SundayCreates
  <2>4. PICK T \in SUBSET Rows : T = r.todo
    BY <1>1, <2>1, SundayCreates
  <2>5. /\ x1[t] # None /\ T \subseteq x6[t]
        /\ \A o \in T : x2[o] = None
        /\ Sunday!Exists(x1[t]) => Sunday!MassesOf(t) = x6[t] \ (x8 \cup T)
        /\ \A v \in Workers \ {w} : Sunday!Creating(v) => req[v].template # t
    BY <1>1, <2>1, <2>2, <2>4, SundayCreates
  <2>6. CASE B = {} \/ Sunday!Exists(x2[m])
    <3>1. PICK s : s = [op |-> "create", template |-> t, todo |-> T, last |-> None]
      OBVIOUS
    <3>2. /\ Sunday!Continue(w, s, "creating") /\ \A p \in B : x3[p] = None
          /\ x3' = [p \in Thirds |-> IF p \in B
                     THEN [mass |-> m, present |-> None, marked_at |-> None] ELSE x3[p]]
          /\ x1' = x1 /\ x2' = x2 /\ x4' = x4 /\ x5' = x5 /\ x6' = x6 /\ x7' = x7 /\ x8' = x8
          /\ x9' = x9 /\ x10' = x10 /\ x11' = x11
      BY <1>1, <1>2, <2>2, <2>3, <2>4, <2>6, <3>1 DEF Sunday!CreateAssignments
    <3>3. Sunday!At(w, s, "creating") /\ sent' \in 0 .. MaxCalls /\ s # Sunday!NoRequest
      BY <3>1, <3>2, SundayRows DEF Sunday!Continue, Sunday!NoRequest
    <3>4. /\ Sunday!FlightsOK' /\ pc'[w] = "creating" /\ req'[w] = s
          /\ \A v \in Workers \ {w} : pc'[v] = pc[v] /\ req'[v] = req[v]
      BY <3>3, SundayMove
    <3>5. Sunday!Creating(w)' /\ req'[w].template = req[w].template
      BY <1>1, <2>2, <3>1, <3>4 DEF Sunday!Creating
    <3>6. \A v \in Workers \ {w} : Sunday!Creating(v)' => req'[v].template # t
      BY <2>5, <3>4 DEF Sunday!Creating
    <3>7. Sunday!MassesOf(t)' = Sunday!MassesOf(t)
      BY <3>2 DEF Sunday!MassesOf, Sunday!Exists
    <3>8. Sunday!Exists(x1[t]) => Sunday!MassesOf(t)' = x6[t] \ (x8 \cup T)
      BY <2>5, <3>7
    <3>9. Sunday!Sound(w)'
      BY <2>5, <3>1, <3>2, <3>4, <3>5, <3>6, <3>8 DEF Sunday!Sound
    <3> QED
      BY <2>1, <2>6, <3>2, <3>4, <3>5, <3>9, SundayFills
  <2>7. CASE ~(B = {} \/ Sunday!Exists(x2[m]))
    <3>1. /\ Sunday!Return(w) /\ x7' = x7 \cup {t} /\ x3' = x3
          /\ x1' = x1 /\ x2' = x2 /\ x4' = x4 /\ x5' = x5 /\ x6' = x6 /\ x8' = x8
          /\ x9' = x9 /\ x10' = x10 /\ x11' = x11
      BY <1>1, <1>2, <2>2, <2>3, <2>7 DEF Sunday!CreateAssignments
    <3>2. /\ x7 \subseteq x7' /\ x7' \subseteq Ones /\ x4' \subseteq Thirds /\ x11' \subseteq Thirds
          /\ req[w].template \in x7'
      BY <1>1, <2>2, <3>1, SundayRows
    <3> QED
      BY <3>1, <3>2, SundayStops
  <2> QED
    BY <2>6, <2>7
<1>3. ASSUME NEW p \in Thirds, Sunday!InsertPost(w, p)
      PROVE  Sunday!Inv'
  <2>1. pc[w] = "adding"
    BY <1>3 DEF Sunday!InsertPost
  <2>2. PICK m \in Rows : m = r.mass
    BY <1>1, <2>1 DEF Sunday!Inv, Sunday!Sound, Sunday!Creating
  <2>3. PICK B \in SUBSET Thirds : B = {p}
    OBVIOUS
  <2>4. /\ Sunday!Return(w) /\ x3[p] = None /\ Sunday!Exists(x2[m])
        /\ x3' = [x3 EXCEPT ![p] = [mass |-> m, present |-> None, marked_at |-> None]]
        /\ x1' = x1 /\ x2' = x2 /\ x4' = x4 /\ x5' = x5 /\ x6' = x6 /\ x7' = x7 /\ x8' = x8
        /\ x9' = x9 /\ x10' = x10 /\ x11' = x11
    BY <1>1, <1>3, <2>2 DEF Sunday!InsertPost, Sunday!sundayHistory
  <2>5. /\ x3' = [q \in Thirds |-> IF q \in B
                     THEN [mass |-> m, present |-> None, marked_at |-> None] ELSE x3[q]]
        /\ \A q \in B : x3[q] = None
    BY <2>3, <2>4, SundayRows
  <2>6. /\ Sunday!FlightsOK' /\ Sunday!Sound(w)' /\ ~Sunday!Creating(w)'
        /\ \A v \in Workers \ {w} : pc'[v] = pc[v] /\ req'[v] = req[v]
    BY <2>4, SundayEnd
  <2>7. ~Sunday!Creating(w)
    BY <2>1 DEF Sunday!Creating
  <2> QED
    BY <2>4, <2>5, <2>6, <2>7, SundayFills
<1> QED
  BY <1>2, <1>3

\* A mark is committed: within its window, or after the clock has gone on.
LEMMA SundayCommits ==
    ASSUME Sunday!Inv, NEW w \in Workers, Sunday!CommitMark(w)
    PROVE  Sunday!Inv'
<1>1. PICK r : r = req[w]
  OBVIOUS
<1>2. pc[w] = "marking"
  BY DEF Sunday!CommitMark
<1>3. PICK p \in Thirds : p = r.post
  BY <1>1, <1>2, SundayMarks
<1>4. /\ r = [op |-> "mark", post |-> p, present |-> r.present, since |-> r.since]
      /\ x3[p] # None /\ r.present \in BOOLEAN
      /\ r.since \in Times /\ r.since \in Int /\ r.since <= x5
      /\ Sunday!Exists(x3[p]) =>
                 \/ x3[p].mass \in x9
                 \/ Sunday!Within(x1[x2[x3[p].mass].template].day, x2[x3[p].mass].hour, r.since)
  BY <1>1, <1>2, <1>3, SundayMarks
<1>5. ~Sunday!Creating(w)
  BY <1>2 DEF Sunday!Creating
<1>6. CASE ~Sunday!Exists(x3[p])
  <2>1. /\ Sunday!Return(w) /\ x1' = x1 /\ x2' = x2 /\ x3' = x3 /\ x4' = x4 /\ x5' = x5
        /\ x6' = x6 /\ x7' = x7 /\ x8' = x8 /\ x9' = x9 /\ x10' = x10 /\ x11' = x11
    BY <1>1, <1>3, <1>6 DEF Sunday!CommitMark
  <2>2. x7' \subseteq Ones /\ x4' \subseteq Thirds /\ x11' \subseteq Thirds
    BY <2>1, SundayRows
  <2> QED
    BY <1>5, <2>1, <2>2, SundayStops
<1>7. CASE Sunday!Exists(x3[p])
  <2>1. PICK row : row = [mass |-> x3[p].mass, present |-> r.present, marked_at |-> x5]
    OBVIOUS
  <2>2. x5 \in Times /\ x5 \in Int /\ x3[p].mass \in Rows /\ Sunday!Exists(x2[x3[p].mass])
    BY <1>7, SundayRows, SundayPost
  <2>3. /\ row \in Sunday!SundayMassAssignment /\ row.mass = x3[p].mass /\ row.marked_at = x5
        /\ Sunday!Exists(row)
    <3>1. row \in Sunday!SundayMassAssignment /\ row.mass = x3[p].mass /\ row.marked_at = x5
      BY <1>4, <2>1, <2>2 DEF Sunday!SundayMassAssignment
    <3> QED
      BY <3>1, SundayConstants DEF Sunday!Exists
  <2>4. /\ x3' = [x3 EXCEPT ![p] = row] /\ Sunday!Continue(w, r, "logging")
        /\ x10' = IF x5 > r.since THEN x10 \cup {p} ELSE x10 \ {p}
        /\ x1' = x1 /\ x2' = x2 /\ x4' = x4 /\ x5' = x5 /\ x6' = x6 /\ x7' = x7 /\ x8' = x8
        /\ x9' = x9 /\ x11' = x11
    BY <1>1, <1>3, <1>7, <2>1 DEF Sunday!CommitMark
  <2>5. Sunday!At(w, r, "logging") /\ sent' \in 0 .. MaxCalls /\ r # Sunday!NoRequest
    BY <1>4, <2>4, SundayRows DEF Sunday!Continue, Sunday!NoRequest
  <2>6. /\ Sunday!FlightsOK' /\ pc'[w] = "logging" /\ req'[w] = r
        /\ \A v \in Workers \ {w} : pc'[v] = pc[v] /\ req'[v] = req[v]
    BY <2>5, SundayMove
  <2>7. /\ x3' \in [Thirds -> Sunday!SundayMassAssignment \cup {None, Gone}]
        /\ x3'[p] = row /\ \A q \in Thirds \ {p} : x3'[q] = x3[q]
    BY <2>3, <2>4, SundayRows
  <2>8. SundayTyped'
    <3>1. x10' \subseteq Thirds
      BY <2>4, SundayRows
    <3> QED
      BY <2>4, <2>7, <3>1, SundayTypedNow DEF SundayTyped
  <2>9. Sunday!Sound(w)'
    <3>1. /\ x3'[p] # None
          /\ \/ x3'[p].mass \in x9'
             \/ Sunday!Within(x1'[x2'[x3'[p].mass].template].day, x2'[x3'[p].mass].hour, r.since)
      BY <1>4, <1>7, <2>3, <2>4, <2>7 DEF Sunday!Exists
    <3>2. r.since <= x5'
      BY <1>4, <2>4
    <3> QED
      BY <1>3, <1>4, <2>6, <3>1, <3>2 DEF Sunday!Sound
  <2>10. /\ \A q \in Thirds : x3[q] # None => x3'[q] # None
         /\ \A q \in Thirds : x3[q] # None /\ Sunday!Exists(x3'[q]) =>
               Sunday!Exists(x3[q]) /\ x3'[q].mass = x3[q].mass
         /\ \A q \in Thirds : Sunday!Exists(x3'[q]) =>
               x3'[q].mass \in Rows /\ Sunday!Exists(x2[x3'[q].mass])
    <3>1. row # None
      BY <2>3 DEF Sunday!Exists
    <3> SUFFICES ASSUME NEW q \in Thirds
                 PROVE  /\ x3[q] # None => x3'[q] # None
                        /\ x3[q] # None /\ Sunday!Exists(x3'[q]) =>
                              Sunday!Exists(x3[q]) /\ x3'[q].mass = x3[q].mass
                        /\ Sunday!Exists(x3'[q]) =>
                              x3'[q].mass \in Rows /\ Sunday!Exists(x2[x3'[q].mass])
      OBVIOUS
    <3>2. CASE q = p
      BY <1>7, <2>2, <2>3, <2>7, <3>1, <3>2
    <3>3. CASE q # p
      BY <2>7, <3>3, SundayPost
    <3> QED
      BY <3>2, <3>3
  <2>11. \A q \in Thirds : Sunday!Exists(x3'[q]) /\ x3'[q].marked_at # None =>
               \/ q \in x10' \/ x3'[q].mass \in x9
               \/ /\ Sunday!Exists(x3[q]) /\ x3'[q].mass = x3[q].mass
                  /\ x3'[q].marked_at = x3[q].marked_at /\ q \notin x10
               \/ Sunday!Within(x1[x2[x3'[q].mass].template].day, x2[x3'[q].mass].hour,
                                x3'[q].marked_at)
    <3> SUFFICES ASSUME NEW q \in Thirds, Sunday!Exists(x3'[q])
                 PROVE  \/ q \in x10' \/ x3'[q].mass \in x9
                        \/ /\ Sunday!Exists(x3[q]) /\ x3'[q].mass = x3[q].mass
                           /\ x3'[q].marked_at = x3[q].marked_at /\ q \notin x10
                        \/ Sunday!Within(x1[x2[x3'[q].mass].template].day, x2[x3'[q].mass].hour,
                                         x3'[q].marked_at)
      OBVIOUS
    <3>1. CASE q # p
      BY <2>4, <2>7, <3>1
    <3>2. CASE q = p /\ x5 > r.since
      BY <2>4, <3>2
    <3>3. CASE q = p /\ ~(x5 > r.since)
      <4>1. x5 = r.since
        BY <1>4, <2>2, <3>3
      <4>2. x3[p].mass \in x9 \/ Sunday!Within(x1[x2[x3[p].mass].template].day, x2[x3[p].mass].hour, x5)
        BY <1>4, <1>7, <4>1
      <4>3. x3'[q].mass = x3[p].mass /\ x3'[q].marked_at = x5
        BY <2>3, <2>7, <3>3
      <4> QED
        BY <4>2, <4>3
    <3> QED
      BY <3>1, <3>2, <3>3
  <2>12. x5 <= x5' /\ ~Sunday!Creating(w)'
    BY <2>2, <2>4, <2>6 DEF Sunday!Creating
  <2>13. PICK M \in SUBSET Workers : M = {w}
    OBVIOUS
  <2>14. /\ \A v \in Workers \ M : pc'[v] = pc[v] /\ req'[v] = req[v]
         /\ \A v \in M : Sunday!Sound(v)'
         /\ \A v \in M : Sunday!Creating(v)' =>
               Sunday!Creating(v) /\ req'[v].template = req[v].template
         /\ \A v \in M : Sunday!Creating(v) =>
               Sunday!Creating(v)' \/ req[v].todo = {} \/ req[v].template \in x7'
    BY <1>5, <2>6, <2>9, <2>12, <2>13
  <2>15. /\ x1' = x1 /\ x2' = x2 /\ x6' = x6 /\ x7' = x7 /\ x8' = x8 /\ x9' = x9
    BY <2>4
  <2> QED
    BY <2>6, <2>8, <2>10, <2>11, <2>12, <2>14, <2>15, SundaySteady
<1> QED
  BY <1>6, <1>7

LEMMA SundayNext == Sunday!Inv /\ Sunday!Next => Sunday!Inv'
<1> SUFFICES ASSUME Sunday!Inv, Sunday!Next PROVE Sunday!Inv'
  OBVIOUS
<1>1. ASSUME NEW w \in Workers, Sunday!ServeSunday(w)
      PROVE  Sunday!Inv'
  <2>1. Hours = Sunday!OrdinaryHours
    BY DEF Sunday!OrdinaryHours
  <2>2. \/ \E h \in Hours : \/ \E m \in Rows : Sunday!CreateMass(w, m, h)
                            \/ Sunday!CreateMasses(w, h)
        \/ \/ \E batch \in SUBSET Thirds : Sunday!CreateAssignments(w, batch)
           \/ \E p \in Thirds : Sunday!InsertPost(w, p)
        \/ \/ Sunday!RefuseAssignments(w) \/ Sunday!TemplateDone(w) \/ Sunday!RefusePost(w)
           \/ Sunday!LogMark(w) \/ Sunday!AbortSunday(w)
        \/ Sunday!CommitMark(w)
    BY <1>1, <2>1 DEF Sunday!ServeSunday
  <2> QED
    BY <2>2, SundayInserts, SundayFilling, SundayStopping, SundayCommits
<1>2. \/ \E t \in Ones : Sunday!TemplateDesk(t)
      \/ \E m \in Rows : Sunday!MassDesk(m)
      \/ \E p \in Thirds : Sunday!RemovePost(p)
      \/ \E now \in Times : Sunday!Elapse(now)
      \/ \E w \in Workers :
            \/ \E t \in Ones : Sunday!TemplateRequest(w, t)
            \/ \E p \in Thirds : Sunday!PostRequest(w, p)
            \/ \E m \in Rows : Sunday!AddPost(w, m)
      \/ \E w \in Workers : Sunday!ServeSunday(w)
  BY DEF Sunday!Next, Sunday!AssignmentDesk
<1> QED
  BY <1>1, <1>2, SundayDesk, SundayPassing, SundayAsks

LEMMA SundayStays ==
    ASSUME Sunday!Inv, UNCHANGED <<x1, x2, x3, x4, x5, x6, x7, x8, x9, x10, x11, pc, req, sent>>
    PROVE  Sunday!Inv'
<1>1. PICK M \in SUBSET Workers : M = {}
  OBVIOUS
<1>2. Sunday!FlightsOK' /\ SundayTyped' /\ x5 <= x5'
  BY SundayTypedNow, SundayRows DEF SundayTyped, Sunday!Inv, Sunday!TypeOK, Sunday!FlightsOK
<1>3. \A v \in Workers \ M : pc'[v] = pc[v] /\ req'[v] = req[v]
  OBVIOUS
<1>4. \A p \in Thirds : Sunday!Exists(x3'[p]) =>
          x3'[p].mass \in Rows /\ Sunday!Exists(x2[x3'[p].mass])
  BY SundayPost
<1> QED
  BY <1>1, <1>2, <1>3, <1>4, SundaySteady

------------------------------------------------------------------------------
\* WeeklySchedule

LEMMA WeeklyConstants ==
    /\ FewCalls \in Nat /\ None # Gone
    /\ Starts \subseteq Int /\ Ends \subseteq Int /\ WeekTimes \subseteq Int
    /\ None \notin Int
    /\ \E x \in WeekTimes : \A y \in WeekTimes : x <= y
    /\ None \notin Weekly!Week /\ Gone \notin Weekly!Week
    /\ None \notin Weekly!Slot /\ Gone \notin Weekly!Slot
    /\ None \notin Weekly!Place /\ Gone \notin Weekly!Place
BY MoreServicesAssumption

\* The search goes over the first seven days of a week, and finds the first one that fits.
LEMMA WeeklyDate ==
    ASSUME NEW week \in Weekly!Week, NEW day, Weekly!SlotDate(week, day) # None
    PROVE  Weekly!SlotDate(week, day) \in Int
<1>1. PICK start \in Int : start = week.start
  BY WeeklyConstants DEF Weekly!Week
<1>2. PICK D \in SUBSET Int : D = Weekly!DatesOf(week, day)
  <2>1. ASSUME NEW d \in Weekly!DatesOf(week, day) PROVE d \in Int
    <3>1. d \in {start + 24 * i : i \in 0 .. 6}
      BY <1>1, <2>1 DEF Weekly!DatesOf
    <3>2. PICK i \in 0 .. 6 : d = start + 24 * i
      BY <3>1
    <3> QED
      BY <3>2
  <2> QED
    BY <2>1
<1>3. \A d \in D : \E i \in 0 .. 6 : d = start + 24 * i
  BY <1>1, <1>2 DEF Weekly!DatesOf
<1>4. ASSUME NEW d \in D PROVE \E e \in D : \A x \in D : e <= x
  <2>1. \/ start \in D \/ start + 24 \in D \/ start + 48 \in D \/ start + 72 \in D
        \/ start + 96 \in D \/ start + 120 \in D \/ start + 144 \in D
    <3>1. PICK i \in 0 .. 6 : d = start + 24 * i
      BY <1>3
    <3>2. \/ d = start \/ d = start + 24 \/ d = start + 48 \/ d = start + 72
          \/ d = start + 96 \/ d = start + 120 \/ d = start + 144
      BY <3>1
    <3> QED
      BY <3>2
  <2>2. \A x \in D : \/ x = start \/ x = start + 24 \/ x = start + 48 \/ x = start + 72
                     \/ x = start + 96 \/ x = start + 120 \/ x = start + 144
    BY <1>3
  <2>3. CASE start \in D
    BY <2>2, <2>3
  <2>4. CASE start \notin D /\ start + 24 \in D
    BY <2>2, <2>4
  <2>5. CASE start \notin D /\ start + 24 \notin D /\ start + 48 \in D
    BY <2>2, <2>5
  <2>6. CASE start \notin D /\ start + 24 \notin D /\ start + 48 \notin D /\ start + 72 \in D
    BY <2>2, <2>6
  <2>7. CASE /\ start \notin D /\ start + 24 \notin D /\ start + 48 \notin D /\ start + 72 \notin D
             /\ start + 96 \in D
    BY <2>2, <2>7
  <2>8. CASE /\ start \notin D /\ start + 24 \notin D /\ start + 48 \notin D /\ start + 72 \notin D
             /\ start + 96 \notin D /\ start + 120 \in D
    BY <2>2, <2>8
  <2>9. CASE /\ start \notin D /\ start + 24 \notin D /\ start + 48 \notin D /\ start + 72 \notin D
             /\ start + 96 \notin D /\ start + 120 \notin D /\ start + 144 \in D
    BY <2>2, <2>9
  <2> QED
    BY <2>1, <2>3, <2>4, <2>5, <2>6, <2>7, <2>8, <2>9
<1>5. D # {} /\ Weekly!SlotDate(week, day) = CHOOSE d \in D : \A x \in D : d <= x
  BY <1>2 DEF Weekly!SlotDate
<1>6. \E e \in D : \A x \in D : e <= x
  BY <1>4, <1>5
<1> QED
  BY <1>5, <1>6

\* An hour at which the window of a mass is open is near it.
LEMMA WeeklyNear ==
    ASSUME NEW week \in Weekly!Week, NEW slot \in Weekly!Slot, NEW at \in Int,
           Weekly!Open(week, slot, at)
    PROVE  Weekly!Near(Weekly!MassStart(week, slot), at)
<1>1. PICK date \in Int : date = Weekly!SlotDate(week, slot.day)
  BY WeeklyDate DEF Weekly!Open
<1>2. PICK hour \in Int : hour = Weekly!HourOf(slot.mass_time)
  <2>1. slot.mass_time \in {"MATIN", "MIDI", "SOIR"}
    BY DEF Weekly!Slot, Weekly!MassTime
  <2> QED
    BY <2>1 DEF Weekly!HourOf
<1>3. PICK day \in Int : day = date \div 24
  BY <1>1
<1>4. Weekly!MassStart(week, slot) = day * 24 + hour
  BY <1>1, <1>2, <1>3 DEF Weekly!MassStart
<1>5. PICK start \in Int : start = Weekly!MassStart(week, slot)
  BY <1>4
<1>6. Weekly!Within(start, at)
  BY <1>5 DEF Weekly!Open
<1>7. Weekly!Near(start, at)
  BY <1>6 DEF Weekly!Within, Weekly!Near
<1> QED
  BY <1>5, <1>7

\* The window of a slot depends on the period of its week, and not on its status.
LEMMA WeeklyPeriod ==
    ASSUME NEW week, NEW other, week.start = other.start, week.end = other.end, NEW slot
    PROVE  /\ Weekly!MassStart(week, slot) = Weekly!MassStart(other, slot)
           /\ \A at : Weekly!Open(week, slot, at) <=> Weekly!Open(other, slot, at)
<1>1. \A day : Weekly!DatesOf(week, day) = Weekly!DatesOf(other, day)
  BY DEF Weekly!DatesOf
<1>2. ASSUME NEW day PROVE Weekly!SlotDate(week, day) = Weekly!SlotDate(other, day)
  <2>1. PICK D : D = Weekly!DatesOf(week, day)
    OBVIOUS
  <2>2. D = Weekly!DatesOf(other, day)
    BY <1>1, <2>1
  <2>3. PICK first : first = IF D = {} THEN None ELSE CHOOSE d \in D : \A x \in D : d <= x
    OBVIOUS
  <2>4. Weekly!SlotDate(week, day) = first
    BY <2>1, <2>3 DEF Weekly!SlotDate
  <2>5. Weekly!SlotDate(other, day) = first
    BY <2>2, <2>3 DEF Weekly!SlotDate
  <2> QED
    BY <2>4, <2>5
<1>3. Weekly!MassStart(week, slot) = Weekly!MassStart(other, slot)
  BY <1>2 DEF Weekly!MassStart
<1> QED
  BY <1>2, <1>3 DEF Weekly!Open

LEMMA WeeklyInit == Weekly!Init => Weekly!Inv
<1> SUFFICES ASSUME Weekly!Init PROVE Weekly!Inv
  OBVIOUS
<1>1. x4 \in WeekTimes
  BY WeeklyConstants DEF Weekly!Init
<1>2. Weekly!TypeOK
  BY <1>1, WeeklyConstants
     DEF Weekly!Init, Weekly!InitFlights, Weekly!NoRequest, Weekly!TypeOK, Weekly!FlightsOK
<1>3. Weekly!WeeksAreWhole /\ Weekly!AddedInWindow /\ Weekly!RowsBelong
  BY WeeklyConstants
     DEF Weekly!Init, Weekly!Exists, Weekly!WeeksAreWhole, Weekly!AddedInWindow, Weekly!RowsBelong
<1>4. \A w \in Workers : Weekly!Sound(w)
  BY DEF Weekly!Init, Weekly!InitFlights, Weekly!Sound
<1> QED
  BY <1>2, <1>3, <1>4 DEF Weekly!Inv

LEMMA WeeklyRows ==
    ASSUME Weekly!Inv
    PROVE  /\ x1 \in [Ones -> Weekly!Week \cup {None, Gone}]
           /\ x2 \in [Rows -> Weekly!Slot \cup {None, Gone}]
           /\ x3 \in [Thirds -> Weekly!Place \cup {None, Gone}]
           /\ x4 \in WeekTimes /\ x4 \in Int /\ x5 \in [Ones -> SUBSET Rows]
           /\ x6 \subseteq Ones /\ x7 \subseteq Rows /\ x8 \subseteq Ones
           /\ x9 \subseteq Thirds
           /\ sent \in 0 .. FewCalls
BY WeeklyConstants DEF Weekly!Inv, Weekly!TypeOK, Weekly!FlightsOK

LEMMA WeeklyWeek ==
    ASSUME Weekly!Inv, NEW t \in Ones
    PROVE  /\ Weekly!Exists(x1[t]) <=> x1[t] \in Weekly!Week
           /\ Weekly!Exists(x1[t]) => x1[t].start \in Starts /\ x1[t].end \in Ends
BY WeeklyConstants, WeeklyRows DEF Weekly!Exists, Weekly!Week

LEMMA WeeklySlot ==
    ASSUME Weekly!Inv, NEW s \in Rows
    PROVE  /\ Weekly!Exists(x2[s]) <=> x2[s] \in Weekly!Slot
           /\ Weekly!Exists(x2[s]) =>
                 /\ x2[s].template \in Ones
                 /\ Weekly!Exists(x1[x2[s].template]) /\ s \in x5[x2[s].template]
                 /\ s \notin x7
           /\ Weekly!Exists(x2[s]) <=> x2[s] \notin {None, Gone}
<1>1. /\ Weekly!Exists(x2[s]) <=> x2[s] \in Weekly!Slot
      /\ Weekly!Exists(x2[s]) <=> x2[s] \notin {None, Gone}
  BY WeeklyConstants, WeeklyRows DEF Weekly!Exists
<1>2. Weekly!Exists(x2[s]) => x2[s].template \in Ones
  BY <1>1 DEF Weekly!Slot
<1>3. Weekly!Exists(x2[s]) =>
                 /\ Weekly!Exists(x1[x2[s].template]) /\ s \in x5[x2[s].template]
                 /\ s \notin x7
  BY <1>1 DEF Weekly!Inv, Weekly!RowsBelong
<1> QED
  BY <1>1, <1>2, <1>3

LEMMA WeeklyPlace ==
    ASSUME Weekly!Inv, NEW p \in Thirds
    PROVE  /\ Weekly!Exists(x3[p]) <=> x3[p] \in Weekly!Place
           /\ Weekly!Exists(x3[p]) =>
                 x3[p].slot \in Rows /\ Weekly!Exists(x2[x3[p].slot])
<1>1. Weekly!Exists(x3[p]) <=> x3[p] \in Weekly!Place
  BY WeeklyConstants, WeeklyRows DEF Weekly!Exists
<1>2. Weekly!Exists(x3[p]) => x3[p].slot \in Rows
  BY <1>1 DEF Weekly!Place
<1>3. Weekly!Exists(x3[p]) => Weekly!Exists(x2[x3[p].slot])
  BY DEF Weekly!Inv, Weekly!RowsBelong
<1> QED
  BY <1>1, <1>2, <1>3

\* The slots of a template, before a step and after it.
LEMMA WeeklySlots ==
    ASSUME NEW t, NEW s
    PROVE  /\ s \in Weekly!SlotsOf(t) <=>
                 s \in Rows /\ Weekly!Exists(x2[s]) /\ x2[s].template = t
           /\ s \in Weekly!SlotsOf(t)' <=>
                 s \in Rows /\ Weekly!Exists(x2'[s]) /\ x2'[s].template = t
BY DEF Weekly!SlotsOf, Weekly!Exists

LEMMA WeeklyNotStruck ==
    ASSUME Weekly!Inv, NEW t
    PROVE  Weekly!SlotsOf(t) \ x7 = Weekly!SlotsOf(t)
BY WeeklySlot, WeeklySlots

\* A request that moves.
LEMMA WeeklyMove ==
    ASSUME Weekly!Inv, NEW w \in Workers, NEW r, NEW place,
           Weekly!At(w, r, place), place = "idle" <=> r = Weekly!NoRequest,
           sent' \in 0 .. FewCalls
    PROVE  /\ Weekly!FlightsOK' /\ pc'[w] = place /\ req'[w] = r
           /\ \A v \in Workers \ {w} : pc'[v] = pc[v] /\ req'[v] = req[v]
BY DEF Weekly!Inv, Weekly!TypeOK, Weekly!FlightsOK, Weekly!At

LEMMA WeeklyEnd ==
    ASSUME Weekly!Inv, NEW w \in Workers, Weekly!Return(w)
    PROVE  /\ Weekly!FlightsOK' /\ pc'[w] = "idle" /\ Weekly!Sound(w)' /\ ~Weekly!Creating(w)'
           /\ \A v \in Workers \ {w} : pc'[v] = pc[v] /\ req'[v] = req[v]
<1>1. Weekly!At(w, Weekly!NoRequest, "idle") /\ sent' \in 0 .. FewCalls
  BY DEF Weekly!Return, Weekly!Continue, Weekly!Inv, Weekly!TypeOK, Weekly!FlightsOK
<1>2. pc'[w] = "idle"
  BY <1>1, WeeklyMove
<1> QED
  BY <1>1, <1>2, WeeklyMove DEF Weekly!Sound, Weekly!Creating

\* What a request that creates a template knows.
LEMMA WeeklyCreates ==
    ASSUME Weekly!Inv, NEW w \in Workers, Weekly!Creating(w), NEW r, r = req[w]
    PROVE  /\ r.template \in Ones /\ x1[r.template] # None
           /\ r.todo \subseteq x5[r.template] /\ r.todo \subseteq Rows
           /\ \A s \in r.todo : x2[s] = None
           /\ Weekly!Exists(x1[r.template]) =>
                 Weekly!SlotsOf(r.template) = x5[r.template] \ (x7 \cup r.todo)
           /\ \A v \in Workers \ {w} : Weekly!Creating(v) => req[v].template # r.template
           /\ pc[w] \in {"creating", "filling"}
           /\ r = [op |-> "create", template |-> r.template, todo |-> r.todo, last |-> r.last]
           /\ pc[w] = "filling" => r.last \in Rows
<1>1. Weekly!Sound(w) /\ pc[w] \in {"creating", "filling"}
  <2>1. Weekly!Sound(w)
    BY DEF Weekly!Inv
  <2>2. pc[w] \in {"creating", "filling"}
    BY DEF Weekly!Creating
  <2> QED
    BY <2>1, <2>2
<1>2. /\ r.template \in Ones /\ x1[r.template] # None
      /\ r.todo \subseteq x5[r.template]
      /\ \A s \in r.todo : x2[s] = None
      /\ Weekly!Exists(x1[r.template]) =>
                 Weekly!SlotsOf(r.template) = x5[r.template] \ (x7 \cup r.todo)
      /\ \A v \in Workers \ {w} : Weekly!Creating(v) => req[v].template # r.template
      /\ r = [op |-> "create", template |-> r.template, todo |-> r.todo, last |-> r.last]
      /\ pc[w] = "filling" => r.last \in Rows
  BY <1>1 DEF Weekly!Sound
<1>3. r.todo \subseteq Rows
  <2>1. x5[r.template] \in SUBSET Rows
    BY <1>2, WeeklyRows
  <2> QED
    BY <1>2, <2>1
<1> QED
  BY <1>1, <1>2, <1>3

\* What one that adds a servant knows.
LEMMA WeeklyAdds ==
    ASSUME Weekly!Inv, NEW w \in Workers, pc[w] = "adding", NEW r, r = req[w]
    PROVE  /\ r = [op |-> "add", slot |-> r.slot, since |-> r.since]
           /\ r.slot \in Rows /\ x2[r.slot] # None
           /\ r.since \in WeekTimes /\ r.since \in Int /\ r.since <= x4
           /\ Weekly!Exists(x2[r.slot]) =>
                 \/ x2[r.slot].template \in x8
                 \/ Weekly!Open(x1[x2[r.slot].template], x2[r.slot], r.since)
<1>1. Weekly!Sound(w)
  BY DEF Weekly!Inv
<1>2. /\ r = [op |-> "add", slot |-> r.slot, since |-> r.since]
      /\ r.slot \in Rows /\ x2[r.slot] # None
      /\ r.since \in WeekTimes /\ r.since <= x4
      /\ Weekly!Exists(x2[r.slot]) =>
                 \/ x2[r.slot].template \in x8
                 \/ Weekly!Open(x1[x2[r.slot].template], x2[r.slot], r.since)
  <2>1. ~Weekly!Creating(w) /\ pc[w] # "idle"
    BY DEF Weekly!Creating
  <2> QED
    BY <1>1, <2>1 DEF Weekly!Sound
<1> QED
  BY <1>2, WeeklyConstants

\* A slot stays, and so does its window, or it is noted that its week has moved.
WeeklySame(s) == /\ x2'[s] = x2[s]
                 /\ \/ x2[s].template \in x8'
                    \/ /\ x1'[x2[s].template].start = x1[x2[s].template].start
                       /\ x1'[x2[s].template].end = x1[x2[s].template].end

LEMMA WeeklyWindow ==
    ASSUME NEW s, WeeklySame(s), x8 \subseteq x8'
    PROVE  \/ x2'[s].template \in x8'
           \/ /\ x2[s].template \notin x8
              /\ Weekly!MassStart(x1'[x2'[s].template], x2'[s]) =
                    Weekly!MassStart(x1[x2[s].template], x2[s])
              /\ \A at : Weekly!Open(x1'[x2'[s].template], x2'[s], at) <=>
                            Weekly!Open(x1[x2[s].template], x2[s], at)
<1>1. PICK slot : slot = x2[s] /\ x2'[s] = slot
  BY DEF WeeklySame
<1>2. PICK week, new : week = x1[slot.template] /\ new = x1'[slot.template]
  OBVIOUS
<1>3. CASE slot.template \in x8'
  BY <1>1, <1>3
<1>4. CASE slot.template \notin x8'
  <2>1. new.start = week.start /\ new.end = week.end
    BY <1>1, <1>2, <1>4 DEF WeeklySame
  <2>2. /\ Weekly!MassStart(new, slot) = Weekly!MassStart(week, slot)
        /\ \A at : Weekly!Open(new, slot, at) <=> Weekly!Open(week, slot, at)
    BY <2>1, WeeklyPeriod
  <2> QED
    BY <1>1, <1>2, <1>4, <2>2
<1> QED
  BY <1>3, <1>4

\* A request that waits.
LEMMA WeeklyOther ==
    ASSUME Weekly!Inv, NEW v \in Workers, pc'[v] = pc[v], req'[v] = req[v],
           x4 <= x4', x4' \in WeekTimes, x7 \subseteq x7', x8 \subseteq x8',
           \A t \in Ones : x1[t] # None =>
               x1'[t] # None /\ x5'[t] = x5[t] /\ (Weekly!Exists(x1'[t]) => Weekly!Exists(x1[t])),
           \A t \in Ones : Weekly!Creating(v) /\ req[v].template = t /\ Weekly!Exists(x1'[t]) =>
               Weekly!SlotsOf(t)' = Weekly!SlotsOf(t) \ x7',
           \A s \in Rows : Weekly!Creating(v) /\ s \in req[v].todo => x2'[s] = None,
           \A u \in Workers \ {v} : Weekly!Creating(v) /\ Weekly!Creating(u)' =>
               req'[u].template # req[v].template,
           \A s \in Rows : x2[s] # None => x2'[s] # None,
           \A s \in Rows : x2[s] # None /\ Weekly!Exists(x2'[s]) =>
               Weekly!Exists(x2[s]) /\ WeeklySame(s)
    PROVE  Weekly!Sound(v)'
<1>1. CASE pc[v] = "idle"
  BY <1>1 DEF Weekly!Sound
<1>2. CASE Weekly!Creating(v)
  <2>1. PICK r : r = req[v]
    OBVIOUS
  <2>2. PICK t \in Ones : t = r.template
    BY <1>2, <2>1, WeeklyCreates
  <2>3. /\ x1[t] # None /\ r.todo \subseteq x5[t] /\ r.todo \subseteq Rows
        /\ Weekly!Exists(x1[t]) => Weekly!SlotsOf(t) = x5[t] \ (x7 \cup r.todo)
        /\ pc[v] \in {"creating", "filling"}
        /\ r = [op |-> "create", template |-> t, todo |-> r.todo, last |-> r.last]
        /\ pc[v] = "filling" => r.last \in Rows
    BY <1>2, <2>1, <2>2, WeeklyCreates
  <2>4. x1'[t] # None /\ x5'[t] = x5[t] /\ (Weekly!Exists(x1'[t]) => Weekly!Exists(x1[t]))
    BY <2>3
  <2>5. Weekly!Exists(x1'[t]) => Weekly!SlotsOf(t)' = x5'[t] \ (x7' \cup r.todo)
    <3> SUFFICES ASSUME Weekly!Exists(x1'[t])
                 PROVE  Weekly!SlotsOf(t)' = x5'[t] \ (x7' \cup r.todo)
      OBVIOUS
    <3>1. Weekly!SlotsOf(t)' = Weekly!SlotsOf(t) \ x7'
      BY <1>2, <2>1, <2>2
    <3>2. Weekly!SlotsOf(t) = x5'[t] \ (x7 \cup r.todo)
      BY <2>3, <2>4
    <3> QED
      BY <3>1, <3>2
  <2>6. \A s \in r.todo : x2'[s] = None
    BY <1>2, <2>1, <2>3
  <2>7. \A u \in Workers \ {v} : Weekly!Creating(u)' => req'[u].template # t
    BY <1>2, <2>1, <2>2
  <2>8. pc'[v] = pc[v] /\ req'[v] = r /\ Weekly!Creating(v)'
    BY <2>1, <2>3 DEF Weekly!Creating
  <2> QED
    BY <2>2, <2>3, <2>4, <2>5, <2>6, <2>7, <2>8 DEF Weekly!Sound
<1>3. CASE pc[v] = "adding"
  <2>1. PICK r : r = req[v]
    OBVIOUS
  <2>2. PICK s \in Rows : s = r.slot
    BY <1>3, <2>1, WeeklyAdds
  <2>3. /\ r = [op |-> "add", slot |-> s, since |-> r.since] /\ x2[s] # None
        /\ r.since \in WeekTimes /\ r.since \in Int /\ r.since <= x4
        /\ Weekly!Exists(x2[s]) =>
                 \/ x2[s].template \in x8
                 \/ Weekly!Open(x1[x2[s].template], x2[s], r.since)
    BY <1>3, <2>1, <2>2, WeeklyAdds
  <2>4. r.since <= x4'
    BY <2>3, WeeklyRows, WeeklyConstants
  <2>5. x2'[s] # None
    BY <2>3
  <2>6. Weekly!Exists(x2'[s]) =>
                 \/ x2'[s].template \in x8'
                 \/ Weekly!Open(x1'[x2'[s].template], x2'[s], r.since)
    <3> SUFFICES ASSUME Weekly!Exists(x2'[s])
                 PROVE  \/ x2'[s].template \in x8'
                        \/ Weekly!Open(x1'[x2'[s].template], x2'[s], r.since)
      OBVIOUS
    <3>1. Weekly!Exists(x2[s]) /\ WeeklySame(s)
      BY <2>3
    <3> QED
      BY <2>3, <3>1, WeeklyWindow
  <2>7. pc'[v] = "adding" /\ req'[v] = r
    BY <1>3, <2>1
  <2> QED
    BY <2>2, <2>3, <2>4, <2>5, <2>6, <2>7 DEF Weekly!Sound
<1>4. pc[v] = "idle" \/ Weekly!Creating(v) \/ pc[v] = "adding"
  <2>1. Weekly!Sound(v)
    BY DEF Weekly!Inv
  <2> QED
    BY <2>1 DEF Weekly!Sound
<1> QED
  BY <1>1, <1>2, <1>3, <1>4

\* The rows as they are after a step, so far as the next lemmas do not say it.
WeeklyTyped ==
    /\ x1 \in [Ones -> Weekly!Week \cup {None, Gone}]
    /\ x2 \in [Rows -> Weekly!Slot \cup {None, Gone}]
    /\ x3 \in [Thirds -> Weekly!Place \cup {None, Gone}]
    /\ x4 \in WeekTimes /\ x5 \in [Ones -> SUBSET Rows]
    /\ x6 \subseteq Ones /\ x7 \subseteq Rows /\ x8 \subseteq Ones /\ x9 \subseteq Thirds

LEMMA WeeklyTypes == WeeklyTyped' /\ Weekly!FlightsOK' => Weekly!TypeOK'
BY DEF WeeklyTyped, Weekly!TypeOK

LEMMA WeeklyTypedNow == Weekly!Inv => WeeklyTyped
BY WeeklyRows DEF WeeklyTyped

LEMMA WeeklyAddedThen ==
    ASSUME \A p \in Thirds : Weekly!Exists(x3'[p]) =>
               \/ p \in x9' \/ x2'[x3'[p].slot].template \in x8'
               \/ Weekly!Near(Weekly!MassStart(x1'[x2'[x3'[p].slot].template], x2'[x3'[p].slot]),
                              x3'[p].added_at)
    PROVE  Weekly!AddedInWindow'
BY DEF Weekly!AddedInWindow, Weekly!Exists, Weekly!WeekOf

\* Of a place: it stays as it was, or is taken within its window.
LEMMA WeeklyWindows ==
    ASSUME Weekly!Inv, WeeklyTyped', x8 \subseteq x8', x9 \subseteq x9',
           \A p \in Thirds : Weekly!Exists(x3'[p]) =>
               \/ p \in x9' \/ x2'[x3'[p].slot].template \in x8'
               \/ x3'[p] = x3[p] /\ WeeklySame(x3[p].slot)
               \/ /\ Weekly!Open(x1'[x2'[x3'[p].slot].template], x2'[x3'[p].slot], x3'[p].added_at)
                  /\ x1'[x2'[x3'[p].slot].template] \in Weekly!Week
                  /\ x2'[x3'[p].slot] \in Weekly!Slot
    PROVE  Weekly!AddedInWindow'
<1> SUFFICES ASSUME NEW p \in Thirds, Weekly!Exists(x3'[p])
             PROVE  \/ p \in x9' \/ x2'[x3'[p].slot].template \in x8'
                    \/ Weekly!Near(Weekly!MassStart(x1'[x2'[x3'[p].slot].template], x2'[x3'[p].slot]),
                                   x3'[p].added_at)
  BY WeeklyAddedThen
<1>1. ASSUME x3'[p] = x3[p], WeeklySame(x3[p].slot)
      PROVE  \/ p \in x9' \/ x2'[x3'[p].slot].template \in x8'
             \/ Weekly!Near(Weekly!MassStart(x1'[x2'[x3'[p].slot].template], x2'[x3'[p].slot]),
                            x3'[p].added_at)
  <2>1. PICK s : s = x3[p].slot
    OBVIOUS
  <2>2. /\ Weekly!AddedInWindow /\ Weekly!Exists(x3[p])
    BY <1>1 DEF Weekly!Inv
  <2>3. \/ p \in x9 \/ x2[s].template \in x8
        \/ Weekly!Near(Weekly!MassStart(x1[x2[s].template], x2[s]), x3[p].added_at)
    BY <2>1, <2>2 DEF Weekly!AddedInWindow, Weekly!WeekOf
  <2>4. \/ x2'[s].template \in x8'
        \/ /\ x2[s].template \notin x8
           /\ Weekly!MassStart(x1'[x2'[s].template], x2'[s]) =
                    Weekly!MassStart(x1[x2[s].template], x2[s])
    BY <1>1, <2>1, WeeklyWindow
  <2> QED
    BY <1>1, <2>1, <2>3, <2>4
<1>2. ASSUME Weekly!Open(x1'[x2'[x3'[p].slot].template], x2'[x3'[p].slot], x3'[p].added_at),
             x1'[x2'[x3'[p].slot].template] \in Weekly!Week,
             x2'[x3'[p].slot] \in Weekly!Slot
      PROVE  Weekly!Near(Weekly!MassStart(x1'[x2'[x3'[p].slot].template], x2'[x3'[p].slot]),
                         x3'[p].added_at)
  <2>1. PICK row : row = x3'[p]
    OBVIOUS
  <2>2. row \in Weekly!Place
    BY <2>1 DEF WeeklyTyped, Weekly!Exists
  <2>3. PICK at \in Int : at = row.added_at
    BY <2>2, WeeklyConstants DEF Weekly!Place
  <2>4. PICK slot \in Weekly!Slot : slot = x2'[row.slot]
    BY <1>2, <2>1
  <2>5. PICK week \in Weekly!Week : week = x1'[slot.template]
    BY <1>2, <2>1, <2>4
  <2>6. Weekly!Open(week, slot, at)
    BY <1>2, <2>1, <2>3, <2>4, <2>5
  <2>7. Weekly!Near(Weekly!MassStart(week, slot), at)
    BY <2>6, WeeklyNear
  <2> QED
    BY <2>1, <2>3, <2>4, <2>5, <2>7
<1> QED
  BY <1>1, <1>2

\* A step that leaves the templates and the slots as they are.
LEMMA WeeklySteady ==
    ASSUME Weekly!Inv, NEW M \in SUBSET Workers, Weekly!FlightsOK', WeeklyTyped',
           \A v \in Workers \ M : pc'[v] = pc[v] /\ req'[v] = req[v],
           \A w \in M : Weekly!Sound(w)',
           x1' = x1, x2' = x2, x5' = x5, x7' = x7, x8' = x8, x4 <= x4', x6 \subseteq x6',
           x9 \subseteq x9',
           \A w \in M : Weekly!Creating(w)' =>
               Weekly!Creating(w) /\ req'[w].template = req[w].template,
           \A w \in M : Weekly!Creating(w) =>
               Weekly!Creating(w)' \/ req[w].todo = {} \/ req[w].template \in x6',
           \A p \in Thirds : Weekly!Exists(x3'[p]) =>
               \/ x3'[p] = x3[p]
               \/ /\ x3'[p].slot \in Rows /\ Weekly!Exists(x2[x3'[p].slot])
                  /\ \/ p \in x9' \/ x2[x3'[p].slot].template \in x8
                     \/ Weekly!Open(x1[x2[x3'[p].slot].template], x2[x3'[p].slot], x3'[p].added_at)
    PROVE  Weekly!Inv'
<1>1. Weekly!TypeOK'
  BY WeeklyTypes
<1>2. \A t : Weekly!SlotsOf(t)' = Weekly!SlotsOf(t)
  BY DEF Weekly!SlotsOf, Weekly!Exists
<1>3. Weekly!WeeksAreWhole'
  <2> SUFFICES ASSUME NEW t \in Ones, Weekly!Exists(x1[t])
               PROVE  \/ x5[t] \ x7 = Weekly!SlotsOf(t) \/ t \in x6'
                      \/ \E w \in Workers : Weekly!Creating(w)' /\ req'[w].template = t
    BY <1>2 DEF Weekly!WeeksAreWhole, Weekly!Exists, Weekly!Creating
  <2>1. \/ x5[t] \ x7 = Weekly!SlotsOf(t) \/ t \in x6
        \/ \E w \in Workers : Weekly!Creating(w) /\ req[w].template = t
    BY DEF Weekly!Inv, Weekly!WeeksAreWhole, Weekly!Creating
  <2>2. ASSUME NEW w \in Workers, Weekly!Creating(w), req[w].template = t
        PROVE  \/ x5[t] \ x7 = Weekly!SlotsOf(t) \/ t \in x6'
               \/ \E v \in Workers : Weekly!Creating(v)' /\ req'[v].template = t
    <3>1. CASE w \notin M
      BY <2>2, <3>1 DEF Weekly!Creating
    <3>2. CASE Weekly!Creating(w)' /\ w \in M
      BY <2>2, <3>2
    <3>3. CASE req[w].todo = {}
      <4>1. Weekly!SlotsOf(t) = x5[t] \ (x7 \cup {})
        BY <2>2, <3>3, WeeklyCreates
      <4> QED
        BY <4>1
    <3> QED
      BY <2>2, <3>1, <3>2, <3>3
  <2> QED
    BY <2>1, <2>2
<1>4. \A p \in Thirds : Weekly!Exists(x3'[p]) =>
          x3'[p].slot \in Rows /\ Weekly!Exists(x2[x3'[p].slot])
  BY WeeklyPlace
<1>5. \A s \in Rows : WeeklySame(s)
  BY DEF WeeklySame
<1>6. Weekly!AddedInWindow'
  <2> SUFFICES ASSUME NEW p \in Thirds, Weekly!Exists(x3'[p])
               PROVE  \/ p \in x9' \/ x2'[x3'[p].slot].template \in x8'
                      \/ x3'[p] = x3[p] /\ WeeklySame(x3[p].slot)
                      \/ /\ Weekly!Open(x1'[x2'[x3'[p].slot].template], x2'[x3'[p].slot],
                                        x3'[p].added_at)
                         /\ x1'[x2'[x3'[p].slot].template] \in Weekly!Week
                         /\ x2'[x3'[p].slot] \in Weekly!Slot
    BY WeeklyWindows
  <2>1. PICK s \in Rows : s = x3'[p].slot /\ Weekly!Exists(x2[s])
    BY <1>4
  <2>2. PICK t \in Ones : t = x2[s].template /\ Weekly!Exists(x1[t])
    BY <2>1, WeeklySlot
  <2>3. x1[x2[s].template] \in Weekly!Week /\ x2[s] \in Weekly!Slot
    BY <2>1, <2>2, WeeklySlot, WeeklyWeek
  <2> QED
    BY <1>5, <2>1, <2>3
<1>7. Weekly!RowsBelong'
  <2>1. \A p \in Thirds : Weekly!Exists(x3'[p]) => Weekly!Exists(x2'[x3'[p].slot])
    BY <1>4
  <2> QED
    BY <2>1 DEF Weekly!Inv, Weekly!RowsBelong, Weekly!Exists
<1>8. ASSUME NEW v \in Workers PROVE Weekly!Sound(v)'
  <2>1. CASE v \in M
    BY <2>1
  <2>2. CASE v \notin M
    <3>1. \A t \in Ones : Weekly!Creating(v) /\ req[v].template = t /\ Weekly!Exists(x1'[t]) =>
               Weekly!SlotsOf(t)' = Weekly!SlotsOf(t) \ x7'
      BY <1>2, WeeklyNotStruck
    <3>2. \A s \in Rows : Weekly!Creating(v) /\ s \in req[v].todo => x2'[s] = None
      BY WeeklyCreates
    <3>3. ASSUME NEW u \in Workers \ {v}, Weekly!Creating(v), Weekly!Creating(u)'
          PROVE  req'[u].template # req[v].template
      <4>1. Weekly!Creating(u) /\ req'[u].template = req[u].template
        BY <3>3 DEF Weekly!Creating
      <4> QED
        BY <3>3, <4>1, WeeklyCreates
    <3>4. \A s \in Rows : x2[s] # None /\ Weekly!Exists(x2'[s]) =>
               Weekly!Exists(x2[s]) /\ WeeklySame(s)
      BY <1>5
    <3>5. pc'[v] = pc[v] /\ req'[v] = req[v] /\ x4' \in WeekTimes
      BY <2>2 DEF WeeklyTyped
    <3> QED
      BY <3>1, <3>2, <3>3, <3>4, <3>5, WeeklyOther
  <2> QED
    BY <2>1, <2>2
<1> QED
  BY <1>1, <1>3, <1>6, <1>7, <1>8 DEF Weekly!Inv

\* A step that changes a week, and notes it when the period is another one.
LEMMA WeeklyMoved ==
    ASSUME Weekly!Inv, WeeklyTyped', pc' = pc, req' = req, sent' = sent,
           x2' = x2, x3' = x3, x4' = x4, x5' = x5, x6' = x6, x7' = x7, x9' = x9,
           x8 \subseteq x8',
           \A t \in Ones : /\ Weekly!Exists(x1'[t]) <=> Weekly!Exists(x1[t])
                           /\ x1'[t] = None <=> x1[t] = None,
           \A s \in Rows : Weekly!Exists(x2[s]) => WeeklySame(s)
    PROVE  Weekly!Inv'
<1>1. Weekly!TypeOK'
  BY WeeklyTypes DEF Weekly!Inv, Weekly!TypeOK, Weekly!FlightsOK
<1>2. \A t : Weekly!SlotsOf(t)' = Weekly!SlotsOf(t)
  BY DEF Weekly!SlotsOf, Weekly!Exists
<1>3. Weekly!WeeksAreWhole'
  BY <1>2 DEF Weekly!Inv, Weekly!WeeksAreWhole, Weekly!Exists
<1>4. Weekly!AddedInWindow'
  <2> SUFFICES ASSUME NEW p \in Thirds, Weekly!Exists(x3'[p])
               PROVE  x3'[p] = x3[p] /\ WeeklySame(x3[p].slot)
    BY WeeklyWindows
  <2> QED
    BY WeeklyPlace
<1>5. Weekly!RowsBelong'
  <2>1. ASSUME NEW s \in Rows
        PROVE  /\ Weekly!Exists(x2'[s]) => /\ Weekly!Exists(x1'[x2'[s].template])
                                           /\ s \in x5'[x2'[s].template]
               /\ s \in x7' => x2'[s] = Gone
    <3>1. s \in x7 => x2[s] = Gone
      BY DEF Weekly!Inv, Weekly!RowsBelong
    <3> QED
      BY <3>1, WeeklySlot
  <2>2. \A p \in Thirds : Weekly!Exists(x3'[p]) => Weekly!Exists(x2'[x3'[p].slot])
    BY WeeklyPlace
  <2>3. /\ \A t, o \in Ones : t # o => x5'[t] \cap x5'[o] = {}
        /\ \A t \in Ones : x1'[t] = None => x5'[t] = {}
    BY DEF Weekly!Inv, Weekly!RowsBelong
  <2> QED
    BY <2>1, <2>2, <2>3 DEF Weekly!RowsBelong, Weekly!Exists
<1>6. ASSUME NEW v \in Workers PROVE Weekly!Sound(v)'
  <2>1. \A t \in Ones : Weekly!Creating(v) /\ req[v].template = t /\ Weekly!Exists(x1'[t]) =>
             Weekly!SlotsOf(t)' = Weekly!SlotsOf(t) \ x7'
    BY <1>2, WeeklyNotStruck
  <2>2. \A s \in Rows : Weekly!Creating(v) /\ s \in req[v].todo => x2'[s] = None
    BY WeeklyCreates
  <2>3. ASSUME NEW u \in Workers \ {v}, Weekly!Creating(v), Weekly!Creating(u)'
        PROVE  req'[u].template # req[v].template
    <3>1. Weekly!Creating(u)
      BY <2>3 DEF Weekly!Creating
    <3> QED
      BY <2>3, <3>1, WeeklyCreates
  <2>4. \A t \in Ones : x1[t] # None =>
               x1'[t] # None /\ x5'[t] = x5[t] /\ (Weekly!Exists(x1'[t]) => Weekly!Exists(x1[t]))
    OBVIOUS
  <2>5. x4 <= x4' /\ x4' \in WeekTimes
    BY WeeklyRows
  <2>6. \A s \in Rows : x2[s] # None /\ Weekly!Exists(x2'[s]) =>
             Weekly!Exists(x2[s]) /\ WeeklySame(s)
    OBVIOUS
  <2> QED
    BY <2>1, <2>2, <2>3, <2>4, <2>5, <2>6, WeeklyOther
<1> QED
  BY <1>1, <1>3, <1>4, <1>5, <1>6 DEF Weekly!Inv

\* A step that deletes the slots of D, and with them their places and the templates that lose all.
LEMMA WeeklyStruck ==
    ASSUME Weekly!Inv, WeeklyTyped', pc' = pc, req' = req, sent' = sent, NEW D \in SUBSET Rows,
           x4' = x4, x5' = x5, x6' = x6, x8' = x8, x9' = x9, x7' = x7 \cup D,
           \A s \in D : Weekly!Exists(x2[s]),
           \A s \in Rows : x2'[s] = IF s \in D THEN Gone ELSE x2[s],
           \A p \in Thirds :
               x3'[p] = IF Weekly!Exists(x3[p]) /\ x3[p].slot \in D THEN Gone ELSE x3[p],
           \A t \in Ones : \/ x1'[t] = x1[t]
                           \/ /\ x1'[t] = Gone /\ Weekly!Exists(x1[t])
                              /\ Weekly!SlotsOf(t) \subseteq D
    PROVE  Weekly!Inv'
<1>1. Weekly!TypeOK'
  BY WeeklyTypes DEF Weekly!Inv, Weekly!TypeOK, Weekly!FlightsOK
<1>2. ~Weekly!Exists(Gone) /\ Gone # None
  BY WeeklyConstants DEF Weekly!Exists
<1>3. /\ \A s \in Rows : Weekly!Exists(x2'[s]) => s \notin D /\ x2'[s] = x2[s]
      /\ \A p \in Thirds : Weekly!Exists(x3'[p]) => x3'[p] = x3[p] /\ x3[p].slot \notin D
      /\ \A t \in Ones : Weekly!Exists(x1'[t]) => x1'[t] = x1[t]
  BY <1>2
<1>4. \A t \in Ones : Weekly!SlotsOf(t)' = Weekly!SlotsOf(t) \ x7'
  <2> SUFFICES ASSUME NEW t \in Ones, NEW s \in Rows
               PROVE  s \in Weekly!SlotsOf(t)' <=> s \in Weekly!SlotsOf(t) /\ s \notin x7'
    BY WeeklySlots
  <2>1. s \in Weekly!SlotsOf(t) => s \notin x7
    BY WeeklySlots, WeeklySlot
  <2> QED
    BY <1>2, <2>1, WeeklySlots
<1>5. Weekly!WeeksAreWhole'
  <2> SUFFICES ASSUME NEW t \in Ones, Weekly!Exists(x1[t])
               PROVE  \/ x5[t] \ x7' = Weekly!SlotsOf(t)' \/ t \in x6
                      \/ \E w \in Workers : pc[w] \in {"creating", "filling"}
                                            /\ req[w].template = t
    BY <1>3 DEF Weekly!WeeksAreWhole, Weekly!Exists
  <2>1. \/ x5[t] \ x7 = Weekly!SlotsOf(t) \/ t \in x6
        \/ \E w \in Workers : pc[w] \in {"creating", "filling"}
                              /\ req[w].template = t
    BY DEF Weekly!Inv, Weekly!WeeksAreWhole
  <2> QED
    BY <1>4, <2>1
<1>6. \A p \in Thirds : Weekly!Exists(x3'[p]) =>
          /\ x3[p].slot \in Rows \ D /\ Weekly!Exists(x2[x3[p].slot])
          /\ x2'[x3[p].slot] = x2[x3[p].slot]
  BY <1>3, WeeklyPlace
<1>7. \A s \in Rows \ D : Weekly!Exists(x2[s]) =>
          Weekly!Exists(x1'[x2[s].template]) /\ x1'[x2[s].template] = x1[x2[s].template]
  <2> SUFFICES ASSUME NEW s \in Rows \ D, Weekly!Exists(x2[s])
               PROVE  x1'[x2[s].template] = x1[x2[s].template]
    BY WeeklySlot
  <2>1. PICK t \in Ones : t = x2[s].template /\ Weekly!Exists(x1[t])
    BY WeeklySlot
  <2>2. s \in Weekly!SlotsOf(t)
    BY <2>1, WeeklySlots
  <2> QED
    BY <2>1, <2>2
<1>8. \A s \in Rows \ D : Weekly!Exists(x2[s]) => WeeklySame(s)
  BY <1>7 DEF WeeklySame
<1>9. Weekly!AddedInWindow'
  <2> SUFFICES ASSUME NEW p \in Thirds, Weekly!Exists(x3'[p])
               PROVE  x3'[p] = x3[p] /\ WeeklySame(x3[p].slot)
    BY WeeklyWindows
  <2> QED
    BY <1>3, <1>6, <1>8
<1>10. Weekly!RowsBelong'
  <2>1. ASSUME NEW s \in Rows
        PROVE  /\ Weekly!Exists(x2'[s]) => /\ Weekly!Exists(x1'[x2'[s].template])
                                           /\ s \in x5'[x2'[s].template]
               /\ s \in x7' => x2'[s] = Gone
    <3>1. s \in x7 => x2[s] = Gone
      BY DEF Weekly!Inv, Weekly!RowsBelong
    <3> QED
      BY <1>3, <1>7, <3>1, WeeklySlot
  <2>2. ASSUME NEW p \in Thirds, Weekly!Exists(x3'[p]) PROVE Weekly!Exists(x2'[x3'[p].slot])
    BY <1>3, <1>6, <2>2
  <2>3. /\ \A t, o \in Ones : t # o => x5'[t] \cap x5'[o] = {}
        /\ \A t \in Ones : x1'[t] = None => x5'[t] = {}
    BY <1>2 DEF Weekly!Inv, Weekly!RowsBelong
  <2> QED
    BY <2>1, <2>2, <2>3 DEF Weekly!RowsBelong, Weekly!Exists
<1>11. ASSUME NEW v \in Workers PROVE Weekly!Sound(v)'
  <2>1. \A t \in Ones : x1[t] # None =>
               x1'[t] # None /\ x5'[t] = x5[t] /\ (Weekly!Exists(x1'[t]) => Weekly!Exists(x1[t]))
    BY <1>2
  <2>2. \A s \in Rows : Weekly!Creating(v) /\ s \in req[v].todo => x2'[s] = None
    <3> SUFFICES ASSUME NEW s \in Rows, Weekly!Creating(v), s \in req[v].todo PROVE x2'[s] = None
      OBVIOUS
    <3>1. x2[s] = None
      BY WeeklyCreates
    <3> QED
      BY <3>1, WeeklySlot
  <2>3. ASSUME NEW u \in Workers \ {v}, Weekly!Creating(v), Weekly!Creating(u)'
        PROVE  req'[u].template # req[v].template
    <3>1. Weekly!Creating(u)
      BY <2>3 DEF Weekly!Creating
    <3> QED
      BY <2>3, <3>1, WeeklyCreates
  <2>4. /\ \A s \in Rows : x2[s] # None => x2'[s] # None
        /\ \A s \in Rows : x2[s] # None /\ Weekly!Exists(x2'[s]) =>
               Weekly!Exists(x2[s]) /\ WeeklySame(s)
    BY <1>2, <1>3, <1>8
  <2>5. x4 <= x4' /\ x4' \in WeekTimes
    BY WeeklyRows
  <2> QED
    BY <1>4, <2>1, <2>2, <2>3, <2>4, <2>5, WeeklyOther
<1> QED
  BY <1>1, <1>5, <1>9, <1>10, <1>11 DEF Weekly!Inv

\* A step of the request w that inserts a slot, which its template still lacks.
LEMMA WeeklyInserted ==
    ASSUME Weekly!Inv, WeeklyTyped', Weekly!FlightsOK', NEW w \in Workers, NEW t \in Ones,
           Weekly!Creating(w), t = req[w].template, Weekly!Sound(w)', Weekly!Exists(x1[t]),
           NEW d \in Rows, d \in req[w].todo, NEW row,
           Weekly!Exists(row), row.template = t,
           x1' = x1, x3' = x3, x4' = x4, x5' = x5, x6' = x6, x7' = x7, x8' = x8, x9' = x9,
           \A s \in Rows : x2'[s] = IF s = d THEN row ELSE x2[s],
           \A v \in Workers \ {w} : pc'[v] = pc[v] /\ req'[v] = req[v],
           Weekly!Creating(w)', req'[w].template = t
    PROVE  Weekly!Inv'
<1>1. Weekly!TypeOK'
  BY WeeklyTypes
<1>2. PICK todo : todo = req[w].todo
  OBVIOUS
<1>3. /\ todo \subseteq x5[t] /\ \A s \in todo : x2[s] = None
      /\ \A v \in Workers \ {w} : Weekly!Creating(v) => req[v].template # t
  BY <1>2, WeeklyCreates
<1>4. d \in x5[t] /\ x2[d] = None /\ ~Weekly!Exists(x2[d]) /\ d \notin x7
  <2>1. d \in x5[t] /\ x2[d] = None
    BY <1>2, <1>3
  <2>2. d \in x7 => x2[d] = Gone
    BY DEF Weekly!Inv, Weekly!RowsBelong
  <2> QED
    BY <2>1, <2>2, WeeklySlot, WeeklyConstants
<1>5. \A o \in Ones : o # t => Weekly!SlotsOf(o)' = Weekly!SlotsOf(o)
  <2> SUFFICES ASSUME NEW o \in Ones, o # t, NEW s \in Rows
               PROVE  s \in Weekly!SlotsOf(o)' <=> s \in Weekly!SlotsOf(o)
    BY WeeklySlots
  <2> QED
    BY <1>4, WeeklySlots
<1>6. Weekly!WeeksAreWhole'
  <2> SUFFICES ASSUME NEW o \in Ones, Weekly!Exists(x1[o])
               PROVE  \/ x5[o] \ x7 = Weekly!SlotsOf(o)' \/ o \in x6
                      \/ \E v \in Workers : Weekly!Creating(v)' /\ req'[v].template = o
    BY DEF Weekly!WeeksAreWhole, Weekly!Exists, Weekly!Creating
  <2>1. CASE o = t
    BY <2>1
  <2>2. CASE o # t
    <3>1. \/ x5[o] \ x7 = Weekly!SlotsOf(o) \/ o \in x6
          \/ \E v \in Workers : Weekly!Creating(v) /\ req[v].template = o
      BY DEF Weekly!Inv, Weekly!WeeksAreWhole, Weekly!Creating
    <3>2. ASSUME NEW v \in Workers, Weekly!Creating(v), req[v].template = o
          PROVE  Weekly!Creating(v)' /\ req'[v].template = o
      <4>1. v # w
        BY <2>2, <3>2
      <4> QED
        BY <3>2, <4>1 DEF Weekly!Creating
    <3> QED
      BY <1>5, <2>2, <3>1, <3>2
  <2> QED
    BY <2>1, <2>2
<1>7. \A p \in Thirds : Weekly!Exists(x3[p]) => x2'[x3[p].slot] = x2[x3[p].slot]
  BY <1>4, WeeklyPlace
<1>8. \A s \in Rows : x2[s] # None => WeeklySame(s)
  BY <1>4 DEF WeeklySame
<1>9. Weekly!AddedInWindow'
  <2> SUFFICES ASSUME NEW p \in Thirds, Weekly!Exists(x3'[p])
               PROVE  x3'[p] = x3[p] /\ WeeklySame(x3[p].slot)
    BY WeeklyWindows
  <2>1. x3[p].slot \in Rows /\ Weekly!Exists(x2[x3[p].slot])
    BY WeeklyPlace
  <2>2. x2[x3[p].slot] # None
    BY <2>1 DEF Weekly!Exists
  <2> QED
    BY <1>8, <2>1, <2>2
<1>10. Weekly!RowsBelong'
  <2>1. ASSUME NEW s \in Rows
        PROVE  /\ Weekly!Exists(x2'[s]) => /\ Weekly!Exists(x1'[x2'[s].template])
                                           /\ s \in x5'[x2'[s].template]
               /\ s \in x7' => x2'[s] = Gone
    <3>1. s \in x7 => x2[s] = Gone
      BY DEF Weekly!Inv, Weekly!RowsBelong
    <3> QED
      BY <1>4, <3>1, WeeklySlot
  <2>2. ASSUME NEW p \in Thirds, Weekly!Exists(x3'[p]) PROVE Weekly!Exists(x2'[x3'[p].slot])
    BY <1>7, <2>2, WeeklyPlace
  <2>3. /\ \A a, o \in Ones : a # o => x5'[a] \cap x5'[o] = {}
        /\ \A a \in Ones : x1'[a] = None => x5'[a] = {}
    BY DEF Weekly!Inv, Weekly!RowsBelong
  <2> QED
    BY <2>1, <2>2, <2>3 DEF Weekly!RowsBelong, Weekly!Exists
<1>11. ASSUME NEW v \in Workers PROVE Weekly!Sound(v)'
  <2>1. CASE v = w
    BY <2>1
  <2>2. CASE v # w
    <3>1. \A o \in Ones : Weekly!Creating(v) /\ req[v].template = o /\ Weekly!Exists(x1'[o]) =>
               Weekly!SlotsOf(o)' = Weekly!SlotsOf(o) \ x7'
      BY <1>3, <1>5, <2>2, WeeklyNotStruck
    <3>2. \A s \in Rows : Weekly!Creating(v) /\ s \in req[v].todo => x2'[s] = None
      <4> SUFFICES ASSUME NEW s \in Rows, Weekly!Creating(v), s \in req[v].todo PROVE x2'[s] = None
        OBVIOUS
      <4>1. PICK o \in Ones : o = req[v].template
        BY WeeklyCreates
      <4>2. x2[s] = None /\ s \in x5[o] /\ o # t
        BY <1>3, <2>2, <4>1, WeeklyCreates
      <4>3. x5[o] \cap x5[t] = {}
        BY <4>2 DEF Weekly!Inv, Weekly!RowsBelong
      <4> QED
        BY <1>4, <4>2, <4>3
    <3>3. ASSUME NEW u \in Workers \ {v}, Weekly!Creating(v), Weekly!Creating(u)'
          PROVE  req'[u].template # req[v].template
      <4>1. CASE u = w
        BY <1>3, <2>2, <3>3, <4>1
      <4>2. CASE u # w
        <5>1. Weekly!Creating(u) /\ req'[u] = req[u]
          BY <3>3, <4>2 DEF Weekly!Creating
        <5> QED
          BY <3>3, <5>1, WeeklyCreates
      <4> QED
        BY <4>1, <4>2
    <3>4. /\ \A s \in Rows : x2[s] # None => x2'[s] # None
          /\ \A s \in Rows : x2[s] # None /\ Weekly!Exists(x2'[s]) =>
               Weekly!Exists(x2[s]) /\ WeeklySame(s)
      BY <1>8 DEF WeeklySame
    <3>5. pc'[v] = pc[v] /\ req'[v] = req[v] /\ x4' \in WeekTimes /\ x4 <= x4'
      BY <2>2, WeeklyRows
    <3> QED
      BY <3>1, <3>2, <3>3, <3>4, <3>5, WeeklyOther
  <2> QED
    BY <2>1, <2>2
<1> QED
  BY <1>1, <1>6, <1>9, <1>10, <1>11 DEF Weekly!Inv

\* A template that a request has inserted, and whose slots it is going to insert.
LEMMA WeeklyNew ==
    ASSUME Weekly!Inv, WeeklyTyped', Weekly!FlightsOK', NEW w \in Workers, NEW t \in Ones,
           NEW wanted \in SUBSET Rows, NEW row \in Weekly!Week,
           pc[w] = "idle", x1[t] = None, \A s \in wanted : x2[s] = None,
           \A s \in wanted : \A o \in Ones : s \notin x5[o],
           x1' = [x1 EXCEPT ![t] = row], x5' = [x5 EXCEPT ![t] = wanted],
           x2' = x2, x3' = x3, x4' = x4, x6' = x6, x7' = x7, x8' = x8, x9' = x9,
           \A v \in Workers \ {w} : pc'[v] = pc[v] /\ req'[v] = req[v],
           pc'[w] = "creating",
           req'[w] = [op |-> "create", template |-> t, todo |-> wanted, last |-> None]
    PROVE  Weekly!Inv'
<1>1. Weekly!TypeOK'
  BY WeeklyTypes
<1>2. /\ x1'[t] = row /\ \A o \in Ones \ {t} : x1'[o] = x1[o]
      /\ x5'[t] = wanted /\ \A o \in Ones \ {t} : x5'[o] = x5[o]
      /\ Weekly!Exists(row) /\ row # None /\ ~Weekly!Exists(x1[t])
  BY WeeklyRows, WeeklyConstants DEF Weekly!Exists
<1>3. \A o \in Ones : Weekly!SlotsOf(o)' = Weekly!SlotsOf(o)
  BY DEF Weekly!SlotsOf, Weekly!Exists
<1>4. Weekly!SlotsOf(t) = {}
  BY <1>2, WeeklySlot, WeeklySlots
<1>5. Weekly!Creating(w)' /\ req'[w].template = t /\ req'[w].todo = wanted /\ ~Weekly!Creating(w)
  BY DEF Weekly!Creating
<1>6. \A v \in Workers : Weekly!Creating(v) => v # w /\ req[v].template # t
  <2> SUFFICES ASSUME NEW v \in Workers, Weekly!Creating(v) PROVE req[v].template # t
    BY <1>5
  <2> QED
    BY WeeklyCreates
<1>7. Weekly!WeeksAreWhole'
  <2> SUFFICES ASSUME NEW o \in Ones, Weekly!Exists(x1'[o])
               PROVE  \/ x5'[o] \ x7 = Weekly!SlotsOf(o) \/ o \in x6
                      \/ \E v \in Workers : Weekly!Creating(v)' /\ req'[v].template = o
    BY <1>3 DEF Weekly!WeeksAreWhole, Weekly!Exists, Weekly!Creating
  <2>1. CASE o = t
    BY <1>5, <2>1
  <2>2. CASE o # t
    <3>1. \/ x5[o] \ x7 = Weekly!SlotsOf(o) \/ o \in x6
          \/ \E v \in Workers : Weekly!Creating(v) /\ req[v].template = o
      BY <1>2, <2>2 DEF Weekly!Inv, Weekly!WeeksAreWhole, Weekly!Creating
    <3>2. ASSUME NEW v \in Workers, Weekly!Creating(v), req[v].template = o
          PROVE  Weekly!Creating(v)' /\ req'[v].template = o
      <4>1. v # w
        BY <1>6, <3>2
      <4> QED
        BY <3>2, <4>1 DEF Weekly!Creating
    <3> QED
      BY <1>2, <2>2, <3>1, <3>2
  <2> QED
    BY <2>1, <2>2
<1>8. \A s \in Rows : Weekly!Exists(x2[s]) => WeeklySame(s)
  <2> SUFFICES ASSUME NEW s \in Rows, Weekly!Exists(x2[s]) PROVE WeeklySame(s)
    OBVIOUS
  <2>1. PICK o \in Ones : o = x2[s].template /\ Weekly!Exists(x1[o])
    BY WeeklySlot
  <2>2. o # t
    BY <1>2, <2>1
  <2> QED
    BY <1>2, <2>1, <2>2 DEF WeeklySame
<1>9. Weekly!AddedInWindow'
  <2> SUFFICES ASSUME NEW p \in Thirds, Weekly!Exists(x3'[p])
               PROVE  x3'[p] = x3[p] /\ WeeklySame(x3[p].slot)
    BY WeeklyWindows
  <2> QED
    BY <1>8, WeeklyPlace
<1>10. Weekly!RowsBelong'
  <2>1. ASSUME NEW s \in Rows
        PROVE  /\ Weekly!Exists(x2'[s]) => /\ Weekly!Exists(x1'[x2'[s].template])
                                           /\ s \in x5'[x2'[s].template]
               /\ s \in x7' => x2'[s] = Gone
    <3>1. s \in x7 => x2[s] = Gone
      BY DEF Weekly!Inv, Weekly!RowsBelong
    <3>2. Weekly!Exists(x2[s]) => x2[s].template \in Ones \ {t}
      BY <1>2, WeeklySlot
    <3> QED
      BY <1>2, <3>1, <3>2, WeeklySlot
  <2>2. \A p \in Thirds : Weekly!Exists(x3'[p]) => Weekly!Exists(x2'[x3'[p].slot])
    BY WeeklyPlace
  <2>3. ASSUME NEW a \in Ones, NEW o \in Ones, a # o PROVE x5'[a] \cap x5'[o] = {}
    <3>1. x5[a] \cap x5[o] = {}
      BY <2>3 DEF Weekly!Inv, Weekly!RowsBelong
    <3> QED
      BY <1>2, <2>3, <3>1
  <2>4. \A a \in Ones : x1'[a] = None => x5'[a] = {}
    BY <1>2 DEF Weekly!Inv, Weekly!RowsBelong
  <2> QED
    BY <2>1, <2>2, <2>3, <2>4 DEF Weekly!RowsBelong, Weekly!Exists
<1>11. Weekly!Sound(w)'
  <2>1. \A v \in Workers \ {w} : Weekly!Creating(v)' => req'[v].template # t
    BY <1>6 DEF Weekly!Creating
  <2>2. Weekly!SlotsOf(t)' = x5'[t] \ (x7' \cup wanted)
    BY <1>2, <1>3, <1>4
  <2>3. x1'[t] # None /\ wanted \subseteq x5'[t] /\ \A s \in wanted : x2'[s] = None
    BY <1>2
  <2> QED
    BY <1>5, <2>1, <2>2, <2>3 DEF Weekly!Sound
<1>12. ASSUME NEW v \in Workers, v # w PROVE Weekly!Sound(v)'
  <2>1. \A o \in Ones : Weekly!Creating(v) /\ req[v].template = o /\ Weekly!Exists(x1'[o]) =>
             Weekly!SlotsOf(o)' = Weekly!SlotsOf(o) \ x7'
    BY <1>3, WeeklyNotStruck
  <2>2. \A s \in Rows : Weekly!Creating(v) /\ s \in req[v].todo => x2'[s] = None
    BY WeeklyCreates
  <2>3. ASSUME NEW u \in Workers \ {v}, Weekly!Creating(v), Weekly!Creating(u)'
        PROVE  req'[u].template # req[v].template
    <3>1. CASE u = w
      BY <1>5, <1>6, <2>3, <3>1
    <3>2. CASE u # w
      <4>1. Weekly!Creating(u) /\ req'[u] = req[u]
        BY <2>3, <3>2 DEF Weekly!Creating
      <4> QED
        BY <2>3, <4>1, WeeklyCreates
    <3> QED
      BY <3>1, <3>2
  <2>4. \A s \in Rows : x2[s] # None /\ Weekly!Exists(x2'[s]) =>
             Weekly!Exists(x2[s]) /\ WeeklySame(s)
    BY <1>8
  <2>5. pc'[v] = pc[v] /\ req'[v] = req[v] /\ x4' \in WeekTimes /\ x4 <= x4'
    BY <1>12, WeeklyRows
  <2>6. \A o \in Ones : x1[o] # None =>
               x1'[o] # None /\ x5'[o] = x5[o] /\ (Weekly!Exists(x1'[o]) => Weekly!Exists(x1[o]))
    BY <1>2
  <2> QED
    BY <2>1, <2>2, <2>3, <2>4, <2>5, <2>6, WeeklyOther
<1> QED
  BY <1>1, <1>7, <1>9, <1>10, <1>11, <1>12 DEF Weekly!Inv

\* A request that moves while the rows stay.
LEMMA WeeklyPasses ==
    ASSUME Weekly!Inv, NEW w \in Workers, Weekly!FlightsOK', Weekly!Sound(w)',
           \A v \in Workers \ {w} : pc'[v] = pc[v] /\ req'[v] = req[v],
           x1' = x1, x2' = x2, x3' = x3, x4' = x4, x5' = x5, x7' = x7, x8' = x8, x9' = x9,
           x6 \subseteq x6', x6' \subseteq Ones,
           Weekly!Creating(w)' => Weekly!Creating(w) /\ req'[w].template = req[w].template,
           Weekly!Creating(w) => Weekly!Creating(w)' \/ req[w].todo = {} \/ req[w].template \in x6'
    PROVE  Weekly!Inv'
<1>1. PICK M \in SUBSET Workers : M = {w}
  OBVIOUS
<1>2. /\ \A v \in Workers \ M : pc'[v] = pc[v] /\ req'[v] = req[v]
      /\ \A v \in M : Weekly!Sound(v)'
      /\ \A v \in M : Weekly!Creating(v)' =>
               Weekly!Creating(v) /\ req'[v].template = req[v].template
      /\ \A v \in M : Weekly!Creating(v) =>
               Weekly!Creating(v)' \/ req[v].todo = {} \/ req[v].template \in x6'
  BY <1>1
<1>3. WeeklyTyped'
  BY WeeklyTypedNow DEF WeeklyTyped
<1>4. x4 <= x4'
  BY WeeklyRows
<1> QED
  BY <1>2, <1>3, <1>4, WeeklySteady

\* A request that comes in: for a template, or for a place.
LEMMA WeeklyAsks ==
    ASSUME Weekly!Inv, NEW w \in Workers,
           \/ \E t \in Ones : Weekly!WeekRequest(w, t)
           \/ \E s \in Rows : Weekly!AddServantToSlot(w, s)
    PROVE  Weekly!Inv'
<1>1. ASSUME NEW r, NEW place, Weekly!Begin(w, r, place), place # "idle", r # Weekly!NoRequest
      PROVE  /\ Weekly!FlightsOK' /\ pc[w] = "idle" /\ pc'[w] = place /\ req'[w] = r
             /\ \A v \in Workers \ {w} : pc'[v] = pc[v] /\ req'[v] = req[v]
  <2>1. Weekly!At(w, r, place) /\ sent' \in 0 .. FewCalls /\ pc[w] = "idle"
    BY <1>1, WeeklyRows, WeeklyConstants DEF Weekly!Begin
  <2> QED
    BY <1>1, <2>1, WeeklyMove
<1>2. ASSUME NEW t \in Ones, NEW start \in Starts, NEW end \in Ends, NEW wanted \in SUBSET Rows,
             Weekly!CreateWeek(w, t, start, end, wanted)
      PROVE  Weekly!Inv'
  <2>1. PICK row : row = [status |-> "DRAFT", start |-> start, end |-> end]
    OBVIOUS
  <2>2. row \in Weekly!Week
    BY <2>1 DEF Weekly!Week, Weekly!ScheduleStatus
  <2>3. PICK r : r = [op |-> "create", template |-> t, todo |-> wanted, last |-> None]
    OBVIOUS
  <2>4. /\ x1[t] = None /\ \A s \in wanted : x2[s] = None /\ \A o \in Ones : s \notin x5[o]
        /\ x1' = [x1 EXCEPT ![t] = row] /\ x5' = [x5 EXCEPT ![t] = wanted]
        /\ x2' = x2 /\ x3' = x3 /\ x4' = x4 /\ x6' = x6 /\ x7' = x7 /\ x8' = x8 /\ x9' = x9
        /\ Weekly!Begin(w, r, "creating")
    BY <1>2, <2>1, <2>3 DEF Weekly!CreateWeek
  <2>5. WeeklyTyped'
    BY <2>2, <2>4, WeeklyTypedNow DEF WeeklyTyped
  <2>6. r # Weekly!NoRequest
    BY <2>3 DEF Weekly!NoRequest
  <2>7. /\ Weekly!FlightsOK' /\ pc[w] = "idle" /\ pc'[w] = "creating" /\ req'[w] = r
        /\ \A v \in Workers \ {w} : pc'[v] = pc[v] /\ req'[v] = req[v]
    BY <1>1, <2>4, <2>6
  <2> QED
    BY <2>2, <2>3, <2>4, <2>5, <2>7, WeeklyNew
<1>3. ASSUME NEW s \in Rows, Weekly!AddServantToSlot(w, s)
      PROVE  Weekly!Inv'
  <2>1. PICK r : r = [op |-> "add", slot |-> s, since |-> x4]
    OBVIOUS
  <2>2. /\ Weekly!Exists(x2[s]) /\ Weekly!Begin(w, r, "adding")
        /\ Weekly!Open(x1[x2[s].template], x2[s], x4)
        /\ x1' = x1 /\ x2' = x2 /\ x3' = x3 /\ x4' = x4 /\ x5' = x5 /\ x6' = x6
        /\ x7' = x7 /\ x8' = x8 /\ x9' = x9
    BY <1>3, <2>1
       DEF Weekly!AddServantToSlot, Weekly!WeekOf, Weekly!Open, Weekly!weekTables,
              Weekly!weekHistory
  <2>3. r # Weekly!NoRequest
    BY <2>1 DEF Weekly!NoRequest
  <2>4. /\ Weekly!FlightsOK' /\ pc[w] = "idle" /\ pc'[w] = "adding" /\ req'[w] = r
        /\ \A v \in Workers \ {w} : pc'[v] = pc[v] /\ req'[v] = req[v]
    BY <1>1, <2>2, <2>3
  <2>5. x2[s] # None /\ x4 \in WeekTimes /\ x4 <= x4
    BY <2>2, WeeklyRows DEF Weekly!Exists
  <2>6. Weekly!Sound(w)'
    BY <2>1, <2>2, <2>4, <2>5 DEF Weekly!Sound
  <2>7. ~Weekly!Creating(w)' /\ ~Weekly!Creating(w)
    BY <2>4 DEF Weekly!Creating
  <2> QED
    BY <2>2, <2>4, <2>6, <2>7, WeeklyRows, WeeklyPasses
<1> QED
  BY <1>2, <1>3 DEF Weekly!WeekRequest

\* The chargé's changes.
LEMMA WeeklyDesk ==
    ASSUME Weekly!Inv,
           \/ \E t \in Ones : Weekly!WeekDesk(t)
           \/ \E s \in Rows : Weekly!DeleteSlot(s)
    PROVE  Weekly!Inv'
<1>1. ASSUME NEW t \in Ones, NEW status \in Weekly!ScheduleStatus, NEW start \in Starts,
             NEW end \in Ends, Weekly!UpdateWeek(t, status, start, end)
      PROVE  Weekly!Inv'
  <2>1. PICK row : row = [status |-> status, start |-> start, end |-> end]
    OBVIOUS
  <2>2. row \in Weekly!Week /\ row.start = start /\ row.end = end
    BY <2>1 DEF Weekly!Week
  <2>3. /\ Weekly!Exists(x1[t]) /\ x1' = [x1 EXCEPT ![t] = row]
        /\ x8' = IF start = x1[t].start /\ end = x1[t].end THEN x8 ELSE x8 \cup {t}
        /\ x2' = x2 /\ x3' = x3 /\ x4' = x4 /\ x5' = x5 /\ x6' = x6 /\ x7' = x7
        /\ x9' = x9 /\ pc' = pc /\ req' = req /\ sent' = sent
    BY <1>1, <2>1 DEF Weekly!UpdateWeek, Weekly!flights
  <2>4. WeeklyTyped' /\ x8 \subseteq x8'
    BY <2>2, <2>3, WeeklyTypedNow DEF WeeklyTyped
  <2>5. /\ x1'[t] = row /\ Weekly!Exists(row) /\ row # None
        /\ \A o \in Ones \ {t} : x1'[o] = x1[o]
    BY <2>2, <2>3, WeeklyRows, WeeklyConstants DEF Weekly!Exists
  <2>6. x1[t] # None
    BY <2>3 DEF Weekly!Exists
  <2>7. \A s \in Rows : Weekly!Exists(x2[s]) => WeeklySame(s)
    <3> SUFFICES ASSUME NEW s \in Rows, Weekly!Exists(x2[s]) PROVE WeeklySame(s)
      OBVIOUS
    <3>1. PICK o \in Ones : o = x2[s].template
      BY WeeklySlot
    <3>2. CASE o # t
      BY <2>3, <2>5, <3>1, <3>2 DEF WeeklySame
    <3>3. CASE o = t /\ start = x1[t].start /\ end = x1[t].end
      BY <2>2, <2>3, <2>5, <3>1, <3>3 DEF WeeklySame
    <3>4. CASE o = t /\ ~(start = x1[t].start /\ end = x1[t].end)
      BY <2>3, <3>1, <3>4 DEF WeeklySame
    <3> QED
      BY <3>2, <3>3, <3>4
  <2>8. \A o \in Ones : /\ Weekly!Exists(x1'[o]) <=> Weekly!Exists(x1[o])
                        /\ x1'[o] = None <=> x1[o] = None
    BY <2>3, <2>5, <2>6
  <2> QED
    BY <2>3, <2>4, <2>7, <2>8, WeeklyMoved
<1>2. ASSUME NEW t \in Ones, Weekly!PublishWeek(t) \/ Weekly!ArchiveWeek(t)
      PROVE  Weekly!Inv'
  <2>1. x1[t].start \in Starts /\ x1[t].end \in Ends
    BY <1>2, WeeklyWeek DEF Weekly!PublishWeek, Weekly!ArchiveWeek
  <2>2. /\ "PUBLISHED" \in Weekly!ScheduleStatus /\ "ARCHIVED" \in Weekly!ScheduleStatus
        /\ \/ Weekly!UpdateWeek(t, "PUBLISHED", x1[t].start, x1[t].end)
           \/ Weekly!UpdateWeek(t, "ARCHIVED", x1[t].start, x1[t].end)
    BY <1>2 DEF Weekly!PublishWeek, Weekly!ArchiveWeek, Weekly!ScheduleStatus
  <2> QED
    BY <1>1, <2>1, <2>2
<1>3. ASSUME NEW D \in SUBSET Rows, \A s \in D : Weekly!Exists(x2[s]),
             NEW E \in SUBSET Ones, \A t \in E : Weekly!Exists(x1[t]) /\ Weekly!SlotsOf(t) \subseteq D,
             x1' = [t \in Ones |-> IF t \in E THEN Gone ELSE x1[t]],
             x2' = [s \in Rows |-> IF s \in D THEN Gone ELSE x2[s]],
             x3' = [p \in Thirds |->
                       IF Weekly!Exists(x3[p]) /\ x3[p].slot \in D THEN Gone ELSE x3[p]],
             x7' = x7 \cup D, x4' = x4, x5' = x5, x6' = x6, x8' = x8, x9' = x9,
             pc' = pc, req' = req, sent' = sent
      PROVE  Weekly!Inv'
  <2>1. WeeklyTyped'
    BY <1>3, WeeklyTypedNow DEF WeeklyTyped
  <2>2. /\ \A s \in Rows : x2'[s] = IF s \in D THEN Gone ELSE x2[s]
        /\ \A p \in Thirds :
               x3'[p] = IF Weekly!Exists(x3[p]) /\ x3[p].slot \in D THEN Gone ELSE x3[p]
        /\ \A t \in Ones : \/ x1'[t] = x1[t]
                           \/ /\ x1'[t] = Gone /\ Weekly!Exists(x1[t])
                              /\ Weekly!SlotsOf(t) \subseteq D
    BY <1>3
  <2> QED
    BY <1>3, <2>1, <2>2, WeeklyStruck
<1>4. ASSUME NEW t \in Ones, Weekly!DeleteWeek(t)
      PROVE  Weekly!Inv'
  <2>1. PICK D \in SUBSET Rows : D = Weekly!SlotsOf(t)
    BY DEF Weekly!SlotsOf
  <2>2. PICK E \in SUBSET Ones : E = {t}
    OBVIOUS
  <2>3. /\ Weekly!Exists(x1[t]) /\ x1' = [x1 EXCEPT ![t] = Gone]
        /\ x2' = [s \in Rows |-> IF s \in D THEN Gone ELSE x2[s]]
        /\ x3' = [p \in Thirds |->
                       IF Weekly!Exists(x3[p]) /\ x3[p].slot \in D THEN Gone ELSE x3[p]]
        /\ x7' = x7 \cup D /\ x4' = x4 /\ x5' = x5 /\ x6' = x6 /\ x8' = x8 /\ x9' = x9
        /\ pc' = pc /\ req' = req /\ sent' = sent
    BY <1>4, <2>1 DEF Weekly!DeleteWeek, Weekly!flights
  <2>4. x1' = [o \in Ones |-> IF o \in E THEN Gone ELSE x1[o]]
    BY <2>2, <2>3, WeeklyRows
  <2>5. /\ \A s \in D : Weekly!Exists(x2[s])
        /\ \A o \in E : Weekly!Exists(x1[o]) /\ Weekly!SlotsOf(o) \subseteq D
    BY <2>1, <2>2, <2>3, WeeklySlots
  <2> QED
    BY <1>3, <2>3, <2>4, <2>5
<1>5. ASSUME NEW s \in Rows, Weekly!DeleteSlot(s)
      PROVE  Weekly!Inv'
  <2>1. PICK D \in SUBSET Rows : D = {s}
    OBVIOUS
  <2>2. PICK E \in SUBSET Ones : E = {}
    OBVIOUS
  <2>3. /\ Weekly!Exists(x2[s]) /\ x2' = [x2 EXCEPT ![s] = Gone]
        /\ x3' = [p \in Thirds |->
                       IF Weekly!Exists(x3[p]) /\ x3[p].slot = s THEN Gone ELSE x3[p]]
        /\ x7' = x7 \cup {s} /\ x1' = x1
        /\ x4' = x4 /\ x5' = x5 /\ x6' = x6 /\ x8' = x8 /\ x9' = x9
        /\ pc' = pc /\ req' = req /\ sent' = sent
    BY <1>5 DEF Weekly!DeleteSlot, Weekly!flights
  <2>4. /\ x1' = [o \in Ones |-> IF o \in E THEN Gone ELSE x1[o]]
        /\ x2' = [o \in Rows |-> IF o \in D THEN Gone ELSE x2[o]]
        /\ x7' = x7 \cup D
    BY <2>1, <2>2, <2>3, WeeklyRows
  <2>5. x3' = [p \in Thirds |->
                       IF Weekly!Exists(x3[p]) /\ x3[p].slot \in D THEN Gone ELSE x3[p]]
    BY <2>1, <2>3
  <2>6. /\ \A o \in D : Weekly!Exists(x2[o])
        /\ \A o \in E : Weekly!Exists(x1[o]) /\ Weekly!SlotsOf(o) \subseteq D
    BY <2>1, <2>2, <2>3
  <2> QED
    BY <1>3, <2>3, <2>4, <2>5, <2>6
<1> QED
  BY <1>1, <1>2, <1>4, <1>5 DEF Weekly!WeekDesk

\* A place is given up, or time passes.
LEMMA WeeklyPassing ==
    ASSUME Weekly!Inv,
           \/ \E p \in Thirds : Weekly!RemoveServantFromSlot(p)
           \/ \E t \in WeekTimes : Weekly!TimePasses(t)
    PROVE  Weekly!Inv'
<1>1. PICK M \in SUBSET Workers : M = {}
  OBVIOUS
<1>2. Weekly!FlightsOK /\ x4 \in WeekTimes /\ x4 \in Int
  BY WeeklyRows DEF Weekly!Inv, Weekly!TypeOK
<1>3. ASSUME pc' = pc, req' = req, sent' = sent
      PROVE  Weekly!FlightsOK' /\ \A v \in Workers \ M : pc'[v] = pc[v] /\ req'[v] = req[v]
  BY <1>2, <1>3 DEF Weekly!FlightsOK
<1>4. ASSUME NEW p \in Thirds, Weekly!RemoveServantFromSlot(p)
      PROVE  Weekly!Inv'
  <2>1. /\ x3' = [x3 EXCEPT ![p] = Gone]
        /\ x1' = x1 /\ x2' = x2 /\ x4' = x4 /\ x5' = x5 /\ x6' = x6 /\ x7' = x7 /\ x8' = x8
        /\ x9' = x9 /\ pc' = pc /\ req' = req /\ sent' = sent
    BY <1>4 DEF Weekly!RemoveServantFromSlot, Weekly!weekHistory, Weekly!flights
  <2>2. WeeklyTyped'
    BY <2>1, WeeklyTypedNow DEF WeeklyTyped
  <2>3. \A q \in Thirds : Weekly!Exists(x3'[q]) => x3'[q] = x3[q]
    BY <2>1, WeeklyRows, WeeklyConstants DEF Weekly!Exists
  <2>4. x4 <= x4'
    BY <1>2, <2>1
  <2> QED
    BY <1>1, <1>3, <2>1, <2>2, <2>3, <2>4, WeeklySteady
<1>5. ASSUME NEW t \in WeekTimes, Weekly!TimePasses(t)
      PROVE  Weekly!Inv'
  <2>1. /\ x4' = t /\ t > x4
        /\ x1' = x1 /\ x2' = x2 /\ x3' = x3 /\ x5' = x5 /\ x6' = x6 /\ x7' = x7 /\ x8' = x8
        /\ x9' = x9 /\ pc' = pc /\ req' = req /\ sent' = sent
    BY <1>5 DEF Weekly!TimePasses, Weekly!weekHistory, Weekly!flights
  <2>2. WeeklyTyped'
    BY <2>1, WeeklyTypedNow DEF WeeklyTyped
  <2>3. x4 <= x4'
    BY <1>2, <2>1, WeeklyConstants
  <2> QED
    BY <1>1, <1>3, <2>1, <2>2, <2>3, WeeklySteady
<1> QED
  BY <1>4, <1>5

\* A creation that is refused or has come to its end, or a place that is refused.
LEMMA WeeklyStops ==
    ASSUME Weekly!Inv, NEW w \in Workers, Weekly!Return(w),
           x1' = x1, x2' = x2, x3' = x3, x4' = x4, x5' = x5, x7' = x7, x8' = x8, x9' = x9,
           x6 \subseteq x6', x6' \subseteq Ones,
           Weekly!Creating(w) => req[w].todo = {} \/ req[w].template \in x6'
    PROVE  Weekly!Inv'
<1>1. /\ Weekly!FlightsOK' /\ Weekly!Sound(w)' /\ ~Weekly!Creating(w)'
      /\ \A v \in Workers \ {w} : pc'[v] = pc[v] /\ req'[v] = req[v]
  BY WeeklyEnd
<1> QED
  BY <1>1, WeeklyPasses

LEMMA WeeklyStopping ==
    ASSUME Weekly!Inv, NEW w \in Workers,
           \/ Weekly!RefuseServants(w) \/ Weekly!WeekDone(w) \/ Weekly!RefusePlace(w)
           \/ Weekly!AbortWeek(w)
    PROVE  Weekly!Inv'
<1>1. x6 \subseteq Ones
  BY WeeklyRows
<1>2. Weekly!Creating(w) => req[w].template \in Ones
  BY WeeklyCreates
<1>3. CASE Weekly!RefuseServants(w) \/ Weekly!AbortWeek(w)
  <2>1. /\ x1' = x1 /\ x2' = x2 /\ x3' = x3 /\ x4' = x4 /\ x5' = x5 /\ x7' = x7 /\ x8' = x8
        /\ x9' = x9 /\ Weekly!Return(w)
        /\ x6' = IF Weekly!Creating(w) THEN x6 \cup {req[w].template} ELSE x6
    BY <1>3 DEF Weekly!RefuseServants, Weekly!AbortWeek, Weekly!Die, Weekly!Creating,
                Weekly!weekTables
  <2>2. x6 \subseteq x6' /\ x6' \subseteq Ones /\ (Weekly!Creating(w) => req[w].template \in x6')
    BY <1>1, <1>2, <2>1
  <2> QED
    BY <2>1, <2>2, WeeklyStops
<1>4. CASE Weekly!WeekDone(w) \/ Weekly!RefusePlace(w)
  <2>1. /\ x1' = x1 /\ x2' = x2 /\ x3' = x3 /\ x4' = x4 /\ x5' = x5 /\ x6' = x6 /\ x7' = x7
        /\ x8' = x8 /\ x9' = x9 /\ Weekly!Return(w)
        /\ Weekly!Creating(w) => req[w].todo = {}
    BY <1>4 DEF Weekly!WeekDone, Weekly!RefusePlace, Weekly!Creating,
                Weekly!weekTables, Weekly!weekHistory
  <2> QED
    BY <1>1, <2>1, WeeklyStops
<1> QED
  BY <1>3, <1>4

\* A slot of a template is inserted.
LEMMA WeeklyInserts ==
    ASSUME Weekly!Inv, NEW w \in Workers, NEW s \in Rows, NEW day \in {0, 1},
           NEW mass_time \in {"MATIN", "SOIR"}, Weekly!CreateSlot(w, s, day, mass_time)
    PROVE  Weekly!Inv'
<1>1. PICK r : r = req[w]
  OBVIOUS
<1>2. Weekly!Creating(w) /\ s \in r.todo
  BY <1>1 DEF Weekly!CreateSlot, Weekly!Creating
<1>3. PICK t \in Ones : t = r.template
  BY <1>1, <1>2, WeeklyCreates
<1>4. /\ x1[t] # None /\ r.todo \subseteq x5[t] /\ r.todo \subseteq Rows
      /\ \A o \in r.todo : x2[o] = None
      /\ Weekly!Exists(x1[t]) => Weekly!SlotsOf(t) = x5[t] \ (x7 \cup r.todo)
      /\ \A v \in Workers \ {w} : Weekly!Creating(v) => req[v].template # t
  BY <1>1, <1>2, <1>3, WeeklyCreates
<1>5. PICK row : row = [template |-> t, day |-> day, mass_time |-> mass_time]
  OBVIOUS
<1>6. row \in Weekly!Slot /\ row.template = t
  BY <1>5 DEF Weekly!Slot, Weekly!WeekDay, Weekly!MassTime
<1>7. Weekly!Exists(row)
  BY <1>6, WeeklyConstants DEF Weekly!Exists
<1>8. CASE ~Weekly!Exists(x1[t])
  <2>1. /\ Weekly!Return(w) /\ x6' = x6 \cup {t}
        /\ x1' = x1 /\ x2' = x2 /\ x3' = x3 /\ x4' = x4 /\ x5' = x5 /\ x7' = x7 /\ x8' = x8
        /\ x9' = x9
    BY <1>1, <1>3, <1>8 DEF Weekly!CreateSlot
  <2>2. x6 \subseteq x6' /\ x6' \subseteq Ones /\ req[w].template \in x6'
    BY <1>1, <1>3, <2>1, WeeklyRows
  <2> QED
    BY <2>1, <2>2, WeeklyStops
<1>9. CASE Weekly!Exists(x1[t])
  <2>1. PICK T \in SUBSET Rows : T = r.todo \ {s}
    BY <1>4
  <2>2. PICK q : q = [op |-> "create", template |-> t, todo |-> T, last |-> s]
    OBVIOUS
  <2>3. /\ x2' = [x2 EXCEPT ![s] = row] /\ Weekly!Continue(w, q, "filling")
        /\ x1' = x1 /\ x3' = x3 /\ x4' = x4 /\ x5' = x5 /\ x6' = x6 /\ x7' = x7 /\ x8' = x8
        /\ x9' = x9
    BY <1>1, <1>3, <1>5, <1>9, <2>1, <2>2 DEF Weekly!CreateSlot
  <2>4. Weekly!At(w, q, "filling") /\ sent' \in 0 .. FewCalls /\ q # Weekly!NoRequest
    BY <2>2, <2>3, WeeklyRows DEF Weekly!Continue, Weekly!NoRequest
  <2>5. /\ Weekly!FlightsOK' /\ pc'[w] = "filling" /\ req'[w] = q
        /\ \A v \in Workers \ {w} : pc'[v] = pc[v] /\ req'[v] = req[v]
    BY <2>4, WeeklyMove
  <2>6. /\ x2' \in [Rows -> Weekly!Slot \cup {None, Gone}]
        /\ x2'[s] = row /\ \A o \in Rows \ {s} : x2'[o] = x2[o]
    BY <1>6, <2>3, WeeklyRows
  <2>7. WeeklyTyped'
    BY <2>3, <2>6, WeeklyTypedNow DEF WeeklyTyped
  <2>8. /\ \A o \in T : x2'[o] = None
        /\ T \subseteq x5[t]
    BY <1>4, <2>1, <2>6
  <2>9. Weekly!SlotsOf(t)' = x5[t] \ (x7 \cup T)
    <3> SUFFICES ASSUME NEW o
                 PROVE  o \in Weekly!SlotsOf(t)' <=> o \in x5[t] \ (x7 \cup T)
      OBVIOUS
    <3>1. o \in Weekly!SlotsOf(t) <=> o \in x5[t] \ (x7 \cup r.todo)
      BY <1>4, <1>9
    <3>2. o \in Weekly!SlotsOf(t)' <=> o = s \/ o \in Weekly!SlotsOf(t)
      BY <1>2, <1>4, <1>6, <1>7, <2>6, WeeklySlots
    <3>3. s \notin x7
      BY <1>2, <1>4, WeeklyConstants DEF Weekly!Inv, Weekly!RowsBelong
    <3> QED
      BY <1>2, <1>4, <2>1, <3>1, <3>2, <3>3
  <2>10. \A v \in Workers \ {w} : Weekly!Creating(v)' => req'[v].template # t
    BY <1>4, <2>5 DEF Weekly!Creating
  <2>11. Weekly!Creating(w)' /\ req'[w].template = t
    BY <2>2, <2>5 DEF Weekly!Creating
  <2>12. Weekly!Sound(w)'
    BY <1>4, <2>2, <2>3, <2>5, <2>8, <2>9, <2>10, <2>11 DEF Weekly!Sound
  <2>13. /\ s \in req[w].todo /\ t = req[w].template
         /\ \A o \in Rows : x2'[o] = IF o = s THEN row ELSE x2[o]
    BY <1>1, <1>2, <1>3, <2>6
  <2>14. /\ x1' = x1 /\ x3' = x3 /\ x4' = x4 /\ x5' = x5 /\ x6' = x6 /\ x7' = x7 /\ x8' = x8
         /\ x9' = x9
    BY <2>3
  <2> QED
    BY <1>2, <1>6, <1>7, <1>9, <2>5, <2>7, <2>11, <2>12, <2>13, <2>14, WeeklyInserted
<1> QED
  BY <1>8, <1>9

\* Places are taken: those of a template that is created, or one on its own.
LEMMA WeeklyFilling ==
    ASSUME Weekly!Inv, NEW w \in Workers,
           \/ \E batch \in SUBSET Thirds : Weekly!FillSlot(w, batch)
           \/ \E p \in Thirds : Weekly!InsertPlace(w, p)
    PROVE  Weekly!Inv'
<1>1. PICK r : r = req[w]
  OBVIOUS
<1>2. PICK M \in SUBSET Workers : M = {w}
  OBVIOUS
<1>3. x4 \in WeekTimes /\ x4 \in Int /\ x6 \subseteq Ones /\ x9 \subseteq Thirds
  BY WeeklyRows
<1>4. ASSUME NEW B \in SUBSET Thirds, Weekly!FillSlot(w, B)
      PROVE  Weekly!Inv'
  <2>1. pc[w] = "filling" /\ Weekly!Creating(w)
    BY <1>4 DEF Weekly!FillSlot, Weekly!Creating
  <2>2. PICK t \in Ones : t = r.template
    BY <1>1, <2>1, WeeklyCreates
  <2>3. PICK s \in Rows : s = r.last
    BY <1>1, <2>1, WeeklyCreates
  <2>4. PICK T \in SUBSET Rows : T = r.todo
    BY <1>1, <2>1, WeeklyCreates
  <2>5. /\ x1[t] # None /\ T \subseteq x5[t]
        /\ \A o \in T : x2[o] = None
        /\ Weekly!Exists(x1[t]) => Weekly!SlotsOf(t) = x5[t] \ (x7 \cup T)
        /\ \A v \in Workers \ {w} : Weekly!Creating(v) => req[v].template # t
    BY <1>1, <2>1, <2>2, <2>4, WeeklyCreates
  <2>6. CASE B = {} \/ Weekly!Exists(x2[s])
    <3>1. PICK q : q = [op |-> "create", template |-> t, todo |-> T, last |-> None]
      OBVIOUS
    <3>2. PICK row : row = [slot |-> s, added_at |-> x4]
      OBVIOUS
    <3>3. row \in Weekly!Place /\ row.slot = s
      BY <1>3, <3>2 DEF Weekly!Place
    <3>4. /\ Weekly!Continue(w, q, "creating")
          /\ x3' = [p \in Thirds |-> IF p \in B THEN row ELSE x3[p]]
          /\ x9' = x9 \cup B
          /\ x1' = x1 /\ x2' = x2 /\ x4' = x4 /\ x5' = x5 /\ x6' = x6 /\ x7' = x7 /\ x8' = x8
      BY <1>1, <1>4, <2>2, <2>3, <2>4, <2>6, <3>1, <3>2 DEF Weekly!FillSlot
    <3>5. Weekly!At(w, q, "creating") /\ sent' \in 0 .. FewCalls /\ q # Weekly!NoRequest
      BY <3>1, <3>4, WeeklyRows DEF Weekly!Continue, Weekly!NoRequest
    <3>6. /\ Weekly!FlightsOK' /\ pc'[w] = "creating" /\ req'[w] = q
          /\ \A v \in Workers \ {w} : pc'[v] = pc[v] /\ req'[v] = req[v]
      BY <3>5, WeeklyMove
    <3>7. Weekly!Creating(w)' /\ req'[w].template = req[w].template
      BY <1>1, <2>2, <3>1, <3>6 DEF Weekly!Creating
    <3>8. \A v \in Workers \ {w} : Weekly!Creating(v)' => req'[v].template # t
      BY <2>5, <3>6 DEF Weekly!Creating
    <3>9. Weekly!SlotsOf(t)' = Weekly!SlotsOf(t)
      BY <3>4 DEF Weekly!SlotsOf, Weekly!Exists
    <3>10. Weekly!Exists(x1[t]) => Weekly!SlotsOf(t)' = x5[t] \ (x7 \cup T)
      BY <2>5, <3>9
    <3>11. Weekly!Sound(w)'
      BY <2>5, <3>1, <3>4, <3>6, <3>7, <3>8, <3>10 DEF Weekly!Sound
    <3>12. WeeklyTyped'
      <4>1. x3' \in [Thirds -> Weekly!Place \cup {None, Gone}]
        BY <3>3, <3>4, WeeklyRows
      <4> QED
        BY <1>3, <3>4, <4>1, WeeklyTypedNow DEF WeeklyTyped
    <3>13. \A p \in Thirds : Weekly!Exists(x3'[p]) =>
               \/ x3'[p] = x3[p]
               \/ x3'[p].slot \in Rows /\ Weekly!Exists(x2[x3'[p].slot]) /\ p \in x9'
      BY <2>6, <3>3, <3>4
    <3>14. /\ \A v \in Workers \ M : pc'[v] = pc[v] /\ req'[v] = req[v]
           /\ \A v \in M : Weekly!Sound(v)'
           /\ \A v \in M : Weekly!Creating(v)' =>
                  Weekly!Creating(v) /\ req'[v].template = req[v].template
           /\ \A v \in M : Weekly!Creating(v) =>
                  Weekly!Creating(v)' \/ req[v].todo = {} \/ req[v].template \in x6'
      BY <1>2, <2>1, <3>6, <3>7, <3>11
    <3>15. /\ x1' = x1 /\ x2' = x2 /\ x5' = x5 /\ x6' = x6 /\ x7' = x7 /\ x8' = x8
           /\ x9 \subseteq x9' /\ x4 <= x4'
      BY <1>3, <3>4
    <3> QED
      BY <3>6, <3>12, <3>13, <3>14, <3>15, WeeklySteady
  <2>7. CASE ~(B = {} \/ Weekly!Exists(x2[s]))
    <3>1. /\ Weekly!Return(w) /\ x6' = x6 \cup {t} /\ x3' = x3
          /\ x1' = x1 /\ x2' = x2 /\ x4' = x4 /\ x5' = x5 /\ x7' = x7 /\ x8' = x8 /\ x9' = x9
      BY <1>1, <1>4, <2>2, <2>3, <2>7 DEF Weekly!FillSlot
    <3>2. /\ x6 \subseteq x6' /\ x6' \subseteq Ones /\ req[w].template \in x6'
      BY <1>1, <1>3, <2>2, <3>1
    <3> QED
      BY <3>1, <3>2, WeeklyStops
  <2> QED
    BY <2>6, <2>7
<1>5. ASSUME NEW p \in Thirds, Weekly!InsertPlace(w, p)
      PROVE  Weekly!Inv'
  <2>1. pc[w] = "adding"
    BY <1>5 DEF Weekly!InsertPlace
  <2>2. PICK s \in Rows : s = r.slot
    BY <1>1, <2>1, WeeklyAdds
  <2>3. /\ r.since \in Int /\ r.since <= x4
        /\ Weekly!Exists(x2[s]) =>
                 \/ x2[s].template \in x8
                 \/ Weekly!Open(x1[x2[s].template], x2[s], r.since)
    BY <1>1, <2>1, <2>2, WeeklyAdds
  <2>4. PICK row : row = [slot |-> s, added_at |-> x4]
    OBVIOUS
  <2>5. row \in Weekly!Place /\ row.slot = s /\ row.added_at = x4
    BY <1>3, <2>4 DEF Weekly!Place
  <2>6. /\ Weekly!Return(w) /\ Weekly!Exists(x2[s]) /\ x3' = [x3 EXCEPT ![p] = row]
        /\ x9' = IF x4 > r.since THEN x9 \cup {p} ELSE x9
        /\ x1' = x1 /\ x2' = x2 /\ x4' = x4 /\ x5' = x5 /\ x6' = x6 /\ x7' = x7 /\ x8' = x8
    BY <1>1, <1>5, <2>2, <2>4 DEF Weekly!InsertPlace
  <2>7. /\ Weekly!FlightsOK' /\ Weekly!Sound(w)' /\ ~Weekly!Creating(w)'
        /\ \A v \in Workers \ {w} : pc'[v] = pc[v] /\ req'[v] = req[v]
    BY <2>6, WeeklyEnd
  <2>8. ~Weekly!Creating(w)
    BY <2>1 DEF Weekly!Creating
  <2>9. /\ x3' \in [Thirds -> Weekly!Place \cup {None, Gone}]
        /\ x3'[p] = row /\ \A q \in Thirds \ {p} : x3'[q] = x3[q]
    BY <2>5, <2>6, WeeklyRows
  <2>10. WeeklyTyped'
    <3>1. x9' \subseteq Thirds
      BY <1>3, <2>6
    <3> QED
      BY <2>6, <2>9, <3>1, WeeklyTypedNow DEF WeeklyTyped
  <2>11. \/ p \in x9' \/ x2[s].template \in x8
         \/ Weekly!Open(x1[x2[s].template], x2[s], x4)
    <3>1. CASE x4 > r.since
      BY <2>6, <3>1
    <3>2. CASE ~(x4 > r.since)
      <4>1. x4 = r.since
        BY <1>3, <2>3, <3>2
      <4> QED
        BY <2>3, <2>6, <4>1
    <3> QED
      BY <3>1, <3>2
  <2>12. \A q \in Thirds : Weekly!Exists(x3'[q]) =>
               \/ x3'[q] = x3[q]
               \/ /\ x3'[q].slot \in Rows /\ Weekly!Exists(x2[x3'[q].slot])
                  /\ \/ q \in x9' \/ x2[x3'[q].slot].template \in x8
                     \/ Weekly!Open(x1[x2[x3'[q].slot].template], x2[x3'[q].slot], x3'[q].added_at)
    <3> SUFFICES ASSUME NEW q \in Thirds
                 PROVE  \/ x3'[q] = x3[q]
                        \/ /\ x3'[q].slot \in Rows /\ Weekly!Exists(x2[x3'[q].slot])
                           /\ \/ q \in x9' \/ x2[x3'[q].slot].template \in x8
                              \/ Weekly!Open(x1[x2[x3'[q].slot].template], x2[x3'[q].slot],
                                             x3'[q].added_at)
      OBVIOUS
    <3>1. CASE q = p
      BY <2>5, <2>6, <2>9, <2>11, <3>1
    <3>2. CASE q # p
      BY <2>9, <3>2
    <3> QED
      BY <3>1, <3>2
  <2>13. /\ \A v \in Workers \ M : pc'[v] = pc[v] /\ req'[v] = req[v]
         /\ \A v \in M : Weekly!Sound(v)'
         /\ \A v \in M : Weekly!Creating(v)' =>
                Weekly!Creating(v) /\ req'[v].template = req[v].template
         /\ \A v \in M : Weekly!Creating(v) =>
                Weekly!Creating(v)' \/ req[v].todo = {} \/ req[v].template \in x6'
    BY <1>2, <2>7, <2>8
  <2>14. /\ x1' = x1 /\ x2' = x2 /\ x5' = x5 /\ x6' = x6 /\ x7' = x7 /\ x8' = x8
         /\ x9 \subseteq x9' /\ x4 <= x4'
    BY <1>3, <2>6
  <2> QED
    BY <2>7, <2>10, <2>12, <2>13, <2>14, WeeklySteady
<1> QED
  BY <1>4, <1>5

LEMMA WeeklyNext == Weekly!Inv /\ Weekly!Next => Weekly!Inv'
<1> SUFFICES ASSUME Weekly!Inv, Weekly!Next PROVE Weekly!Inv'
  OBVIOUS
<1>1. ASSUME NEW w \in Workers, Weekly!ServeWeek(w)
      PROVE  Weekly!Inv'
  <2>1. \/ \E s \in Rows, day \in {0, 1}, m \in {"MATIN", "SOIR"} : Weekly!CreateSlot(w, s, day, m)
        \/ \/ \E batch \in SUBSET Thirds : Weekly!FillSlot(w, batch)
           \/ \E p \in Thirds : Weekly!InsertPlace(w, p)
        \/ \/ Weekly!RefuseServants(w) \/ Weekly!WeekDone(w) \/ Weekly!RefusePlace(w)
           \/ Weekly!AbortWeek(w)
    BY <1>1 DEF Weekly!ServeWeek
  <2>2. ASSUME NEW s \in Rows, NEW day \in {0, 1}, NEW m \in {"MATIN", "SOIR"},
               Weekly!CreateSlot(w, s, day, m)
        PROVE  Weekly!Inv'
    BY <2>2, WeeklyInserts
  <2> QED
    BY <2>1, <2>2, WeeklyFilling, WeeklyStopping
<1>2. \/ \E t \in Ones : Weekly!WeekDesk(t)
      \/ \E s \in Rows : Weekly!DeleteSlot(s)
      \/ \E p \in Thirds : Weekly!RemoveServantFromSlot(p)
      \/ \E t \in WeekTimes : Weekly!TimePasses(t)
      \/ \E w \in Workers :
            \/ \E t \in Ones : Weekly!WeekRequest(w, t)
            \/ \E s \in Rows : Weekly!AddServantToSlot(w, s)
      \/ \E w \in Workers : Weekly!ServeWeek(w)
  BY DEF Weekly!Next, Weekly!SlotDesk
<1> QED
  BY <1>1, <1>2, WeeklyDesk, WeeklyPassing, WeeklyAsks

LEMMA WeeklyStays ==
    ASSUME Weekly!Inv, UNCHANGED <<x1, x2, x3, x4, x5, x6, x7, x8, x9, pc, req, sent>>
    PROVE  Weekly!Inv'
<1>1. PICK M \in SUBSET Workers : M = {}
  OBVIOUS
<1>2. Weekly!FlightsOK' /\ WeeklyTyped' /\ x4 <= x4'
  BY WeeklyTypedNow, WeeklyRows DEF WeeklyTyped, Weekly!Inv, Weekly!TypeOK, Weekly!FlightsOK
<1>3. \A v \in Workers \ M : pc'[v] = pc[v] /\ req'[v] = req[v]
  OBVIOUS
<1> QED
  BY <1>1, <1>2, <1>3, WeeklySteady

------------------------------------------------------------------------------
\* EventPages

LEMMA PagesConstants ==
    /\ MaxCalls \in Nat
    /\ None # Gone
    /\ None \notin Pages!Page /\ Gone \notin Pages!Page
    /\ None \notin Pages!EventTeam /\ Gone \notin Pages!EventTeam
BY MoreServicesAssumption

LEMMA PagesInit == Pages!Init => Pages!Inv
BY PagesConstants
   DEF Pages!Init, Pages!InitFlights, Pages!NoRequest, Pages!Exists, Pages!Inv, Pages!TypeOK,
       Pages!FlightsOK, Pages!GalleryKept, Pages!EverybodyTold, Pages!Sound

\* A request that moves.
LEMMA PagesMove ==
    ASSUME Pages!Inv, NEW w \in Workers, NEW r, NEW place,
           Pages!At(w, r, place), place = "idle" <=> r = Pages!NoRequest,
           sent' \in 0 .. MaxCalls
    PROVE  /\ Pages!FlightsOK' /\ pc'[w] = place /\ req'[w] = r
           /\ \A v \in Workers \ {w} : pc'[v] = pc[v] /\ req'[v] = req[v]
BY DEF Pages!Inv, Pages!TypeOK, Pages!FlightsOK, Pages!At

LEMMA PagesEnd ==
    ASSUME Pages!Inv, NEW w \in Workers, Pages!Return(w)
    PROVE  /\ Pages!FlightsOK' /\ pc'[w] = "idle" /\ Pages!Sound(w)'
           /\ \A v \in Workers \ {w} : pc'[v] = pc[v] /\ req'[v] = req[v]
<1>1. Pages!At(w, Pages!NoRequest, "idle") /\ sent' \in 0 .. MaxCalls
  BY DEF Pages!Return, Pages!Continue, Pages!Inv, Pages!TypeOK, Pages!FlightsOK
<1> QED
  BY <1>1, PagesMove DEF Pages!Sound

\* Another request: the gallery is as it has read it, or they have met.
LEMMA PagesOther ==
    ASSUME Pages!Inv, NEW v \in Workers, pc'[v] = pc[v], req'[v] = req[v], x4 \subseteq x4',
           \A e \in Ones : x1[e] # None => x1'[e] # None,
           \A e \in Ones : Pages!Exists(x1'[e]) /\ pc[v] \in {"uploading", "adding"} /\ req[v].event = e =>
               e \in x7' \/ (Pages!Exists(x1[e]) /\ x1'[e].photos = x1[e].photos /\ (e \in x7 => e \in x7'))
    PROVE  Pages!Sound(v)'
<1>0. Pages!Sound(v)
  BY DEF Pages!Inv
<1>1. CASE pc[v] = "idle"
  BY <1>1 DEF Pages!Sound
<1>2. CASE pc[v] = "announcing"
  BY <1>0, <1>2 DEF Pages!Sound
<1>3. CASE pc[v] \in {"uploading", "adding"}
  <2>1. PICK r : r = req[v]
    OBVIOUS
  <2>2. PICK e \in Ones : e = r.event
    BY <1>0, <1>3, <2>1 DEF Pages!Sound
  <2>3. /\ r = [op |-> "photo", event |-> r.event, read |-> r.read, file |-> r.file]
        /\ x1[e] # None /\ r.read \subseteq Rows /\ (pc[v] = "adding" => r.file \in Rows)
        /\ Pages!Exists(x1[e]) => e \in x7 \/ r.read = x1[e].photos
    BY <1>0, <1>3, <2>1, <2>2 DEF Pages!Sound
  <2>4. /\ x1'[e] # None
        /\ Pages!Exists(x1'[e]) => e \in x7' \/ r.read = x1'[e].photos
    BY <1>3, <2>1, <2>2, <2>3
  <2>5. req'[v] = r /\ pc'[v] = pc[v]
    BY <2>1
  <2> QED
    BY <1>3, <2>2, <2>3, <2>4, <2>5 DEF Pages!Sound
<1> QED
  BY <1>0, <1>1, <1>2, <1>3 DEF Pages!Sound

\* The rows, when the pages that stand keep their photographs and their announcement.
LEMMA PagesKept ==
    ASSUME Pages!Inv, NEW M \in SUBSET Workers,
           \A v \in Workers \ M : pc'[v] = pc[v] /\ req'[v] = req[v],
           x4 \subseteq x4', x8 \subseteq x8', x6' = x6, x7' = x7,
           \A e \in Ones : x1[e] # None => x1'[e] # None,
           \A e \in Ones : Pages!Exists(x1'[e]) =>
               \/ Pages!Exists(x1[e]) /\ x1'[e] = x1[e]
               \/ /\ x1[e] = None
                  /\ x1'[e].announced => \E w \in M : pc'[w] = "announcing" /\ req'[w].about = e,
           \A w \in M : pc[w] = "announcing" =>
               \/ {req[w].about} \X Others \subseteq x4'
               \/ req[w].about \in x8'
               \/ pc'[w] = "announcing" /\ req'[w].about = req[w].about
    PROVE  Pages!GalleryKept' /\ Pages!EverybodyTold' /\ \A a \in x6' : x1'[a[1]] # None
<1>1. ASSUME NEW a \in x6' PROVE a \in x6 /\ a[1] \in Ones /\ x1[a[1]] # None /\ x1'[a[1]] # None
  BY DEF Pages!Inv, Pages!TypeOK
<1>2. Pages!GalleryKept'
  <2>1. ASSUME NEW a \in x6', Pages!Exists(x1'[a[1]])
        PROVE  a[2] \in x1'[a[1]].photos \/ a[1] \in x7'
    <3>1. Pages!Exists(x1[a[1]]) /\ x1'[a[1]] = x1[a[1]]
      BY <1>1, <2>1
    <3> QED
      BY <1>1, <3>1 DEF Pages!Inv, Pages!GalleryKept
  <2> QED
    BY <2>1 DEF Pages!GalleryKept
<1>3. Pages!EverybodyTold'
  <2> SUFFICES ASSUME NEW e \in Ones, Pages!Exists(x1'[e]), x1'[e].announced
               PROVE  \/ {e} \X Others \subseteq x4'
                      \/ e \in x8'
                      \/ \E w \in Workers : pc'[w] = "announcing" /\ req'[w].about = e
    BY DEF Pages!EverybodyTold
  <2>1. CASE Pages!Exists(x1[e]) /\ x1'[e] = x1[e]
    <3>1. \/ {e} \X Others \subseteq x4
          \/ e \in x8
          \/ \E w \in Workers : pc[w] = "announcing" /\ req[w].about = e
      BY <2>1 DEF Pages!Inv, Pages!EverybodyTold
    <3>2. ASSUME NEW w \in Workers, pc[w] = "announcing", req[w].about = e
          PROVE  \/ {e} \X Others \subseteq x4'
                 \/ e \in x8'
                 \/ pc'[w] = "announcing" /\ req'[w].about = e
      <4>1. CASE w \in M
        BY <3>2, <4>1
      <4>2. CASE w \notin M
        BY <3>2, <4>2
      <4> QED
        BY <4>1, <4>2
    <3> QED
      BY <3>1, <3>2
  <2>2. CASE x1[e] = None
    BY <2>2 DEF Pages!Exists
  <2> QED
    BY <2>1, <2>2
<1> QED
  BY <1>1, <1>2, <1>3

\* What is done at the desk.
LEMMA PagesDesk ==
    ASSUME Pages!Inv, UNCHANGED <<pc, req, sent, x4, x5, x6, x7, x8>>,
           x2' \in [Thirds -> Ones \cup {None, Gone}], x3' \in [Thirds -> Pages!EventTeam \cup {None, Gone}],
           \/ x1' = x1
           \/ \E e \in Ones : Pages!Exists(x1[e]) /\ x1' = [x1 EXCEPT ![e] = Gone]
    PROVE  Pages!Inv'
<1>1. /\ x1' \in [Ones -> Pages!Page \cup {None, Gone}]
      /\ \A e \in Ones : x1'[e] = x1[e] \/ (x1[e] # None /\ x1'[e] = Gone)
  BY DEF Pages!Inv, Pages!TypeOK, Pages!Exists
<1>2. \A e \in Ones : /\ x1[e] # None => x1'[e] # None
                      /\ Pages!Exists(x1'[e]) => Pages!Exists(x1[e]) /\ x1'[e] = x1[e]
  BY <1>1, PagesConstants DEF Pages!Exists
<1>3. Pages!TypeOK'
  BY <1>1 DEF Pages!Inv, Pages!TypeOK, Pages!FlightsOK
<1>4. Pages!GalleryKept' /\ Pages!EverybodyTold' /\ \A a \in x6' : x1'[a[1]] # None
  <2>1. PICK M \in SUBSET Workers : M = {}
    OBVIOUS
  <2>2. \A v \in Workers \ M : pc'[v] = pc[v] /\ req'[v] = req[v]
    OBVIOUS
  <2>3. x4 \subseteq x4' /\ x8 \subseteq x8' /\ x6' = x6 /\ x7' = x7
    OBVIOUS
  <2> QED
    BY <1>2, <2>1, <2>2, <2>3, PagesKept
<1>5. \A v \in Workers : Pages!Sound(v)'
  BY <1>2, PagesOther
<1> QED
  BY <1>3, <1>4, <1>5 DEF Pages!Inv

LEMMA PagesRows ==
    ASSUME Pages!Inv
    PROVE  /\ x2 \in [Thirds -> Ones \cup {None, Gone}]
           /\ x3 \in [Thirds -> Pages!EventTeam \cup {None, Gone}]
           /\ x1 \in [Ones -> Pages!Page \cup {None, Gone}]
           /\ sent \in 0 .. MaxCalls
BY DEF Pages!Inv, Pages!TypeOK, Pages!FlightsOK

LEMMA PagesDeskNext ==
    ASSUME Pages!Inv,
           \/ \E e \in Ones : Pages!PageDesk(e) \/ Pages!NewTeam(e)
           \/ \E n \in Thirds : Pages!DeleteResult(n) \/ Pages!TeamDesk(n)
    PROVE  Pages!Inv'
<1> USE PagesRows DEF Pages!pageHistory, Pages!flights
<1>1. ASSUME NEW e \in Ones, Pages!DeletePage(e) PROVE Pages!Inv'
  <2>1. x2' \in [Thirds -> Ones \cup {None, Gone}] /\ x3' \in [Thirds -> Pages!EventTeam \cup {None, Gone}]
    BY <1>1 DEF Pages!DeletePage
  <2> QED
    BY <1>1, <2>1, PagesDesk DEF Pages!DeletePage
<1>2. ASSUME NEW e \in Ones, NEW n \in Thirds, Pages!AddResult(e, n) PROVE Pages!Inv'
  <2>1. x2' \in [Thirds -> Ones \cup {None, Gone}] /\ x3' = x3
    BY <1>2 DEF Pages!AddResult
  <2> QED
    BY <1>2, <2>1, PagesDesk DEF Pages!AddResult
<1>3. ASSUME NEW n \in Thirds, Pages!DeleteResult(n) PROVE Pages!Inv'
  <2>1. x2' \in [Thirds -> Ones \cup {None, Gone}] /\ x3' = x3
    BY <1>3 DEF Pages!DeleteResult
  <2> QED
    BY <1>3, <2>1, PagesDesk DEF Pages!DeleteResult
<1>4. ASSUME NEW e \in Ones, NEW n \in Thirds, NEW members \in SUBSET Others, Pages!CreateTeam(e, n, members)
      PROVE  Pages!Inv'
  <2>1. [event |-> e, members |-> members] \in Pages!EventTeam
    BY DEF Pages!EventTeam
  <2>2. x3' \in [Thirds -> Pages!EventTeam \cup {None, Gone}] /\ x2' = x2
    BY <1>4, <2>1 DEF Pages!CreateTeam
  <2> QED
    BY <1>4, <2>2, PagesDesk DEF Pages!CreateTeam
<1>5. ASSUME NEW n \in Thirds, NEW members \in SUBSET Others, Pages!UpdateTeam(n, members)
      PROVE  Pages!Inv'
  <2>1. PICK row : row = [x3[n] EXCEPT !.members = members]
    OBVIOUS
  <2>2. x3[n] \in Pages!EventTeam
    BY <1>5 DEF Pages!UpdateTeam, Pages!Exists
  <2>3. row \in Pages!EventTeam
    BY <2>1, <2>2 DEF Pages!EventTeam
  <2>4. x3' = [x3 EXCEPT ![n] = row] /\ x2' = x2
    BY <1>5, <2>1 DEF Pages!UpdateTeam
  <2>5. x3' \in [Thirds -> Pages!EventTeam \cup {None, Gone}]
    BY <2>3, <2>4
  <2> QED
    BY <1>5, <2>4, <2>5, PagesDesk DEF Pages!UpdateTeam
<1>6. ASSUME NEW n \in Thirds, Pages!DeleteTeam(n) PROVE Pages!Inv'
  <2>1. x3' \in [Thirds -> Pages!EventTeam \cup {None, Gone}] /\ x2' = x2
    BY <1>6 DEF Pages!DeleteTeam
  <2> QED
    BY <1>6, <2>1, PagesDesk DEF Pages!DeleteTeam
<1> QED
  BY <1>1, <1>2, <1>3, <1>4, <1>5, <1>6 DEF Pages!PageDesk, Pages!NewTeam, Pages!TeamDesk

\* An event is entered, and announced in the background or not.
LEMMA PagesCreate ==
    ASSUME Pages!Inv, NEW w \in Workers, NEW e \in Ones, NEW b \in BOOLEAN, Pages!CreatePage(w, e, b)
    PROVE  Pages!Inv'
<1>1. PICK row : row = [photos |-> {}, announced |-> b]
  OBVIOUS
<1>2. row \in Pages!Page /\ row.announced = b /\ row.photos = {}
  BY <1>1 DEF Pages!Page
<1>3. /\ x1[e] = None /\ x1' = [x1 EXCEPT ![e] = row]
      /\ x2' = x2 /\ x3' = x3 /\ x4' = x4 /\ x5' = x5 /\ x6' = x6 /\ x7' = x7 /\ x8' = x8
  BY <1>1 DEF Pages!CreatePage, Pages!pageHistory
<1>4. /\ x1' \in [Ones -> Pages!Page \cup {None, Gone}]
      /\ \A d \in Ones \ {e} : x1'[d] = x1[d]
      /\ x1'[e] = row
  BY <1>2, <1>3, PagesRows
<1>5. \A d \in Ones : x1[d] # None => x1'[d] # None
  BY <1>2, <1>3, <1>4
<1>6. ASSUME NEW v \in Workers, pc'[v] = pc[v], req'[v] = req[v] PROVE Pages!Sound(v)'
  <2>1. \A d \in Ones : pc[v] \in {"uploading", "adding"} /\ req[v].event = d => d # e
    BY <1>3 DEF Pages!Inv, Pages!Sound
  <2>2. \A d \in Ones : Pages!Exists(x1'[d]) /\ pc[v] \in {"uploading", "adding"} /\ req[v].event = d =>
               Pages!Exists(x1[d]) /\ x1'[d].photos = x1[d].photos /\ (d \in x7 => d \in x7')
    BY <1>3, <1>4, <2>1
  <2> QED
    BY <1>3, <1>5, <1>6, <2>2, PagesOther
<1>7. PICK M \in SUBSET Workers :
         /\ Pages!FlightsOK' /\ \A v \in Workers \ M : pc'[v] = pc[v] /\ req'[v] = req[v]
         /\ \A v \in M : pc[v] = "idle" /\ Pages!Sound(v)'
         /\ b => \E v \in M : pc'[v] = "announcing" /\ req'[v].about = e
  <2>1. CASE b
    <3>1. PICK r : r = [op |-> "announce", about |-> e, to |-> Others]
      OBVIOUS
    <3>2. /\ pc[w] = "idle" /\ Pages!At(w, r, "announcing") /\ r # Pages!NoRequest
          /\ sent < MaxCalls /\ sent' = sent + 1
      BY <2>1, <3>1 DEF Pages!CreatePage, Pages!Begin, Pages!NoRequest
    <3>3. sent' \in 0 .. MaxCalls
      BY <3>2, PagesRows, PagesConstants
    <3>4. /\ Pages!FlightsOK' /\ pc'[w] = "announcing" /\ req'[w] = r
          /\ \A v \in Workers \ {w} : pc'[v] = pc[v] /\ req'[v] = req[v]
      BY <3>2, <3>3, PagesMove
    <3>5. Pages!Sound(w)'
      BY <3>1, <3>4 DEF Pages!Sound
    <3>6. PICK M \in SUBSET Workers : M = {w}
      OBVIOUS
    <3>7. /\ \A v \in Workers \ M : pc'[v] = pc[v] /\ req'[v] = req[v]
          /\ \A v \in M : pc[v] = "idle" /\ Pages!Sound(v)'
          /\ \E v \in M : pc'[v] = "announcing" /\ req'[v].about = e
      BY <3>1, <3>2, <3>4, <3>5, <3>6
    <3> QED
      BY <3>4, <3>7
  <2>2. CASE ~b
    <3>1. UNCHANGED <<pc, req, sent>>
      BY <2>2 DEF Pages!CreatePage, Pages!flights
    <3>2. Pages!FlightsOK'
      BY <3>1 DEF Pages!Inv, Pages!TypeOK, Pages!FlightsOK
    <3>3. PICK M \in SUBSET Workers : M = {}
      OBVIOUS
    <3> QED
      BY <2>2, <3>1, <3>2, <3>3
  <2> QED
    BY <2>1, <2>2
<1>8. Pages!TypeOK'
  BY <1>3, <1>4, <1>7 DEF Pages!Inv, Pages!TypeOK
<1>9. Pages!GalleryKept' /\ Pages!EverybodyTold' /\ \A a \in x6' : x1'[a[1]] # None
  <2>1. \A d \in Ones : Pages!Exists(x1'[d]) =>
               \/ Pages!Exists(x1[d]) /\ x1'[d] = x1[d]
               \/ /\ x1[d] = None
                  /\ x1'[d].announced => \E v \in M : pc'[v] = "announcing" /\ req'[v].about = d
    BY <1>2, <1>3, <1>4, <1>7
  <2>2. \A v \in M : pc[v] # "announcing"
    BY <1>7
  <2>3. x4 \subseteq x4' /\ x8 \subseteq x8' /\ x6' = x6 /\ x7' = x7
    BY <1>3
  <2> QED
    BY <1>5, <1>7, <2>1, <2>2, <2>3, PagesKept
<1>10. \A v \in Workers : Pages!Sound(v)'
  BY <1>6, <1>7
<1> QED
  BY <1>8, <1>9, <1>10 DEF Pages!Inv

\* A request that moves, with no page changed.
LEMMA PagesMoves ==
    ASSUME Pages!Inv, NEW w \in Workers, Pages!FlightsOK', Pages!Sound(w)',
           \A v \in Workers \ {w} : pc'[v] = pc[v] /\ req'[v] = req[v],
           x1' = x1, x2' = x2, x3' = x3, x6' = x6, x7' = x7,
           x4 \subseteq x4', x4' \subseteq Ones \X Others, x5' \subseteq Rows,
           x8 \subseteq x8', x8' \subseteq Ones,
           pc[w] = "announcing" =>
               \/ {req[w].about} \X Others \subseteq x4'
               \/ req[w].about \in x8'
               \/ pc'[w] = "announcing" /\ req'[w].about = req[w].about
    PROVE  Pages!Inv'
<1>1. Pages!TypeOK'
  BY DEF Pages!Inv, Pages!TypeOK
<1>2. PICK M \in SUBSET Workers : M = {w}
  OBVIOUS
<1>3. Pages!GalleryKept' /\ Pages!EverybodyTold' /\ \A a \in x6' : x1'[a[1]] # None
  <2>1. \A v \in M : pc[v] = "announcing" =>
               \/ {req[v].about} \X Others \subseteq x4'
               \/ req[v].about \in x8'
               \/ pc'[v] = "announcing" /\ req'[v].about = req[v].about
    BY <1>2
  <2>2. \A e \in Ones : /\ x1[e] # None => x1'[e] # None
                        /\ Pages!Exists(x1'[e]) => Pages!Exists(x1[e]) /\ x1'[e] = x1[e]
    OBVIOUS
  <2> QED
    BY <1>2, <2>1, <2>2, PagesKept
<1>4. ASSUME NEW v \in Workers, v # w PROVE Pages!Sound(v)'
  BY <1>4, PagesOther
<1> QED
  BY <1>1, <1>3, <1>4 DEF Pages!Inv

\* The file of a request is put behind the list that it has read.
LEMMA PagesAdd ==
    ASSUME Pages!Inv, NEW w \in Workers, Pages!AddEventPhoto(w)
    PROVE  Pages!Inv'
<1>1. PICK r : r = req[w]
  OBVIOUS
<1>2. PICK e \in Ones : /\ e = r.event /\ Pages!Exists(x1[e]) /\ r.file \in Rows /\ r.read \subseteq Rows
                        /\ e \in x7 \/ r.read = x1[e].photos
  BY <1>1 DEF Pages!AddEventPhoto, Pages!Inv, Pages!Sound
<1>3. PICK f \in Rows : f = r.file
  BY <1>2
<1>4. PICK row : row = [x1[e] EXCEPT !.photos = r.read \cup {f}]
  OBVIOUS
<1>5. /\ pc[w] = "adding" /\ x1' = [x1 EXCEPT ![e] = row] /\ x6' = x6 \cup {<<e, f>>}
      /\ x7' = IF Pages!Alongside(w, "event", e) THEN x7 \cup {e} ELSE x7
      /\ Pages!Return(w) /\ x2' = x2 /\ x3' = x3 /\ x4' = x4 /\ x5' = x5 /\ x8' = x8
  BY <1>1, <1>2, <1>3, <1>4 DEF Pages!AddEventPhoto
<1>6. row \in Pages!Page /\ row.photos = r.read \cup {f} /\ row.announced = x1[e].announced
  <2>1. x1[e] \in Pages!Page
    BY <1>2, PagesRows DEF Pages!Exists
  <2> QED
    BY <1>2, <1>4, <2>1 DEF Pages!Page
<1>7. /\ x1' \in [Ones -> Pages!Page \cup {None, Gone}]
      /\ \A d \in Ones \ {e} : x1'[d] = x1[d]
      /\ x1'[e] = row
  BY <1>5, <1>6, PagesRows
<1>8. /\ Pages!FlightsOK' /\ pc'[w] = "idle" /\ Pages!Sound(w)'
      /\ \A v \in Workers \ {w} : pc'[v] = pc[v] /\ req'[v] = req[v]
  BY <1>5, PagesEnd
<1>9. x7 \subseteq x7' /\ x7' \subseteq Ones
  BY <1>5 DEF Pages!Inv, Pages!TypeOK
<1>10. Pages!TypeOK'
  <2>1. x6' \subseteq Ones \X Rows
    BY <1>5 DEF Pages!Inv, Pages!TypeOK
  <2> QED
    BY <1>5, <1>7, <1>8, <1>9, <2>1 DEF Pages!Inv, Pages!TypeOK
<1>11. ASSUME NEW a \in x6'
       PROVE  /\ x1'[a[1]] # None
              /\ Pages!Exists(x1'[a[1]]) => a[2] \in x1'[a[1]].photos \/ a[1] \in x7'
  <2>1. CASE a = <<e, f>>
    BY <1>6, <1>7, <2>1, PagesConstants
  <2>2. CASE a \in x6
    <3>1. a[1] \in Ones /\ x1[a[1]] # None
      BY <2>2 DEF Pages!Inv, Pages!TypeOK
    <3>2. Pages!Exists(x1[a[1]]) => a[2] \in x1[a[1]].photos \/ a[1] \in x7
      BY <2>2 DEF Pages!Inv, Pages!GalleryKept
    <3>3. CASE a[1] = e
      BY <1>2, <1>6, <1>7, <1>9, <3>2, <3>3, PagesConstants
    <3>4. CASE a[1] # e
      BY <1>7, <1>9, <3>1, <3>2, <3>4
    <3> QED
      BY <3>3, <3>4
  <2> QED
    BY <1>5, <2>1, <2>2
<1>12. Pages!GalleryKept'
  BY <1>11 DEF Pages!GalleryKept
<1>13. Pages!EverybodyTold'
  <2> SUFFICES ASSUME NEW d \in Ones, Pages!Exists(x1'[d]), x1'[d].announced
               PROVE  \/ {d} \X Others \subseteq x4'
                      \/ d \in x8'
                      \/ \E v \in Workers : pc'[v] = "announcing" /\ req'[v].about = d
    BY DEF Pages!EverybodyTold
  <2>1. Pages!Exists(x1[d]) /\ x1[d].announced
    BY <1>2, <1>6, <1>7
  <2>2. \/ {d} \X Others \subseteq x4
        \/ d \in x8
        \/ \E v \in Workers : pc[v] = "announcing" /\ req[v].about = d
    BY <2>1 DEF Pages!Inv, Pages!EverybodyTold
  <2>3. \A v \in Workers : pc[v] = "announcing" => v # w
    BY <1>5
  <2> QED
    BY <1>5, <1>8, <2>2, <2>3
<1>14. ASSUME NEW v \in Workers, v # w PROVE Pages!Sound(v)'
  <2>1. ASSUME pc[v] \in {"uploading", "adding"}, req[v].event = e PROVE e \in x7'
    <3>1. req[v] = [op |-> "photo", event |-> e, read |-> req[v].read, file |-> req[v].file]
      BY <2>1 DEF Pages!Inv, Pages!Sound
    <3>2. "event" \in DOMAIN req[v] /\ req[v]["event"] = e
      BY <3>1
    <3>3. Pages!Alongside(w, "event", e)
      BY <1>14, <3>2 DEF Pages!Alongside
    <3> QED
      BY <1>5, <3>3
  <2>2. \A d \in Ones : Pages!Exists(x1'[d]) /\ pc[v] \in {"uploading", "adding"} /\ req[v].event = d =>
               d \in x7' \/ (Pages!Exists(x1[d]) /\ x1'[d].photos = x1[d].photos /\ (d \in x7 => d \in x7'))
    BY <1>7, <1>9, <2>1
  <2>3. \A d \in Ones : x1[d] # None => x1'[d] # None
    BY <1>6, <1>7, PagesConstants
  <2>4. x4 \subseteq x4' /\ pc'[v] = pc[v] /\ req'[v] = req[v]
    BY <1>5, <1>8, <1>14
  <2> QED
    BY <2>2, <2>3, <2>4, PagesOther
<1> QED
  BY <1>8, <1>10, <1>11, <1>12, <1>13, <1>14 DEF Pages!Inv

LEMMA PagesNext == Pages!Inv /\ Pages!Next => Pages!Inv'
<1> SUFFICES ASSUME Pages!Inv, Pages!Next PROVE Pages!Inv'
  OBVIOUS
<1> USE DEF Pages!pageTables, Pages!pageHistory
<1>0. x4 \subseteq Ones \X Others /\ x5 \subseteq Rows /\ x8 \subseteq Ones
  BY DEF Pages!Inv, Pages!TypeOK
<1>1. ASSUME NEW w \in Workers, NEW e \in Ones, Pages!UploadEventPhoto(w, e) PROVE Pages!Inv'
  <2>1. PICK r : r = [op |-> "photo", event |-> e, read |-> x1[e].photos, file |-> None]
    OBVIOUS
  <2>2. /\ Pages!Exists(x1[e]) /\ pc[w] = "idle" /\ Pages!At(w, r, "uploading") /\ r # Pages!NoRequest
        /\ sent < MaxCalls /\ sent' = sent + 1
        /\ x1' = x1 /\ x2' = x2 /\ x3' = x3 /\ x4' = x4 /\ x5' = x5 /\ x6' = x6 /\ x7' = x7 /\ x8' = x8
    BY <1>1, <2>1 DEF Pages!UploadEventPhoto, Pages!Begin, Pages!NoRequest
  <2>3. sent' \in 0 .. MaxCalls
    BY <2>2, PagesRows, PagesConstants
  <2>4. /\ Pages!FlightsOK' /\ pc'[w] = "uploading" /\ req'[w] = r
        /\ \A v \in Workers \ {w} : pc'[v] = pc[v] /\ req'[v] = req[v]
    BY <2>2, <2>3, PagesMove
  <2>5. x1[e].photos \subseteq Rows
    BY <2>2, PagesRows DEF Pages!Exists, Pages!Page
  <2>6. Pages!Sound(w)'
    BY <2>1, <2>2, <2>4, <2>5 DEF Pages!Sound, Pages!Exists
  <2> QED
    BY <1>0, <2>2, <2>4, <2>6, PagesMoves
<1>2. ASSUME NEW w \in Workers, Pages!Announce(w) PROVE Pages!Inv'
  <2>1. PICK r : r = req[w]
    OBVIOUS
  <2>2. PICK e \in Ones : /\ e = r.about /\ r = [op |-> "announce", about |-> e, to |-> r.to]
                          /\ r.to \subseteq Others /\ {e} \X (Others \ r.to) \subseteq x4
                          /\ pc[w] = "announcing"
    BY <1>2, <2>1 DEF Pages!Announce, Pages!Inv, Pages!Sound
  <2>3. /\ x1' = x1 /\ x2' = x2 /\ x3' = x3 /\ x5' = x5 /\ x6' = x6 /\ x7' = x7 /\ x8' = x8
    BY <1>2 DEF Pages!Announce
  <2>4. CASE r.to = {} /\ Pages!Return(w) /\ x4' = x4
    <3>1. /\ Pages!FlightsOK' /\ pc'[w] = "idle" /\ Pages!Sound(w)'
          /\ \A v \in Workers \ {w} : pc'[v] = pc[v] /\ req'[v] = req[v]
      BY <2>4, PagesEnd
    <3>2. {req[w].about} \X Others \subseteq x4'
      BY <2>1, <2>2, <2>4
    <3> QED
      BY <1>0, <2>3, <2>4, <3>1, <3>2, PagesMoves
  <2>5. ASSUME NEW m \in r.to, x4' = x4 \cup {<<e, m>>},
               Pages!Continue(w, [r EXCEPT !.to = @ \ {m}], "announcing")
        PROVE  Pages!Inv'
    <3>1. PICK rest : rest = r.to \ {m}
      OBVIOUS
    <3>2. PICK q : q = [op |-> "announce", about |-> e, to |-> rest]
      OBVIOUS
    <3>3. [r EXCEPT !.to = @ \ {m}] = q /\ q # Pages!NoRequest
      BY <2>2, <3>1, <3>2 DEF Pages!NoRequest
    <3>4. Pages!At(w, q, "announcing") /\ sent' \in 0 .. MaxCalls
      BY <2>5, <3>3, PagesRows DEF Pages!Continue
    <3>5. /\ Pages!FlightsOK' /\ pc'[w] = "announcing" /\ req'[w] = q
          /\ \A v \in Workers \ {w} : pc'[v] = pc[v] /\ req'[v] = req[v]
      BY <3>3, <3>4, PagesMove
    <3>6. rest \subseteq Others /\ {e} \X (Others \ rest) \subseteq x4'
      BY <2>2, <2>5, <3>1
    <3>7. Pages!Sound(w)'
      BY <3>2, <3>5, <3>6 DEF Pages!Sound
    <3>8. req'[w].about = req[w].about
      BY <2>1, <2>2, <3>2, <3>5
    <3>9. x4 \subseteq x4' /\ x4' \subseteq Ones \X Others
      BY <1>0, <2>2, <2>5
    <3> QED
      BY <1>0, <2>3, <3>5, <3>7, <3>8, <3>9, PagesMoves
  <2> QED
    BY <1>2, <2>1, <2>2, <2>4, <2>5 DEF Pages!Announce
<1>3. ASSUME NEW w \in Workers, Pages!StoreEventPhoto(w) PROVE Pages!Inv'
  <2>1. PICK r : r = req[w]
    OBVIOUS
  <2>2. PICK f \in x5 : /\ pc[w] = "uploading" /\ x5' = x5 \ {f}
                        /\ Pages!Continue(w, [r EXCEPT !.file = f], "adding")
                        /\ x1' = x1 /\ x2' = x2 /\ x3' = x3 /\ x4' = x4 /\ x6' = x6 /\ x7' = x7 /\ x8' = x8
    BY <1>3, <2>1 DEF Pages!StoreEventPhoto
  <2>3. /\ r = [op |-> "photo", event |-> r.event, read |-> r.read, file |-> r.file]
        /\ r.event \in Ones /\ x1[r.event] # None /\ r.read \subseteq Rows
        /\ Pages!Exists(x1[r.event]) => r.event \in x7 \/ r.read = x1[r.event].photos
    BY <2>1, <2>2 DEF Pages!Inv, Pages!Sound
  <2>4. PICK q : q = [op |-> "photo", event |-> r.event, read |-> r.read, file |-> f]
    OBVIOUS
  <2>5. [r EXCEPT !.file = f] = q /\ q # Pages!NoRequest
    BY <2>3, <2>4 DEF Pages!NoRequest
  <2>6. Pages!At(w, q, "adding") /\ sent' \in 0 .. MaxCalls
    BY <2>2, <2>5, PagesRows DEF Pages!Continue
  <2>7. /\ Pages!FlightsOK' /\ pc'[w] = "adding" /\ req'[w] = q
        /\ \A v \in Workers \ {w} : pc'[v] = pc[v] /\ req'[v] = req[v]
    BY <2>5, <2>6, PagesMove
  <2>8. q.event = r.event /\ q.read = r.read /\ q.file = f /\ f \in Rows
    BY <1>0, <2>4
  <2>9. Pages!Sound(w)'
    BY <2>2, <2>3, <2>4, <2>7, <2>8 DEF Pages!Sound
  <2>10. x5' \subseteq Rows
    BY <1>0, <2>2
  <2> QED
    BY <1>0, <2>2, <2>7, <2>9, <2>10, PagesMoves
<1>4. ASSUME NEW w \in Workers, Pages!Return(w),
             x1' = x1, x2' = x2, x3' = x3, x4' = x4, x5' = x5, x6' = x6, x7' = x7,
             x8 \subseteq x8', x8' \subseteq Ones,
             pc[w] = "announcing" => req[w].about \in x8'
      PROVE  Pages!Inv'
  <2>1. /\ Pages!FlightsOK' /\ pc'[w] = "idle" /\ Pages!Sound(w)'
        /\ \A v \in Workers \ {w} : pc'[v] = pc[v] /\ req'[v] = req[v]
    BY <1>4, PagesEnd
  <2> QED
    BY <1>0, <1>4, <2>1, PagesMoves
<1>5. ASSUME NEW w \in Workers, Pages!RefuseEventPhoto(w) \/ Pages!PageIsGone(w) PROVE Pages!Inv'
  <2>1. /\ Pages!Return(w) /\ pc[w] # "announcing"
        /\ x1' = x1 /\ x2' = x2 /\ x3' = x3 /\ x4' = x4 /\ x5' = x5 /\ x6' = x6 /\ x7' = x7 /\ x8' = x8
    BY <1>5 DEF Pages!RefuseEventPhoto, Pages!PageIsGone
  <2> QED
    BY <1>0, <1>4, <2>1
<1>6. ASSUME NEW w \in Workers, Pages!AbortPage(w) PROVE Pages!Inv'
  <2>1. /\ Pages!Return(w)
        /\ x1' = x1 /\ x2' = x2 /\ x3' = x3 /\ x4' = x4 /\ x5' = x5 /\ x6' = x6 /\ x7' = x7
        /\ x8' = IF pc[w] = "announcing" THEN x8 \cup {req[w].about} ELSE x8
    BY <1>6 DEF Pages!AbortPage, Pages!Die
  <2>2. pc[w] = "announcing" => req[w].about \in Ones
    BY DEF Pages!Inv, Pages!Sound
  <2>3. x8 \subseteq x8' /\ x8' \subseteq Ones /\ (pc[w] = "announcing" => req[w].about \in x8')
    BY <1>0, <2>1, <2>2
  <2> QED
    BY <1>4, <2>1, <2>3
<1> QED
  BY <1>1, <1>2, <1>3, <1>5, <1>6, PagesCreate, PagesAdd, PagesDeskNext
     DEF Pages!Next, Pages!PageRequest, Pages!ServePage

LEMMA PagesStays == Pages!Inv /\ UNCHANGED <<x1, x2, x3, x4, x5, x6, x7, x8, pc, req, sent>> => Pages!Inv'
BY PagesRows, PagesDesk

------------------------------------------------------------------------------
\* Events

LEMMA ParishConstants ==
    /\ MaxCalls \in Nat
    /\ None # Gone /\ None \notin EventDates
    /\ None \notin Parish!Event /\ Gone \notin Parish!Event
    /\ None \notin Parish!EventParticipant /\ Gone \notin Parish!EventParticipant
BY MoreServicesAssumption

LEMMA ParishInit == Parish!Init => Parish!Inv
BY ParishConstants
   DEF Parish!Init, Parish!InitFlights, Parish!NoRequest, Parish!Exists, Parish!Inv, Parish!TypeOK,
       Parish!FlightsOK, Parish!DatesInOrder, Parish!InvitedOnce, Parish!EventsAreWhole,
       Parish!CreationGoesOn, Parish!Sound

LEMMA ParishRows ==
    ASSUME Parish!Inv
    PROVE  /\ x1 \in [Ones -> Parish!Event \cup {None, Gone}]
           /\ x2 \in [Rows -> Parish!EventParticipant \cup {None, Gone}]
           /\ x3 \in [Ones -> SUBSET (Others \cup {Elsewhere})]
           /\ x4 \subseteq Ones /\ x6 \subseteq Ones /\ x5 \subseteq Ones \X Others
           /\ sent \in 0 .. MaxCalls
BY DEF Parish!Inv, Parish!TypeOK, Parish!FlightsOK

\* A request that moves.
LEMMA ParishMove ==
    ASSUME Parish!Inv, NEW w \in Workers, NEW r, NEW place,
           Parish!At(w, r, place), place = "idle" <=> r = Parish!NoRequest,
           sent' \in 0 .. MaxCalls
    PROVE  /\ Parish!FlightsOK' /\ pc'[w] = place /\ req'[w] = r
           /\ \A v \in Workers \ {w} : pc'[v] = pc[v] /\ req'[v] = req[v]
BY DEF Parish!Inv, Parish!TypeOK, Parish!FlightsOK, Parish!At

LEMMA ParishEnd ==
    ASSUME Parish!Inv, NEW w \in Workers, Parish!Return(w)
    PROVE  /\ Parish!FlightsOK' /\ pc'[w] = "idle" /\ Parish!Sound(w)'
           /\ \A v \in Workers \ {w} : pc'[v] = pc[v] /\ req'[v] = req[v]
<1>1. Parish!At(w, Parish!NoRequest, "idle") /\ sent' \in 0 .. MaxCalls
  BY DEF Parish!Return, Parish!Continue, Parish!Inv, Parish!TypeOK, Parish!FlightsOK
<1> QED
  BY <1>1, ParishMove DEF Parish!Sound

LEMMA ParishGuest ==
    ASSUME Parish!Inv, NEW p \in Rows
    PROVE  /\ Parish!Exists(x2[p]) <=> x2[p] \in Parish!EventParticipant
           /\ Parish!Exists(x2[p]) => x2[p].event \in Ones /\ x2[p].user \in Others
BY ParishConstants DEF Parish!Inv, Parish!TypeOK, Parish!Exists, Parish!EventParticipant

\* Who is invited to an event.
LEMMA ParishInvited ==
    ASSUME NEW e, NEW u
    PROVE  u \in Parish!Invited(e) <=>
               \E p \in Rows : Parish!Exists(x2[p]) /\ x2[p].event = e /\ x2[p].user = u
BY DEF Parish!Invited, Parish!GuestsOf

LEMMA ParishInvitedThen ==
    ASSUME NEW e, NEW u
    PROVE  u \in Parish!Invited(e)' <=>
               \E p \in Rows : Parish!Exists(x2'[p]) /\ x2'[p].event = e /\ x2'[p].user = u
BY DEF Parish!Invited, Parish!GuestsOf, Parish!Exists

\* Whom an event still lacks, when those who are taken off are noted.
LEMMA ParishAwaited ==
    ASSUME NEW e, x3'[e] = x3[e], x5 \subseteq x5',
           \A u \in Parish!Invited(e) : u \in Parish!Invited(e)' \/ <<e, u>> \in x5'
    PROVE  Parish!Awaited(e)' \subseteq Parish!Awaited(e)
BY DEF Parish!Awaited

\* Another request: nobody is added to its event, or they have met on it.
LEMMA ParishOther ==
    ASSUME Parish!Inv, NEW v \in Workers, pc'[v] = pc[v], req'[v] = req[v], x6 \subseteq x6',
           \A e \in Ones : x1[e] # None => x1'[e] # None,
           \A e \in Ones : x1[e] # None /\ Parish!Exists(x1'[e]) =>
               Parish!Exists(x1[e]) /\ Parish!Awaited(e)' \subseteq Parish!Awaited(e),
           \A e \in Ones : pc[v] \in {"adding", "inserting"} /\ req[v].event = e =>
               Parish!Invited(e)' \subseteq Parish!Invited(e) \/ e \in x6',
           \A e \in Ones : pc[v] = "changing" /\ req[v].event = e /\ Parish!Exists(x1'[e]) =>
               x1'[e] = x1[e] \/ e \in x6'
    PROVE  Parish!Sound(v)'
<1>0. Parish!Sound(v)
  BY DEF Parish!Inv
<1>1. CASE pc[v] = "idle"
  BY <1>1 DEF Parish!Sound
<1>2. CASE pc[v] \in {"adding", "inserting"}
  <2>1. PICK r : r = req[v]
    OBVIOUS
  <2>2. PICK e \in Ones : e = r.event
    BY <1>0, <1>2, <2>1 DEF Parish!Sound
  <2>3. /\ r = [op |-> r.op, event |-> r.event, left |-> r.left]
        /\ r.op \in {"create", "add"} /\ x1[e] # None
        /\ r.left \in Seq(Others \cup {Elsewhere})
        /\ r.op = "create" /\ Parish!Exists(x1[e]) =>
              \A u \in Parish!Awaited(e) : \E i \in 1 .. Len(r.left) : r.left[i] = u
        /\ pc[v] = "inserting" => /\ r.left # <<>> /\ Head(r.left) # Elsewhere
                                  /\ Head(r.left) \notin Parish!Invited(e) \/ e \in x6
    BY <1>0, <1>2, <2>1, <2>2 DEF Parish!Sound
  <2>4. /\ x1'[e] # None
        /\ Parish!Exists(x1'[e]) =>
              Parish!Exists(x1[e]) /\ Parish!Awaited(e)' \subseteq Parish!Awaited(e)
        /\ Parish!Invited(e)' \subseteq Parish!Invited(e) \/ e \in x6'
    BY <1>2, <2>1, <2>2, <2>3
  <2>5. PICK head : head = Head(r.left)
    OBVIOUS
  <2>6. /\ r.op = "create" /\ Parish!Exists(x1'[e]) =>
              \A u \in Parish!Awaited(e)' : \E i \in 1 .. Len(r.left) : r.left[i] = u
        /\ pc[v] = "inserting" => head \notin Parish!Invited(e)' \/ e \in x6'
    BY <2>3, <2>4, <2>5
  <2>7. req'[v] = r /\ pc'[v] = pc[v]
    BY <2>1
  <2> QED
    BY <1>2, <2>2, <2>3, <2>4, <2>5, <2>6, <2>7 DEF Parish!Sound
<1>3. CASE pc[v] = "changing"
  <2>1. PICK r : r = req[v]
    OBVIOUS
  <2>2. PICK e \in Ones : e = r.event
    BY <1>0, <1>3, <2>1 DEF Parish!Sound
  <2>3. /\ r = [op |-> "update", event |-> r.event, read |-> r.read, new |-> r.new]
        /\ x1[e] # None /\ r.read \in Parish!Event
        /\ r.new \in Parish!Event /\ r.new.start < r.new.end
        /\ Parish!Exists(x1[e]) => e \in x6 \/ r.read = x1[e]
    BY <1>0, <1>3, <2>1, <2>2 DEF Parish!Sound
  <2>4. x1'[e] # None /\ (Parish!Exists(x1'[e]) => e \in x6' \/ r.read = x1'[e])
    BY <1>3, <2>1, <2>2, <2>3
  <2>5. req'[v] = r /\ pc'[v] = pc[v]
    BY <2>1
  <2> QED
    BY <1>3, <2>2, <2>3, <2>4, <2>5 DEF Parish!Sound
<1>4. CASE pc[v] = "marking"
  <2>1. PICK r : r = req[v]
    OBVIOUS
  <2>2. /\ r = [op |-> "mark", place |-> r.place, status |-> r.status]
        /\ r.place \in Rows /\ r.status \in Parish!ParticipantStatus
    BY <1>0, <1>4, <2>1 DEF Parish!Sound
  <2>3. req'[v] = r /\ pc'[v] = "marking"
    BY <1>4, <2>1
  <2> QED
    BY <2>2, <2>3 DEF Parish!Sound
<1> QED
  BY <1>0, <1>1, <1>2, <1>3, <1>4 DEF Parish!Sound

\* A creation that goes on accounts for whom its event lacks.
LEMMA ParishWhole ==
    ASSUME Parish!CreationGoesOn' PROVE Parish!EventsAreWhole'
BY DEF Parish!CreationGoesOn, Parish!EventsAreWhole, Parish!Awaited

\* A step of the requests of M, or of none.
LEMMA ParishKept ==
    ASSUME Parish!Inv, NEW M \in SUBSET Workers, Parish!FlightsOK',
           \A v \in Workers \ M : pc'[v] = pc[v] /\ req'[v] = req[v],
           \A w \in M : Parish!Sound(w)',
           x1' \in [Ones -> Parish!Event \cup {None, Gone}],
           x2' \in [Rows -> Parish!EventParticipant \cup {None, Gone}],
           x3' \in [Ones -> SUBSET (Others \cup {Elsewhere})],
           x4' \subseteq Ones, x6' \subseteq Ones, x5' \subseteq Ones \X Others,
           x4 \subseteq x4', x6 \subseteq x6',
           \A e \in Ones : x1[e] # None => x1'[e] # None,
           \A e \in Ones : Parish!Exists(x1'[e]) =>
               \/ /\ Parish!Exists(x1[e]) /\ Parish!Awaited(e)' \subseteq Parish!Awaited(e)
                  /\ x1'[e] = x1[e] \/ x1'[e].start < x1'[e].end \/ e \in x6'
               \/ /\ x1[e] = None /\ x1'[e].start < x1'[e].end
                  /\ \E w \in M : /\ pc'[w] \in {"adding", "inserting"}
                                  /\ req'[w].op = "create" /\ req'[w].event = e,
           \A e \in Ones : \A w \in M :
               (pc[w] \in {"adding", "inserting"} /\ req[w].op = "create" /\ req[w].event = e
                /\ Parish!Exists(x1'[e])) =>
                   \/ Parish!Awaited(e)' = {} \/ e \in x4'
                   \/ /\ pc'[w] \in {"adding", "inserting"}
                      /\ req'[w].op = "create" /\ req'[w].event = e,
           Parish!InvitedOnce',
           \A e \in Ones : \A v \in Workers \ M :
               pc[v] \in {"adding", "inserting"} /\ req[v].event = e =>
               Parish!Invited(e)' \subseteq Parish!Invited(e) \/ e \in x6',
           \A e \in Ones : \A v \in Workers \ M :
               pc[v] = "changing" /\ req[v].event = e /\ Parish!Exists(x1'[e]) =>
               x1'[e] = x1[e] \/ e \in x6'
    PROVE  Parish!Inv'
<1>1. Parish!TypeOK'
  BY DEF Parish!TypeOK
<1>2. Parish!DatesInOrder'
  <2> SUFFICES ASSUME NEW e \in Ones, Parish!Exists(x1'[e])
               PROVE  x1'[e].start < x1'[e].end \/ e \in x6'
    BY DEF Parish!DatesInOrder
  <2>1. Parish!Exists(x1[e]) => x1[e].start < x1[e].end \/ e \in x6
    BY DEF Parish!Inv, Parish!DatesInOrder
  <2> QED
    BY <2>1
<1>3. Parish!CreationGoesOn'
  <2> SUFFICES ASSUME NEW e \in Ones, Parish!Exists(x1'[e])
               PROVE  \/ Parish!Awaited(e)' = {} \/ e \in x4'
                      \/ \E w \in Workers : /\ pc'[w] \in {"adding", "inserting"}
                                            /\ req'[w].op = "create" /\ req'[w].event = e
    BY DEF Parish!CreationGoesOn
  <2>1. CASE \E w \in M : /\ pc'[w] \in {"adding", "inserting"}
                          /\ req'[w].op = "create" /\ req'[w].event = e
    BY <2>1
  <2>2. CASE Parish!Exists(x1[e]) /\ Parish!Awaited(e)' \subseteq Parish!Awaited(e)
    <3>1. \/ Parish!Awaited(e) = {} \/ e \in x4
          \/ \E w \in Workers : /\ pc[w] \in {"adding", "inserting"}
                                /\ req[w].op = "create" /\ req[w].event = e
      BY <2>2 DEF Parish!Inv, Parish!CreationGoesOn
    <3>2. CASE Parish!Awaited(e) = {} \/ e \in x4
      BY <2>2, <3>2
    <3>3. ASSUME NEW w \in Workers, pc[w] \in {"adding", "inserting"},
                 req[w].op = "create", req[w].event = e
          PROVE  \/ Parish!Awaited(e)' = {} \/ e \in x4'
                 \/ \E v \in Workers : /\ pc'[v] \in {"adding", "inserting"}
                                       /\ req'[v].op = "create" /\ req'[v].event = e
      <4>1. CASE w \in M
        <5>1. \/ Parish!Awaited(e)' = {} \/ e \in x4'
              \/ /\ pc'[w] \in {"adding", "inserting"}
                 /\ req'[w].op = "create" /\ req'[w].event = e
          <6>0. \A v \in M : (pc[v] \in {"adding", "inserting"} /\ req[v].op = "create" /\ req[v].event = e
                   /\ Parish!Exists(x1'[e])) =>
                      \/ Parish!Awaited(e)' = {} \/ e \in x4'
                      \/ /\ pc'[v] \in {"adding", "inserting"}
                         /\ req'[v].op = "create" /\ req'[v].event = e
            OBVIOUS
          <6>1. PICK u \in M : u = w
            BY <4>1
          <6>2. /\ pc[u] \in {"adding", "inserting"} /\ req[u].op = "create" /\ req[u].event = e
                /\ Parish!Exists(x1'[e])
            BY <3>3, <6>1
          <6>3. \/ Parish!Awaited(e)' = {} \/ e \in x4'
                \/ /\ pc'[u] \in {"adding", "inserting"}
                   /\ req'[u].op = "create" /\ req'[u].event = e
            BY <6>0, <6>2
          <6> QED
            BY <6>1, <6>3
        <5> QED
          BY <5>1
      <4>2. CASE w \notin M
        BY <3>3, <4>2
      <4> QED
        BY <4>1, <4>2
    <3> QED
      BY <3>1, <3>2, <3>3
  <2> QED
    BY <2>1, <2>2
<1>4. ASSUME NEW v \in Workers PROVE Parish!Sound(v)'
  <2>1. CASE v \in M
    BY <2>1
  <2>2. CASE v \notin M
    <3>1. \A e \in Ones : x1[e] # None /\ Parish!Exists(x1'[e]) =>
             Parish!Exists(x1[e]) /\ Parish!Awaited(e)' \subseteq Parish!Awaited(e)
      OBVIOUS
    <3>2. \A e \in Ones : pc[v] \in {"adding", "inserting"} /\ req[v].event = e =>
             Parish!Invited(e)' \subseteq Parish!Invited(e) \/ e \in x6'
      BY <2>2
    <3>3. \A e \in Ones : pc[v] = "changing" /\ req[v].event = e /\ Parish!Exists(x1'[e]) =>
             x1'[e] = x1[e] \/ e \in x6'
      BY <2>2
    <3>4. pc'[v] = pc[v] /\ req'[v] = req[v]
      BY <2>2
    <3> QED
      BY <3>1, <3>2, <3>3, <3>4, ParishOther
  <2> QED
    BY <2>1, <2>2
<1> QED
  BY <1>1, <1>2, <1>3, <1>4, ParishWhole DEF Parish!Inv

\* Nobody is invited twice by a step that adds nobody.
LEMMA ParishOnce ==
    ASSUME Parish!Inv, x6 \subseteq x6',
           \A p \in Rows : Parish!Exists(x2'[p]) =>
               Parish!Exists(x2[p]) /\ x2'[p].event = x2[p].event /\ x2'[p].user = x2[p].user
    PROVE  Parish!InvitedOnce' /\ \A e \in Ones : Parish!Invited(e)' \subseteq Parish!Invited(e)
<1>1. Parish!InvitedOnce'
  BY DEF Parish!Inv, Parish!InvitedOnce
<1>2. ASSUME NEW e \in Ones, NEW u \in Parish!Invited(e)' PROVE u \in Parish!Invited(e)
  <2>1. PICK p \in Rows : Parish!Exists(x2'[p]) /\ x2'[p].event = e /\ x2'[p].user = u
    BY <1>2, ParishInvitedThen
  <2> QED
    BY <2>1, ParishInvited
<1> QED
  BY <1>1, <1>2

\* A step that changes no row of an event or of a participant.
LEMMA ParishSteady ==
    ASSUME Parish!Inv, NEW M \in SUBSET Workers, Parish!FlightsOK',
           \A v \in Workers \ M : pc'[v] = pc[v] /\ req'[v] = req[v],
           \A w \in M : Parish!Sound(w)',
           x1' = x1, x2' = x2, x3' = x3, x5' = x5, x6' = x6, x4 \subseteq x4', x4' \subseteq Ones,
           \A e \in Ones : \A w \in M :
               (pc[w] \in {"adding", "inserting"} /\ req[w].op = "create" /\ req[w].event = e
                /\ Parish!Exists(x1[e])) =>
                   \/ Parish!Awaited(e) = {} \/ e \in x4'
                   \/ /\ pc'[w] \in {"adding", "inserting"}
                      /\ req'[w].op = "create" /\ req'[w].event = e
    PROVE  Parish!Inv'
<1>1. \A e \in Ones : Parish!Awaited(e)' = Parish!Awaited(e) /\ Parish!Invited(e)' = Parish!Invited(e)
  BY DEF Parish!Awaited, Parish!Invited, Parish!GuestsOf, Parish!Exists
<1>2. Parish!InvitedOnce'
  BY DEF Parish!Inv, Parish!InvitedOnce
<1>3. \A e \in Ones : \A w \in M :
         (pc[w] \in {"adding", "inserting"} /\ req[w].op = "create" /\ req[w].event = e
          /\ Parish!Exists(x1'[e])) =>
             \/ Parish!Awaited(e)' = {} \/ e \in x4'
             \/ /\ pc'[w] \in {"adding", "inserting"}
                /\ req'[w].op = "create" /\ req'[w].event = e
  BY <1>1
<1>4. /\ x1' \in [Ones -> Parish!Event \cup {None, Gone}]
      /\ x2' \in [Rows -> Parish!EventParticipant \cup {None, Gone}]
      /\ x3' \in [Ones -> SUBSET (Others \cup {Elsewhere})]
      /\ x6' \subseteq Ones /\ x5' \subseteq Ones \X Others /\ x6 \subseteq x6'
      /\ \A e \in Ones : x1[e] # None => x1'[e] # None
  BY ParishRows
<1>5. \A e \in Ones : Parish!Exists(x1'[e]) =>
           \/ /\ Parish!Exists(x1[e]) /\ Parish!Awaited(e)' \subseteq Parish!Awaited(e)
              /\ x1'[e] = x1[e] \/ x1'[e].start < x1'[e].end \/ e \in x6'
           \/ /\ x1[e] = None /\ x1'[e].start < x1'[e].end
              /\ \E w \in M : /\ pc'[w] \in {"adding", "inserting"}
                              /\ req'[w].op = "create" /\ req'[w].event = e
  BY <1>1
<1>6. /\ \A e \in Ones : \A v \in Workers \ M :
            pc[v] \in {"adding", "inserting"} /\ req[v].event = e =>
            Parish!Invited(e)' \subseteq Parish!Invited(e) \/ e \in x6'
      /\ \A e \in Ones : \A v \in Workers \ M :
            pc[v] = "changing" /\ req[v].event = e /\ Parish!Exists(x1'[e]) =>
            x1'[e] = x1[e] \/ e \in x6'
  BY <1>1
<1> QED
  BY <1>2, <1>3, <1>4, <1>5, <1>6, ParishKept

\* The same of one request.
LEMMA ParishMoves ==
    ASSUME Parish!Inv, NEW w \in Workers, Parish!FlightsOK', Parish!Sound(w)',
           \A v \in Workers \ {w} : pc'[v] = pc[v] /\ req'[v] = req[v],
           x1' = x1, x2' = x2, x3' = x3, x5' = x5, x6' = x6, x4 \subseteq x4', x4' \subseteq Ones,
           \A e \in Ones :
               (pc[w] \in {"adding", "inserting"} /\ req[w].op = "create" /\ req[w].event = e
                /\ Parish!Exists(x1[e])) =>
                   \/ Parish!Awaited(e) = {} \/ e \in x4'
                   \/ /\ pc'[w] \in {"adding", "inserting"}
                      /\ req'[w].op = "create" /\ req'[w].event = e
    PROVE  Parish!Inv'
<1>1. PICK M \in SUBSET Workers : M = {w}
  OBVIOUS
<1>2. /\ \A v \in Workers \ M : pc'[v] = pc[v] /\ req'[v] = req[v]
      /\ \A v \in M : Parish!Sound(v)'
      /\ \A e \in Ones : \A v \in M :
            (pc[v] \in {"adding", "inserting"} /\ req[v].op = "create" /\ req[v].event = e
             /\ Parish!Exists(x1[e])) =>
                \/ Parish!Awaited(e) = {} \/ e \in x4'
                \/ /\ pc'[v] \in {"adding", "inserting"}
                   /\ req'[v].op = "create" /\ req'[v].event = e
  BY <1>1
<1> QED
  BY <1>2, ParishSteady

\* A list of participants.
LEMMA ParishLists ==
    ASSUME NEW list \in Parish!Lists
    PROVE  /\ list \in Seq(Others \cup {Elsewhere})
           /\ {list[i] : i \in DOMAIN list} \subseteq Others \cup {Elsewhere}
           /\ \A u \in {list[i] : i \in DOMAIN list} : \E i \in 1 .. Len(list) : list[i] = u
<1>1. list \in Seq(Others \cup {Elsewhere})
  <2>1. CASE list = <<>>
    BY <2>1
  <2>2. ASSUME NEW u \in Others \cup {Elsewhere}, list = <<u>>
        PROVE  list \in Seq(Others \cup {Elsewhere})
    BY <2>2
  <2>3. ASSUME NEW u \in Others \cup {Elsewhere}, NEW v \in Others \cup {Elsewhere}, list = <<u, v>>
        PROVE  list \in Seq(Others \cup {Elsewhere})
    BY <2>3
  <2> QED
    BY <2>1, <2>2, <2>3 DEF Parish!Lists
<1>2. DOMAIN list = 1 .. Len(list)
  BY <1>1
<1> QED
  BY <1>1, <1>2

LEMMA ParishCreate ==
    ASSUME Parish!Inv, NEW w \in Workers, NEW e \in Ones, NEW start \in EventDates,
           NEW end \in EventDates, NEW list \in Parish!Lists,
           Parish!CreateEvent(w, e, start, end, list)
    PROVE  Parish!Inv'
<1>1. PICK row : row = [start |-> start, end |-> end]
  OBVIOUS
<1>2. PICK all : all = {list[i] : i \in DOMAIN list}
  OBVIOUS
<1>3. PICK r : r = [op |-> "create", event |-> e, left |-> list]
  OBVIOUS
<1>4. /\ x1[e] = None /\ start < end /\ x1' = [x1 EXCEPT ![e] = row] /\ x3' = [x3 EXCEPT ![e] = all]
      /\ pc[w] = "idle" /\ Parish!At(w, r, "adding") /\ r # Parish!NoRequest
      /\ sent < MaxCalls /\ sent' = sent + 1
      /\ x2' = x2 /\ x4' = x4 /\ x5' = x5 /\ x6' = x6
  BY <1>1, <1>2, <1>3 DEF Parish!CreateEvent, Parish!Begin, Parish!NoRequest
<1>5. sent' \in 0 .. MaxCalls
  BY <1>4, ParishRows, ParishConstants
<1>6. /\ Parish!FlightsOK' /\ pc'[w] = "adding" /\ req'[w] = r
      /\ \A v \in Workers \ {w} : pc'[v] = pc[v] /\ req'[v] = req[v]
  BY <1>4, <1>5, ParishMove
<1>7. row \in Parish!Event /\ row.start < row.end
  BY <1>1, <1>4 DEF Parish!Event
<1>8. all \in SUBSET (Others \cup {Elsewhere}) /\ list \in Seq(Others \cup {Elsewhere})
  BY <1>2, ParishLists
<1>9. /\ x1' \in [Ones -> Parish!Event \cup {None, Gone}]
      /\ x3' \in [Ones -> SUBSET (Others \cup {Elsewhere})]
      /\ \A o \in Ones \ {e} : x1'[o] = x1[o] /\ x3'[o] = x3[o]
      /\ x1'[e] = row /\ x3'[e] = all /\ Parish!Exists(row)
  BY <1>4, <1>7, <1>8, ParishRows, ParishConstants DEF Parish!Exists
<1>10. Parish!Sound(w)'
  <2>1. \A u \in Parish!Awaited(e)' : \E i \in 1 .. Len(list) : list[i] = u
    <3>1. Parish!Awaited(e)' \subseteq all
      BY <1>9 DEF Parish!Awaited
    <3> QED
      BY <1>2, <3>1, ParishLists
  <2>2. x1'[e] # None
    BY <1>9 DEF Parish!Exists
  <2>3. r.op = "create" /\ r.event = e /\ r.left = list
    BY <1>3
  <2> QED
    BY <1>3, <1>6, <1>8, <2>1, <2>2, <2>3 DEF Parish!Sound
<1>11. PICK M \in SUBSET Workers : M = {w}
  OBVIOUS
<1>12. \A o \in Ones : x1[o] # None => o # e
  BY <1>4
<1>13. /\ \A v \in Workers \ M : pc'[v] = pc[v] /\ req'[v] = req[v]
       /\ \A v \in M : Parish!Sound(v)' /\ pc[v] = "idle"
       /\ \E v \in M : pc'[v] \in {"adding", "inserting"} /\ req'[v].op = "create" /\ req'[v].event = e
  BY <1>3, <1>4, <1>6, <1>10, <1>11
<1>14. \A o \in Ones : Parish!Invited(o)' = Parish!Invited(o)
  BY <1>4 DEF Parish!Invited, Parish!GuestsOf, Parish!Exists
<1>15. \A o \in Ones \ {e} : Parish!Awaited(o)' = Parish!Awaited(o)
  BY <1>4, <1>9, <1>14 DEF Parish!Awaited
<1>16. Parish!InvitedOnce'
  BY <1>4 DEF Parish!Inv, Parish!InvitedOnce
<1>17. \A o \in Ones : Parish!Exists(x1'[o]) =>
          \/ /\ Parish!Exists(x1[o]) /\ Parish!Awaited(o)' \subseteq Parish!Awaited(o)
             /\ x1'[o] = x1[o] \/ x1'[o].start < x1'[o].end \/ o \in x6'
          \/ /\ x1[o] = None /\ x1'[o].start < x1'[o].end
             /\ \E v \in M : /\ pc'[v] \in {"adding", "inserting"}
                             /\ req'[v].op = "create" /\ req'[v].event = o
  <2> SUFFICES ASSUME NEW o \in Ones, Parish!Exists(x1'[o])
               PROVE  \/ /\ Parish!Exists(x1[o]) /\ Parish!Awaited(o)' \subseteq Parish!Awaited(o)
                         /\ x1'[o] = x1[o] \/ x1'[o].start < x1'[o].end \/ o \in x6'
                      \/ /\ x1[o] = None /\ x1'[o].start < x1'[o].end
                         /\ \E v \in M : /\ pc'[v] \in {"adding", "inserting"}
                                         /\ req'[v].op = "create" /\ req'[v].event = o
    OBVIOUS
  <2>1. CASE o = e
    BY <1>4, <1>7, <1>9, <1>13, <2>1
  <2>2. CASE o # e
    BY <1>9, <1>15, <2>2
  <2> QED
    BY <2>1, <2>2
<1>18. /\ \A o \in Ones : x1[o] # None => x1'[o] # None
       /\ \A o \in Ones : \A v \in Workers \ M :
             pc[v] = "changing" /\ req[v].event = o /\ Parish!Exists(x1'[o]) => x1'[o] = x1[o]
  <2>1. \A v \in Workers : pc[v] = "changing" => x1[req[v].event] # None
    BY DEF Parish!Inv, Parish!Sound
  <2> QED
    BY <1>9, <1>12, <2>1
<1> QED
  BY <1>4, <1>6, <1>9, <1>13, <1>14, <1>16, <1>17, <1>18, ParishRows, ParishKept

\* What is done at the desk: participants that are taken off or marked, an event that is deleted.
LEMMA ParishLeave ==
    ASSUME Parish!Inv, NEW M \in SUBSET Workers, Parish!FlightsOK',
           \A v \in Workers \ M : pc'[v] = pc[v] /\ req'[v] = req[v],
           \A w \in M : Parish!Sound(w)' /\ pc[w] \notin {"adding", "inserting"},
           x1' = x1 \/ (\E d \in Ones : Parish!Exists(x1[d]) /\ x1' = [x1 EXCEPT ![d] = Gone]),
           x2' \in [Rows -> Parish!EventParticipant \cup {None, Gone}],
           x3' = x3, x4' = x4, x6' = x6, x5 \subseteq x5', x5' \subseteq Ones \X Others,
           \A p \in Rows : Parish!Exists(x2'[p]) =>
               Parish!Exists(x2[p]) /\ x2'[p].event = x2[p].event /\ x2'[p].user = x2[p].user,
           \A p \in Rows : Parish!Exists(x2[p]) /\ ~Parish!Exists(x2'[p]) =>
               ~Parish!Exists(x1'[x2[p].event]) \/ <<x2[p].event, x2[p].user>> \in x5'
    PROVE  Parish!Inv'
<1>1. /\ x1' \in [Ones -> Parish!Event \cup {None, Gone}]
      /\ \A e \in Ones : /\ x1[e] # None => x1'[e] # None
                         /\ Parish!Exists(x1'[e]) => Parish!Exists(x1[e]) /\ x1'[e] = x1[e]
  <2>1. CASE x1' = x1
    BY <2>1, ParishRows
  <2>2. ASSUME NEW d \in Ones, Parish!Exists(x1[d]), x1' = [x1 EXCEPT ![d] = Gone]
        PROVE  <1>1!:
    BY <2>2, ParishRows, ParishConstants DEF Parish!Exists
  <2> QED
    BY <2>1, <2>2
<1>2. Parish!InvitedOnce' /\ \A e \in Ones : Parish!Invited(e)' \subseteq Parish!Invited(e)
  BY ParishOnce
<1>3. ASSUME NEW e \in Ones, Parish!Exists(x1'[e]) PROVE Parish!Awaited(e)' \subseteq Parish!Awaited(e)
  <2>1. ASSUME NEW u \in Parish!Invited(e) PROVE u \in Parish!Invited(e)' \/ <<e, u>> \in x5'
    <3>1. PICK p \in Rows : Parish!Exists(x2[p]) /\ x2[p].event = e /\ x2[p].user = u
      BY <2>1, ParishInvited
    <3>2. CASE Parish!Exists(x2'[p])
      <4>1. x2'[p].event = e /\ x2'[p].user = u
        BY <3>1, <3>2
      <4> QED
        BY <3>2, <4>1, ParishInvitedThen
    <3>3. CASE ~Parish!Exists(x2'[p])
      BY <1>3, <3>1, <3>3
    <3> QED
      BY <3>2, <3>3
  <2> QED
    BY <2>1, ParishAwaited
<1>4. \A e \in Ones : \A w \in M :
         (pc[w] \in {"adding", "inserting"} /\ req[w].op = "create" /\ req[w].event = e
          /\ Parish!Exists(x1'[e])) =>
             \/ Parish!Awaited(e)' = {} \/ e \in x4'
             \/ /\ pc'[w] \in {"adding", "inserting"}
                /\ req'[w].op = "create" /\ req'[w].event = e
  OBVIOUS
<1>5. \A e \in Ones : Parish!Exists(x1'[e]) =>
         /\ Parish!Exists(x1[e]) /\ Parish!Awaited(e)' \subseteq Parish!Awaited(e)
         /\ x1'[e] = x1[e] \/ x1'[e].start < x1'[e].end \/ e \in x6'
  BY <1>1, <1>3
<1> QED
  BY <1>1, <1>2, <1>4, <1>5, ParishRows, ParishKept

LEMMA ParishDesk ==
    ASSUME Parish!Inv,
           \/ \E e \in Ones : Parish!DeleteEvent(e)
           \/ \E p \in Rows : Parish!RemoveParticipant(p)
    PROVE  Parish!Inv'
<1>1. PICK M \in SUBSET Workers : M = {}
  OBVIOUS
<1>2. ASSUME UNCHANGED <<pc, req, sent>>
      PROVE  /\ Parish!FlightsOK'
             /\ \A v \in Workers \ M : pc'[v] = pc[v] /\ req'[v] = req[v]
             /\ \A w \in M : Parish!Sound(w)' /\ pc[w] \notin {"adding", "inserting"}
  BY <1>1, <1>2 DEF Parish!Inv, Parish!TypeOK, Parish!FlightsOK
<1>3. ASSUME NEW p \in Rows, Parish!RemoveParticipant(p) PROVE Parish!Inv'
  <2>1. /\ Parish!Exists(x2[p]) /\ x2' = [x2 EXCEPT ![p] = Gone]
        /\ x5' = x5 \cup {<<x2[p].event, x2[p].user>>}
        /\ x1' = x1 /\ x3' = x3 /\ x4' = x4 /\ x6' = x6 /\ UNCHANGED <<pc, req, sent>>
    BY <1>3 DEF Parish!RemoveParticipant, Parish!flights
  <2>2. /\ x2' \in [Rows -> Parish!EventParticipant \cup {None, Gone}]
        /\ x2'[p] = Gone /\ \A q \in Rows \ {p} : x2'[q] = x2[q]
        /\ x5 \subseteq x5' /\ x5' \subseteq Ones \X Others
    BY <2>1, ParishRows, ParishGuest
  <2>3. \A q \in Rows : Parish!Exists(x2'[q]) =>
           Parish!Exists(x2[q]) /\ x2'[q].event = x2[q].event /\ x2'[q].user = x2[q].user
    BY <2>2 DEF Parish!Exists
  <2>4. \A q \in Rows : Parish!Exists(x2[q]) /\ ~Parish!Exists(x2'[q]) =>
           ~Parish!Exists(x1'[x2[q].event]) \/ <<x2[q].event, x2[q].user>> \in x5'
    BY <2>1, <2>2
  <2> QED
    BY <1>2, <2>1, <2>2, <2>3, <2>4, ParishLeave
<1>4. ASSUME NEW e \in Ones, Parish!DeleteEvent(e) PROVE Parish!Inv'
  <2>1. /\ Parish!Exists(x1[e]) /\ x1' = [x1 EXCEPT ![e] = Gone]
        /\ x2' = [p \in Rows |-> IF p \in Parish!GuestsOf(e) THEN Gone ELSE x2[p]]
        /\ x3' = x3 /\ x4' = x4 /\ x5' = x5 /\ x6' = x6 /\ UNCHANGED <<pc, req, sent>>
    BY <1>4 DEF Parish!DeleteEvent, Parish!eventHistory, Parish!flights
  <2>2. /\ x2' \in [Rows -> Parish!EventParticipant \cup {None, Gone}]
        /\ \A q \in Rows : x2'[q] = IF q \in Parish!GuestsOf(e) THEN Gone ELSE x2[q]
        /\ x1'[e] = Gone
    BY <2>1, ParishRows
  <2>3. \A q \in Rows : Parish!Exists(x2'[q]) =>
           Parish!Exists(x2[q]) /\ x2'[q].event = x2[q].event /\ x2'[q].user = x2[q].user
    BY <2>2 DEF Parish!Exists
  <2>4. \A q \in Rows : Parish!Exists(x2[q]) /\ ~Parish!Exists(x2'[q]) => ~Parish!Exists(x1'[x2[q].event])
    BY <2>2 DEF Parish!Exists, Parish!GuestsOf
  <2> QED
    BY <1>2, <2>1, <2>2, <2>3, <2>4, ParishRows, ParishLeave
<1> QED
  BY <1>3, <1>4

\* A request that comes in, and changes no row.
LEMMA ParishAsks ==
    ASSUME Parish!Inv, NEW w \in Workers,
           \/ \E e \in Ones, start \in EventDates \cup {None}, end \in EventDates \cup {None} :
                 Parish!UpdateEvent(w, e, start, end)
           \/ \E e \in Ones, u \in Others \cup {Elsewhere} : Parish!AddParticipant(w, e, u)
           \/ \E p \in Rows : Parish!PlaceRequest(w, p)
    PROVE  Parish!Inv'
<1> USE DEF Parish!eventTables, Parish!eventHistory
<1>1. ASSUME NEW r, NEW place, place # "idle", Parish!Begin(w, r, place), r # Parish!NoRequest,
             x1' = x1, x2' = x2, x3' = x3, x4' = x4, x5' = x5, x6' = x6,
             pc'[w] = place /\ req'[w] = r => Parish!Sound(w)'
      PROVE  Parish!Inv'
  <2>1. pc[w] = "idle" /\ Parish!At(w, r, place) /\ sent < MaxCalls /\ sent' = sent + 1
    BY <1>1 DEF Parish!Begin
  <2>2. sent' \in 0 .. MaxCalls
    BY <2>1, ParishRows, ParishConstants
  <2>3. /\ Parish!FlightsOK' /\ pc'[w] = place /\ req'[w] = r
        /\ \A v \in Workers \ {w} : pc'[v] = pc[v] /\ req'[v] = req[v]
    BY <1>1, <2>1, <2>2, ParishMove
  <2> QED
    BY <1>1, <2>1, <2>3, ParishMoves, ParishRows
<1>2. ASSUME NEW e \in Ones, NEW u \in Others \cup {Elsewhere}, Parish!AddParticipant(w, e, u)
      PROVE  Parish!Inv'
  <2>1. PICK r : r = [op |-> "add", event |-> e, left |-> <<u>>]
    OBVIOUS
  <2>2. /\ Parish!Exists(x1[e]) /\ Parish!Begin(w, r, "adding") /\ r # Parish!NoRequest
        /\ x1' = x1 /\ x2' = x2 /\ x3' = x3 /\ x4' = x4 /\ x5' = x5 /\ x6' = x6
    BY <1>2, <2>1 DEF Parish!AddParticipant, Parish!NoRequest
  <2>3. r.left \in Seq(Others \cup {Elsewhere}) /\ r.op = "add" /\ r.event = e
    BY <2>1
  <2>4. pc'[w] = "adding" /\ req'[w] = r => Parish!Sound(w)'
    BY <2>1, <2>2, <2>3 DEF Parish!Sound, Parish!Exists
  <2> QED
    BY <1>1, <2>2, <2>4
<1>3. ASSUME NEW e \in Ones, NEW start \in EventDates \cup {None}, NEW end \in EventDates \cup {None},
             Parish!UpdateEvent(w, e, start, end)
      PROVE  Parish!Inv'
  <2>1. PICK new : new = [start |-> Parish!Given(start, x1[e].start), end |-> Parish!Given(end, x1[e].end)]
    OBVIOUS
  <2>2. PICK r : r = [op |-> "update", event |-> e, read |-> x1[e], new |-> new]
    OBVIOUS
  <2>3. /\ Parish!Exists(x1[e]) /\ new.start < new.end /\ Parish!Begin(w, r, "changing")
        /\ r # Parish!NoRequest
        /\ x1' = x1 /\ x2' = x2 /\ x3' = x3 /\ x4' = x4 /\ x5' = x5 /\ x6' = x6
    BY <1>3, <2>1, <2>2 DEF Parish!UpdateEvent, Parish!NoRequest
  <2>4. x1[e] \in Parish!Event
    BY <2>3, ParishRows DEF Parish!Exists
  <2>5. new \in Parish!Event
    BY <2>1, <2>4 DEF Parish!Event, Parish!Given
  <2>6. pc'[w] = "changing" /\ req'[w] = r => Parish!Sound(w)'
    BY <2>2, <2>3, <2>4, <2>5 DEF Parish!Sound, Parish!Exists
  <2> QED
    BY <1>1, <2>3, <2>6
<1>4. ASSUME NEW p \in Rows, NEW status \in Parish!ParticipantStatus, Parish!UpdateParticipant(w, p, status)
      PROVE  Parish!Inv'
  <2>1. PICK r : r = [op |-> "mark", place |-> p, status |-> status]
    OBVIOUS
  <2>2. /\ Parish!Begin(w, r, "marking") /\ r # Parish!NoRequest
        /\ x1' = x1 /\ x2' = x2 /\ x3' = x3 /\ x4' = x4 /\ x5' = x5 /\ x6' = x6
    BY <1>4, <2>1 DEF Parish!UpdateParticipant, Parish!NoRequest
  <2>3. pc'[w] = "marking" /\ req'[w] = r => Parish!Sound(w)'
    BY <2>1 DEF Parish!Sound
  <2> QED
    BY <1>1, <2>2, <2>3
<1> QED
  BY <1>2, <1>3, <1>4 DEF Parish!PlaceRequest, Parish!UpdateMyParticipation

\* A list that is worked off.
LEMMA ParishTail ==
    ASSUME NEW S, NEW s \in Seq(S), s # <<>>
    PROVE  /\ Head(s) \in S /\ Tail(s) \in Seq(S)
           /\ \A i \in 1 .. Len(s) : s[i] = Head(s) \/ \E j \in 1 .. Len(Tail(s)) : Tail(s)[j] = s[i]
<1>1. Head(s) \in S /\ Tail(s) \in Seq(S) /\ Len(Tail(s)) = Len(s) - 1 /\ Head(s) = s[1] /\ Len(s) \in Nat
  OBVIOUS
<1>2. ASSUME NEW i \in 1 .. Len(s), i # 1 PROVE \E j \in 1 .. Len(Tail(s)) : Tail(s)[j] = s[i]
  <2>1. i - 1 \in 1 .. Len(Tail(s)) /\ (i - 1) + 1 = i
    BY <1>1, <1>2
  <2>2. Tail(s)[i - 1] = s[(i - 1) + 1]
    BY <1>1, <2>1
  <2> QED
    BY <2>1, <2>2
<1> QED
  BY <1>1, <1>2

LEMMA ParishInsert ==
    ASSUME Parish!Inv, NEW w \in Workers, Parish!InsertParticipant(w)
    PROVE  Parish!Inv'
<1>1. PICK r : r = req[w]
  OBVIOUS
<1>2. PICK e \in Ones, list \in Seq(Others \cup {Elsewhere}) :
         /\ e = r.event /\ list = r.left /\ pc[w] = "inserting" /\ Parish!Exists(x1[e])
         /\ r = [op |-> r.op, event |-> e, left |-> list] /\ r.op \in {"create", "add"}
         /\ r.op = "create" => \A u \in Parish!Awaited(e) : \E i \in 1 .. Len(list) : list[i] = u
         /\ list # <<>> /\ Head(list) # Elsewhere
         /\ Head(list) \notin Parish!Invited(e) \/ e \in x6
  BY <1>1 DEF Parish!InsertParticipant, Parish!Inv, Parish!Sound
<1>3. PICK u : u = Head(list)
  OBVIOUS
<1>4. PICK rest : rest = Tail(list)
  OBVIOUS
<1>5. /\ u \in Others /\ rest \in Seq(Others \cup {Elsewhere})
      /\ \A i \in 1 .. Len(list) : list[i] = u \/ \E j \in 1 .. Len(rest) : rest[j] = list[i]
  BY <1>2, <1>3, <1>4, ParishTail
<1>6. PICK row : row = [event |-> e, user |-> u, status |-> "INVITE"]
  OBVIOUS
<1>7. row \in Parish!EventParticipant /\ row.event = e /\ row.user = u /\ Parish!Exists(row)
  BY <1>5, <1>6, ParishConstants
     DEF Parish!EventParticipant, Parish!ParticipantStatus, Parish!Exists
<1>8. /\ \E p \in Rows : x2[p] = None /\ x2' = [x2 EXCEPT ![p] = row]
      /\ x6' = IF Parish!Alongside(w, "event", e) THEN x6 \cup {e} ELSE x6
      /\ Parish!Continue(w, [r EXCEPT !.left = Tail(list)], "adding")
      /\ x1' = x1 /\ x3' = x3 /\ x4' = x4 /\ x5' = x5
  BY <1>1, <1>2, <1>3, <1>6 DEF Parish!InsertParticipant, Parish!Meet
<1>9. PICK p \in Rows : x2[p] = None /\ x2' = [x2 EXCEPT ![p] = row]
  BY <1>8
<1>10. PICK q : q = [op |-> r.op, event |-> e, left |-> rest]
  OBVIOUS
<1>11. Parish!At(w, q, "adding") /\ q # Parish!NoRequest /\ sent' \in 0 .. MaxCalls
  <2>1. PICK op : op = r.op
    OBVIOUS
  <2>2. r = [op |-> op, event |-> e, left |-> list]
    BY <1>2, <2>1
  <2>3. [r EXCEPT !.left = rest] = [op |-> op, event |-> e, left |-> rest]
    BY <2>2
  <2>4. [r EXCEPT !.left = Tail(list)] = q
    BY <1>4, <1>10, <2>1, <2>3
  <2> QED
    BY <1>8, <1>10, <2>4, ParishRows DEF Parish!Continue, Parish!NoRequest
<1>12. /\ Parish!FlightsOK' /\ pc'[w] = "adding" /\ req'[w] = q
       /\ \A v \in Workers \ {w} : pc'[v] = pc[v] /\ req'[v] = req[v]
  BY <1>11, ParishMove
<1>13. /\ x2' \in [Rows -> Parish!EventParticipant \cup {None, Gone}]
       /\ x2'[p] = row /\ \A o \in Rows \ {p} : x2'[o] = x2[o]
       /\ ~Parish!Exists(x2[p])
  BY <1>7, <1>9, ParishRows DEF Parish!Exists
<1>14. x6 \subseteq x6' /\ x6' \subseteq Ones
  BY <1>8, ParishRows
<1>15. ASSUME NEW d \in Ones, NEW a
       PROVE  a \in Parish!Invited(d)' <=> a \in Parish!Invited(d) \/ (d = e /\ a = u)
  <2>1. ASSUME a \in Parish!Invited(d)' PROVE a \in Parish!Invited(d) \/ (d = e /\ a = u)
    <3>1. PICK o \in Rows : Parish!Exists(x2'[o]) /\ x2'[o].event = d /\ x2'[o].user = a
      BY <2>1, ParishInvitedThen
    <3> QED
      BY <1>7, <1>13, <3>1, ParishInvited
  <2>2. ASSUME a \in Parish!Invited(d) PROVE a \in Parish!Invited(d)'
    <3>1. PICK o \in Rows : Parish!Exists(x2[o]) /\ x2[o].event = d /\ x2[o].user = a
      BY <2>2, ParishInvited
    <3> QED
      BY <1>13, <3>1, ParishInvitedThen
  <2>3. u \in Parish!Invited(e)'
    BY <1>7, <1>13, ParishInvitedThen
  <2> QED
    BY <2>1, <2>2, <2>3
<1>16. \A d \in Ones : Parish!Awaited(d)' \subseteq Parish!Awaited(d)
  <2> SUFFICES ASSUME NEW d \in Ones PROVE Parish!Awaited(d)' \subseteq Parish!Awaited(d)
    OBVIOUS
  <2>1. \A a \in Parish!Invited(d) : a \in Parish!Invited(d)'
    BY <1>15
  <2> QED
    BY <1>8, <2>1, ParishAwaited
<1>17. Parish!InvitedOnce'
  <2> SUFFICES ASSUME NEW a \in Rows, NEW b \in Rows, a # b, Parish!Exists(x2'[a]), Parish!Exists(x2'[b]),
                      x2'[a].event = x2'[b].event, x2'[a].user = x2'[b].user
               PROVE  x2'[a].event \in x6'
    BY DEF Parish!InvitedOnce
  <2>1. CASE a # p /\ b # p
    BY <1>13, <1>14, <2>1 DEF Parish!Inv, Parish!InvitedOnce
  <2>2. CASE a = p
    <3>1. Parish!Exists(x2[b]) /\ x2[b].event = e /\ x2[b].user = u
      BY <1>7, <1>13, <2>2
    <3>2. u \in Parish!Invited(e)
      BY <3>1, ParishInvited
    <3> QED
      BY <1>2, <1>3, <1>7, <1>13, <1>14, <2>2, <3>2
  <2>3. CASE b = p
    <3>1. Parish!Exists(x2[a]) /\ x2[a].event = e /\ x2[a].user = u
      BY <1>7, <1>13, <2>3
    <3>2. u \in Parish!Invited(e)
      BY <3>1, ParishInvited
    <3> QED
      BY <1>2, <1>3, <1>7, <1>13, <1>14, <2>3, <3>2
  <2> QED
    BY <2>1, <2>2, <2>3
<1>18. Parish!Sound(w)'
  <2>1. r.op = "create" => \A a \in Parish!Awaited(e)' : \E i \in 1 .. Len(rest) : rest[i] = a
    <3> SUFFICES ASSUME r.op = "create", NEW a \in Parish!Awaited(e)'
                 PROVE  \E i \in 1 .. Len(rest) : rest[i] = a
      OBVIOUS
    <3>1. a # u
      BY <1>15 DEF Parish!Awaited
    <3>2. a \in Parish!Awaited(e)
      BY <1>16
    <3>3. PICK i \in 1 .. Len(list) : list[i] = a
      BY <1>2, <3>2
    <3> QED
      BY <1>5, <3>1, <3>3
  <2>2. x1'[e] # None
    BY <1>2, <1>8 DEF Parish!Exists
  <2>3. q.op = r.op /\ q.event = e /\ q.left = rest
    BY <1>10
  <2> QED
    BY <1>2, <1>5, <1>10, <1>12, <2>1, <2>2, <2>3 DEF Parish!Sound
<1>19. PICK M \in SUBSET Workers : M = {w}
  OBVIOUS
<1>20. /\ \A v \in Workers \ M : pc'[v] = pc[v] /\ req'[v] = req[v]
       /\ \A v \in M : Parish!Sound(v)'
       /\ \A d \in Ones : \A v \in M :
             (pc[v] \in {"adding", "inserting"} /\ req[v].op = "create" /\ req[v].event = d
              /\ Parish!Exists(x1'[d])) =>
                 /\ pc'[v] \in {"adding", "inserting"}
                 /\ req'[v].op = "create" /\ req'[v].event = d
  BY <1>1, <1>2, <1>10, <1>12, <1>18, <1>19
<1>21. \A d \in Ones : \A v \in Workers \ M :
          pc[v] \in {"adding", "inserting"} /\ req[v].event = d =>
          Parish!Invited(d)' \subseteq Parish!Invited(d) \/ d \in x6'
  <2> SUFFICES ASSUME NEW v \in Workers \ M, NEW d \in Ones,
                      pc[v] \in {"adding", "inserting"}, req[v].event = d
               PROVE  Parish!Invited(d)' \subseteq Parish!Invited(d) \/ d \in x6'
    OBVIOUS
  <2>1. CASE d # e
    BY <1>15, <2>1
  <2>2. CASE d = e
    <3>1. req[v] = [op |-> req[v].op, event |-> e, left |-> req[v].left]
      BY <2>2 DEF Parish!Inv, Parish!Sound
    <3>2. "event" \in DOMAIN req[v] /\ req[v]["event"] = e
      BY <3>1
    <3>3. v \in Workers \ {w}
      BY <1>19
    <3>4. Parish!Alongside(w, "event", e)
      BY <3>2, <3>3 DEF Parish!Alongside
    <3> QED
      BY <1>8, <2>2, <3>4
  <2> QED
    BY <2>1, <2>2
<1>22. /\ \A d \in Ones : x1[d] # None => x1'[d] # None
       /\ \A d \in Ones : Parish!Exists(x1'[d]) =>
             /\ Parish!Exists(x1[d]) /\ Parish!Awaited(d)' \subseteq Parish!Awaited(d)
             /\ x1'[d] = x1[d]
  BY <1>8, <1>16
<1>23. \A d \in Ones : Parish!Exists(x1'[d]) =>
           \/ /\ Parish!Exists(x1[d]) /\ Parish!Awaited(d)' \subseteq Parish!Awaited(d)
              /\ x1'[d] = x1[d] \/ x1'[d].start < x1'[d].end \/ d \in x6'
           \/ /\ x1[d] = None /\ x1'[d].start < x1'[d].end
              /\ \E v \in M : /\ pc'[v] \in {"adding", "inserting"}
                              /\ req'[v].op = "create" /\ req'[v].event = d
  BY <1>22
<1>24. /\ x1' \in [Ones -> Parish!Event \cup {None, Gone}]
       /\ x3' \in [Ones -> SUBSET (Others \cup {Elsewhere})]
       /\ x4' \subseteq Ones /\ x4 \subseteq x4' /\ x5' \subseteq Ones \X Others
       /\ \A d \in Ones : \A v \in Workers \ M :
             pc[v] = "changing" /\ req[v].event = d /\ Parish!Exists(x1'[d]) =>
             x1'[d] = x1[d] \/ d \in x6'
  BY <1>8, ParishRows
<1>25. \A d \in Ones : \A v \in M :
          (pc[v] \in {"adding", "inserting"} /\ req[v].op = "create" /\ req[v].event = d
           /\ Parish!Exists(x1'[d])) =>
             \/ Parish!Awaited(d)' = {} \/ d \in x4'
             \/ /\ pc'[v] \in {"adding", "inserting"}
                /\ req'[v].op = "create" /\ req'[v].event = d
  BY <1>20
<1> QED
  BY <1>12, <1>13, <1>14, <1>17, <1>20, <1>21, <1>22, <1>23, <1>24, <1>25, ParishKept

\* A commit of the dates that a request has changed.
LEMMA ParishCommit ==
    ASSUME Parish!Inv, NEW w \in Workers, Parish!CommitEvent(w)
    PROVE  Parish!Inv'
<1>1. PICK r : r = req[w]
  OBVIOUS
<1>2. PICK e \in Ones : /\ e = r.event /\ pc[w] = "changing" /\ r.read \in Parish!Event
                        /\ r.new \in Parish!Event /\ r.new.start < r.new.end
                        /\ Parish!Exists(x1[e]) => e \in x6 \/ r.read = x1[e]
  BY <1>1 DEF Parish!CommitEvent, Parish!Inv, Parish!Sound
<1>3. /\ Parish!Return(w) /\ x2' = x2 /\ x3' = x3 /\ x4' = x4 /\ x5' = x5
  BY <1>1 DEF Parish!CommitEvent
<1>4. /\ Parish!FlightsOK' /\ pc'[w] = "idle" /\ Parish!Sound(w)'
      /\ \A v \in Workers \ {w} : pc'[v] = pc[v] /\ req'[v] = req[v]
  BY <1>3, ParishEnd
<1>5. CASE ~Parish!Exists(x1[e])
  <2>1. x1' = x1 /\ x6' = x6
    BY <1>1, <1>2, <1>5 DEF Parish!CommitEvent
  <2>2. pc[w] \notin {"adding", "inserting"}
    BY <1>2
  <2> QED
    BY <1>3, <1>4, <2>1, <2>2, ParishMoves, ParishRows
<1>6. CASE Parish!Exists(x1[e])
  <2>1. PICK row : row = Parish!Flush(x1[e], r.read, r.new)
    OBVIOUS
  <2>2. /\ x1' = [x1 EXCEPT ![e] = row]
        /\ x6' = IF Parish!Alongside(w, "event", e) THEN x6 \cup {e} ELSE x6
    BY <1>1, <1>2, <1>6, <2>1 DEF Parish!CommitEvent, Parish!Meet
  <2>3. x1[e] \in Parish!Event
    BY <1>6, ParishRows DEF Parish!Exists
  <2>4. row \in Parish!Event /\ (r.read = x1[e] => row.start < row.end)
    <3>1. row = [f \in DOMAIN x1[e] |-> IF r.new[f] = r.read[f] THEN x1[e][f] ELSE r.new[f]]
      BY <2>1 DEF Parish!Flush
    <3>2. row \in Parish!Event /\ (r.read = x1[e] => row.start = r.new.start /\ row.end = r.new.end)
      BY <1>2, <2>3, <3>1 DEF Parish!Event
    <3> QED
      BY <1>2, <3>2
  <2>5. /\ x1' \in [Ones -> Parish!Event \cup {None, Gone}]
        /\ x1'[e] = row /\ \A d \in Ones \ {e} : x1'[d] = x1[d]
        /\ x1'[e] # None
    BY <2>2, <2>4, ParishRows, ParishConstants
  <2>6. x6 \subseteq x6' /\ x6' \subseteq Ones
    BY <2>2, ParishRows
  <2>7. \A d \in Ones : Parish!Awaited(d)' = Parish!Awaited(d) /\ Parish!Invited(d)' = Parish!Invited(d)
    BY <1>3 DEF Parish!Awaited, Parish!Invited, Parish!GuestsOf, Parish!Exists
  <2>8. Parish!InvitedOnce'
    BY <1>3, <2>6 DEF Parish!Inv, Parish!InvitedOnce
  <2>9. PICK M \in SUBSET Workers : M = {w}
    OBVIOUS
  <2>10. /\ \A v \in Workers \ M : pc'[v] = pc[v] /\ req'[v] = req[v]
         /\ \A v \in M : Parish!Sound(v)' /\ pc[v] = "changing"
    BY <1>2, <1>4, <2>9
  <2>11. /\ \A d \in Ones : x1[d] # None => x1'[d] # None
         /\ \A d \in Ones : Parish!Exists(x1'[d]) =>
               /\ Parish!Exists(x1[d]) /\ Parish!Awaited(d)' \subseteq Parish!Awaited(d)
               /\ x1'[d] = x1[d] \/ x1'[d].start < x1'[d].end \/ d \in x6'
    BY <1>2, <1>6, <2>4, <2>5, <2>6, <2>7
  <2>12. \A d \in Ones : \A v \in Workers \ M :
            pc[v] = "changing" /\ req[v].event = d /\ Parish!Exists(x1'[d]) => x1'[d] = x1[d] \/ d \in x6'
    <3> SUFFICES ASSUME NEW v \in Workers \ M, NEW d \in Ones, pc[v] = "changing", req[v].event = d
                 PROVE  x1'[d] = x1[d] \/ d \in x6'
      OBVIOUS
    <3>1. CASE d # e
      BY <2>5, <3>1
    <3>2. CASE d = e
      <4>1. req[v] = [op |-> "update", event |-> e, read |-> req[v].read, new |-> req[v].new]
        BY <3>2 DEF Parish!Inv, Parish!Sound
      <4>2. "event" \in DOMAIN req[v] /\ req[v]["event"] = e
        BY <4>1
      <4>3. v \in Workers \ {w}
        BY <2>9
      <4>4. Parish!Alongside(w, "event", e)
        BY <4>2, <4>3 DEF Parish!Alongside
      <4> QED
        BY <2>2, <3>2, <4>4
    <3> QED
      BY <3>1, <3>2
  <2> QED
    BY <1>3, <1>4, <2>5, <2>6, <2>7, <2>8, <2>10, <2>11, <2>12, ParishRows, ParishKept
<1> QED
  BY <1>5, <1>6

LEMMA ParishMark ==
    ASSUME Parish!Inv, NEW w \in Workers, Parish!CommitParticipant(w)
    PROVE  Parish!Inv'
<1>1. PICK p \in Rows, status \in Parish!ParticipantStatus :
         p = req[w].place /\ status = req[w].status /\ pc[w] = "marking"
  BY DEF Parish!CommitParticipant, Parish!Inv, Parish!Sound
<1>2. /\ Parish!Return(w) /\ x1' = x1 /\ x3' = x3 /\ x4' = x4 /\ x5' = x5 /\ x6' = x6
      /\ x2' = IF Parish!Exists(x2[p]) THEN [x2 EXCEPT ![p].status = status] ELSE x2
  BY <1>1 DEF Parish!CommitParticipant, Parish!eventHistory
<1>3. /\ Parish!FlightsOK' /\ pc'[w] = "idle" /\ Parish!Sound(w)'
      /\ \A v \in Workers \ {w} : pc'[v] = pc[v] /\ req'[v] = req[v]
  BY <1>2, ParishEnd
<1>4. /\ x2' \in [Rows -> Parish!EventParticipant \cup {None, Gone}]
      /\ \A q \in Rows : /\ Parish!Exists(x2'[q]) <=> Parish!Exists(x2[q])
                         /\ Parish!Exists(x2[q]) => x2'[q].event = x2[q].event /\ x2'[q].user = x2[q].user
  <2>1. CASE ~Parish!Exists(x2[p])
    BY <1>2, <2>1, ParishRows
  <2>2. CASE Parish!Exists(x2[p])
    <3>1. PICK row : row = [x2[p] EXCEPT !.status = status]
      OBVIOUS
    <3>2. /\ row \in Parish!EventParticipant /\ row.event = x2[p].event /\ row.user = x2[p].user
      BY <2>2, <3>1, ParishGuest DEF Parish!EventParticipant
    <3>3. x2' = [x2 EXCEPT ![p] = row]
      BY <1>2, <2>2, <3>1
    <3>4. /\ x2' \in [Rows -> Parish!EventParticipant \cup {None, Gone}]
          /\ x2'[p] = row /\ \A q \in Rows \ {p} : x2'[q] = x2[q]
      BY <3>2, <3>3, ParishRows
    <3>5. Parish!Exists(row)
      BY <3>2, ParishConstants DEF Parish!Exists
    <3> QED
      BY <2>2, <3>2, <3>4, <3>5
  <2> QED
    BY <2>1, <2>2
<1>5. PICK M \in SUBSET Workers : M = {w}
  OBVIOUS
<1>6. /\ \A v \in Workers \ M : pc'[v] = pc[v] /\ req'[v] = req[v]
      /\ \A v \in M : Parish!Sound(v)' /\ pc[v] \notin {"adding", "inserting"}
  BY <1>1, <1>3, <1>5
<1> QED
  BY <1>2, <1>3, <1>4, <1>6, ParishRows, ParishLeave

LEMMA ParishServe ==
    ASSUME Parish!Inv, NEW w \in Workers, Parish!ServeEvent(w)
    PROVE  Parish!Inv'
<1> USE DEF Parish!eventTables, Parish!eventHistory
<1>1. ASSUME Parish!Return(w), x1' = x1, x2' = x2, x3' = x3, x5' = x5, x6' = x6,
             x4 \subseteq x4', x4' \subseteq Ones,
             \A e \in Ones :
                (pc[w] \in {"adding", "inserting"} /\ req[w].op = "create" /\ req[w].event = e
                 /\ Parish!Exists(x1[e])) => Parish!Awaited(e) = {} \/ e \in x4'
      PROVE  Parish!Inv'
  <2>1. /\ Parish!FlightsOK' /\ pc'[w] = "idle" /\ Parish!Sound(w)'
        /\ \A v \in Workers \ {w} : pc'[v] = pc[v] /\ req'[v] = req[v]
    BY <1>1, ParishEnd
  <2> QED
    BY <1>1, <2>1, ParishMoves
<1>2. CASE Parish!AllAdded(w)
  <2>1. /\ pc[w] = "adding" /\ req[w].left = <<>> /\ Parish!Return(w)
        /\ x1' = x1 /\ x2' = x2 /\ x3' = x3 /\ x4' = x4 /\ x5' = x5 /\ x6' = x6
    BY <1>2 DEF Parish!AllAdded
  <2>2. ASSUME NEW e \in Ones, req[w].op = "create", req[w].event = e, Parish!Exists(x1[e])
        PROVE  Parish!Awaited(e) = {}
    <3>1. \A u \in Parish!Awaited(e) : \E i \in 1 .. Len(req[w].left) : req[w].left[i] = u
      BY <2>1, <2>2 DEF Parish!Inv, Parish!Sound
    <3>2. Len(req[w].left) = 0
      BY <2>1
    <3> QED
      BY <3>1, <3>2
  <2> QED
    BY <1>1, <2>1, <2>2, ParishRows
<1>3. CASE Parish!FindNoDuplicate(w)
  <2>1. PICK r : r = req[w]
    OBVIOUS
  <2>2. PICK head : head = Head(r.left)
    OBVIOUS
  <2>3. /\ pc[w] = "adding" /\ r.left # <<>> /\ head # Elsewhere /\ head \notin Parish!Invited(r.event)
        /\ Parish!Continue(w, r, "inserting")
        /\ x1' = x1 /\ x2' = x2 /\ x3' = x3 /\ x4' = x4 /\ x5' = x5 /\ x6' = x6
    BY <1>3, <2>1, <2>2 DEF Parish!FindNoDuplicate
  <2>4. PICK e \in Ones :
           /\ e = r.event /\ r = [op |-> r.op, event |-> r.event, left |-> r.left]
           /\ r.op \in {"create", "add"} /\ x1[e] # None
           /\ r.left \in Seq(Others \cup {Elsewhere})
           /\ r.op = "create" /\ Parish!Exists(x1[e]) =>
                 \A u \in Parish!Awaited(e) : \E i \in 1 .. Len(r.left) : r.left[i] = u
    BY <2>1, <2>3 DEF Parish!Inv, Parish!Sound
  <2>5. Parish!At(w, r, "inserting") /\ r # Parish!NoRequest /\ sent' \in 0 .. MaxCalls
    BY <2>3, <2>4, ParishRows DEF Parish!Continue, Parish!NoRequest
  <2>6. /\ Parish!FlightsOK' /\ pc'[w] = "inserting" /\ req'[w] = r
        /\ \A v \in Workers \ {w} : pc'[v] = pc[v] /\ req'[v] = req[v]
    BY <2>5, ParishMove
  <2>7. Parish!Awaited(e)' = Parish!Awaited(e) /\ Parish!Invited(e)' = Parish!Invited(e)
    BY <2>3 DEF Parish!Awaited, Parish!Invited, Parish!GuestsOf, Parish!Exists
  <2>8. Parish!Sound(w)'
    BY <2>2, <2>3, <2>4, <2>6, <2>7 DEF Parish!Sound
  <2>9. \A d \in Ones : pc[w] \in {"adding", "inserting"} /\ req[w].op = "create" /\ req[w].event = d =>
           pc'[w] \in {"adding", "inserting"} /\ req'[w].op = "create" /\ req'[w].event = d
    BY <2>1, <2>6
  <2> QED
    BY <2>3, <2>6, <2>8, <2>9, ParishMoves, ParishRows
<1>4. CASE Parish!RefuseParticipant(w) \/ Parish!AbortEvent(w)
  <2>1. /\ Parish!Return(w) /\ x1' = x1 /\ x2' = x2 /\ x3' = x3 /\ x5' = x5 /\ x6' = x6
        /\ x4' = IF req[w].op = "create" THEN x4 \cup {req[w].event} ELSE x4
        /\ pc[w] # "idle"
    BY <1>4 DEF Parish!RefuseParticipant, Parish!AbortEvent, Parish!Die, Parish!CutOff
  <2>2. req[w].op = "create" => req[w].event \in Ones
    <3>1. PICK r : r = req[w]
      OBVIOUS
    <3>2. CASE pc[w] \in {"adding", "inserting"}
      BY <3>1, <3>2 DEF Parish!Inv, Parish!Sound
    <3>3. CASE pc[w] = "changing"
      <4>1. r = [op |-> "update", event |-> r.event, read |-> r.read, new |-> r.new]
        BY <3>1, <3>3 DEF Parish!Inv, Parish!Sound
      <4>2. r.op = "update"
        BY <4>1
      <4> QED
        BY <3>1, <4>2
    <3>4. CASE pc[w] = "marking"
      <4>1. r = [op |-> "mark", place |-> r.place, status |-> r.status]
        BY <3>1, <3>4 DEF Parish!Inv, Parish!Sound
      <4>2. r.op = "mark"
        BY <4>1
      <4> QED
        BY <3>1, <4>2
    <3> QED
      BY <2>1, <3>2, <3>3, <3>4 DEF Parish!Inv, Parish!Sound
  <2>3. x4 \subseteq x4' /\ x4' \subseteq Ones /\ (req[w].op = "create" => req[w].event \in x4')
    BY <2>1, <2>2, ParishRows
  <2> QED
    BY <1>1, <2>1, <2>3
<1>5. CASE Parish!InsertFails(w)
  <2>1. /\ Parish!Return(w) /\ x1' = x1 /\ x2' = x2 /\ x3' = x3 /\ x4' = x4 /\ x5' = x5 /\ x6' = x6
        /\ ~Parish!Exists(x1[req[w].event])
    BY <1>5 DEF Parish!InsertFails
  <2> QED
    BY <1>1, <2>1, ParishRows
<1> QED
  BY <1>2, <1>3, <1>4, <1>5, ParishInsert, ParishCommit, ParishMark DEF Parish!ServeEvent

LEMMA ParishNext == Parish!Inv /\ Parish!Next => Parish!Inv'
BY ParishCreate, ParishAsks, ParishDesk, ParishServe DEF Parish!Next, Parish!EventRequest

LEMMA ParishStays == Parish!Inv /\ UNCHANGED <<x1, x2, x3, x4, x5, x6, pc, req, sent>> => Parish!Inv'
<1> SUFFICES ASSUME Parish!Inv, UNCHANGED <<x1, x2, x3, x4, x5, x6, pc, req, sent>> PROVE Parish!Inv'
  OBVIOUS
<1>1. PICK M \in SUBSET Workers : M = {}
  OBVIOUS
<1>2. /\ Parish!FlightsOK'
      /\ \A v \in Workers \ M : pc'[v] = pc[v] /\ req'[v] = req[v]
      /\ \A w \in M : Parish!Sound(w)'
  BY <1>1 DEF Parish!Inv, Parish!TypeOK, Parish!FlightsOK
<1> QED
  BY <1>1, <1>2, ParishSteady, ParishRows

------------------------------------------------------------------------------
\* Subgroups

LEMMA TeamsConstants ==
    /\ FewCalls \in Nat /\ None # Gone
    /\ GroupLimits \subseteq Nat
    /\ Kinds \subseteq Teams!SubGroupCategory /\ Elsewhere # "clergy"
    /\ None \notin Teams!SubGroup /\ Gone \notin Teams!SubGroup
    /\ None \notin Teams!SubGroupMember /\ Gone \notin Teams!SubGroupMember
BY MoreServicesAssumption

\* How many rows there are in a set of them.
LEMMA TeamsCount ==
    ASSUME NEW S \in SUBSET Others
    PROVE  /\ Teams!Cardinality(S) \in Nat
           /\ \A T \in SUBSET S : /\ Teams!Cardinality(T) \in Nat
                                  /\ Teams!Cardinality(T) <= Teams!Cardinality(S)
           /\ \A p : /\ Teams!Cardinality(S \cup {p}) \in Nat
                     /\ Teams!Cardinality(S \cup {p}) <= Teams!Cardinality(S) + 1
<1>1. IsFiniteSet(S)
  BY MoreServicesAssumption, FS_Subset
<1>2. \A T : T \subseteq S => Cardinality(T) \in Nat /\ Cardinality(T) <= Cardinality(S)
  BY <1>1, FS_Subset, FS_CardinalityType
<1>3. \A p : /\ IsFiniteSet(S \cup {p})
             /\ Cardinality(S \cup {p}) = IF p \in S THEN Cardinality(S) ELSE Cardinality(S) + 1
  BY <1>1, FS_AddElement
<1>4. \A p : Cardinality(S \cup {p}) \in Nat /\ Cardinality(S \cup {p}) <= Cardinality(S) + 1
  BY <1>2, <1>3
<1>5. \A T : Teams!Cardinality(T) = Cardinality(T)
  BY DEF Teams!Cardinality, Cardinality
<1> QED
  BY <1>2, <1>4, <1>5

LEMMA TeamsNone == Teams!Cardinality({}) = 0
BY FS_EmptySet DEF Teams!Cardinality, Cardinality

LEMMA TeamsInit == Teams!Init => Teams!Inv
<1> SUFFICES ASSUME Teams!Init PROVE Teams!Inv
  OBVIOUS
<1>1. \A p \in Others : ~Teams!Active(p)
  BY DEF Teams!Init, Teams!Active, Teams!Exists
<1>2. /\ \A g : Teams!Members(g) = {}
      /\ \A v : Teams!Memberships(v) = {}
  BY <1>1 DEF Teams!Members, Teams!Memberships
<1>3. Teams!OneGroupEach
  BY <1>2, TeamsNone DEF Teams!OneGroupEach
<1>4. Teams!MembersBounded
  BY DEF Teams!Init, Teams!Exists, Teams!MembersBounded
<1>5. Teams!TypeOK
  BY TeamsConstants
     DEF Teams!Init, Teams!InitFlights, Teams!NoRequest, Teams!TypeOK, Teams!FlightsOK
<1> QED
  BY <1>1, <1>3, <1>4, <1>5 DEF Teams!Init, Teams!InitFlights, Teams!Sound, Teams!Inv

LEMMA TeamsRows ==
    ASSUME Teams!Inv
    PROVE  /\ x1 \in [Rows -> Teams!SubGroup \cup {None, Gone}]
           /\ x2 \in [Others -> Teams!SubGroupMember \cup {None, Gone}]
           /\ x3 \subseteq Ones \cup Thirds \cup Rows /\ x4 \subseteq Rows
           /\ sent \in 0 .. FewCalls
BY DEF Teams!Inv, Teams!TypeOK, Teams!FlightsOK

LEMMA TeamsGroup ==
    ASSUME Teams!Inv, NEW g \in Rows
    PROVE  /\ Teams!Exists(x1[g]) <=> x1[g] \in Teams!SubGroup
           /\ Teams!Exists(x1[g]) =>
                 /\ x1[g].max \in GroupLimits /\ x1[g].max \in Nat
                 /\ x1[g] = [name |-> x1[g].name, category |-> x1[g].category,
                             active |-> x1[g].active, max |-> x1[g].max]
BY TeamsConstants, TeamsRows DEF Teams!Exists, Teams!SubGroup

LEMMA TeamsMember ==
    ASSUME Teams!Inv, NEW p \in Others
    PROVE  /\ Teams!Exists(x2[p]) <=> x2[p] \in Teams!SubGroupMember
           /\ Teams!Active(p) =>
                 /\ x2[p] \in Teams!SubGroupMember /\ x2[p].group \in Rows
                 /\ x2[p].servant \in Ones \cup Thirds /\ Teams!Exists(x1[x2[p].group])
BY TeamsConstants, TeamsRows DEF Teams!Exists, Teams!SubGroupMember, Teams!Active, Teams!Inv

\* A request that moves.
LEMMA TeamsMove ==
    ASSUME Teams!Inv, NEW w \in Workers, NEW r, NEW place,
           Teams!At(w, r, place), place = "idle" <=> r = Teams!NoRequest,
           sent' \in 0 .. FewCalls
    PROVE  /\ Teams!FlightsOK' /\ pc'[w] = place /\ req'[w] = r
           /\ \A v \in Workers \ {w} : pc'[v] = pc[v] /\ req'[v] = req[v]
BY DEF Teams!Inv, Teams!TypeOK, Teams!FlightsOK, Teams!At

LEMMA TeamsEnd ==
    ASSUME Teams!Inv, NEW w \in Workers, Teams!Return(w)
    PROVE  /\ Teams!FlightsOK' /\ pc'[w] = "idle" /\ Teams!Sound(w)'
           /\ \A v \in Workers \ {w} : pc'[v] = pc[v] /\ req'[v] = req[v]
<1>1. Teams!At(w, Teams!NoRequest, "idle") /\ sent' \in 0 .. FewCalls
  BY DEF Teams!Return, Teams!Continue, Teams!Inv, Teams!TypeOK, Teams!FlightsOK
<1> QED
  BY <1>1, TeamsMove DEF Teams!Sound

\* Who is a member, before a step and after it.
LEMMA TeamsActive ==
    /\ \A p : Teams!Active(p) <=> Teams!Exists(x2[p]) /\ x2[p].active
    /\ \A p : Teams!Active(p)' <=> Teams!Exists(x2'[p]) /\ x2'[p].active
BY DEF Teams!Active, Teams!Exists

\* A step that makes nobody a member leaves a servant and a group with those they had.
LEMMA TeamsFewer ==
    ASSUME \A p \in Others : Teams!Active(p)' =>
               /\ Teams!Active(p)
               /\ x2'[p].group = x2[p].group /\ x2'[p].servant = x2[p].servant
    PROVE  /\ \A g : /\ Teams!Members(g)' \in SUBSET Teams!Members(g)
                     /\ Teams!Members(g) \in SUBSET Others
           /\ \A v : /\ Teams!Memberships(v)' \in SUBSET Teams!Memberships(v)
                     /\ Teams!Memberships(v) \in SUBSET Others
BY DEF Teams!Members, Teams!Memberships

\* What a request that adds a servant knows.
LEMMA TeamsAdds ==
    ASSUME Teams!Inv, NEW w \in Workers, NEW r, r = req[w], pc[w] # "idle", r.op = "add"
    PROVE  \E g \in Rows, a \in Ones \cup Thirds :
              /\ g = r.group /\ a = r.servant /\ pc[w] \in {"looking", "counting", "inserting"}
              /\ r = [op |-> "add", servant |-> a, group |-> g, max |-> r.max, by |-> "clergy"]
              /\ x1[g] # None /\ r.max \in GroupLimits /\ r.max \in Nat
              /\ Teams!Exists(x1[g]) => r.max = x1[g].max \/ g \in x4
              /\ pc[w] # "looking" => Teams!Memberships(a) = {} \/ a \in x3
              /\ pc[w] = "inserting" /\ r.max > 0 =>
                    Teams!Cardinality(Teams!Members(g)) < r.max \/ g \in x3
<1>1. Teams!Sound(w)
  BY DEF Teams!Inv
<1>2. r.op # "reclassify"
  OBVIOUS
<1>3. r.max \in GroupLimits => r.max \in Nat
  BY TeamsConstants
<1> QED
  BY <1>1, <1>2, <1>3 DEF Teams!Sound

LEMMA TeamsAddsFor ==
    ASSUME Teams!Inv, NEW w \in Workers, NEW r, r = req[w], pc[w] # "idle", r.op = "add"
    PROVE  r = [op |-> "add", servant |-> r.servant, group |-> r.group, max |-> r.max, by |-> "clergy"]
<1>1. Teams!Sound(w)
  BY DEF Teams!Inv
<1>2. r.op # "reclassify"
  OBVIOUS
<1> QED
  BY <1>1, <1>2 DEF Teams!Sound

\* What one that reclassifies him knows.
LEMMA TeamsReclassifies ==
    ASSUME Teams!Inv, NEW w \in Workers, NEW r, r = req[w], pc[w] # "idle", r.op # "add"
    PROVE  /\ pc[w] \in {"choosing", "limiting", "comparing", "leaving", "inserting"}
           /\ r = [op |-> "reclassify", servant |-> r.servant, rank |-> r.rank,
                   group |-> r.group, from |-> r.from, by |-> Elsewhere]
           /\ r.op = "reclassify"
           /\ r.servant \in Ones \cup Thirds /\ r.rank \in Teams!Ranks
           /\ pc[w] = "leaving" => r.from \in Others
<1>1. Teams!Sound(w)
  BY DEF Teams!Inv
<1> QED
  BY <1>1 DEF Teams!Sound

\* A request that waits, while nobody is made a member.
LEMMA TeamsOther ==
    ASSUME Teams!Inv, NEW v \in Workers, pc'[v] = pc[v], req'[v] = req[v],
           x3 \subseteq x3', x4 \subseteq x4',
           \A g \in Rows : x1[g] # None =>
               /\ x1'[g] # None
               /\ Teams!Exists(x1'[g]) =>
                     Teams!Exists(x1[g]) /\ (x1'[g].max = x1[g].max \/ g \in x4'),
           \A g \in Rows : pc[v] \in {"looking", "counting", "inserting"} /\ req[v].op = "add"
                             /\ req[v].group = g =>
               Teams!Members(g)' \in SUBSET Teams!Members(g) \/ g \in x3',
           \A a \in Ones \cup Thirds : pc[v] \in {"looking", "counting", "inserting"}
                             /\ req[v].op = "add" /\ req[v].servant = a =>
               Teams!Memberships(a)' \in SUBSET Teams!Memberships(a) \/ a \in x3'
    PROVE  Teams!Sound(v)'
<1>1. CASE pc[v] = "idle"
  BY <1>1 DEF Teams!Sound
<1>2. CASE pc[v] # "idle" /\ req[v].op = "add"
  <2>1. PICK r : r = req[v]
    OBVIOUS
  <2>2. r.op = "add" /\ pc[v] # "idle"
    BY <1>2, <2>1
  <2>3. PICK g \in Rows, a \in Ones \cup Thirds :
              /\ g = r.group /\ a = r.servant /\ pc[v] \in {"looking", "counting", "inserting"}
              /\ r = [op |-> "add", servant |-> a, group |-> g, max |-> r.max, by |-> "clergy"]
              /\ x1[g] # None /\ r.max \in GroupLimits /\ r.max \in Nat
              /\ Teams!Exists(x1[g]) => r.max = x1[g].max \/ g \in x4
              /\ pc[v] # "looking" => Teams!Memberships(a) = {} \/ a \in x3
              /\ pc[v] = "inserting" /\ r.max > 0 =>
                    Teams!Cardinality(Teams!Members(g)) < r.max \/ g \in x3
    BY <2>1, <2>2, TeamsAdds
  <2>4. /\ Teams!Members(g)' \in SUBSET Teams!Members(g) \/ g \in x3'
        /\ Teams!Memberships(a)' \in SUBSET Teams!Memberships(a) \/ a \in x3'
    BY <2>1, <2>2, <2>3
  <2>5. pc[v] = "inserting" /\ r.max > 0 =>
              Teams!Cardinality(Teams!Members(g)') < r.max \/ g \in x3'
    <3>1. PICK S : S = Teams!Members(g)
      OBVIOUS
    <3>2. PICK T : T = Teams!Members(g)'
      OBVIOUS
    <3>3. S \in SUBSET Others
      BY <3>1 DEF Teams!Members
    <3>4. CASE T \in SUBSET S
      <4>1. /\ Teams!Cardinality(T) \in Nat /\ Teams!Cardinality(S) \in Nat
            /\ Teams!Cardinality(T) <= Teams!Cardinality(S)
        BY <3>3, <3>4, TeamsCount
      <4> QED
        BY <2>3, <3>1, <3>2, <4>1
    <3> QED
      BY <2>4, <3>1, <3>2, <3>4
  <2>6. /\ x1'[g] # None
        /\ Teams!Exists(x1'[g]) => r.max = x1'[g].max \/ g \in x4'
        /\ pc[v] # "looking" => Teams!Memberships(a)' = {} \/ a \in x3'
    BY <2>3, <2>4
  <2>7. req'[v] = r /\ pc'[v] = pc[v]
    BY <2>1
  <2> QED
    BY <2>2, <2>3, <2>5, <2>6, <2>7 DEF Teams!Sound
<1>3. CASE pc[v] # "idle" /\ req[v].op # "add"
  <2>1. PICK r : r = req[v]
    OBVIOUS
  <2>2. r.op # "add" /\ pc[v] # "idle"
    BY <1>3, <2>1
  <2>3. /\ pc[v] \in {"choosing", "limiting", "comparing", "leaving", "inserting"}
        /\ r = [op |-> "reclassify", servant |-> r.servant, rank |-> r.rank,
                group |-> r.group, from |-> r.from, by |-> Elsewhere]
        /\ r.op = "reclassify"
        /\ r.servant \in Ones \cup Thirds /\ r.rank \in Teams!Ranks
        /\ pc[v] = "leaving" => r.from \in Others
    BY <2>1, <2>2, TeamsReclassifies
  <2>4. req'[v] = r /\ pc'[v] = pc[v]
    BY <2>1
  <2> QED
    BY <2>3, <2>4 DEF Teams!Sound
<1> QED
  BY <1>1, <1>2, <1>3

\* A step of the requests of M, or of none, that makes nobody a member.
LEMMA TeamsKept ==
    ASSUME Teams!Inv, NEW M \in SUBSET Workers, Teams!FlightsOK',
           \A v \in Workers \ M : pc'[v] = pc[v] /\ req'[v] = req[v],
           \A w \in M : Teams!Sound(w)',
           x1' \in [Rows -> Teams!SubGroup \cup {None, Gone}],
           x2' \in [Others -> Teams!SubGroupMember \cup {None, Gone}],
           x3' \subseteq Ones \cup Thirds \cup Rows, x4' \subseteq Rows,
           x3 \subseteq x3', x4 \subseteq x4',
           \A g \in Rows : x1[g] # None => x1'[g] # None,
           \A g \in Rows : Teams!Exists(x1'[g]) =>
               x1[g] = None \/ (Teams!Exists(x1[g]) /\ (x1'[g].max = x1[g].max \/ g \in x4')),
           \A p \in Others : Teams!Active(p)' =>
               /\ Teams!Active(p)
               /\ x2'[p].group = x2[p].group /\ x2'[p].servant = x2[p].servant
               /\ Teams!Exists(x1'[x2[p].group])
    PROVE  Teams!Inv'
<1>1. Teams!TypeOK'
  BY DEF Teams!TypeOK
<1>2. /\ \A g : /\ Teams!Members(g)' \in SUBSET Teams!Members(g)
                /\ Teams!Members(g) \in SUBSET Others
      /\ \A v : /\ Teams!Memberships(v)' \in SUBSET Teams!Memberships(v)
                /\ Teams!Memberships(v) \in SUBSET Others
  BY TeamsFewer
<1>3. Teams!OneGroupEach'
  <2> SUFFICES ASSUME NEW v \in Ones \cup Thirds
               PROVE  Teams!Cardinality(Teams!Memberships(v)') <= 1 \/ v \in x3'
    BY DEF Teams!OneGroupEach
  <2>1. PICK S \in SUBSET Others : S = Teams!Memberships(v)
    BY <1>2
  <2>2. PICK T \in SUBSET S : T = Teams!Memberships(v)'
    BY <1>2, <2>1
  <2>3. Teams!Cardinality(S) <= 1 \/ v \in x3
    BY <2>1 DEF Teams!Inv, Teams!OneGroupEach
  <2>4. /\ Teams!Cardinality(T) \in Nat /\ Teams!Cardinality(S) \in Nat
        /\ Teams!Cardinality(T) <= Teams!Cardinality(S)
    BY TeamsCount
  <2> QED
    BY <2>2, <2>3, <2>4
<1>4. Teams!MembersBounded'
  <2> SUFFICES ASSUME NEW g \in Rows, Teams!Exists(x1'[g]), x1'[g].max > 0
               PROVE  Teams!Cardinality(Teams!Members(g)') <= x1'[g].max \/ g \in x3' \cup x4'
    BY DEF Teams!MembersBounded, Teams!Exists
  <2>1. PICK S \in SUBSET Others : S = Teams!Members(g)
    BY <1>2
  <2>2. PICK T \in SUBSET S : T = Teams!Members(g)'
    BY <1>2, <2>1
  <2>3. /\ Teams!Cardinality(T) \in Nat /\ Teams!Cardinality(S) \in Nat
        /\ Teams!Cardinality(T) <= Teams!Cardinality(S)
    BY TeamsCount
  <2>4. x1'[g] \in Teams!SubGroup /\ x1'[g].max \in Nat
    BY TeamsConstants DEF Teams!Exists, Teams!SubGroup
  <2>5. CASE x1[g] = None
    <3>1. S = {}
      BY <2>1, <2>5 DEF Teams!Inv, Teams!Members, Teams!Exists
    <3>2. T = {}
      BY <2>2, <3>1
    <3> QED
      BY <2>2, <2>4, <3>2, TeamsNone
  <2>6. CASE Teams!Exists(x1[g]) /\ x1'[g].max = x1[g].max
    <3>1. Teams!Cardinality(S) <= x1[g].max \/ g \in x3 \cup x4
      BY <2>1, <2>6 DEF Teams!Inv, Teams!MembersBounded
    <3> QED
      BY <2>2, <2>3, <2>4, <2>6, <3>1
  <2> QED
    BY <2>5, <2>6
<1>5. ASSUME NEW p \in Others, Teams!Active(p)' PROVE Teams!Exists(x1'[x2'[p].group])
  BY <1>5
<1>6. ASSUME NEW v \in Workers PROVE Teams!Sound(v)'
  <2>1. CASE v \in M
    BY <2>1
  <2>2. CASE v \notin M
    <3>1. pc'[v] = pc[v] /\ req'[v] = req[v]
      BY <2>2
    <3>2. \A g \in Rows : x1[g] # None =>
               /\ x1'[g] # None
               /\ Teams!Exists(x1'[g]) =>
                     Teams!Exists(x1[g]) /\ (x1'[g].max = x1[g].max \/ g \in x4')
      OBVIOUS
    <3> QED
      BY <1>2, <3>1, <3>2, TeamsOther
  <2> QED
    BY <2>1, <2>2
<1> QED
  BY <1>1, <1>3, <1>4, <1>5, <1>6 DEF Teams!Inv, Teams!Active, Teams!Exists

\* A request that moves while no row changes.
LEMMA TeamsMoves ==
    ASSUME Teams!Inv, NEW w \in Workers, Teams!FlightsOK', Teams!Sound(w)',
           \A v \in Workers \ {w} : pc'[v] = pc[v] /\ req'[v] = req[v],
           x1' = x1, x2' = x2, x3' = x3, x4' = x4
    PROVE  Teams!Inv'
<1>1. PICK M \in SUBSET Workers : M = {w}
  OBVIOUS
<1>2. /\ \A v \in Workers \ M : pc'[v] = pc[v] /\ req'[v] = req[v]
      /\ \A v \in M : Teams!Sound(v)'
  BY <1>1
<1>3. \A p \in Others : Teams!Active(p)' =>
               /\ Teams!Active(p)
               /\ x2'[p].group = x2[p].group /\ x2'[p].servant = x2[p].servant
               /\ Teams!Exists(x1'[x2[p].group])
  BY TeamsActive, TeamsMember
<1>4. /\ x1' \in [Rows -> Teams!SubGroup \cup {None, Gone}]
      /\ x2' \in [Others -> Teams!SubGroupMember \cup {None, Gone}]
      /\ x3' \subseteq Ones \cup Thirds \cup Rows /\ x4' \subseteq Rows
      /\ x3 \subseteq x3' /\ x4 \subseteq x4'
      /\ \A g \in Rows : x1[g] # None => x1'[g] # None
      /\ \A g \in Rows : Teams!Exists(x1'[g]) =>
            x1[g] = None \/ (Teams!Exists(x1[g]) /\ (x1'[g].max = x1[g].max \/ g \in x4'))
  BY TeamsRows
<1> QED
  BY <1>2, <1>3, <1>4, TeamsKept

\* A step of the tables alone.
LEMMA TeamsDesk ==
    ASSUME Teams!Inv, NEW g \in Rows, Teams!GroupDesk(g)
    PROVE  Teams!Inv'
<1>1. PICK M \in SUBSET Workers : M = {}
  OBVIOUS
<1>2. ASSUME pc' = pc, req' = req, sent' = sent
      PROVE  /\ Teams!FlightsOK'
             /\ \A v \in Workers \ M : pc'[v] = pc[v] /\ req'[v] = req[v]
             /\ \A w \in M : Teams!Sound(w)'
  BY <1>1, <1>2 DEF Teams!Inv, Teams!TypeOK, Teams!FlightsOK
<1>3. ASSUME NEW row \in Teams!SubGroup, x1' = [x1 EXCEPT ![g] = row],
             x2' = x2, x3' = x3, x4 \subseteq x4', x4' \subseteq Rows,
             pc' = pc, req' = req, sent' = sent,
             x1[g] = None \/ (Teams!Exists(x1[g]) /\ (row.max = x1[g].max \/ g \in x4'))
      PROVE  Teams!Inv'
  <2>1. /\ x1' \in [Rows -> Teams!SubGroup \cup {None, Gone}]
        /\ x2' \in [Others -> Teams!SubGroupMember \cup {None, Gone}]
        /\ x3' \subseteq Ones \cup Thirds \cup Rows
        /\ x3 \subseteq x3' /\ x1'[g] = row /\ \A h \in Rows \ {g} : x1'[h] = x1[h]
    BY <1>3, TeamsRows
  <2>2. Teams!Exists(row)
    BY TeamsConstants DEF Teams!Exists
  <2>3. \A h \in Rows : x1[h] # None => x1'[h] # None
    BY <2>1, <2>2 DEF Teams!Exists
  <2>4. \A h \in Rows : Teams!Exists(x1'[h]) =>
            x1[h] = None \/ (Teams!Exists(x1[h]) /\ (x1'[h].max = x1[h].max \/ h \in x4'))
    BY <1>3, <2>1
  <2>5. \A p \in Others : Teams!Active(p)' =>
               /\ Teams!Active(p)
               /\ x2'[p].group = x2[p].group /\ x2'[p].servant = x2[p].servant
               /\ Teams!Exists(x1'[x2[p].group])
    BY <1>3, <2>1, <2>2, TeamsActive, TeamsMember
  <2> QED
    BY <1>1, <1>2, <1>3, <2>1, <2>3, <2>4, <2>5, TeamsKept
<1>4. ASSUME NEW name \in Kinds, NEW c \in Kinds, NEW max \in GroupLimits, Teams!CreateGroup(g, name, c, max)
      PROVE  Teams!Inv'
  <2>1. PICK row : row = [name |-> name, category |-> c, active |-> TRUE, max |-> max]
    OBVIOUS
  <2>2. row \in Teams!SubGroup
    BY <2>1, TeamsConstants DEF Teams!SubGroup
  <2>3. /\ x1[g] = None /\ x1' = [x1 EXCEPT ![g] = row]
        /\ x2' = x2 /\ x3' = x3 /\ x4' = x4 /\ pc' = pc /\ req' = req /\ sent' = sent
    BY <1>4, <2>1 DEF Teams!CreateGroup, Teams!groupHistory, Teams!flights
  <2> QED
    BY <1>3, <2>2, <2>3, TeamsRows
<1>5. ASSUME NEW c \in Kinds, NEW active \in BOOLEAN, NEW max \in GroupLimits, Teams!UpdateGroup(g, c, active, max)
      PROVE  Teams!Inv'
  <2>1. PICK old : old = x1[g]
    OBVIOUS
  <2>2. /\ Teams!Exists(old)
        /\ x1' = [x1 EXCEPT ![g] = [name |-> old.name, category |-> c, active |-> active, max |-> max]]
        /\ x4' = IF max = old.max THEN x4 ELSE x4 \cup {g}
        /\ x2' = x2 /\ x3' = x3 /\ pc' = pc /\ req' = req /\ sent' = sent
    BY <1>5, <2>1 DEF Teams!UpdateGroup, Teams!flights
  <2>3. /\ old = [name |-> old.name, category |-> old.category, active |-> old.active, max |-> old.max]
        /\ old \in Teams!SubGroup
    BY <2>1, <2>2, TeamsGroup
  <2>4. PICK row : row = [name |-> old.name, category |-> c, active |-> active, max |-> max]
    OBVIOUS
  <2>5. row \in Teams!SubGroup /\ row.max = max
    BY <2>3, <2>4, TeamsConstants DEF Teams!SubGroup
  <2>6. x1' = [x1 EXCEPT ![g] = row]
    BY <2>2, <2>4
  <2>7. x4 \subseteq x4' /\ x4' \subseteq Rows /\ (max = old.max \/ g \in x4')
    BY <2>2, TeamsRows
  <2> QED
    BY <1>3, <2>1, <2>2, <2>5, <2>6, <2>7
<1>6. CASE Teams!DeleteGroup(g)
  <2>1. /\ Teams!Exists(x1[g]) /\ x1' = [x1 EXCEPT ![g] = Gone]
        /\ x2' = [p \in Others |->
                     IF Teams!Exists(x2[p]) /\ x2[p].group = g THEN Gone ELSE x2[p]]
        /\ x3' = x3 /\ x4' = x4 /\ pc' = pc /\ req' = req /\ sent' = sent
    BY <1>6 DEF Teams!DeleteGroup, Teams!groupHistory, Teams!flights
  <2>2. /\ x1' \in [Rows -> Teams!SubGroup \cup {None, Gone}]
        /\ x2' \in [Others -> Teams!SubGroupMember \cup {None, Gone}]
        /\ x3' \subseteq Ones \cup Thirds \cup Rows /\ x4' \subseteq Rows
        /\ x3 \subseteq x3' /\ x4 \subseteq x4'
        /\ x1'[g] = Gone /\ \A h \in Rows \ {g} : x1'[h] = x1[h]
    BY <2>1, TeamsRows
  <2>3. ~Teams!Exists(Gone) /\ Gone # None
    BY TeamsConstants DEF Teams!Exists
  <2>4. /\ \A h \in Rows : x1[h] # None => x1'[h] # None
        /\ \A h \in Rows : Teams!Exists(x1'[h]) =>
            x1[h] = None \/ (Teams!Exists(x1[h]) /\ (x1'[h].max = x1[h].max \/ h \in x4'))
    BY <2>2, <2>3
  <2>5. ASSUME NEW p \in Others, Teams!Active(p)'
        PROVE  /\ Teams!Active(p)
               /\ x2'[p].group = x2[p].group /\ x2'[p].servant = x2[p].servant
               /\ Teams!Exists(x1'[x2[p].group])
    <3>1. Teams!Exists(x2'[p]) /\ x2'[p].active
      BY <2>5, TeamsActive
    <3>2. x2'[p] = x2[p] /\ ~(Teams!Exists(x2[p]) /\ x2[p].group = g)
      BY <2>1, <2>3, <3>1
    <3>3. Teams!Active(p) /\ x2[p].group \in Rows \ {g} /\ Teams!Exists(x1[x2[p].group])
      BY <3>1, <3>2, TeamsActive, TeamsMember
    <3> QED
      BY <2>2, <3>2, <3>3
  <2> QED
    BY <1>1, <1>2, <2>1, <2>2, <2>4, <2>5, TeamsKept
<1> QED
  BY <1>4, <1>5, <1>6 DEF Teams!GroupDesk

\* A member who is taken off, by a request of M or at the desk.
LEMMA TeamsTakenOff ==
    ASSUME Teams!Inv, NEW M \in SUBSET Workers, Teams!FlightsOK',
           \A v \in Workers \ M : pc'[v] = pc[v] /\ req'[v] = req[v],
           \A w \in M : Teams!Sound(w)',
           NEW p \in Others, Teams!Exists(x2[p]), x2' = [x2 EXCEPT ![p].active = FALSE],
           x1' = x1, x3' = x3, x4' = x4
    PROVE  Teams!Inv'
<1>1. PICK old \in Teams!SubGroupMember : old = x2[p]
  BY TeamsMember
<1>2. PICK row : row = [old EXCEPT !.active = FALSE]
  OBVIOUS
<1>3. row \in Teams!SubGroupMember /\ ~row.active
  BY <1>1, <1>2 DEF Teams!SubGroupMember
<1>4. /\ x2' \in [Others -> Teams!SubGroupMember \cup {None, Gone}]
      /\ x2'[p] = row /\ \A o \in Others \ {p} : x2'[o] = x2[o]
  BY <1>1, <1>2, <1>3, TeamsRows
<1>5. \A o \in Others : Teams!Active(o)' =>
               /\ Teams!Active(o)
               /\ x2'[o].group = x2[o].group /\ x2'[o].servant = x2[o].servant
               /\ Teams!Exists(x1'[x2[o].group])
  BY <1>3, <1>4, TeamsActive, TeamsMember
<1>6. /\ x1' \in [Rows -> Teams!SubGroup \cup {None, Gone}]
      /\ x3' \subseteq Ones \cup Thirds \cup Rows /\ x4' \subseteq Rows
      /\ x3 \subseteq x3' /\ x4 \subseteq x4'
      /\ \A g \in Rows : x1[g] # None => x1'[g] # None
      /\ \A g \in Rows : Teams!Exists(x1'[g]) =>
            x1[g] = None \/ (Teams!Exists(x1[g]) /\ (x1'[g].max = x1[g].max \/ g \in x4'))
  BY TeamsRows
<1> QED
  BY <1>4, <1>5, <1>6, TeamsKept

LEMMA TeamsRemove ==
    ASSUME Teams!Inv, NEW p \in Others, Teams!RemoveMember(p)
    PROVE  Teams!Inv'
<1>1. PICK M \in SUBSET Workers : M = {}
  OBVIOUS
<1>2. /\ Teams!Exists(x2[p]) /\ x2' = [x2 EXCEPT ![p].active = FALSE]
      /\ x1' = x1 /\ x3' = x3 /\ x4' = x4 /\ pc' = pc /\ req' = req /\ sent' = sent
  BY DEF Teams!RemoveMember, Teams!Active, Teams!groupHistory, Teams!flights
<1>3. /\ Teams!FlightsOK'
      /\ \A v \in Workers \ M : pc'[v] = pc[v] /\ req'[v] = req[v]
      /\ \A w \in M : Teams!Sound(w)'
  BY <1>1, <1>2 DEF Teams!Inv, Teams!TypeOK, Teams!FlightsOK
<1> QED
  BY <1>2, <1>3, TeamsTakenOff

\* A request that comes in.
LEMMA TeamsAsks ==
    ASSUME Teams!Inv, NEW w \in Workers, NEW v \in Ones \cup Thirds, Teams!GroupRequest(w, v)
    PROVE  Teams!Inv'
<1>1. ASSUME NEW r, NEW place, Teams!Begin(w, r, place), place # "idle", r # Teams!NoRequest,
             pc'[w] = place /\ req'[w] = r => Teams!Sound(w)',
             x1' = x1, x2' = x2, x3' = x3, x4' = x4
      PROVE  Teams!Inv'
  <2>1. Teams!At(w, r, place) /\ sent' \in 0 .. FewCalls
    BY <1>1, TeamsRows, TeamsConstants DEF Teams!Begin
  <2>2. /\ Teams!FlightsOK' /\ pc'[w] = place /\ req'[w] = r
        /\ \A u \in Workers \ {w} : pc'[u] = pc[u] /\ req'[u] = req[u]
    BY <1>1, <2>1, TeamsMove
  <2> QED
    BY <1>1, <2>2, TeamsMoves
<1>2. ASSUME NEW g \in Rows, Teams!AddMember(w, g, v)
      PROVE  Teams!Inv'
  <2>1. PICK r : r = [op |-> "add", servant |-> v, group |-> g, max |-> x1[g].max, by |-> "clergy"]
    OBVIOUS
  <2>2. /\ Teams!Exists(x1[g]) /\ Teams!Begin(w, r, "looking") /\ r # Teams!NoRequest
        /\ x1' = x1 /\ x2' = x2 /\ x3' = x3 /\ x4' = x4
    BY <1>2, <2>1 DEF Teams!AddMember, Teams!groupTables, Teams!groupHistory, Teams!NoRequest
  <2>3. x1[g].max \in GroupLimits /\ x1[g] # None
    BY <2>2, TeamsGroup DEF Teams!Exists
  <2>4. pc'[w] = "looking" /\ req'[w] = r => Teams!Sound(w)'
    BY <2>1, <2>2, <2>3 DEF Teams!Sound
  <2> QED
    BY <1>1, <2>2, <2>4
<1>3. ASSUME NEW rank \in Teams!Ranks, Teams!ReclassifyServant(w, v, rank)
      PROVE  Teams!Inv'
  <2>1. PICK r : r = [op |-> "reclassify", servant |-> v, rank |-> rank, group |-> None,
                      from |-> None, by |-> Elsewhere]
    OBVIOUS
  <2>2. /\ Teams!Begin(w, r, "choosing") /\ r # Teams!NoRequest
        /\ x1' = x1 /\ x2' = x2 /\ x3' = x3 /\ x4' = x4
    BY <1>3, <2>1
       DEF Teams!ReclassifyServant, Teams!groupTables, Teams!groupHistory, Teams!NoRequest
  <2>3. pc'[w] = "choosing" /\ req'[w] = r => Teams!Sound(w)'
    BY <2>1 DEF Teams!Sound
  <2> QED
    BY <1>1, <2>2, <2>3
<1> QED
  BY <1>2, <1>3 DEF Teams!GroupRequest

\* The calls of a request that only look.
LEMMA TeamsLooks ==
    ASSUME Teams!Inv, NEW w \in Workers,
           \/ Teams!LookForMember(w) \/ Teams!CountMembers(w)
           \/ Teams!LimitAines(w) \/ Teams!CompareGroup(w) \/ Teams!AbortGroup(w)
    PROVE  Teams!Inv'
<1>1. ASSUME NEW r, NEW place, Teams!Continue(w, r, place), place # "idle", r # Teams!NoRequest,
             pc'[w] = place /\ req'[w] = r => Teams!Sound(w)',
             x1' = x1, x2' = x2, x3' = x3, x4' = x4
      PROVE  Teams!Inv'
  <2>1. Teams!At(w, r, place) /\ sent' \in 0 .. FewCalls
    BY <1>1, TeamsRows DEF Teams!Continue
  <2>2. /\ Teams!FlightsOK' /\ pc'[w] = place /\ req'[w] = r
        /\ \A u \in Workers \ {w} : pc'[u] = pc[u] /\ req'[u] = req[u]
    BY <1>1, <2>1, TeamsMove
  <2> QED
    BY <1>1, <2>2, TeamsMoves
<1>2. ASSUME Teams!Return(w), x1' = x1, x2' = x2, x3' = x3, x4' = x4
      PROVE  Teams!Inv'
  BY <1>2, TeamsEnd, TeamsMoves
<1>3. x1' = x1 /\ x2' = x2 /\ x3' = x3 /\ x4' = x4 /\ pc[w] # "idle"
  BY DEF Teams!LookForMember, Teams!CountMembers, Teams!LimitAines, Teams!CompareGroup,
         Teams!AbortGroup, Teams!Die, Teams!groupTables, Teams!groupHistory
<1>4. /\ \A g : Teams!Members(g)' = Teams!Members(g)
      /\ \A v : Teams!Memberships(v)' = Teams!Memberships(v)
  BY <1>3 DEF Teams!Members, Teams!Memberships, Teams!Active, Teams!Exists
<1>5. PICK r : r = req[w]
  OBVIOUS
<1>6. ASSUME r.op = "add", NEW place \in {"counting", "inserting"}, Teams!Continue(w, r, place),
             Teams!Memberships(r.servant) = {} \/ r.servant \in x3,
             place = "inserting" /\ r.max > 0 =>
                 Teams!Cardinality(Teams!Members(r.group)) < r.max \/ r.group \in x3
      PROVE  Teams!Inv'
  <2>1. PICK g \in Rows, a \in Ones \cup Thirds :
              /\ g = r.group /\ a = r.servant /\ pc[w] \in {"looking", "counting", "inserting"}
              /\ r = [op |-> "add", servant |-> a, group |-> g, max |-> r.max, by |-> "clergy"]
              /\ x1[g] # None /\ r.max \in GroupLimits /\ r.max \in Nat
              /\ Teams!Exists(x1[g]) => r.max = x1[g].max \/ g \in x4
              /\ pc[w] # "looking" => Teams!Memberships(a) = {} \/ a \in x3
              /\ pc[w] = "inserting" /\ r.max > 0 =>
                    Teams!Cardinality(Teams!Members(g)) < r.max \/ g \in x3
    BY <1>3, <1>5, <1>6, TeamsAdds
  <2>2. /\ Teams!Memberships(a)' = {} \/ a \in x3'
        /\ place = "inserting" /\ r.max > 0 =>
              Teams!Cardinality(Teams!Members(g)') < r.max \/ g \in x3'
        /\ x1'[g] # None /\ (Teams!Exists(x1'[g]) => r.max = x1'[g].max \/ g \in x4')
    BY <1>3, <1>4, <1>6, <2>1
  <2>3. pc'[w] = place /\ req'[w] = r => Teams!Sound(w)'
    BY <1>6, <2>1, <2>2 DEF Teams!Sound
  <2>4. r # Teams!NoRequest
    BY <1>6 DEF Teams!NoRequest
  <2> QED
    BY <1>1, <1>3, <1>6, <2>3, <2>4
<1>7. CASE Teams!LookForMember(w)
  <2>1. /\ pc[w] = "looking"
        /\ \/ Teams!Return(w)
           \/ /\ Teams!Memberships(r.servant) = {}
              /\ Teams!Continue(w, r, IF r.max > 0 THEN "counting" ELSE "inserting")
    BY <1>5, <1>7 DEF Teams!LookForMember
  <2>2. r.op = "add"
    BY <1>5, <2>1, TeamsReclassifies
  <2>3. CASE r.max > 0
    BY <1>2, <1>3, <1>6, <2>1, <2>2, <2>3
  <2>4. CASE ~(r.max > 0)
    BY <1>2, <1>3, <1>6, <2>1, <2>2, <2>4
  <2> QED
    BY <2>3, <2>4
<1>8. CASE Teams!CountMembers(w)
  <2>1. /\ pc[w] = "counting"
        /\ \/ Teams!Return(w)
           \/ /\ ~(Teams!Cardinality(Teams!Members(r.group)) >= r.max)
              /\ Teams!Continue(w, r, "inserting")
    BY <1>5, <1>8 DEF Teams!CountMembers
  <2>2. r.op = "add"
    BY <1>5, <2>1, TeamsReclassifies
  <2>3. /\ r.max \in Nat
        /\ Teams!Memberships(r.servant) = {} \/ r.servant \in x3
    BY <1>3, <1>5, <2>1, <2>2, TeamsAdds
  <2>4. Teams!Cardinality(Teams!Members(r.group)) \in Nat
    <3>1. PICK S \in SUBSET Others : S = Teams!Members(r.group)
      BY DEF Teams!Members
    <3> QED
      BY <3>1, TeamsCount
  <2> QED
    BY <1>2, <1>3, <1>6, <2>1, <2>2, <2>3, <2>4
<1>9. ASSUME pc[w] \in {"limiting", "comparing"},
             NEW rank \in Teams!Ranks, NEW from, NEW place \in {"choosing", "comparing", "leaving", "inserting"},
             Teams!Continue(w, [op |-> "reclassify", servant |-> r.servant, rank |-> rank,
                                group |-> r.group, from |-> from, by |-> Elsewhere], place),
             place = "leaving" => from \in Others
      PROVE  Teams!Inv'
  <2>1. PICK q : q = [op |-> "reclassify", servant |-> r.servant, rank |-> rank,
                                group |-> r.group, from |-> from, by |-> Elsewhere]
    OBVIOUS
  <2>2. r.op # "add"
    BY <1>3, <1>5, <1>9, TeamsAdds
  <2>3. r.servant \in Ones \cup Thirds
    BY <1>3, <1>5, <2>2, TeamsReclassifies
  <2>4. pc'[w] = place /\ req'[w] = q => Teams!Sound(w)'
    BY <1>9, <2>1, <2>3 DEF Teams!Sound
  <2>5. q # Teams!NoRequest /\ Teams!Continue(w, q, place)
    BY <1>9, <2>1 DEF Teams!NoRequest
  <2> QED
    BY <1>1, <1>3, <2>4, <2>5
<1>10. ASSUME pc[w] \in {"limiting", "comparing"}
       PROVE  /\ r = [op |-> "reclassify", servant |-> r.servant, rank |-> r.rank,
                      group |-> r.group, from |-> r.from, by |-> Elsewhere]
              /\ r.rank \in Teams!Ranks
  <2>1. r.op # "add"
    BY <1>3, <1>5, <1>10, TeamsAdds
  <2> QED
    BY <1>3, <1>5, <2>1, TeamsReclassifies
<1>11. CASE Teams!LimitAines(w)
  <2>1. /\ pc[w] = "limiting"
        /\ \/ Teams!Continue(w, [r EXCEPT !.rank = "CONFIRMES"], "choosing")
           \/ Teams!Continue(w, r, "comparing")
    BY <1>5, <1>11 DEF Teams!LimitAines
  <2>2. /\ [r EXCEPT !.rank = "CONFIRMES"] =
              [op |-> "reclassify", servant |-> r.servant, rank |-> "CONFIRMES",
               group |-> r.group, from |-> r.from, by |-> Elsewhere]
        /\ "CONFIRMES" \in Teams!Ranks
    BY <1>10, <2>1 DEF Teams!Ranks
  <2> QED
    BY <1>9, <1>10, <2>1, <2>2
<1>12. CASE Teams!CompareGroup(w)
  <2>1. /\ pc[w] = "comparing"
        /\ \/ Teams!Continue(w, r, "inserting")
           \/ Teams!Return(w)
           \/ \E p \in Others : Teams!Continue(w, [r EXCEPT !.from = p], "leaving")
    BY <1>5, <1>12 DEF Teams!CompareGroup, Teams!Memberships
  <2>2. \A p : [r EXCEPT !.from = p] =
              [op |-> "reclassify", servant |-> r.servant, rank |-> r.rank,
               group |-> r.group, from |-> p, by |-> Elsewhere]
    BY <1>10, <2>1
  <2>3. CASE Teams!Continue(w, r, "inserting")
    BY <1>9, <1>10, <2>1, <2>3
  <2>4. ASSUME NEW p \in Others, Teams!Continue(w, [r EXCEPT !.from = p], "leaving")
        PROVE  Teams!Inv'
    BY <1>9, <1>10, <2>1, <2>2, <2>4
  <2> QED
    BY <1>2, <1>3, <2>1, <2>3, <2>4
<1>13. CASE Teams!AbortGroup(w)
  BY <1>2, <1>3, <1>13 DEF Teams!AbortGroup, Teams!Die
<1> QED
  BY <1>7, <1>8, <1>11, <1>12, <1>13

\* The choice of a group, which may give it the category of its name.
LEMMA TeamsChoose ==
    ASSUME Teams!Inv, NEW w \in Workers, Teams!ChooseGroup(w)
    PROVE  Teams!Inv'
<1>1. PICK r : r = req[w]
  OBVIOUS
<1>2. /\ pc[w] = "choosing" /\ x2' = x2 /\ x3' = x3 /\ x4' = x4
      /\ \/ \E g : Teams!Chosen(w, g) /\ x1' = x1
         \/ \E g \in Rows : /\ Teams!Chosen(w, g) /\ Teams!Exists(x1[g])
                            /\ x1' = [x1 EXCEPT ![g].category = r.rank]
         \/ Teams!Return(w) /\ x1' = x1
  BY <1>1 DEF Teams!ChooseGroup, Teams!groupHistory, Teams!Named
<1>3. r.op # "add"
  BY <1>1, <1>2, TeamsAdds
<1>4. /\ r = [op |-> "reclassify", servant |-> r.servant, rank |-> r.rank,
              group |-> r.group, from |-> r.from, by |-> Elsewhere]
      /\ r.servant \in Ones \cup Thirds /\ r.rank \in Teams!Ranks
  BY <1>1, <1>2, <1>3, TeamsReclassifies
<1>5. ASSUME NEW g, Teams!Chosen(w, g)
      PROVE  /\ Teams!FlightsOK' /\ Teams!Sound(w)'
             /\ \A v \in Workers \ {w} : pc'[v] = pc[v] /\ req'[v] = req[v]
  <2>1. PICK place \in {"limiting", "comparing"} : place = IF r.rank = "AINES" THEN "limiting" ELSE "comparing"
    OBVIOUS
  <2>2. PICK q : q = [op |-> "reclassify", servant |-> r.servant, rank |-> r.rank,
                      group |-> g, from |-> r.from, by |-> Elsewhere]
    OBVIOUS
  <2>3. [r EXCEPT !.group = g] = q
    BY <1>4, <2>2
  <2>4. Teams!At(w, q, place) /\ q # Teams!NoRequest /\ sent' \in 0 .. FewCalls
    BY <1>1, <1>5, <2>1, <2>2, <2>3, TeamsRows DEF Teams!Chosen, Teams!Continue, Teams!NoRequest
  <2>5. /\ Teams!FlightsOK' /\ pc'[w] = place /\ req'[w] = q
        /\ \A v \in Workers \ {w} : pc'[v] = pc[v] /\ req'[v] = req[v]
    BY <2>1, <2>4, TeamsMove
  <2>6. Teams!Sound(w)'
    BY <1>4, <2>1, <2>2, <2>5 DEF Teams!Sound
  <2> QED
    BY <2>5, <2>6
<1>6. ASSUME NEW g, Teams!Chosen(w, g), x1' = x1
      PROVE  Teams!Inv'
  BY <1>2, <1>5, <1>6, TeamsMoves
<1>7. ASSUME NEW g \in Rows, Teams!Chosen(w, g), Teams!Exists(x1[g]),
             x1' = [x1 EXCEPT ![g].category = r.rank]
      PROVE  Teams!Inv'
  <2>1. PICK M \in SUBSET Workers : M = {w}
    OBVIOUS
  <2>2. /\ Teams!FlightsOK'
        /\ \A v \in Workers \ M : pc'[v] = pc[v] /\ req'[v] = req[v]
        /\ \A v \in M : Teams!Sound(v)'
    BY <1>5, <1>7, <2>1
  <2>3. PICK old \in Teams!SubGroup : old = x1[g]
    BY <1>7, TeamsGroup
  <2>4. PICK row : row = [old EXCEPT !.category = r.rank]
    OBVIOUS
  <2>5. row \in Teams!SubGroup /\ row.max = old.max
    BY <1>4, <2>3, <2>4 DEF Teams!SubGroup, Teams!SubGroupCategory
  <2>6. /\ x1' \in [Rows -> Teams!SubGroup \cup {None, Gone}]
        /\ x1'[g] = row /\ \A h \in Rows \ {g} : x1'[h] = x1[h]
    BY <1>7, <2>3, <2>4, <2>5, TeamsRows
  <2>7. Teams!Exists(row)
    BY <2>5, TeamsConstants DEF Teams!Exists
  <2>8. /\ \A h \in Rows : x1[h] # None => x1'[h] # None
        /\ \A h \in Rows : Teams!Exists(x1'[h]) =>
              x1[h] = None \/ (Teams!Exists(x1[h]) /\ (x1'[h].max = x1[h].max \/ h \in x4'))
    BY <1>7, <2>3, <2>5, <2>6, <2>7 DEF Teams!Exists
  <2>9. \A p \in Others : Teams!Active(p)' =>
               /\ Teams!Active(p)
               /\ x2'[p].group = x2[p].group /\ x2'[p].servant = x2[p].servant
               /\ Teams!Exists(x1'[x2[p].group])
    BY <1>2, <2>6, <2>7, TeamsActive, TeamsMember
  <2>10. /\ x2' \in [Others -> Teams!SubGroupMember \cup {None, Gone}]
         /\ x3' \subseteq Ones \cup Thirds \cup Rows /\ x4' \subseteq Rows
         /\ x3 \subseteq x3' /\ x4 \subseteq x4'
    BY <1>2, TeamsRows
  <2> QED
    BY <2>2, <2>6, <2>8, <2>9, <2>10, TeamsKept
<1> QED
  BY <1>2, <1>6, <1>7, TeamsEnd, TeamsMoves

LEMMA TeamsLeave ==
    ASSUME Teams!Inv, NEW w \in Workers, Teams!LeaveGroup(w)
    PROVE  Teams!Inv'
<1>1. PICK r : r = req[w]
  OBVIOUS
<1>2. /\ pc[w] = "leaving" /\ x1' = x1 /\ x3' = x3 /\ x4' = x4
      /\ \/ /\ Teams!Exists(x2[r.from]) /\ x2' = [x2 EXCEPT ![r.from].active = FALSE]
            /\ Teams!Continue(w, r, "inserting")
         \/ x2' = x2 /\ Teams!Return(w)
  BY <1>1 DEF Teams!LeaveGroup, Teams!groupHistory
<1>3. r.op # "add"
  BY <1>1, <1>2, TeamsAdds
<1>4. /\ r = [op |-> "reclassify", servant |-> r.servant, rank |-> r.rank,
              group |-> r.group, from |-> r.from, by |-> Elsewhere]
      /\ r.op = "reclassify"
      /\ r.servant \in Ones \cup Thirds /\ r.rank \in Teams!Ranks /\ r.from \in Others
  BY <1>1, <1>2, <1>3, TeamsReclassifies
<1>5. CASE x2' = x2 /\ Teams!Return(w)
  BY <1>2, <1>5, TeamsEnd, TeamsMoves
<1>6. CASE /\ Teams!Exists(x2[r.from]) /\ x2' = [x2 EXCEPT ![r.from].active = FALSE]
           /\ Teams!Continue(w, r, "inserting")
  <2>1. Teams!At(w, r, "inserting") /\ r # Teams!NoRequest /\ sent' \in 0 .. FewCalls
    BY <1>4, <1>6, TeamsRows DEF Teams!Continue, Teams!NoRequest
  <2>2. /\ Teams!FlightsOK' /\ pc'[w] = "inserting" /\ req'[w] = r
        /\ \A v \in Workers \ {w} : pc'[v] = pc[v] /\ req'[v] = req[v]
    BY <2>1, TeamsMove
  <2>3. Teams!Sound(w)'
    BY <1>4, <2>2 DEF Teams!Sound
  <2>4. PICK M \in SUBSET Workers : M = {w}
    OBVIOUS
  <2>5. /\ \A v \in Workers \ M : pc'[v] = pc[v] /\ req'[v] = req[v]
        /\ \A v \in M : Teams!Sound(v)'
    BY <2>2, <2>3, <2>4
  <2>6. PICK p \in Others : p = r.from
    BY <1>4
  <2>7. Teams!Exists(x2[p]) /\ x2' = [x2 EXCEPT ![p].active = FALSE]
    BY <1>6, <2>6
  <2> QED
    BY <1>2, <2>2, <2>5, <2>7, TeamsTakenOff
<1> QED
  BY <1>2, <1>5, <1>6

\* The row of a new member.
LEMMA TeamsInsert ==
    ASSUME Teams!Inv, NEW w \in Workers, Teams!InsertMember(w)
    PROVE  Teams!Inv'
<1>1. PICK r : r = req[w]
  OBVIOUS
<1>2. /\ pc[w] = "inserting" /\ x1' = x1 /\ x4' = x4 /\ Teams!Return(w)
      /\ \/ x2' = x2 /\ x3' = x3
         \/ /\ Teams!Exists(x1[r.group]) /\ r.by # Elsewhere
            /\ \E p \in Others :
                  /\ x2[p] = None
                  /\ x2' = [x2 EXCEPT ![p] =
                        [group |-> r.group, servant |-> r.servant, active |-> TRUE]]
            /\ Teams!Meet(w, r.servant, r.group)
  BY <1>1 DEF Teams!InsertMember
<1>3. /\ Teams!FlightsOK' /\ pc'[w] = "idle" /\ Teams!Sound(w)'
      /\ \A v \in Workers \ {w} : pc'[v] = pc[v] /\ req'[v] = req[v]
  BY <1>2, TeamsEnd
<1>4. CASE x2' = x2 /\ x3' = x3
  BY <1>2, <1>3, <1>4, TeamsMoves
<1>5. CASE /\ Teams!Exists(x1[r.group]) /\ r.by # Elsewhere
           /\ \E p \in Others :
                 /\ x2[p] = None
                 /\ x2' = [x2 EXCEPT ![p] =
                       [group |-> r.group, servant |-> r.servant, active |-> TRUE]]
           /\ Teams!Meet(w, r.servant, r.group)
  <2>1. r.op = "add"
    <3>1. r.op # "add" => r.by = Elsewhere
      <4>1. r.op # "add" => r = [op |-> "reclassify", servant |-> r.servant, rank |-> r.rank,
                                 group |-> r.group, from |-> r.from, by |-> Elsewhere]
        BY <1>1, <1>2, TeamsReclassifies
      <4> QED
        BY <4>1
    <3> QED
      BY <1>5, <3>1
  <2>2. PICK g \in Rows, a \in Ones \cup Thirds :
              /\ g = r.group /\ a = r.servant
              /\ r = [op |-> "add", servant |-> a, group |-> g, max |-> r.max, by |-> "clergy"]
              /\ r.max \in Nat
              /\ Teams!Exists(x1[g]) => r.max = x1[g].max \/ g \in x4
              /\ Teams!Memberships(a) = {} \/ a \in x3
              /\ r.max > 0 => Teams!Cardinality(Teams!Members(g)) < r.max \/ g \in x3
    <3>1. pc[w] = "inserting" /\ pc[w] # "idle" /\ pc[w] # "looking"
      BY <1>2
    <3>2. PICK g \in Rows, a \in Ones \cup Thirds :
              /\ g = r.group /\ a = r.servant /\ pc[w] \in {"looking", "counting", "inserting"}
              /\ r = [op |-> "add", servant |-> a, group |-> g, max |-> r.max, by |-> "clergy"]
              /\ x1[g] # None /\ r.max \in GroupLimits /\ r.max \in Nat
              /\ Teams!Exists(x1[g]) => r.max = x1[g].max \/ g \in x4
              /\ pc[w] # "looking" => Teams!Memberships(a) = {} \/ a \in x3
              /\ pc[w] = "inserting" /\ r.max > 0 =>
                    Teams!Cardinality(Teams!Members(g)) < r.max \/ g \in x3
      BY <1>1, <2>1, <3>1, TeamsAdds
    <3> QED
      BY <3>1, <3>2
  <2>3. PICK row : row = [group |-> g, servant |-> a, active |-> TRUE]
    OBVIOUS
  <2>4. /\ row \in Teams!SubGroupMember /\ row.group = g /\ row.servant = a /\ row.active
        /\ Teams!Exists(row)
    <3>1. row \in Teams!SubGroupMember /\ row.group = g /\ row.servant = a
      BY <2>3 DEF Teams!SubGroupMember
    <3>2. row.active = TRUE
      BY <2>3
    <3>3. Teams!Exists(row)
      BY <3>1, TeamsConstants DEF Teams!Exists
    <3> QED
      BY <3>1, <3>2, <3>3
  <2>5. PICK p \in Others : x2[p] = None /\ x2' = [x2 EXCEPT ![p] = row]
    BY <1>5, <2>2, <2>3
  <2>6. /\ x2' \in [Others -> Teams!SubGroupMember \cup {None, Gone}]
        /\ x2'[p] = row /\ \A o \in Others \ {p} : x2'[o] = x2[o]
        /\ ~Teams!Exists(x2[p])
    BY <2>4, <2>5, TeamsRows DEF Teams!Exists
  <2>7. /\ Teams!Exists(x1[g]) /\ x3 \subseteq x3' /\ x3' \subseteq Ones \cup Thirds \cup Rows
        /\ Teams!Alongside(w, "group", g) => g \in x3'
        /\ Teams!Alongside(w, "servant", a) => a \in x3'
    BY <1>5, <2>2, TeamsRows DEF Teams!Meet
  <2>8. /\ ~Teams!Active(p) /\ Teams!Active(p)'
        /\ \A o \in Others \ {p} : Teams!Active(o)' <=> Teams!Active(o)
    BY <2>4, <2>6, TeamsActive
  <2>9. /\ \A h \in Rows : /\ Teams!Members(h) \in SUBSET Others
                           /\ h # g => Teams!Members(h)' = Teams!Members(h)
        /\ Teams!Members(g)' = Teams!Members(g) \cup {p}
    BY <2>4, <2>6, <2>8 DEF Teams!Members
  <2>10. /\ \A v \in Ones \cup Thirds : /\ Teams!Memberships(v) \in SUBSET Others
                                        /\ v # a => Teams!Memberships(v)' = Teams!Memberships(v)
         /\ Teams!Memberships(a)' = Teams!Memberships(a) \cup {p}
    BY <2>4, <2>6, <2>8 DEF Teams!Memberships
  <2>11. Teams!TypeOK'
    BY <1>2, <1>3, <2>6, <2>7, TeamsRows DEF Teams!TypeOK
  <2>12. Teams!OneGroupEach'
    <3> SUFFICES ASSUME NEW v \in Ones \cup Thirds
                 PROVE  Teams!Cardinality(Teams!Memberships(v)') <= 1 \/ v \in x3'
      BY DEF Teams!OneGroupEach
    <3>1. CASE v # a
      <4>1. Teams!Cardinality(Teams!Memberships(v)) <= 1 \/ v \in x3
        BY DEF Teams!Inv, Teams!OneGroupEach
      <4> QED
        BY <2>7, <2>10, <3>1, <4>1
    <3>2. CASE v = a /\ a \notin x3
      <4>1. PICK S \in SUBSET Others : S = {}
        OBVIOUS
      <4>2. /\ Teams!Cardinality(S \cup {p}) \in Nat
            /\ Teams!Cardinality(S \cup {p}) <= Teams!Cardinality(S) + 1
        BY TeamsCount
      <4>3. Teams!Cardinality(S) = 0
        BY <4>1, TeamsNone
      <4>4. Teams!Memberships(a)' = S \cup {p}
        BY <2>2, <2>10, <3>2, <4>1
      <4> QED
        BY <3>2, <4>2, <4>3, <4>4
    <3> QED
      BY <2>7, <3>1, <3>2
  <2>13. Teams!MembersBounded'
    <3> SUFFICES ASSUME NEW h \in Rows, Teams!Exists(x1'[h]), x1'[h].max > 0
                 PROVE  Teams!Cardinality(Teams!Members(h)') <= x1'[h].max \/ h \in x3' \cup x4'
      BY DEF Teams!MembersBounded, Teams!Exists
    <3>1. CASE h # g
      <4>1. Teams!Cardinality(Teams!Members(h)) <= x1[h].max \/ h \in x3 \cup x4
        BY <1>2, <3>1 DEF Teams!Inv, Teams!MembersBounded
      <4> QED
        BY <1>2, <2>7, <2>9, <3>1, <4>1
    <3>2. CASE h = g /\ g \notin x3' \cup x4'
      <4>1. PICK S \in SUBSET Others : S = Teams!Members(g)
        BY <2>9
      <4>2. /\ Teams!Cardinality(S \cup {p}) \in Nat /\ Teams!Cardinality(S) \in Nat
            /\ Teams!Cardinality(S \cup {p}) <= Teams!Cardinality(S) + 1
        BY TeamsCount
      <4>3. r.max = x1'[h].max /\ Teams!Cardinality(S) < r.max
        BY <1>2, <2>2, <2>7, <3>2, <4>1
      <4>4. Teams!Members(h)' = S \cup {p}
        BY <2>9, <3>2, <4>1
      <4> QED
        BY <2>2, <4>2, <4>3, <4>4
    <3> QED
      BY <3>1, <3>2
  <2>14. ASSUME NEW o \in Others, Teams!Active(o)' PROVE Teams!Exists(x1'[x2'[o].group])
    BY <1>2, <2>4, <2>6, <2>7, <2>8, <2>14, TeamsMember
  <2>15. ASSUME NEW v \in Workers, v # w PROVE Teams!Sound(v)'
    <3>1. ASSUME NEW h \in Rows, pc[v] \in {"looking", "counting", "inserting"}, req[v].op = "add",
                 req[v].group = h
          PROVE  Teams!Members(h)' \in SUBSET Teams!Members(h) \/ h \in x3'
      <4>1. CASE h = g
        <5>1. PICK q : q = req[v]
          OBVIOUS
        <5>2. q.op = "add" /\ pc[v] # "idle" /\ q.group = g
          BY <3>1, <4>1, <5>1
        <5>3. q = [op |-> "add", servant |-> q.servant, group |-> q.group, max |-> q.max, by |-> "clergy"]
          BY <5>1, <5>2, TeamsAddsFor
        <5>4. "group" \in DOMAIN req[v] /\ req[v]["group"] = g
          BY <5>1, <5>2, <5>3
        <5> QED
          BY <2>7, <2>15, <4>1, <5>4 DEF Teams!Alongside
      <4> QED
        BY <2>9, <4>1
    <3>2. ASSUME NEW b \in Ones \cup Thirds, pc[v] \in {"looking", "counting", "inserting"}, req[v].op = "add",
                 req[v].servant = b
          PROVE  Teams!Memberships(b)' \in SUBSET Teams!Memberships(b) \/ b \in x3'
      <4>1. CASE b = a
        <5>1. PICK q : q = req[v]
          OBVIOUS
        <5>2. q.op = "add" /\ pc[v] # "idle" /\ q.servant = a
          BY <3>2, <4>1, <5>1
        <5>3. q = [op |-> "add", servant |-> q.servant, group |-> q.group, max |-> q.max, by |-> "clergy"]
          BY <5>1, <5>2, TeamsAddsFor
        <5>4. "servant" \in DOMAIN req[v] /\ req[v]["servant"] = a
          BY <5>1, <5>2, <5>3
        <5> QED
          BY <2>7, <2>15, <4>1, <5>4 DEF Teams!Alongside
      <4> QED
        BY <2>10, <4>1
    <3>3. pc'[v] = pc[v] /\ req'[v] = req[v]
      BY <1>3, <2>15
    <3>4. \A h \in Rows : x1[h] # None =>
               /\ x1'[h] # None
               /\ Teams!Exists(x1'[h]) =>
                     Teams!Exists(x1[h]) /\ (x1'[h].max = x1[h].max \/ h \in x4')
      BY <1>2
    <3>5. x3 \subseteq x3' /\ x4 \subseteq x4'
      BY <1>2, <2>7
    <3> QED
      BY <3>1, <3>2, <3>3, <3>4, <3>5, TeamsOther
  <2>16. \A v \in Workers : Teams!Sound(v)'
    BY <1>3, <2>15
  <2> QED
    BY <2>11, <2>12, <2>13, <2>14, <2>16 DEF Teams!Inv, Teams!Active, Teams!Exists
<1> QED
  BY <1>2, <1>4, <1>5

LEMMA TeamsNext == Teams!Inv /\ Teams!Next => Teams!Inv'
BY TeamsDesk, TeamsRemove, TeamsAsks, TeamsLooks, TeamsChoose, TeamsLeave, TeamsInsert
   DEF Teams!Next, Teams!ServeGroup

LEMMA TeamsStays == Teams!Inv /\ UNCHANGED <<x1, x2, x3, x4, pc, req, sent>> => Teams!Inv'
<1> SUFFICES ASSUME Teams!Inv, UNCHANGED <<x1, x2, x3, x4, pc, req, sent>> PROVE Teams!Inv'
  OBVIOUS
<1>1. PICK M \in SUBSET Workers : M = {}
  OBVIOUS
<1>2. /\ Teams!FlightsOK'
      /\ \A v \in Workers \ M : pc'[v] = pc[v] /\ req'[v] = req[v]
      /\ \A w \in M : Teams!Sound(w)'
  BY <1>1 DEF Teams!Inv, Teams!TypeOK, Teams!FlightsOK
<1>3. \A p \in Others : Teams!Active(p)' =>
               /\ Teams!Active(p)
               /\ x2'[p].group = x2[p].group /\ x2'[p].servant = x2[p].servant
               /\ Teams!Exists(x1'[x2[p].group])
  BY TeamsActive, TeamsMember
<1>4. /\ x1' \in [Rows -> Teams!SubGroup \cup {None, Gone}]
      /\ x2' \in [Others -> Teams!SubGroupMember \cup {None, Gone}]
      /\ x3' \subseteq Ones \cup Thirds \cup Rows /\ x4' \subseteq Rows
      /\ x3 \subseteq x3' /\ x4 \subseteq x4'
      /\ \A g \in Rows : x1[g] # None => x1'[g] # None
      /\ \A g \in Rows : Teams!Exists(x1'[g]) =>
            x1[g] = None \/ (Teams!Exists(x1[g]) /\ (x1'[g].max = x1[g].max \/ g \in x4'))
  BY TeamsRows
<1> QED
  BY <1>2, <1>3, <1>4, TeamsKept

------------------------------------------------------------------------------
\* Connections

LEMMA SocketsInit == Sockets!Init => Sockets!Inv
BY MoreServicesAssumption
   DEF Sockets!Init, Sockets!InitFlights, Sockets!NoRequest, Sockets!Inv, Sockets!TypeOK,
       Sockets!FlightsOK, Sockets!ListIsExact, Sockets!Sound

\* A request that moves.
LEMMA SocketsMove ==
    ASSUME Sockets!Inv, NEW w \in Workers, NEW r, NEW place,
           Sockets!At(w, r, place), place = "idle" <=> r = Sockets!NoRequest,
           sent' \in 0 .. FewCalls
    PROVE  /\ Sockets!FlightsOK' /\ pc'[w] = place /\ req'[w] = r
           /\ \A v \in Workers \ {w} : pc'[v] = pc[v] /\ req'[v] = req[v]
BY DEF Sockets!Inv, Sockets!TypeOK, Sockets!FlightsOK, Sockets!At

LEMMA SocketsEnd ==
    ASSUME Sockets!Inv, NEW w \in Workers, Sockets!Return(w)
    PROVE  /\ Sockets!FlightsOK' /\ pc'[w] = "idle" /\ Sockets!Sound(w)'
           /\ \A v \in Workers \ {w} : pc'[v] = pc[v] /\ req'[v] = req[v]
<1>1. Sockets!At(w, Sockets!NoRequest, "idle") /\ sent' \in 0 .. FewCalls
  BY DEF Sockets!Return, Sockets!Continue, Sockets!Inv, Sockets!TypeOK, Sockets!FlightsOK
<1> QED
  BY <1>1, SocketsMove DEF Sockets!Sound

LEMMA SocketsRows ==
    ASSUME Sockets!Inv
    PROVE  /\ x1 \in 0 .. Beats /\ x4 \in [Rows -> 0 .. Beats]
           /\ x2 \in [Rows -> {None, "open", "lost", "ended"}]
           /\ x3 \subseteq Rows /\ sent \in 0 .. FewCalls
BY DEF Sockets!Inv, Sockets!TypeOK, Sockets!FlightsOK

\* Another request, when no socket opens again.
LEMMA SocketsOther ==
    ASSUME Sockets!Inv, NEW v \in Workers, pc'[v] = pc[v], req'[v] = req[v],
           \A s \in Rows : /\ x2[s] # None => x2'[s] # None
                           /\ x2[s] \in {"lost", "ended"} => x2'[s] \in {"lost", "ended"}
    PROVE  Sockets!Sound(v)'
<1>1. Sockets!Sound(v)
  BY DEF Sockets!Inv
<1>2. CASE pc[v] = "idle"
  BY <1>2 DEF Sockets!Sound
<1>3. CASE pc[v] = "pushing"
  <2>1. PICK r : r = req[v]
    OBVIOUS
  <2>2. /\ r = [op |-> "push", list |-> r.list, left |-> r.left, dead |-> r.dead]
        /\ \A s \in r.left : s \in Rows /\ x2[s] # None
        /\ \A s \in r.dead : s \in Rows /\ x2[s] \in {"lost", "ended"}
    BY <1>1, <1>3, <2>1 DEF Sockets!Sound, Sockets!Underway
  <2>3. req'[v] = r /\ pc'[v] = "pushing"
    BY <1>3, <2>1
  <2> QED
    BY <2>2, <2>3 DEF Sockets!Sound, Sockets!Underway
<1> QED
  BY <1>1, <1>2, <1>3 DEF Sockets!Sound

\* A step that keeps the list exact and lets no socket open again.
LEMMA SocketsKept ==
    ASSUME Sockets!Inv, NEW M \in SUBSET Workers, Sockets!FlightsOK',
           \A v \in Workers \ M : pc'[v] = pc[v] /\ req'[v] = req[v],
           \A w \in M : Sockets!Sound(w)',
           x1' \in 0 .. Beats, x4' \in [Rows -> 0 .. Beats],
           x2' \in [Rows -> {None, "open", "lost", "ended"}], x3' \subseteq Rows,
           \A s \in Rows :
              /\ x2[s] # None => x2'[s] # None
              /\ x2[s] \in {"lost", "ended"} => x2'[s] \in {"lost", "ended"}
              /\ x2'[s] = "open" => s \in x3'
              /\ x2'[s] \in {None, "ended"} => s \notin x3',
           \/ x5' = x5
           \/ x5' = None
           \/ /\ x5' = [at |-> x5'.at, left |-> x5'.left, dead |-> x5'.dead]
              /\ Sockets!Underway(x5.left, x5.dead)'
    PROVE  Sockets!Inv'
<1>1. x5' # None => /\ x5' = [at |-> x5'.at, left |-> x5'.left, dead |-> x5'.dead]
                    /\ Sockets!Underway(x5.left, x5.dead)'
  <2>1. CASE x5' = x5
    <3>1. x5 # None => /\ x5 = [at |-> x5.at, left |-> x5.left, dead |-> x5.dead]
                       /\ \A s \in x5.left : s \in Rows /\ x2[s] # None
                       /\ \A s \in x5.dead : s \in Rows /\ x2[s] \in {"lost", "ended"}
      BY DEF Sockets!Inv, Sockets!Underway
    <3> QED
      BY <2>1, <3>1 DEF Sockets!Underway
  <2> QED
    BY <2>1
<1>2. x5' # None => x5'.left \cup x5'.dead \subseteq Rows
  BY <1>1 DEF Sockets!Underway
<1>3. Sockets!TypeOK' /\ Sockets!ListIsExact'
  BY <1>2 DEF Sockets!TypeOK, Sockets!ListIsExact
<1>4. ASSUME NEW v \in Workers PROVE Sockets!Sound(v)'
  BY <1>4, SocketsOther
<1> QED
  BY <1>1, <1>3, <1>4 DEF Sockets!Inv

\* The sockets that come and go, and the heartbeat.
LEMMA SocketsHold ==
    ASSUME Sockets!Inv, UNCHANGED <<pc, req, sent>>,
           x1' \in 0 .. Beats, x4' \in [Rows -> 0 .. Beats],
           x2' \in [Rows -> {None, "open", "lost", "ended"}], x3' \subseteq Rows,
           \A s \in Rows :
              /\ x2[s] # None => x2'[s] # None
              /\ x2[s] \in {"lost", "ended"} => x2'[s] \in {"lost", "ended"}
              /\ x2'[s] = "open" => s \in x3'
              /\ x2'[s] \in {None, "ended"} => s \notin x3',
           \/ x5' = x5
           \/ x5' = None
           \/ /\ x5' = [at |-> x5'.at, left |-> x5'.left, dead |-> x5'.dead]
              /\ Sockets!Underway(x5.left, x5.dead)'
    PROVE  Sockets!Inv'
<1>1. PICK M \in SUBSET Workers : M = {}
  OBVIOUS
<1>2. Sockets!FlightsOK'
  BY DEF Sockets!Inv, Sockets!TypeOK, Sockets!FlightsOK
<1>3. /\ \A v \in Workers \ M : pc'[v] = pc[v] /\ req'[v] = req[v]
      /\ \A w \in M : Sockets!Sound(w)'
  BY <1>1
<1> QED
  BY <1>2, <1>3, SocketsKept

LEMMA SocketsDesk ==
    ASSUME Sockets!Inv,
           \/ Sockets!Tick \/ Sockets!Heartbeat
           \/ \E s \in Rows : Sockets!Connect(s) \/ Sockets!LosePeer(s) \/ Sockets!Disconnect(s)
    PROVE  Sockets!Inv'
<1> USE DEF Sockets!flights
<1>0. /\ x1 \in 0 .. Beats /\ x4 \in [Rows -> 0 .. Beats]
      /\ x2 \in [Rows -> {None, "open", "lost", "ended"}]
      /\ x3 \subseteq Rows
      /\ \A s \in Rows : /\ x2[s] = "open" => s \in x3
                         /\ x2[s] \in {None, "ended"} => s \notin x3
  BY SocketsRows DEF Sockets!Inv, Sockets!ListIsExact
<1>1. CASE Sockets!Tick
  <2>1. x1' \in 0 .. Beats
    BY <1>0, <1>1, MoreServicesAssumption DEF Sockets!Tick
  <2> QED
    BY <1>0, <1>1, <2>1, SocketsHold DEF Sockets!Tick
<1>2. ASSUME NEW s \in Rows, Sockets!Connect(s) PROVE Sockets!Inv'
  <2>1. /\ x2[s] = None /\ x2' = [x2 EXCEPT ![s] = "open"] /\ x3' = x3 \cup {s}
        /\ x4' = [x4 EXCEPT ![s] = x1] /\ x1' = x1 /\ x5' = x5 /\ UNCHANGED <<pc, req, sent>>
    BY <1>2 DEF Sockets!Connect
  <2>2. x4' \in [Rows -> 0 .. Beats] /\ x3' \subseteq Rows
    BY <1>0, <2>1
  <2>3. x2' \in [Rows -> {None, "open", "lost", "ended"}]
    BY <1>0, <2>1
  <2>4. \A o \in Rows :
              /\ x2[o] # None => x2'[o] # None
              /\ x2[o] \in {"lost", "ended"} => x2'[o] \in {"lost", "ended"}
              /\ x2'[o] = "open" => o \in x3'
              /\ x2'[o] \in {None, "ended"} => o \notin x3'
    BY <1>0, <2>1, MoreServicesAssumption
  <2> QED
    BY <1>0, <2>1, <2>2, <2>3, <2>4, SocketsHold
<1>3. ASSUME NEW s \in Rows, Sockets!LosePeer(s) PROVE Sockets!Inv'
  <2>1. /\ x2[s] = "open" /\ x2' = [x2 EXCEPT ![s] = "lost"]
        /\ x3' = x3 /\ x4' = x4 /\ x1' = x1 /\ x5' = x5 /\ UNCHANGED <<pc, req, sent>>
    BY <1>3 DEF Sockets!LosePeer
  <2>2. x2' \in [Rows -> {None, "open", "lost", "ended"}]
    BY <1>0, <2>1
  <2>3. \A o \in Rows :
              /\ x2[o] # None => x2'[o] # None
              /\ x2[o] \in {"lost", "ended"} => x2'[o] \in {"lost", "ended"}
              /\ x2'[o] = "open" => o \in x3'
              /\ x2'[o] \in {None, "ended"} => o \notin x3'
    BY <1>0, <2>1, MoreServicesAssumption
  <2> QED
    BY <1>0, <2>1, <2>2, <2>3, SocketsHold
<1>4. ASSUME NEW s \in Rows, Sockets!Disconnect(s) PROVE Sockets!Inv'
  <2>1. /\ x2[s] = "lost" /\ x2' = [x2 EXCEPT ![s] = "ended"] /\ x3' = x3 \ {s}
        /\ x4' = x4 /\ x1' = x1 /\ x5' = x5 /\ UNCHANGED <<pc, req, sent>>
    BY <1>4 DEF Sockets!Disconnect
  <2>2. x2' \in [Rows -> {None, "open", "lost", "ended"}] /\ x3' \subseteq Rows
    BY <1>0, <2>1
  <2>3. \A o \in Rows :
              /\ x2[o] # None => x2'[o] # None
              /\ x2[o] \in {"lost", "ended"} => x2'[o] \in {"lost", "ended"}
              /\ x2'[o] = "open" => o \in x3'
              /\ x2'[o] \in {None, "ended"} => o \notin x3'
    BY <1>0, <2>1, MoreServicesAssumption
  <2> QED
    BY <1>0, <2>1, <2>2, <2>3, SocketsHold
<1>5. CASE Sockets!BeginBeat
  <2>1. /\ x5' = [at |-> x1, left |-> x3, dead |-> {}] /\ x1' = x1 /\ x2' = x2 /\ x3' = x3 /\ x4' = x4
        /\ UNCHANGED <<pc, req, sent>>
    BY <1>5 DEF Sockets!BeginBeat, Sockets!Round
  <2>2. x5' = [at |-> x5'.at, left |-> x5'.left, dead |-> x5'.dead] /\ x5'.left = x3 /\ x5'.dead = {}
    BY <2>1
  <2>3. Sockets!Underway(x5.left, x5.dead)'
    BY <1>0, <2>1, <2>2 DEF Sockets!Underway
  <2> QED
    BY <1>0, <2>1, <2>2, <2>3, SocketsHold
<1>6. CASE Sockets!BeatNext
  <2>1. PICK b : b = x5
    OBVIOUS
  <2>2. /\ b # None /\ b = [at |-> b.at, left |-> b.left, dead |-> b.dead]
        /\ \A s \in b.left : s \in Rows /\ x2[s] # None
        /\ \A s \in b.dead : s \in Rows /\ x2[s] \in {"lost", "ended"}
        /\ x1' = x1 /\ x3' = x3 /\ x4' = x4 /\ UNCHANGED <<pc, req, sent>>
    BY <1>6, <2>1 DEF Sockets!BeatNext, Sockets!Inv, Sockets!Underway
  <2>3a. PICK s \in b.left :
           /\ x2' = IF (b.at > x4[s] + Timeout) /\ x2[s] = "open" THEN [x2 EXCEPT ![s] = "lost"] ELSE x2
           /\ \E ok \in Sockets!Arrives(s) :
                 x5' = [b EXCEPT !.left = @ \ {s},
                                 !.dead = IF ok /\ ~(b.at > x4[s] + Timeout) THEN @ ELSE @ \cup {s}]
    BY <1>6, <2>1 DEF Sockets!BeatNext
  <2>3. PICK silent \in BOOLEAN :
           /\ x2' = IF silent /\ x2[s] = "open" THEN [x2 EXCEPT ![s] = "lost"] ELSE x2
           /\ \E ok \in Sockets!Arrives(s) :
                 x5' = [b EXCEPT !.left = @ \ {s}, !.dead = IF ok /\ ~silent THEN @ ELSE @ \cup {s}]
    <3>1. CASE b.at > x4[s] + Timeout
      <4>1. /\ x2' = IF TRUE /\ x2[s] = "open" THEN [x2 EXCEPT ![s] = "lost"] ELSE x2
            /\ \E ok \in Sockets!Arrives(s) :
                  x5' = [b EXCEPT !.left = @ \ {s}, !.dead = IF ok /\ ~TRUE THEN @ ELSE @ \cup {s}]
        BY <2>3a, <3>1, Zenon
      <4> QED
        BY <4>1, Zenon
    <3>2. CASE ~(b.at > x4[s] + Timeout)
      <4>1. /\ x2' = IF FALSE /\ x2[s] = "open" THEN [x2 EXCEPT ![s] = "lost"] ELSE x2
            /\ \E ok \in Sockets!Arrives(s) :
                  x5' = [b EXCEPT !.left = @ \ {s}, !.dead = IF ok /\ ~FALSE THEN @ ELSE @ \cup {s}]
        BY <2>3a, <3>2, Zenon
      <4> QED
        BY <4>1, Zenon
    <3> QED
      BY <3>1, <3>2
  <2>4. PICK ok \in {TRUE} \cup (IF x2[s] = "open" THEN {} ELSE {FALSE}) :
           x5' = [b EXCEPT !.left = @ \ {s}, !.dead = IF ok /\ ~silent THEN @ ELSE @ \cup {s}]
    BY <2>3 DEF Sockets!Arrives
  <2>5. s \in Rows /\ x2[s] # None /\ s \in b.left
    BY <2>2
  <2>6. /\ x2' \in [Rows -> {None, "open", "lost", "ended"}]
        /\ \A o \in Rows \ {s} : x2'[o] = x2[o]
        /\ x2'[s] = x2[s] \/ (x2[s] = "open" /\ x2'[s] = "lost" /\ silent)
        /\ silent => x2'[s] # "open"
    BY <1>0, <2>3, <2>5
  <2>7. \A o \in Rows :
              /\ x2[o] # None => x2'[o] # None
              /\ x2[o] \in {"lost", "ended"} => x2'[o] \in {"lost", "ended"}
              /\ x2'[o] = "open" => o \in x3'
              /\ x2'[o] \in {None, "ended"} => o \notin x3'
    BY <1>0, <2>2, <2>6, MoreServicesAssumption
  <2>8. PICK rest, dead : /\ rest = b.left \ {s}
                          /\ dead = IF ok /\ ~silent THEN b.dead ELSE b.dead \cup {s}
    OBVIOUS
  <2>9. x5' = [at |-> b.at, left |-> rest, dead |-> dead]
    <3>1. PICK p : p = [b EXCEPT !.left = rest]
      OBVIOUS
    <3>2. p = [at |-> b.at, left |-> rest, dead |-> b.dead]
      BY <2>2, <3>1
    <3>3. x5' = [p EXCEPT !.dead = dead]
      BY <2>4, <2>8, <3>1, <2>2
    <3> QED
      BY <3>2, <3>3
  <2>10. x2'[s] \in {"lost", "ended"} \/ (ok /\ ~silent)
    <3>1. x2[s] = "open" => ok
      BY <2>4
    <3>2. x2'[s] \in {"open", "lost", "ended"}
      BY <2>5, <2>6, <2>7
    <3>3. CASE silent
      BY <2>6, <3>2, <3>3
    <3>4. CASE ~silent
      BY <2>4, <2>6, <3>1, <3>2, <3>4
    <3> QED
      BY <3>3, <3>4
  <2>11. /\ \A o \in rest : o \in Rows /\ x2'[o] # None
         /\ \A o \in dead : o \in Rows /\ x2'[o] \in {"lost", "ended"}
    BY <2>2, <2>5, <2>7, <2>8, <2>10
  <2>12. /\ x5' = [at |-> x5'.at, left |-> x5'.left, dead |-> x5'.dead]
         /\ x5'.left = rest /\ x5'.dead = dead
    BY <2>9
  <2>13. Sockets!Underway(x5.left, x5.dead)'
    BY <2>11, <2>12 DEF Sockets!Underway
  <2> QED
    BY <1>0, <2>2, <2>6, <2>7, <2>12, <2>13, SocketsHold
<1>7. CASE Sockets!EndBeat
  <2>1. /\ \A s \in x5.dead : s \in Rows /\ x2[s] \in {"lost", "ended"}
        /\ x3' = x3 \ x5.dead /\ x5' = None /\ x1' = x1 /\ x2' = x2 /\ x4' = x4
        /\ UNCHANGED <<pc, req, sent>>
    BY <1>7 DEF Sockets!EndBeat, Sockets!Inv, Sockets!Underway
  <2>2. x3' \subseteq Rows
    BY <1>0, <2>1
  <2>3. \A o \in Rows :
              /\ x2'[o] = "open" => o \in x3'
              /\ x2'[o] \in {None, "ended"} => o \notin x3'
    BY <1>0, <2>1
  <2> QED
    BY <1>0, <2>1, <2>2, <2>3, SocketsHold
<1> QED
  BY <1>1, <1>2, <1>3, <1>4, <1>5, <1>6, <1>7 DEF Sockets!Heartbeat

\* A push that moves, with no socket changed.
LEMMA SocketsPush ==
    ASSUME Sockets!Inv, NEW w \in Workers, Sockets!FlightsOK', Sockets!Sound(w)',
           \A v \in Workers \ {w} : pc'[v] = pc[v] /\ req'[v] = req[v],
           x1' = x1, x2' = x2, x4' = x4, x5' = x5,
           NEW dead, x3' = x3 \ dead, \A s \in dead : s \in Rows /\ x2[s] \in {"lost", "ended"}
    PROVE  Sockets!Inv'
<1>1. /\ x1' \in 0 .. Beats /\ x4' \in [Rows -> 0 .. Beats]
      /\ x2' \in [Rows -> {None, "open", "lost", "ended"}]
      /\ x3' \subseteq Rows
  BY SocketsRows
<1>2. \A s \in Rows : /\ x2'[s] = "open" => s \in x3'
                      /\ x2'[s] \in {None, "ended"} => s \notin x3'
  BY DEF Sockets!Inv, Sockets!ListIsExact
<1>3. PICK M \in SUBSET Workers : M = {w}
  OBVIOUS
<1>4. /\ \A v \in Workers \ M : pc'[v] = pc[v] /\ req'[v] = req[v]
      /\ \A v \in M : Sockets!Sound(v)'
  BY <1>3
<1> QED
  BY <1>1, <1>2, <1>4, SocketsKept

LEMMA SocketsNext == Sockets!Inv /\ Sockets!Next => Sockets!Inv'
<1> SUFFICES ASSUME Sockets!Inv, Sockets!Next PROVE Sockets!Inv'
  OBVIOUS
<1> USE DEF Sockets!connectionVars
<1>0. PICK none : none = {} /\ x3 = x3 \ none
  OBVIOUS
<1>1. ASSUME NEW w \in Workers, Sockets!SendToUser(w) PROVE Sockets!Inv'
  <2>1. PICK r : r = [op |-> "push", list |-> x3, left |-> x3, dead |-> {}]
    OBVIOUS
  <2>2. /\ pc[w] = "idle" /\ Sockets!At(w, r, "pushing") /\ r # Sockets!NoRequest
        /\ sent < FewCalls /\ sent' = sent + 1
        /\ x1' = x1 /\ x2' = x2 /\ x3' = x3 /\ x4' = x4 /\ x5' = x5
    BY <1>1, <2>1 DEF Sockets!SendToUser, Sockets!Begin, Sockets!NoRequest
  <2>3. sent' \in 0 .. FewCalls
    BY <2>2, SocketsRows, MoreServicesAssumption
  <2>4. /\ Sockets!FlightsOK' /\ pc'[w] = "pushing" /\ req'[w] = r
        /\ \A v \in Workers \ {w} : pc'[v] = pc[v] /\ req'[v] = req[v]
    BY <2>2, <2>3, SocketsMove
  <2>5. \A s \in x3 : s \in Rows /\ x2[s] # None
    BY SocketsRows DEF Sockets!Inv, Sockets!ListIsExact
  <2>6. Sockets!Sound(w)'
    BY <2>1, <2>2, <2>4, <2>5 DEF Sockets!Sound, Sockets!Underway
  <2> QED
    BY <1>0, <2>2, <2>4, <2>6, SocketsPush
<1>2. ASSUME NEW w \in Workers, pc[w] = "pushing"
      PROVE  /\ req[w] = [op |-> "push", list |-> req[w].list, left |-> req[w].left, dead |-> req[w].dead]
             /\ \A s \in req[w].left : s \in Rows /\ x2[s] # None
             /\ \A s \in req[w].dead : s \in Rows /\ x2[s] \in {"lost", "ended"}
  BY <1>2 DEF Sockets!Inv, Sockets!Sound, Sockets!Underway
<1>3. ASSUME NEW w \in Workers, Sockets!SendToNext(w) PROVE Sockets!Inv'
  <2>1. PICK r : r = req[w]
    OBVIOUS
  <2>2. /\ pc[w] = "pushing" /\ x1' = x1 /\ x2' = x2 /\ x3' = x3 /\ x4' = x4 /\ x5' = x5
        /\ r = [op |-> "push", list |-> r.list, left |-> r.left, dead |-> r.dead]
        /\ \A s \in r.left : s \in Rows /\ x2[s] # None
        /\ \A s \in r.dead : s \in Rows /\ x2[s] \in {"lost", "ended"}
    BY <1>2, <1>3, <2>1 DEF Sockets!SendToNext
  <2>3. PICK s \in r.left : \E ok \in Sockets!Arrives(s) :
           Sockets!Continue(w, [r EXCEPT !.left = @ \ {s}, !.dead = IF ok THEN @ ELSE @ \cup {s}], "pushing")
    BY <1>3, <2>1 DEF Sockets!SendToNext
  <2>4. PICK ok \in {TRUE} \cup (IF x2[s] = "open" THEN {} ELSE {FALSE}) :
           Sockets!Continue(w, [r EXCEPT !.left = @ \ {s}, !.dead = IF ok THEN @ ELSE @ \cup {s}], "pushing")
    BY <2>3 DEF Sockets!Arrives
  <2>5. PICK rest, dead : /\ rest = r.left \ {s}
                          /\ dead = IF ok THEN r.dead ELSE r.dead \cup {s}
    OBVIOUS
  <2>6. PICK q : q = [op |-> "push", list |-> r.list, left |-> rest, dead |-> dead]
    OBVIOUS
  <2>7. [r EXCEPT !.left = @ \ {s}, !.dead = IF ok THEN @ ELSE @ \cup {s}] = q
    <3>1. PICK p : p = [r EXCEPT !.left = rest]
      OBVIOUS
    <3>2. p = [op |-> "push", list |-> r.list, left |-> rest, dead |-> r.dead]
      BY <2>2, <3>1
    <3>3. [r EXCEPT !.left = @ \ {s}, !.dead = IF ok THEN @ ELSE @ \cup {s}] = [p EXCEPT !.dead = dead]
      BY <2>2, <2>5, <3>1
    <3> QED
      BY <2>6, <3>2, <3>3
  <2>8. Sockets!At(w, q, "pushing") /\ sent' \in 0 .. FewCalls /\ q # Sockets!NoRequest
    BY <2>4, <2>6, <2>7, SocketsRows DEF Sockets!Continue, Sockets!NoRequest
  <2>9. /\ Sockets!FlightsOK' /\ pc'[w] = "pushing" /\ req'[w] = q
        /\ \A v \in Workers \ {w} : pc'[v] = pc[v] /\ req'[v] = req[v]
    BY <2>8, SocketsMove
  <2>10. /\ \A o \in rest : o \in Rows /\ x2'[o] # None
         /\ \A o \in dead : o \in Rows /\ x2'[o] \in {"lost", "ended"}
    <3>1. ~ok => x2[s] \in {"lost", "ended"}
      BY <2>2, <2>3, <2>4, SocketsRows
    <3> QED
      BY <2>2, <2>3, <2>5, <3>1
  <2>11. Sockets!Sound(w)'
    BY <2>6, <2>9, <2>10 DEF Sockets!Sound, Sockets!Underway
  <2> QED
    BY <1>0, <2>2, <2>9, <2>11, SocketsPush
<1>4. ASSUME NEW w \in Workers, Sockets!RemoveDead(w) PROVE Sockets!Inv'
  <2>1. /\ pc[w] = "pushing" /\ x3' = x3 \ req[w].dead /\ Sockets!Return(w)
        /\ x1' = x1 /\ x2' = x2 /\ x4' = x4 /\ x5' = x5
    BY <1>4 DEF Sockets!RemoveDead
  <2>2. PICK dead : dead = req[w].dead
    OBVIOUS
  <2>3. x3' = x3 \ dead /\ \A s \in dead : s \in Rows /\ x2[s] \in {"lost", "ended"}
    BY <1>2, <2>1, <2>2
  <2>4. /\ Sockets!FlightsOK' /\ Sockets!Sound(w)'
        /\ \A v \in Workers \ {w} : pc'[v] = pc[v] /\ req'[v] = req[v]
    BY <2>1, SocketsEnd
  <2> QED
    BY <2>1, <2>3, <2>4, SocketsPush
<1>5. ASSUME NEW w \in Workers, Sockets!AbortPush(w) PROVE Sockets!Inv'
  <2>1. /\ Sockets!Return(w) /\ x1' = x1 /\ x2' = x2 /\ x3' = x3 /\ x4' = x4 /\ x5' = x5
    BY <1>5 DEF Sockets!AbortPush, Sockets!Die
  <2>2. /\ Sockets!FlightsOK' /\ Sockets!Sound(w)'
        /\ \A v \in Workers \ {w} : pc'[v] = pc[v] /\ req'[v] = req[v]
    BY <2>1, SocketsEnd
  <2> QED
    BY <1>0, <2>1, <2>2, SocketsPush
<1> QED
  BY <1>1, <1>3, <1>4, <1>5, SocketsDesk DEF Sockets!Next

LEMMA SocketsStays == Sockets!Inv /\ UNCHANGED <<x1, x2, x3, x4, x5, pc, req, sent>> => Sockets!Inv'
<1> SUFFICES ASSUME Sockets!Inv, UNCHANGED <<x1, x2, x3, x4, x5, pc, req, sent>> PROVE Sockets!Inv'
  OBVIOUS
<1> QED
  BY SocketsRows, SocketsHold DEF Sockets!Inv, Sockets!ListIsExact

------------------------------------------------------------------------------
\* The invariant of the service a behaviour is of.
MoreServicesInv ==
    /\ focus = "Items" => Items!Inv
    /\ focus = "Tasks" => Tasks!Inv
    /\ focus = "Sunday" => Sunday!Inv
    /\ focus = "Weekly" => Weekly!Inv
    /\ focus = "Pages" => Pages!Inv
    /\ focus = "Parish" => Parish!Inv
    /\ focus = "Teams" => Teams!Inv
    /\ focus = "Sockets" => Sockets!Inv

LEMMA MoreInitInv == MoreInit => MoreServicesInv
BY ItemsInit, TasksInit, SundayInit, WeeklyInit, PagesInit, ParishInit, TeamsInit, SocketsInit
   DEF MoreInit, MoreServicesInv

LEMMA MoreNextInv == ASSUME MoreServicesInv, MoreNext PROVE MoreServicesInv'
<1>1. focus' = focus
  BY DEF MoreNext
<1> QED
  BY <1>1, ItemsNext, TasksNext, SundayNext, WeeklyNext, PagesNext, ParishNext, TeamsNext,
     SocketsNext
     DEF MoreNext, MoreServicesInv

LEMMA MoreStaysInv == ASSUME MoreServicesInv, UNCHANGED moreVars PROVE MoreServicesInv'
<1>1. UNCHANGED <<focus, x1, x2, x3, x4, x5, x6, x7, x8, x9, x10, x11, pc, req, sent>>
  BY DEF moreVars, Rest3, Spare, flights
<1> QED
  BY <1>1, ItemsStays, TasksStays, SundayStays, WeeklyStays, PagesStays, ParishStays, TeamsStays,
     SocketsStays
     DEF MoreServicesInv

\* Whatever the service, its invariant holds all along: the rows have their types, and what
\* each request in flight has read and still has to write agrees with the tables.
THEOREM MoreInvariance == MoreSpec => []MoreServicesInv
<1>1. MoreInit => MoreServicesInv
  BY MoreInitInv
<1>2. MoreServicesInv /\ [MoreNext]_moreVars => MoreServicesInv'
  BY MoreNextInv, MoreStaysInv
<1> QED
  BY <1>1, <1>2, PTL DEF MoreSpec

\* Whichever of the eight services a behaviour is of, its tables, what is remembered of them
\* and its requests in flight have their types.
THEOREM MoreRowsHaveTypes == MoreSpec => []MoreRowsTyped
<1>1. MoreServicesInv => MoreRowsTyped
  BY DEF MoreServicesInv, MoreRowsTyped,
         Items!Inv, Tasks!Inv, Sunday!Inv, Weekly!Inv, Pages!Inv, Parish!Inv,
         Teams!Inv, Sockets!Inv
<1> QED
  BY <1>1, MoreInvariance, PTL

\* A request that ends leaves its work whole: a template has the masses or the slots it was
\* created with, an event its participants, a photograph and an upkeep their rows, the news
\* of a page those whom it is for; and no commit undoes what another request has written,
\* but for the requests that died or have met.
THEOREM WorkStaysWhole == MoreSpec => []WorkIsWhole
<1>1. MoreServicesInv => WorkIsWhole
  BY ItemsHold
     DEF MoreServicesInv, WorkIsWhole, Items!Inv, Tasks!Inv, Sunday!Inv, Weekly!Inv, Pages!Inv,
         Parish!Inv, Sockets!Inv
<1> QED
  BY <1>1, MoreInvariance, PTL

\* What is looked at before a row is written still holds when it is: the window of a mass,
\* the order of the dates of an event, the places of a subgroup and the one subgroup or
\* invitation of a servant, but for the requests that have met or that the clock has passed.
THEOREM BoundsAreKept == MoreSpec => []BoundsHold
<1>1. MoreServicesInv => BoundsHold
  BY DEF MoreServicesInv, BoundsHold, Sunday!Inv, Weekly!Inv, Parish!Inv, Teams!Inv
<1> QED
  BY <1>1, MoreInvariance, PTL
==============================================================================
