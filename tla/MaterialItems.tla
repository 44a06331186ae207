---------------------------- MODULE MaterialItems ----------------------------
(***************************************************************************)
(* The articles of the intendance: each has one photograph in the storage, *)
(* which a new one replaces, and the dates of its upkeep.                  *)
(***************************************************************************)
EXTENDS Requests

CONSTANTS
    Items,      \* articles
    Files,      \* bound: photographs that are stored
    Elsewhere,  \* a photograph that is not in this storage
    Dates       \* days on which an upkeep is made

VARIABLES
    items,      \* table material_items
    ledger,     \* table maintenance_history: the days of an article's upkeep
    files,      \* the storage: "new", "stored" or "deleted"
    spoiled,    \* history: articles whose old photograph was deleted for none
    unrecorded  \* history: those that got a date but no line in the ledger

itemTables == <<items, ledger, files>>
itemVars   == <<itemTables, spoiled, unrecorded>>

-----------------------------------------------------------------------------
Item    == [photo : Files \cup {None, Elsewhere}, serviced : Dates \cup {None}]
NewItem == [photo |-> None, serviced |-> None]

CreateItem(i, url) ==
    /\ items[i] = None
    /\ items' = [items EXCEPT ![i] = [NewItem EXCEPT !.photo = url]]
    /\ UNCHANGED <<ledger, files, spoiled, unrecorded, flights>>

\* The history goes with the article (ON DELETE CASCADE), its file does not.
DeleteItem(i) ==
    /\ Exists(items[i])
    /\ items' = [items EXCEPT ![i] = Gone]
    /\ ledger' = {l \in ledger : l[1] # i}
    /\ UNCHANGED <<files, spoiled, unrecorded, flights>>

\* The requests that read the article, change it and commit it: a PATCH, which
\* may name a photograph that is kept elsewhere, and an upkeep.
EditItem(w, i, url, d) ==
    /\ Exists(items[i])
    /\ Begin(w, [op |-> "edit", item |-> i, read |-> items[i],
                 photo |-> url, on |-> d], "changing")
    /\ UNCHANGED itemVars

AddMaintenance(w, i, d) ==
    /\ Exists(items[i])
    /\ Begin(w, [op |-> "upkeep", item |-> i, read |-> items[i],
                 photo |-> None, on |-> d], "changing")
    /\ UNCHANGED itemVars

\* A field that is None in the request stays as it was read.
CommitItem(w) ==
    LET r   == req[w]
        new == [photo    |-> IF r.photo = None THEN r.read.photo ELSE r.photo,
                serviced |-> IF r.on = None THEN r.read.serviced ELSE r.on]
    IN
    /\ pc[w] = "changing" /\ Exists(items[r.item])
    /\ items' = [items EXCEPT ![r.item] = Flush(@, r.read, new)]
    /\ IF r.op = "upkeep"
       THEN Continue(w, r, "recording") /\ UNCHANGED unrecorded
       ELSE /\ unrecorded' = IF r.on = None THEN unrecorded
                                            ELSE unrecorded \cup {r.item}
            /\ Return(w)
    /\ UNCHANGED <<ledger, files, spoiled>>

\* The UPDATE finds no row.
CommitItemGone(w) ==
    /\ pc[w] = "changing" /\ ~Exists(items[req[w].item])
    /\ Return(w)
    /\ UNCHANGED itemVars

\* Mutation: the line of the history is lost when the article has one.
RecordOnce(w) ==
    LET r == req[w] IN
    /\ pc[w] = "recording"
    /\ ledger' = IF Exists(items[r.item]) /\ ~\E l \in ledger : l[1] = r.item
                 THEN ledger \cup {<<r.item, r.on>>} ELSE ledger
    /\ Return(w)
    /\ UNCHANGED <<items, files, spoiled, unrecorded>>

\* The second commit of an upkeep; the foreign key refuses the history of an
\* article that is gone.
RecordMaintenance(w) ==
    LET r == req[w] IN
    /\ pc[w] = "recording"
    /\ ledger' = IF Exists(items[r.item])
                 THEN ledger \cup {<<r.item, r.on>>} ELSE ledger
    /\ Return(w)
    /\ UNCHANGED <<items, files, spoiled, unrecorded>>

-----------------------------------------------------------------------------
\* A new photograph: the one that was read is deleted first.
ReplacePhoto(w, i) ==
    /\ Exists(items[i])
    /\ Begin(w, [op |-> "replace", item |-> i, old |-> items[i].photo,
                 photo |-> None], "replacing")
    /\ UNCHANGED itemVars

\* delete_file leaves an address alone that is not one of the storage.
DeleteOldPhoto(w) ==
    /\ pc[w] = "replacing"
    /\ files' = IF req[w].old \in Files
                THEN [files EXCEPT ![req[w].old] = "deleted"] ELSE files
    /\ Continue(w, req[w], "storing")
    /\ UNCHANGED <<items, ledger, spoiled, unrecorded>>

StoreItemPhoto(w) ==
    /\ pc[w] = "storing"
    /\ \E f \in Files :
          /\ files[f] = "new"
          /\ files' = [files EXCEPT ![f] = "stored"]
          /\ Continue(w, [req[w] EXCEPT !.photo = f], "naming")
    /\ UNCHANGED <<items, ledger, spoiled, unrecorded>>

\* The type and the size of the file are looked at after the deletion.
RefuseItemPhoto(w) ==
    /\ pc[w] = "storing"
    /\ spoiled' = spoiled \cup {req[w].item}
    /\ Return(w)
    /\ UNCHANGED <<itemTables, unrecorded>>

\* Mutation: an article that has a photograph keeps it.
NamePhotoOnce(w) ==
    LET r == req[w] IN
    /\ pc[w] = "naming"
    /\ items' = IF Exists(items[r.item]) /\ items[r.item].photo = None
                THEN [items EXCEPT ![r.item].photo = r.photo] ELSE items
    /\ Return(w)
    /\ UNCHANGED <<ledger, files, spoiled, unrecorded>>

\* update_item finds no row when the article was deleted meanwhile.
NamePhoto(w) ==
    LET r == req[w] IN
    /\ pc[w] = "naming"
    /\ items' = IF Exists(items[r.item])
                THEN [items EXCEPT ![r.item].photo = r.photo] ELSE items
    /\ Return(w)
    /\ UNCHANGED <<ledger, files, spoiled, unrecorded>>

-----------------------------------------------------------------------------
AbortItem(w) ==
    /\ Die(w)
    /\ spoiled' = IF pc[w] \in {"storing", "naming"}
                  THEN spoiled \cup {req[w].item} ELSE spoiled
    /\ unrecorded' = IF pc[w] = "recording"
                     THEN unrecorded \cup {req[w].item} ELSE unrecorded
    /\ UNCHANGED itemTables

Init ==
    /\ items = [i \in Items |-> None]
    /\ ledger = {}
    /\ files = [f \in Files |-> "new"]
    /\ spoiled = {} /\ unrecorded = {}
    /\ InitFlights

ItemDesk(i) ==
    \/ \E url \in {None, Elsewhere} : CreateItem(i, url)
    \/ DeleteItem(i)

ItemRequest(w, i) ==
    \/ \E url \in {None, Elsewhere}, d \in Dates \cup {None} : EditItem(w, i, url, d)
    \/ ReplacePhoto(w, i)

UpkeepDesk(w, i) == \E d \in Dates : AddMaintenance(w, i, d)

ServeItem(w) ==
    \/ CommitItem(w) \/ CommitItemGone(w) \/ RecordMaintenance(w)
    \/ DeleteOldPhoto(w) \/ StoreItemPhoto(w) \/ RefuseItemPhoto(w)
    \/ NamePhoto(w) \/ AbortItem(w)

Next == \/ \E i \in Items : ItemDesk(i) \/ \E w \in Workers : ItemRequest(w, i) \/ UpkeepDesk(w, i)
        \/ \E w \in Workers : ServeItem(w)

Spec == Init /\ [][Next]_<<itemVars, flights>>

-----------------------------------------------------------------------------
TypeOK ==
    /\ items \in [Items -> Item \cup {None, Gone}]
    /\ ledger \subseteq Items \X Dates
    /\ files \in [Files -> {"new", "stored", "deleted"}]
    /\ spoiled \subseteq Items /\ unrecorded \subseteq Items
    /\ FlightsOK

Waiting(i, places) == \E w \in Workers : pc[w] \in places /\ req[w].item = i

\* The photograph an article names is in the storage or about to be replaced,
\* however uploads race, until one of them is refused or dies after it has
\* deleted the old one.
PhotoOnFile ==
    \A i \in Items :
        Exists(items[i]) /\ items[i].photo \in Files =>
            \/ files[items[i].photo] = "stored"
            \/ Waiting(i, {"storing", "naming"})
            \/ i \in spoiled

\* The date of the last upkeep has its line in the history or is about to get
\* it, unless it was given by hand or its request died between the commits.
UpkeepOnRecord ==
    \A i \in Items :
        Exists(items[i]) /\ items[i].serviced # None =>
            \/ <<i, items[i].serviced>> \in ledger
            \/ Waiting(i, {"recording"})
            \/ i \in unrecorded

\* The last upkeep has its line in the history, or the request that is about to write it.
Recorded ==
    \A i \in Items :
        Exists(items[i]) /\ items[i].serviced # None =>
            \/ <<i, items[i].serviced>> \in ledger
            \/ \E w \in Workers : /\ pc[w] = "recording" /\ req[w].item = i
                                  /\ req[w].on = items[i].serviced
            \/ i \in unrecorded

\* A photograph is of one article: the one that names it, or whose old one it is.
Names(i, f) == Exists(items[i]) /\ items[i].photo = f
OwnPhotos ==
    \A f \in Files, i \in Items :
        Names(i, f) =>
            /\ files[f] # "new"
            /\ \A j \in Items : Names(j, f) => j = i

\* What a request that waits carries: who is about to name a photograph has it in the
\* storage and to himself.
Sound(w) ==
    LET r == req[w] IN
    \/ pc[w] = "idle"
    \/ /\ pc[w] \in {"changing", "recording"}
       /\ r = [op |-> r.op, item |-> r.item, read |-> r.read, photo |-> r.photo, on |-> r.on]
       /\ r.op \in {"edit", "upkeep"} /\ r.item \in Items /\ items[r.item] # None
       /\ r.read \in Item /\ r.photo \in {None, Elsewhere} /\ r.on \in Dates \cup {None}
       /\ r.op = "upkeep" => r.on # None
       /\ pc[w] = "recording" => r.op = "upkeep"
    \/ /\ pc[w] \in {"replacing", "storing", "naming"}
       /\ r = [op |-> "replace", item |-> r.item, old |-> r.old, photo |-> r.photo]
       /\ r.item \in Items /\ items[r.item] # None
       /\ pc[w] = "replacing" /\ r.old \in Files =>
             files[r.old] # "new" /\ \A i \in Items : Names(i, r.old) => i = r.item
       /\ pc[w] = "naming" =>
             /\ r.photo \in Files /\ files[r.photo] = "stored"
             /\ \A i \in Items : ~Names(i, r.photo)
             /\ \A v \in Workers \ {w} :
                   /\ pc[v] = "replacing" => req[v].old # r.photo
                   /\ pc[v] = "naming" => req[v].photo # r.photo

Inv == TypeOK /\ PhotoOnFile /\ Recorded /\ OwnPhotos /\ \A w \in Workers : Sound(w)
=============================================================================
