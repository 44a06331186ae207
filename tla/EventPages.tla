----------------------------- MODULE EventPages ------------------------------
(***************************************************************************)
(* What is shown of a sports or cultural event: its announcement to every  *)
(* account, its gallery, its results and its teams.                        *)
(***************************************************************************)
EXTENDS Requests

CONSTANTS
    Events,     \* rows of sport_culture_events
    Photos,     \* bound: photographs that are uploaded
    Teams,      \* rows of event_teams
    Results,    \* rows of event_results
    Members     \* servants in a team

VARIABLES
    pages,      \* table sport_culture_events: the gallery and the announcement
    results,    \* table event_results: the event of each
    teams,      \* table event_teams: the event and the members of each
    told,       \* accounts told of an event
    unused,     \* photographs that are not in the storage yet
    answered,   \* history: photographs whose upload was answered
    crossed,    \* history: events two requests were changing at the same time
    untold      \* history: events whose announcement died on its way

pageTables  == <<pages, results, teams, told, unused>>
pageHistory == <<answered, crossed, untold>>

-----------------------------------------------------------------------------
Page == [photos : SUBSET Photos, announced : BOOLEAN]
EventTeam == [event : Events, members : SUBSET Members]

\* The row is committed, then each account is told in a commit of its own.
CreatePage(w, e, announced) ==
    /\ pages[e] = None
    /\ pages' = [pages EXCEPT ![e] = [photos |-> {}, announced |-> announced]]
    /\ IF announced
       THEN Begin(w, [op |-> "announce", about |-> e, to |-> Members], "announcing")
       ELSE UNCHANGED flights
    /\ UNCHANGED <<results, teams, told, unused, pageHistory>>

Announce(w) ==
    LET r == req[w] IN
    /\ pc[w] = "announcing"
    /\ \/ /\ r.to = {}
          /\ Return(w)
          /\ UNCHANGED told
       \/ \E v \in r.to : /\ told' = told \cup {<<r.about, v>>}
                          /\ Continue(w, [r EXCEPT !.to = @ \ {v}], "announcing")
    /\ UNCHANGED <<pages, results, teams, unused, pageHistory>>

\* The event is read, the file is stored, and the file is put behind the list
\* that was read.
UploadEventPhoto(w, e) ==
    /\ Exists(pages[e])
    /\ Begin(w, [op |-> "photo", event |-> e, read |-> pages[e].photos, file |-> None],
             "uploading")
    /\ UNCHANGED <<pageTables, pageHistory>>

StoreEventPhoto(w) ==
    /\ pc[w] = "uploading"
    /\ \E f \in unused : /\ unused' = unused \ {f}
                         /\ Continue(w, [req[w] EXCEPT !.file = f], "adding")
    /\ UNCHANGED <<pages, results, teams, told, pageHistory>>

RefuseEventPhoto(w) ==
    /\ pc[w] = "uploading"
    /\ Return(w)
    /\ UNCHANGED <<pageTables, pageHistory>>

\* Mutation: the photograph takes the place of the list.
AddOnlyPhoto(w) ==
    LET r == req[w]  e == r.event IN
    /\ pc[w] = "adding" /\ Exists(pages[e])
    /\ pages' = [pages EXCEPT ![e].photos = {r.file}]
    /\ answered' = answered \cup {<<e, r.file>>}
    /\ crossed' = IF Alongside(w, "event", e) THEN crossed \cup {e} ELSE crossed
    /\ Return(w)
    /\ UNCHANGED <<results, teams, told, unused, untold>>

AddEventPhoto(w) ==
    LET r == req[w]  e == r.event IN
    /\ pc[w] = "adding" /\ Exists(pages[e])
    /\ pages' = [pages EXCEPT ![e].photos = r.read \cup {r.file}]
    /\ answered' = answered \cup {<<e, r.file>>}
    /\ crossed' = IF Alongside(w, "event", e) THEN crossed \cup {e} ELSE crossed
    /\ Return(w)
    /\ UNCHANGED <<results, teams, told, unused, untold>>

PageIsGone(w) ==
    /\ pc[w] = "adding" /\ ~Exists(pages[req[w].event])
    /\ Return(w)
    /\ UNCHANGED <<pageTables, pageHistory>>

-----------------------------------------------------------------------------
AddResult(e, n) ==
    /\ Exists(pages[e]) /\ results[n] = None
    /\ results' = [results EXCEPT ![n] = e]
    /\ UNCHANGED <<pages, teams, told, unused, pageHistory, flights>>

DeleteResult(n) ==
    /\ Exists(results[n])
    /\ results' = [results EXCEPT ![n] = Gone]
    /\ UNCHANGED <<pages, teams, told, unused, pageHistory, flights>>

\* No member of a team has to be inscribed.
CreateTeam(e, n, members) ==
    /\ Exists(pages[e]) /\ teams[n] = None
    /\ teams' = [teams EXCEPT ![n] = [event |-> e, members |-> members]]
    /\ UNCHANGED <<pages, results, told, unused, pageHistory, flights>>

UpdateTeam(n, members) ==
    /\ Exists(teams[n])
    /\ teams' = [teams EXCEPT ![n].members = members]
    /\ UNCHANGED <<pages, results, told, unused, pageHistory, flights>>

DeleteTeam(n) ==
    /\ Exists(teams[n])
    /\ teams' = [teams EXCEPT ![n] = Gone]
    /\ UNCHANGED <<pages, results, told, unused, pageHistory, flights>>

\* The results and the teams go with their event (ON DELETE CASCADE).
DeletePage(e) ==
    /\ Exists(pages[e])
    /\ pages' = [pages EXCEPT ![e] = Gone]
    /\ results' = [n \in Results |-> IF results[n] = e THEN Gone ELSE results[n]]
    /\ teams' = [n \in Teams |->
          IF Exists(teams[n]) /\ teams[n].event = e THEN Gone ELSE teams[n]]
    /\ UNCHANGED <<told, unused, pageHistory, flights>>

AbortPage(w) ==
    /\ Die(w)
    /\ untold' = IF pc[w] = "announcing" THEN untold \cup {req[w].about} ELSE untold
    /\ UNCHANGED <<pageTables, answered, crossed>>

-----------------------------------------------------------------------------
Init ==
    /\ pages = [e \in Events |-> None]
    /\ results = [n \in Results |-> None]
    /\ teams = [n \in Teams |-> None]
    /\ told = {} /\ unused = Photos
    /\ answered = {} /\ crossed = {} /\ untold = {}
    /\ InitFlights

PageDesk(e) ==
    \/ DeletePage(e)
    \/ \E n \in Results : AddResult(e, n)

NewTeam(e) == \E n \in Teams, members \in SUBSET Members : CreateTeam(e, n, members)

TeamDesk(n) == DeleteTeam(n) \/ \E members \in SUBSET Members : UpdateTeam(n, members)

PageRequest(w, e) ==
    \/ \E b \in BOOLEAN : CreatePage(w, e, b)
    \/ UploadEventPhoto(w, e)

ServePage(w) ==
    \/ Announce(w) \/ StoreEventPhoto(w) \/ RefuseEventPhoto(w) \/ AddEventPhoto(w)
    \/ PageIsGone(w) \/ AbortPage(w)

Next == \/ \E e \in Events : \/ PageDesk(e) \/ NewTeam(e)
                             \/ \E w \in Workers : PageRequest(w, e)
        \/ \E n \in Results : DeleteResult(n)
        \/ \E n \in Teams : TeamDesk(n)
        \/ \E w \in Workers : ServePage(w)

Spec == Init /\ [][Next]_<<pageTables, pageHistory, flights>>

-----------------------------------------------------------------------------
TypeOK ==
    /\ pages \in [Events -> Page \cup {None, Gone}]
    /\ results \in [Results -> Events \cup {None, Gone}]
    /\ teams \in [Teams -> EventTeam \cup {None, Gone}]
    /\ told \subseteq Events \X Members /\ unused \subseteq Photos
    /\ answered \subseteq Events \X Photos /\ crossed \cup untold \subseteq Events
    /\ FlightsOK

\* A photograph whose upload was answered is in the gallery of its event while
\* there is one, unless two uploads for this event were in flight together.
GalleryKept ==
    \A a \in answered :
        Exists(pages[a[1]]) => a[2] \in pages[a[1]].photos \/ a[1] \in crossed

\* An event that is to be announced was announced to everybody, is being
\* announced, or its request died between two accounts.
EverybodyTold ==
    \A e \in Events :
        Exists(pages[e]) /\ pages[e].announced =>
            \/ {e} \X Members \subseteq told
            \/ e \in untold
            \/ \E w \in Workers : pc[w] = "announcing" /\ req[w].about = e

\* What a request that waits knows: whom an announcement has told, and the gallery as it
\* is, unless another request has changed it.
Sound(w) ==
    LET r == req[w] IN
    \/ pc[w] = "idle"
    \/ /\ pc[w] = "announcing"
       /\ r = [op |-> "announce", about |-> r.about, to |-> r.to]
       /\ r.about \in Events /\ r.to \subseteq Members
       /\ {r.about} \X (Members \ r.to) \subseteq told
    \/ /\ pc[w] \in {"uploading", "adding"}
       /\ r = [op |-> "photo", event |-> r.event, read |-> r.read, file |-> r.file]
       /\ r.event \in Events /\ pages[r.event] # None
       /\ r.read \subseteq Photos /\ (pc[w] = "adding" => r.file \in Photos)
       /\ Exists(pages[r.event]) =>
             r.event \in crossed \/ r.read = pages[r.event].photos

Inv ==
    /\ TypeOK /\ GalleryKept /\ EverybodyTold
    /\ \A a \in answered : pages[a[1]] # None
    /\ \A w \in Workers : Sound(w)
=============================================================================
