----------------------------- MODULE ParentLinks -----------------------------
(***************************************************************************)
(* The parents of a servant, at most three of them: an administrator or    *)
(* the servant links one, a parent enters his child and is linked to it.   *)
(* The parents there are are read before the link is inserted.             *)
(***************************************************************************)
EXTENDS Requests

CONSTANTS
    Servants,       \* accounts with the role SERVANT
    Parents         \* accounts with the role PARENT

MaxParents == 3

VARIABLES
    servants,       \* which servant accounts there are
    parents,        \* which parent accounts there are
    links,          \* table servant_parents
    linkedTwice,    \* history: servants two links have met on
    entered,        \* history: children a parent has entered
    let             \* history: servants a parent was taken from, or not given

linkTables  == <<servants, parents, links>>
linkHistory == <<linkedTwice, entered, let>>

ParentsOf(s) == {p \in Parents : <<s, p>> \in links}

-----------------------------------------------------------------------------
\* link_parent of the administrator and self_link_parent: both accounts are
\* looked up, with their roles.
LinkParent(w, s, p) ==
    /\ servants[s] = "here" /\ parents[p] = "here"
    /\ Begin(w, [op |-> "link", servant |-> s, parent |-> p], "counting")
    /\ UNCHANGED <<linkTables, linkHistory>>

\* create_child_profile: the account of the child, then the link.
CreateChild(w, s, p) ==
    /\ servants[s] = "none" /\ parents[p] = "here"
    /\ Begin(w, [op |-> "child", servant |-> s, parent |-> p], "counting")
    /\ servants' = [servants EXCEPT ![s] = "here"]
    /\ entered' = entered \cup {s}
    /\ UNCHANGED <<parents, links, linkedTwice, let>>

\* Mutation: one link too many.
CountOneMoreParent(w) ==
    LET s == req[w].servant IN
    /\ pc[w] = "counting"
    /\ IF Cardinality(ParentsOf(s)) > MaxParents \/ req[w].parent \in ParentsOf(s)
       THEN Return(w)
       ELSE Continue(w, req[w], "linking")
    /\ UNCHANGED <<linkTables, linkHistory>>

\* The fourth is refused; one that is linked already is nothing to do.
CountParents(w) ==
    LET s == req[w].servant IN
    /\ pc[w] = "counting"
    /\ IF Cardinality(ParentsOf(s)) >= MaxParents \/ req[w].parent \in ParentsOf(s)
       THEN Return(w)
       ELSE Continue(w, req[w], "linking")
    /\ UNCHANGED <<linkTables, linkHistory>>

\* The primary key refuses a second row of the pair, the foreign keys an
\* account that is gone.
InsertLink(w) ==
    LET r == req[w]  s == r.servant  p == r.parent IN
    /\ pc[w] = "linking"
    /\ links' = IF servants[s] = "here" /\ parents[p] = "here"
                THEN links \cup {<<s, p>>} ELSE links
    /\ linkedTwice' = IF Alongside(w, "servant", s) THEN linkedTwice \cup {s} ELSE linkedTwice
    /\ let' = IF parents[p] = "gone" THEN let \cup {s} ELSE let
    /\ Return(w)
    /\ UNCHANGED <<servants, parents, entered>>

\* By an administrator or by the servant; ON DELETE CASCADE does the same.
Unlink(s, p) ==
    /\ <<s, p>> \in links
    /\ links' = links \ {<<s, p>>}
    /\ let' = let \cup {s}
    /\ UNCHANGED <<servants, parents, linkedTwice, entered, flights>>

DeleteServant(s) ==
    /\ servants[s] = "here"
    /\ servants' = [servants EXCEPT ![s] = "gone"]
    /\ links' = {l \in links : l[1] # s}
    /\ UNCHANGED <<parents, linkHistory, flights>>

DeleteParent(p) ==
    /\ parents[p] = "here"
    /\ parents' = [parents EXCEPT ![p] = "gone"]
    /\ links' = {l \in links : l[2] # p}
    /\ let' = let \cup {s \in Servants : <<s, p>> \in links}
    /\ UNCHANGED <<servants, linkedTwice, entered, flights>>

AbortLink(w) ==
    /\ Die(w)
    /\ let' = let \cup {req[w].servant}
    /\ UNCHANGED <<linkTables, linkedTwice, entered>>

-----------------------------------------------------------------------------
Init ==
    /\ servants \in [Servants -> {"none", "here"}]
    /\ parents = [p \in Parents |-> "here"]
    /\ links = {}
    /\ linkedTwice = {} /\ entered = {} /\ let = {}
    /\ InitFlights

\* By the servant himself, who gives the number of his parent, or for him.
LinkDesk(s, p) == Unlink(s, p) \/ \E w \in Workers : LinkParent(w, s, p)

Next ==
    \/ \E s \in Servants, p \in Parents :
          LinkDesk(s, p) \/ \E w \in Workers : CreateChild(w, s, p)
    \/ \E w \in Workers : CountParents(w) \/ InsertLink(w) \/ AbortLink(w)
    \/ \E s \in Servants : DeleteServant(s)
    \/ \E p \in Parents : DeleteParent(p)

Spec == Init /\ [][Next]_<<linkTables, linkHistory, flights>>

-----------------------------------------------------------------------------
TypeOK ==
    /\ servants \in [Servants -> {"none", "here", "gone"}]
    /\ parents \in [Parents -> {"here", "gone"}]
    /\ \A l \in links : servants[l[1]] = "here" /\ parents[l[2]] = "here"
    /\ linkedTwice \cup entered \cup let \subseteq Servants
    /\ FlightsOK

\* A servant has at most three parents, unless two links of him have met: only
\* the count of those that were read says so.
ParentsBounded ==
    \A s \in Servants : Cardinality(ParentsOf(s)) <= MaxParents \/ s \in linkedTwice

\* A child a parent has entered has a parent, once the request is over, unless
\* he was taken away or the request was cut off between the account and the
\* link: nothing else can see the account of a child without one.
ChildrenHaveParents ==
    \A s \in entered :
        servants[s] = "here" =>
            ParentsOf(s) # {} \/ s \in let
            \/ \E w \in Workers : "servant" \in DOMAIN req[w] /\ req[w].servant = s

\* A request that goes on after the count has room for one more parent, unless
\* it has met another.
Sound(w) ==
    LET r == req[w] IN
    \/ pc[w] = "idle"
    \/ /\ pc[w] \in {"counting", "linking"}
       /\ r \in [op : {"link", "child"}, servant : Servants, parent : Parents]
       /\ pc[w] = "linking" =>
             Cardinality(ParentsOf(r.servant)) < MaxParents \/ r.servant \in linkedTwice

Inv == /\ TypeOK /\ links \subseteq Servants \X Parents
       /\ ParentsBounded /\ ChildrenHaveParents
       /\ \A w \in Workers : Sound(w)
=============================================================================
