------------------------------ MODULE Subgroups -------------------------------
(***************************************************************************)
(* The subgroups of the servants.  A servant is in one of them at most: he *)
(* is added after it was looked whether he is in one and whether there is  *)
(* room, and a reclassification takes him out of his own before it puts    *)
(* him into the one of his age and marks.  Each look is a call.            *)
(***************************************************************************)
EXTENDS Requests

CONSTANTS
    Groups,     \* rows of sub_groups
    Places,     \* rows of sub_group_members
    Servants,   \* accounts with the role SERVANT
    Nobody,     \* the identifier nil, which no account has
    Kinds,      \* bound: categories and names of the groups
    Limits,     \* bound: values of max_members; 0 is no limit
    AinesMax    \* AINES_MAX_MEMBERS

VARIABLES
    groups,     \* table sub_groups
    members,    \* table sub_group_members
    met,        \* history: servants and groups two requests have met on
    lowered     \* history: groups whose limit was changed

groupTables  == <<groups, members>>
groupHistory == <<met, lowered>>

-----------------------------------------------------------------------------
\* The categories a reclassification chooses from (CHORALE is not one of them).
Ranks == {"ASPIRANTS", "CONFIRMES", "AINES"}
SubGroupCategory == Ranks \cup {"AUTRE"}

\* A name is unique; the ones that matter are those of the categories.
SubGroup == [name : SubGroupCategory, category : SubGroupCategory,
             active : BOOLEAN, max : Limits]
SubGroupMember == [group : Groups, servant : Servants, active : BOOLEAN]

Named(name) == {g \in Groups : Exists(groups[g]) /\ groups[g].name = name}

\* get_by_category: the active groups of a category.
InCategory(c) ==
    {g \in Groups : Exists(groups[g]) /\ groups[g].active /\ groups[g].category = c}

Active(p)  == Exists(members[p]) /\ members[p].active
Members(g) == {p \in Places : Active(p) /\ members[p].group = g}
Memberships(v) == {p \in Places : Active(p) /\ members[p].servant = v}

\* What a request that changes the servant v or the group g meets.
Meet(w, v, g) ==
    met' = met \cup {x \in {v} : Alongside(w, "servant", x)}
               \cup {x \in {g} : Alongside(w, "group", x)}

-----------------------------------------------------------------------------
FreeName(name, g) == name = "AUTRE" \/ Named(name) \subseteq {g}

CreateGroup(g, name, category, max) ==
    /\ groups[g] = None
    /\ FreeName(name, g)
    /\ groups' = [groups EXCEPT ![g] =
           [name |-> name, category |-> category, active |-> TRUE, max |-> max]]
    /\ UNCHANGED <<members, groupHistory, flights>>

\* max_members and the category of a group, or its activity, are set.
UpdateGroup(g, category, active, max) ==
    /\ Exists(groups[g])
    /\ groups' = [groups EXCEPT ![g] = [name |-> groups[g].name, category |-> category,
                                         active |-> active, max |-> max]]
    /\ lowered' = IF max = groups[g].max THEN lowered ELSE lowered \cup {g}
    /\ UNCHANGED <<members, met, flights>>

\* The members go with their group (ON DELETE CASCADE).
DeleteGroup(g) ==
    /\ Exists(groups[g])
    /\ groups' = [groups EXCEPT ![g] = Gone]
    /\ members' = [p \in Places |->
           IF Exists(members[p]) /\ members[p].group = g THEN Gone ELSE members[p]]
    /\ UNCHANGED <<groupHistory, flights>>

RemoveMember(p) ==
    /\ Active(p)
    /\ members' = [members EXCEPT ![p].active = FALSE]
    /\ UNCHANGED <<groups, groupHistory, flights>>

-----------------------------------------------------------------------------
(***************************************************************************)
(* A servant is added.                                                     *)
(***************************************************************************)
AddMember(w, g, v) ==
    /\ Exists(groups[g]) /\ groups[g].active
    /\ Begin(w, [op |-> "add", servant |-> v, group |-> g, max |-> groups[g].max,
                 by |-> "clergy"], "looking")
    /\ UNCHANGED <<groupTables, groupHistory>>

\* Mutation: only the group itself is looked at.
LookInGroup(w) ==
    LET r == req[w] IN
    /\ pc[w] = "looking"
    /\ IF Memberships(r.servant) \cap Members(r.group) # {} THEN Return(w)
       ELSE Continue(w, r, IF r.max > 0 THEN "counting" ELSE "inserting")
    /\ UNCHANGED <<groupTables, groupHistory>>

\* Whoever is in this group, or in another one, is refused.
LookForMember(w) ==
    LET r == req[w] IN
    /\ pc[w] = "looking"
    /\ IF Memberships(r.servant) # {} THEN Return(w)
       ELSE Continue(w, r, IF r.max > 0 THEN "counting" ELSE "inserting")
    /\ UNCHANGED <<groupTables, groupHistory>>

CountMembers(w) ==
    LET r == req[w] IN
    /\ pc[w] = "counting"
    /\ IF Cardinality(Members(r.group)) >= r.max THEN Return(w)
       ELSE Continue(w, r, "inserting")
    /\ UNCHANGED <<groupTables, groupHistory>>

\* The foreign keys refuse a group that is gone and an adder who is nobody.
InsertMember(w) ==
    LET r == req[w] IN
    /\ pc[w] = "inserting"
    /\ IF Exists(groups[r.group]) /\ r.by # Nobody
       THEN /\ \E p \in Places :
                  /\ members[p] = None
                  /\ members' = [members EXCEPT ![p] =
                        [group |-> r.group, servant |-> r.servant, active |-> TRUE]]
            /\ Meet(w, r.servant, r.group)
       ELSE UNCHANGED <<members, met>>
    /\ Return(w)
    /\ UNCHANGED <<groups, lowered>>

-----------------------------------------------------------------------------
(***************************************************************************)
(* A servant is reclassified.  The route names no account that does it.    *)
(***************************************************************************)
\* The rank is the one of his age and of the average of his marks.
ReclassifyServant(w, v, rank) ==
    /\ Begin(w, [op |-> "reclassify", servant |-> v, rank |-> rank, group |-> None,
                 from |-> None, by |-> Nobody], "choosing")
    /\ UNCHANGED <<groupTables, groupHistory>>

Chosen(w, g) ==
    Continue(w, [req[w] EXCEPT !.group = g],
             IF req[w].rank = "AINES" THEN "limiting" ELSE "comparing")

\* The active group of the rank; or else the group that has its name, which is
\* given the category.  A new one is refused by the foreign key created_by.
ChooseGroup(w) ==
    LET rank == req[w].rank IN
    /\ pc[w] = "choosing"
    /\ \/ /\ \E g \in InCategory(rank) : Chosen(w, g)
          /\ UNCHANGED groups
       \/ /\ InCategory(rank) = {}
          /\ \E g \in Named(rank) :
                /\ groups' = [groups EXCEPT ![g].category = rank]
                /\ Chosen(w, g)
       \/ /\ InCategory(rank) \cup Named(rank) = {}
          /\ Return(w)
          /\ UNCHANGED groups
    /\ UNCHANGED <<members, groupHistory>>

\* Seven AINES at most, whoever is one of them already left aside.
LimitAines(w) ==
    LET r == req[w] IN
    /\ pc[w] = "limiting"
    /\ IF /\ Cardinality(Members(r.group)) >= AinesMax
          /\ Memberships(r.servant) \cap Members(r.group) = {}
       THEN Continue(w, [r EXCEPT !.rank = "CONFIRMES"], "choosing")
       ELSE Continue(w, r, "comparing")
    /\ UNCHANGED <<groupTables, groupHistory>>

\* He stays where he is, leaves a group first, or had none.
CompareGroup(w) ==
    LET r == req[w]  current == Memberships(r.servant) IN
    /\ pc[w] = "comparing"
    /\ \/ current = {} /\ Continue(w, r, "inserting")
       \/ \E p \in current :
             IF members[p].group = r.group THEN Return(w)
             ELSE Continue(w, [r EXCEPT !.from = p], "leaving")
    /\ UNCHANGED <<groupTables, groupHistory>>

\* The departure is committed by itself.
LeaveGroup(w) ==
    LET r == req[w] IN
    /\ pc[w] = "leaving"
    /\ IF Exists(members[r.from])
       THEN /\ members' = [members EXCEPT ![r.from].active = FALSE]
            /\ Continue(w, r, "inserting")
       ELSE UNCHANGED members /\ Return(w)
    /\ UNCHANGED <<groups, groupHistory>>

AbortGroup(w) == Die(w) /\ UNCHANGED <<groupTables, groupHistory>>

-----------------------------------------------------------------------------
Init ==
    /\ groups = [g \in Groups |-> None]
    /\ members = [p \in Places |-> None]
    /\ met = {} /\ lowered = {}
    /\ InitFlights

GroupDesk(g) ==
    \/ \E name, c \in Kinds, max \in Limits : CreateGroup(g, name, c, max)
    \/ \E c \in Kinds, active \in BOOLEAN, max \in Limits : UpdateGroup(g, c, active, max)
    \/ DeleteGroup(g)

GroupRequest(w, v) ==
    \/ \E g \in Groups : AddMember(w, g, v)
    \/ \E rank \in Ranks \cap Kinds : ReclassifyServant(w, v, rank)

ServeGroup(w) ==
    \/ LookForMember(w) \/ CountMembers(w) \/ InsertMember(w)
    \/ ChooseGroup(w) \/ LimitAines(w) \/ CompareGroup(w) \/ LeaveGroup(w)
    \/ AbortGroup(w)

Next ==
    \/ \E g \in Groups : GroupDesk(g)
    \/ \E p \in Places : RemoveMember(p)
    \/ \E w \in Workers : ServeGroup(w) \/ \E v \in Servants : GroupRequest(w, v)

Spec == Init /\ [][Next]_<<groupTables, groupHistory, flights>>

-----------------------------------------------------------------------------
TypeOK ==
    /\ groups \in [Groups -> SubGroup \cup {None, Gone}]
    /\ members \in [Places -> SubGroupMember \cup {None, Gone}]
    /\ met \subseteq Servants \cup Groups /\ lowered \subseteq Groups
    /\ FlightsOK

\* A servant is in one active subgroup at most, unless two requests that place
\* him have met: no constraint of sub_group_members refuses the second row.
OneGroupEach ==
    \A v \in Servants : Cardinality(Memberships(v)) <= 1 \/ v \in met

\* A group has at most as many members as it has room for, unless its limit
\* was changed or two requests that place somebody in it have met.
MembersBounded ==
    \A g \in Groups :
        Exists(groups[g]) /\ groups[g].max > 0 =>
            Cardinality(Members(g)) <= groups[g].max \/ g \in met \cup lowered

\* Of a step: a reclassification that ends has put the servant into a group: it never
\* leaves him without the one he was in.
ReclassifiedHasGroup ==
    \A w \in Workers :
        pc[w] = "inserting" /\ pc'[w] = "idle" /\ req[w].op = "reclassify"
            => Memberships(req[w].servant)' # {}

\* What a request that waits knows: the servant has no group and the group has room, unless
\* another request has met it on one of them or the limit was changed.
Sound(w) ==
    LET r == req[w] IN
    \/ pc[w] = "idle"
    \/ /\ pc[w] \in {"looking", "counting", "inserting"} /\ r.op = "add"
       /\ r = [op |-> "add", servant |-> r.servant, group |-> r.group, max |-> r.max,
               by |-> "clergy"]
       /\ r.servant \in Servants /\ r.group \in Groups /\ groups[r.group] # None
       /\ r.max \in Limits
       /\ Exists(groups[r.group]) => r.max = groups[r.group].max \/ r.group \in lowered
       /\ pc[w] # "looking" => Memberships(r.servant) = {} \/ r.servant \in met
       /\ pc[w] = "inserting" /\ r.max > 0 =>
             Cardinality(Members(r.group)) < r.max \/ r.group \in met
    \/ /\ pc[w] \in {"choosing", "limiting", "comparing", "leaving", "inserting"} /\ r.op = "reclassify"
       /\ r = [op |-> "reclassify", servant |-> r.servant, rank |-> r.rank,
               group |-> r.group, from |-> r.from, by |-> Nobody]
       /\ r.servant \in Servants /\ r.rank \in Ranks
       /\ pc[w] = "leaving" => r.from \in Places

Inv ==
    /\ TypeOK /\ OneGroupEach /\ MembersBounded
    /\ \A p \in Places : Active(p) => Exists(groups[members[p].group])
    /\ \A w \in Workers : Sound(w)
=============================================================================
