---------------------------- MODULE Notifications -----------------------------
(***************************************************************************)
(* The notifications: one to a person, or a broadcast to those that a      *)
(* query finds, one after the other.  A notification is committed before   *)
(* it is sent and marked afterwards, and its recipient may read it in      *)
(* between.  Old ones that were read are swept.                            *)
(***************************************************************************)
EXTENDS Requests, Sequences

CONSTANTS
    Notices,    \* rows of notifications
    Users,      \* accounts
    Twice,      \* the accounts with two active nominations
    Broadcasts  \* identifiers of broadcasts

VARIABLES
    notices,    \* table notifications
    present,    \* accounts that exist
    found,      \* history: whom a broadcast that has ended was meant for
    told,       \* history: <<broadcast, account>> whose notification was marked
    early       \* history: notifications that were read before they were marked

noticeTables  == <<notices, present>>
noticeHistory == <<found, told, early>>

-----------------------------------------------------------------------------
NotificationStatus == {"PENDING", "SENT", "READ", "FAILED"}
Notification == [to : Users, broadcast : Broadcasts \cup {None},
                 status : NotificationStatus]

Told(b, u) == {n \in Notices : Exists(notices[n]) /\ notices[n].broadcast = b
                                                  /\ notices[n].to = u}

\* What a query may find, who has two nominations as often (bound: two rows).
Found == {<<>>} \cup {<<u>> : u \in present} \cup
         {l \in present \X present : l[1] = l[2] => l[1] \in Twice}

-----------------------------------------------------------------------------
SendNotification(w, u) ==
    /\ Begin(w, [op |-> "send", broadcast |-> None, all |-> {u}, left |-> <<u>>,
                 notice |-> None], "creating")
    /\ UNCHANGED <<noticeTables, noticeHistory>>

Broadcast(w, b, list) ==
    /\ found[b] = None /\ \A v \in Workers : pc[v] # "idle" => req[v].broadcast # b
    /\ \A n \in Notices : Exists(notices[n]) => notices[n].broadcast # b
    /\ Begin(w, [op |-> "broadcast", broadcast |-> b, all |-> {list[i] : i \in DOMAIN list},
                 left |-> list, notice |-> None], "creating")
    /\ UNCHANGED <<noticeTables, noticeHistory>>

CreateNotification(w) ==
    LET r == req[w] IN
    /\ pc[w] = "creating" /\ r.left # <<>> /\ Head(r.left) \in present
    /\ \E n \in Notices :
          /\ notices[n] = None
          /\ notices' = [notices EXCEPT ![n] =
                [to |-> Head(r.left), broadcast |-> r.broadcast, status |-> "PENDING"]]
          /\ Continue(w, [r EXCEPT !.left = Tail(@), !.notice = n], "sending")
    /\ UNCHANGED <<present, noticeHistory>>

\* The foreign key refuses a recipient that is gone: nobody after him is told.
CreationFails(w) ==
    LET r == req[w] IN
    /\ pc[w] = "creating" /\ r.left # <<>> /\ Head(r.left) \notin present
    /\ Return(w)
    /\ UNCHANGED <<noticeTables, noticeHistory>>

\* Mutation: a channel that fails ends the broadcast.
MarkOnlySent(w) ==
    LET r == req[w]  n == r.notice IN
    /\ pc[w] = "sending" /\ Exists(notices[n])
    /\ \E failed \in BOOLEAN :
          IF failed
          THEN /\ notices' = [notices EXCEPT ![n].status = "FAILED"]
               /\ Continue(w, [r EXCEPT !.left = <<>>, !.notice = None], "creating")
          ELSE /\ notices' = [notices EXCEPT ![n].status = "SENT"]
               /\ Continue(w, [r EXCEPT !.notice = None], "creating")
    /\ told' = told \cup {<<r.broadcast, notices[n].to>>}
    /\ UNCHANGED <<present, found, early>>

\* The channel has answered; whatever the row says by now, PENDING is what the
\* session has read and SENT or FAILED what it writes.
MarkSent(w) ==
    LET r == req[w]  n == r.notice IN
    /\ pc[w] = "sending" /\ Exists(notices[n])
    /\ \E status \in {"SENT", "FAILED"} :
          notices' = [notices EXCEPT ![n].status = status]
    /\ told' = told \cup {<<r.broadcast, notices[n].to>>}
    /\ Continue(w, [r EXCEPT !.notice = None], "creating")
    /\ UNCHANGED <<present, found, early>>

\* The row went with its recipient: what is read of it is None, and has no status.
MarkFails(w) ==
    /\ pc[w] = "sending" /\ ~Exists(notices[req[w].notice])
    /\ Return(w)
    /\ UNCHANGED <<noticeTables, noticeHistory>>

AllSent(w) ==
    LET r == req[w] IN
    /\ pc[w] = "creating" /\ r.left = <<>>
    /\ found' = IF r.op = "broadcast" THEN [found EXCEPT ![r.broadcast] = r.all] ELSE found
    /\ Return(w)
    /\ UNCHANGED <<noticeTables, told, early>>

-----------------------------------------------------------------------------
\* The recipient marks some of his as read, whatever channel they came by.
MarkRead(u, list) ==
    /\ \A n \in list : Exists(notices[n]) /\ notices[n].to = u /\ notices[n].status # "READ"
    /\ notices' = [n \in Notices |->
           IF n \in list THEN [notices[n] EXCEPT !.status = "READ"] ELSE notices[n]]
    /\ early' = early \cup {n \in list : notices[n].status = "PENDING"}
    /\ UNCHANGED <<present, found, told, flights>>

\* Every night, those that have been READ for thirty days.
CleanupNotifications(old) ==
    /\ \A n \in old : Exists(notices[n]) /\ notices[n].status = "READ"
    /\ notices' = [n \in Notices |-> IF n \in old THEN Gone ELSE notices[n]]
    /\ UNCHANGED <<present, noticeHistory, flights>>

DeleteUser(u) ==
    /\ u \in present
    /\ present' = present \ {u}
    /\ notices' = [n \in Notices |->
           IF Exists(notices[n]) /\ notices[n].to = u THEN Gone ELSE notices[n]]
    /\ UNCHANGED <<noticeHistory, flights>>

AbortNotification(w) == Die(w) /\ UNCHANGED <<noticeTables, noticeHistory>>

-----------------------------------------------------------------------------
Init ==
    /\ notices = [n \in Notices |-> None]
    /\ present = Users
    /\ found = [b \in Broadcasts |-> None] /\ told = {} /\ early = {}
    /\ InitFlights

SecretariatDesk(w) ==
    \/ \E u \in Users : SendNotification(w, u)
    \/ \E b \in Broadcasts, list \in Found : Broadcast(w, b, list)

Next ==
    \/ \E w \in Workers :
          \/ SecretariatDesk(w)
          \/ CreateNotification(w) \/ CreationFails(w)
          \/ MarkSent(w) \/ MarkFails(w) \/ AllSent(w)
          \/ AbortNotification(w)
    \/ \E some \in SUBSET Notices \ {{}} :
          (\E u \in Users : MarkRead(u, some)) \/ CleanupNotifications(some)
    \/ \E u \in Users : DeleteUser(u)

Spec == Init /\ [][Next]_<<noticeTables, noticeHistory, flights>>

-----------------------------------------------------------------------------
TypeOK ==
    /\ notices \in [Notices -> Notification \cup {None, Gone}]
    /\ present \subseteq Users /\ early \subseteq Notices
    /\ found \in [Broadcasts -> (SUBSET Users) \cup {None}]
    /\ told \subseteq (Broadcasts \cup {None}) \X Users
    /\ FlightsOK

\* A broadcast that has ended has told everybody it was meant for: a channel
\* that fails marks a notification FAILED and does not end the broadcast.
EverybodyTold ==
    \A b \in Broadcasts : found[b] # None => {b} \X found[b] \subseteq told

\* A broadcast tells nobody twice, but whoever has two active nominations, which
\* the query joins.
ToldOnce ==
    \A b \in Broadcasts, u \in Users : Cardinality(Told(b, u)) <= 1 \/ u \in Twice

\* What a request carries at each place.
Carrying(w) ==
    /\ req[w] \in [op : {"send", "broadcast"}, broadcast : Broadcasts \cup {None},
                   all : SUBSET Users, left : Seq(Users), notice : Notices \cup {None}]
    /\ req[w].op = "broadcast" => req[w].broadcast \in Broadcasts

\* The notification that is being sent is its own, and was read early if it was.
Sending(w) ==
    LET n == req[w].notice IN
    /\ n \in Notices /\ notices[n] # None
    /\ Exists(notices[n]) => notices[n].status = "PENDING" \/ n \in early
    /\ \A v \in Workers \ {w} : pc[v] = "sending" => req[v].notice # n

Sound(w) ==
    \/ pc[w] = "idle"
    \/ pc[w] = "creating" /\ Carrying(w)
    \/ pc[w] = "sending" /\ Carrying(w) /\ Sending(w)

\* Who is on the list of a request, or whose notification it is sending.
Owed(w, u) ==
    LET r == req[w] IN
    \/ \E i \in DOMAIN r.left : r.left[i] = u
    \/ pc[w] = "sending" /\ (Exists(notices[r.notice]) => notices[r.notice].to = u)

\* A broadcast is of one request, which has told everybody or still owes it to him.
Telling(w) ==
    LET r == req[w]  b == r.broadcast IN
    pc[w] # "idle" /\ b \in Broadcasts =>
        /\ found[b] = None
        /\ \A v \in Workers \ {w} : pc[v] # "idle" => req[v].broadcast # b
        /\ \A u \in r.all : <<b, u>> \in told \/ Owed(w, u)

\* Who is on its list is there once, and has no notification yet.
ListedOnce(w) ==
    LET r == req[w]  b == r.broadcast IN
    pc[w] # "idle" /\ b \in Broadcasts =>
        \A i \in DOMAIN r.left :
            r.left[i] \notin Twice =>
                /\ Told(b, r.left[i]) = {}
                /\ \A j \in DOMAIN r.left : r.left[j] = r.left[i] => j = i

NobodyTwice ==
    \A b \in Broadcasts, u \in Users \ Twice : \A m, n \in Told(b, u) : m = n

Settled == TypeOK /\ \A w \in Workers : Sound(w)
Listed  == /\ EverybodyTold /\ NobodyTwice
           /\ \A w \in Workers : Telling(w) /\ ListedOnce(w)

Inv == Settled /\ Listed

\* Of a step: what was read stays read until it is swept, unless it was read before its
\* sending was marked.
ReadStays ==
    \A n \in Notices :
        Exists(notices[n]) /\ notices[n].status = "READ" =>
            (Exists(notices'[n]) => notices'[n].status = "READ") \/ n \in early
=============================================================================
