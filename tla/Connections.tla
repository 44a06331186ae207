----------------------------- MODULE Connections -----------------------------
(***************************************************************************)
(* The WebSocket connections of one user in one server process: requests   *)
(* push notifications to them and the heartbeat looks at them one after    *)
(* the other, while others come and go.                                    *)
(***************************************************************************)
EXTENDS Requests

CONSTANTS
    Sockets,    \* WebSockets
    Timeout,    \* ticks without a pong after which one is closed
    MaxTime     \* bound: ticks of the clock

VARIABLES
    now,        \* the clock
    routes,     \* where the route of each socket is
    registry,   \* _connections of the user
    lastPong,   \* when each has answered last: record_pong is called by none
    beat        \* what the heartbeat has still to look at, or None

connectionVars == <<now, routes, registry, lastPong, beat>>

-----------------------------------------------------------------------------
Round(seen) == [at |-> now, left |-> seen, dead |-> {}]

\* A message to s arrives; to a peer that is lost it may fail instead.
Arrives(s) == {TRUE} \cup IF routes[s] = "open" THEN {} ELSE {FALSE}

-----------------------------------------------------------------------------
Tick == /\ now < MaxTime
        /\ now' = now + 1
        /\ UNCHANGED <<routes, registry, lastPong, beat, flights>>

Connect(s) ==
    /\ routes[s] = None
    /\ routes' = [routes EXCEPT ![s] = "open"]
    /\ registry' = registry \cup {s}
    /\ lastPong' = [lastPong EXCEPT ![s] = now]
    /\ UNCHANGED <<now, beat, flights>>

\* The peer goes; the route notices it later.
LosePeer(s) ==
    /\ routes[s] = "open"
    /\ routes' = [routes EXCEPT ![s] = "lost"]
    /\ UNCHANGED <<now, registry, lastPong, beat, flights>>

Disconnect(s) ==
    /\ routes[s] = "lost"
    /\ routes' = [routes EXCEPT ![s] = "ended"]
    /\ registry' = registry \ {s}
    /\ UNCHANGED <<now, lastPong, beat, flights>>

-----------------------------------------------------------------------------
\* A push goes through the list as it was when it began.
SendToUser(w) ==
    /\ Begin(w, [op |-> "push", list |-> registry, left |-> registry, dead |-> {}], "pushing")
    /\ UNCHANGED connectionVars

SendToNext(w) ==
    /\ pc[w] = "pushing"
    /\ \E s \in req[w].left : \E ok \in Arrives(s) :
          Continue(w, [req[w] EXCEPT !.left = @ \ {s}, !.dead = IF ok THEN @ ELSE @ \cup {s}],
                   "pushing")
    /\ UNCHANGED connectionVars

\* Mutation: the list is replaced by the one the push began with.
RemoveFromList(w) ==
    /\ pc[w] = "pushing" /\ req[w].left = {}
    /\ registry' = req[w].list \ req[w].dead
    /\ Return(w)
    /\ UNCHANGED <<now, routes, lastPong, beat>>

\* Those to which it could not be sent are taken from the list there is now.
RemoveDead(w) ==
    /\ pc[w] = "pushing" /\ req[w].left = {}
    /\ registry' = registry \ req[w].dead
    /\ Return(w)
    /\ UNCHANGED <<now, routes, lastPong, beat>>

-----------------------------------------------------------------------------
BeginBeat == /\ beat = None
             /\ beat' = Round(registry)
             /\ UNCHANGED <<now, routes, registry, lastPong, flights>>

\* One that has been silent for too long is closed, the others are pinged.
BeatNext ==
    /\ beat # None
    /\ \E s \in beat.left :
          LET silent == beat.at > lastPong[s] + Timeout IN
          /\ routes' = IF silent /\ routes[s] = "open" THEN [routes EXCEPT ![s] = "lost"] ELSE routes
          /\ \E ok \in Arrives(s) :
                beat' = [beat EXCEPT !.left = @ \ {s},
                                     !.dead = IF ok /\ ~silent THEN @ ELSE @ \cup {s}]
    /\ UNCHANGED <<now, registry, lastPong, flights>>

EndBeat == /\ beat # None /\ beat.left = {}
           /\ registry' = registry \ beat.dead
           /\ beat' = None
           /\ UNCHANGED <<now, routes, lastPong, flights>>

AbortPush(w) == Die(w) /\ UNCHANGED connectionVars

-----------------------------------------------------------------------------
Init == /\ now = 0 /\ beat = None
        /\ routes = [s \in Sockets |-> None]
        /\ registry = {}
        /\ lastPong = [s \in Sockets |-> 0]
        /\ InitFlights

Heartbeat == BeginBeat \/ BeatNext \/ EndBeat

Next == \/ Tick \/ Heartbeat
        \/ \E s \in Sockets : Connect(s) \/ LosePeer(s) \/ Disconnect(s)
        \/ \E w \in Workers : SendToUser(w) \/ SendToNext(w) \/ RemoveDead(w) \/ AbortPush(w)

Spec == Init /\ [][Next]_<<connectionVars, flights>>

-----------------------------------------------------------------------------
TypeOK ==
    /\ now \in 0 .. MaxTime /\ lastPong \in [Sockets -> 0 .. MaxTime]
    /\ routes \in [Sockets -> {None, "open", "lost", "ended"}]
    /\ registry \subseteq Sockets
    /\ beat # None => beat.left \cup beat.dead \subseteq Sockets
    /\ FlightsOK

\* Whoever is connected is on the list, whatever pushes and heartbeats have found
\* dead meanwhile, and whose route has ended is not on it again.
ListIsExact ==
    \A s \in Sockets : /\ routes[s] = "open" => s \in registry
                       /\ routes[s] \in {None, "ended"} => s \notin registry

\* What is left to look at has been connected, and what is found dead is not open again.
Underway(seen, dead) ==
    /\ \A s \in seen : s \in Sockets /\ routes[s] # None
    /\ \A s \in dead : s \in Sockets /\ routes[s] \in {"lost", "ended"}

Sound(w) ==
    LET r == req[w] IN
    \/ pc[w] = "idle"
    \/ /\ pc[w] = "pushing"
       /\ r = [op |-> "push", list |-> r.list, left |-> r.left, dead |-> r.dead]
       /\ Underway(r.left, r.dead)

Inv ==
    /\ TypeOK /\ ListIsExact
    /\ beat # None => /\ beat = [at |-> beat.at, left |-> beat.left, dead |-> beat.dead]
                      /\ Underway(beat.left, beat.dead)
    /\ \A w \in Workers : Sound(w)
=============================================================================
