----------------------------- MODULE RateLimiter -----------------------------
(***************************************************************************)
(* The limit of requests of one address in a sliding window, as a server   *)
(* process holds it: in Redis, and in its memory from the first failure of *)
(* Redis until the process is restarted.                                   *)
(***************************************************************************)
EXTENDS Requests

CONSTANTS
    Limit,      \* requests in a window
    Window,     \* ticks a window has
    MaxAge,     \* ticks after which the memory forgets an address, more than Window
    MaxTime,    \* bound: ticks of the clock
    MaxStarts   \* bound: restarts

VARIABLES
    now,        \* the clock
    useRedis,   \* this process asks Redis
    redis,      \* the sorted set in Redis: requests, let through or not
    memory,     \* the list in memory: requests that were let through
    period,     \* history: switches of the backend and restarts so far
    admitted,   \* history: requests that were let through
    refused     \* history: requests that were not

rateState   == <<now, useRedis, redis, memory>>
rateHistory == <<period, admitted, refused>>

-----------------------------------------------------------------------------
Hit(id, t) == [id |-> id, at |-> t]

\* Those of a window that ends at t.
Within(hits, t) == {h \in hits : h.at + Window > t}

Counted(asked, p, t) == {a \in admitted : a.redis = asked /\ a.period = p /\ a.at <= t /\ a.at + Window > t}
Prompt(asked, p, t) == {a \in Counted(asked, p, t) : ~a.late}

\* The answer to request id, which has read the clock at t: it is late when the
\* clock has gone on since, and others may have been answered before.
Answer(yes, id, t, asked, p) ==
    IF yes
    THEN /\ admitted' = admitted \cup
               {[id |-> id, at |-> t, redis |-> asked, period |-> p, late |-> t < now]}
         /\ UNCHANGED refused
    ELSE /\ refused' = refused \cup
               {[redis |-> asked, full |-> Cardinality(Counted(asked, p, t)) >= Limit]}
         /\ UNCHANGED admitted

\* Only what is let through is counted.
AskMemory(id, p) ==
    LET fresh == Within(memory, now)  yes == Cardinality(fresh) < Limit IN
    /\ memory' = IF yes THEN fresh \cup {Hit(id, now)} ELSE fresh
    /\ Answer(yes, id, now, FALSE, p)

-----------------------------------------------------------------------------
Tick == /\ now < MaxTime
        /\ now' = now + 1
        /\ UNCHANGED <<useRedis, redis, memory, rateHistory, flights>>

\* The clock is read, then Redis is asked.
ReadClock(w) ==
    /\ useRedis
    /\ Begin(w, [op |-> "limit", id |-> sent, at |-> now], "asking")
    /\ UNCHANGED <<rateState, rateHistory>>

\* Memory is asked in the same step.
LimitInMemory ==
    /\ ~useRedis /\ sent < MaxCalls
    /\ sent' = sent + 1
    /\ AskMemory(sent, period)
    /\ UNCHANGED <<now, useRedis, redis, period, pc, req>>

\* Mutation: the entries are counted after this one is added and the limit is
\* compared as before.
AskRedisAfterwards(w) ==
    LET r == req[w]  fresh == Within(redis, r.at) \cup {Hit(r.id, r.at)} IN
    /\ pc[w] = "asking"
    /\ redis' = fresh
    /\ Answer(Cardinality(fresh) <= Limit + 1, r.id, r.at, TRUE, period)
    /\ Return(w)
    /\ UNCHANGED <<now, useRedis, memory, period>>

\* One transaction: the entries that are too old are removed, the others are
\* counted, and this one is added whatever their number is.
AskRedis(w) ==
    LET r == req[w]  fresh == Within(redis, r.at) IN
    /\ pc[w] = "asking"
    /\ redis' = fresh \cup {Hit(r.id, r.at)}
    /\ Answer(Cardinality(fresh) < Limit, r.id, r.at, TRUE, period)
    /\ Return(w)
    /\ UNCHANGED <<now, useRedis, memory, period>>

\* Redis does not answer: this process never asks it again.  Others of its
\* requests that are under way still do.
FallBack(w) ==
    /\ pc[w] = "asking"
    /\ useRedis' = FALSE
    /\ period' = IF useRedis THEN period + 1 ELSE period
    /\ AskMemory(req[w].id, period')
    /\ Return(w)
    /\ UNCHANGED <<now, redis>>

\* The periodic cleanup of the memory.
Cleanup == /\ memory # {}
           /\ \A h \in memory : h.at + MaxAge < now
           /\ memory' = {}
           /\ UNCHANGED <<now, useRedis, redis, rateHistory, flights>>

\* The process is started again, and Redis answers its ping or not.
Restart == /\ \A w \in Workers : pc[w] = "idle"
           /\ memory' = {}
           /\ useRedis' \in BOOLEAN
           /\ period < MaxStarts /\ period' = period + 1
           /\ UNCHANGED <<now, redis, admitted, refused, flights>>

AbortLimit(w) == Die(w) /\ UNCHANGED <<rateState, rateHistory>>

-----------------------------------------------------------------------------
Init == /\ now = 0
        /\ useRedis \in BOOLEAN
        /\ redis = {} /\ memory = {}
        /\ period = 0 /\ admitted = {} /\ refused = {}
        /\ InitFlights

Next == \/ Tick \/ LimitInMemory \/ Cleanup \/ Restart
        \/ \E w \in Workers : ReadClock(w) \/ AskRedis(w) \/ FallBack(w) \/ AbortLimit(w)

Spec == Init /\ [][Next]_<<rateState, rateHistory, flights>>

-----------------------------------------------------------------------------
TypeOK ==
    /\ now \in 0 .. MaxTime /\ useRedis \in BOOLEAN /\ period \in 0 .. 1 + MaxStarts
    /\ redis \cup memory \subseteq [id : 0 .. MaxCalls, at : 0 .. MaxTime]
    /\ admitted \subseteq [id : 0 .. MaxCalls, at : 0 .. MaxTime, redis : BOOLEAN,
                           period : 0 .. 1 + MaxStarts, late : BOOLEAN]
    /\ refused \subseteq [redis : BOOLEAN, full : BOOLEAN]
    /\ FlightsOK

\* As long as one backend is asked, no window has more requests let through than
\* the limit, but for those that were answered late.
LimitHeld ==
    \A asked \in BOOLEAN, p \in 0 .. period, t \in 0 .. now :
        Cardinality(Prompt(asked, p, t)) <= Limit

\* The memory refuses only when the window is full; Redis counts what it has
\* refused, and may keep out whoever keeps asking.
RefusedForCause == \A r \in refused : r.redis \/ r.full

\* What a backend holds of the window that ends now: Redis all that it has let through,
\* the memory nothing else since this process asks it.
RedisHolds ==
    \A a \in admitted : a.redis /\ a.at + Window > now => Hit(a.id, a.at) \in redis
MemoryHolds ==
    /\ \A a \in admitted : ~a.redis /\ a.period = period /\ a.at + Window > now =>
                              Hit(a.id, a.at) \in memory
    /\ \A h \in memory : \E a \in admitted :
          ~a.redis /\ a.period = period /\ a.id = h.id /\ a.at = h.at

\* A request has read the clock before it asks Redis.
Sound(w) ==
    \/ pc[w] = "idle"
    \/ /\ pc[w] = "asking"
       /\ req[w] = [op |-> "limit", id |-> req[w].id, at |-> req[w].at]
       /\ req[w].id \in 0 .. MaxCalls /\ req[w].at \in 0 .. now

Inv ==
    /\ TypeOK /\ LimitHeld /\ RefusedForCause /\ RedisHolds /\ MemoryHolds
    /\ IsFiniteSet(redis) /\ IsFiniteSet(memory) /\ IsFiniteSet(admitted)
    /\ \A a \in admitted : a.at <= now /\ a.period <= period
    /\ useRedis => memory = {} /\ period <= MaxStarts
    /\ \A w \in Workers : Sound(w)
=============================================================================
