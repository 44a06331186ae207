----------------------------- MODULE Idempotency -----------------------------
(***************************************************************************)
(* The idempotency middleware.  A client that has no answer to a POST sends *)
(* it again under the same key; each server process remembers, in its own  *)
(* memory, the keys that it is serving and the answers that it has given.   *)
(* The event loop of a process runs a request alone between two awaits, and *)
(* an action is what happens there.                                         *)
(***************************************************************************)
EXTENDS Naturals, FiniteSets

CONSTANTS
    Requests,     \* connections that carry a request
    Processes,    \* server processes
    Keys,         \* composite keys: the path and X-Idempotency-Key
    None,         \* no key: another method, an excluded path or no header
    MaxCalls,     \* bound: requests that are sent
    MaxFaults     \* bound: requests cancelled and processes restarted

ASSUME IdempotencyAssumption ==
    /\ IsFiniteSet(Requests)
    /\ None \notin Keys /\ None \notin Processes
    /\ MaxCalls \in Nat /\ MaxFaults \in Nat

VARIABLES
    store,      \* _memory_store of each process: the entry of each key
    at,         \* where each request is
    job,        \* the process that serves it, its key and the answer it has
    calls,      \* requests sent so far
    faults,     \* requests cancelled and processes restarted so far
    ran,        \* history: how often the endpoint succeeded, per process and key
    forgotten,  \* history: how many of these answers the process forgot
    cancelled   \* history: the keys a cancelled request has left in progress

memory  == <<store>>
flights == <<at, job>>
counts  == <<calls, faults>>
history == <<ran, forgotten, cancelled>>
vars    == <<memory, flights, counts, history>>

-----------------------------------------------------------------------------
\* An entry of _store; an answer is named by the run of the endpoint it is of,
\* and "stale" is an answer older than _TTL_SECONDS.
Entry   == [state : {"none", "progress", "kept", "stale"}, answer : 0 .. MaxCalls]
NoEntry == [state |-> "none", answer |-> 0]
InProgress == [state |-> "progress", answer |-> 0]
Kept(n)    == [state |-> "kept", answer |-> n]

Job   == [proc : Processes \cup {None}, key : Keys \cup {None},
          answer : 0 .. MaxCalls]
NoJob == [proc |-> None, key |-> None, answer |-> 0]

\* What the body of a successful answer is to the middleware.
Bodies == {"small", "large", "empty"}

Put(p, k, e)  == store' = [store EXCEPT ![p][k] = e]
Go(r, place)  == at' = [at EXCEPT ![r] = place]
Leave(r)      == Go(r, "idle") /\ job' = [job EXCEPT ![r] = NoJob]
Forget(p, k)  == forgotten' = [forgotten EXCEPT ![p][k] = ran[p][k]]

\* The middleware follows the requests that carry a key, and no other.
Keyed(r) == job[r].key # None

-----------------------------------------------------------------------------
(***************************************************************************)
(* A request arrives.                                                      *)
(***************************************************************************)
Arrive(r) == /\ at[r] = "idle"
             /\ calls < MaxCalls
             /\ calls' = calls + 1
             /\ UNCHANGED <<faults, ran, cancelled>>

Handle(r, p, k) ==
    /\ Go(r, "handling")
    /\ job' = [job EXCEPT ![r] = [proc |-> p, key |-> k, answer |-> 0]]

PassThrough(r, p) ==
    /\ Arrive(r)
    /\ Handle(r, p, None)
    /\ UNCHANGED <<memory, forgotten>>

\* Mutation: the middleware does not look for a request in progress.
ServeTwice(r, p, k) ==
    /\ Arrive(r)
    /\ store[p][k].state # "kept"
    /\ Put(p, k, InProgress)
    /\ Handle(r, p, k)
    /\ UNCHANGED forgotten

\* A new key, or one whose answer is too old, which get deletes: it is marked
\* in progress before the endpoint is awaited.
Serve(r, p, k) ==
    /\ Arrive(r)
    /\ store[p][k].state \in {"none", "stale"}
    /\ Put(p, k, InProgress)
    /\ Handle(r, p, k)
    /\ UNCHANGED forgotten

\* The answer that was kept, or 409 to a key in progress.
Replay(r, p, k) ==
    /\ Arrive(r)
    /\ store[p][k].state \in {"kept", "progress"}
    /\ UNCHANGED <<memory, flights, forgotten>>

-----------------------------------------------------------------------------
(***************************************************************************)
(* The endpoint answers.                                                   *)
(***************************************************************************)
Succeed(r) ==
    /\ at[r] = "handling"
    /\ LET p == job[r].proc  k == job[r].key IN
       IF Keyed(r)
       THEN /\ ran' = [ran EXCEPT ![p][k] = @ + 1]
            /\ job' = [job EXCEPT ![r].answer = ran[p][k] + 1]
            /\ Go(r, "draining")
       ELSE Leave(r) /\ UNCHANGED ran
    /\ UNCHANGED <<memory, counts, forgotten, cancelled>>

\* Mutation: the key stays in progress when the endpoint does not succeed.
KeepKey(r) ==
    /\ at[r] = "handling"
    /\ Leave(r)
    /\ UNCHANGED <<memory, counts, history>>

\* Another status than 2xx, or an exception, gives the key back.
Fail(r) ==
    /\ at[r] = "handling"
    /\ IF Keyed(r) THEN Put(job[r].proc, job[r].key, NoEntry)
                   ELSE UNCHANGED store
    /\ Leave(r)
    /\ UNCHANGED <<counts, history>>

\* Mutation: the key is given back although the answer is to be kept.
DrainAndPop(r, body) ==
    /\ at[r] = "draining"
    /\ Put(job[r].proc, job[r].key, NoEntry)
    /\ IF body = "small" THEN UNCHANGED forgotten
                         ELSE Forget(job[r].proc, job[r].key)
    /\ Leave(r)
    /\ UNCHANGED <<counts, ran, cancelled>>

\* The body is collected: one over 64 KB or without a chunk is not kept, and
\* the key is given back.
Drain(r, body) ==
    /\ at[r] = "draining"
    /\ IF body = "small"
       THEN /\ Put(job[r].proc, job[r].key, Kept(job[r].answer))
            /\ UNCHANGED forgotten
       ELSE /\ Put(job[r].proc, job[r].key, NoEntry)
            /\ Forget(job[r].proc, job[r].key)
    /\ Leave(r)
    /\ UNCHANGED <<counts, ran, cancelled>>

-----------------------------------------------------------------------------
(***************************************************************************)
(* What goes wrong.                                                        *)
(***************************************************************************)
Fault == /\ faults < MaxFaults
         /\ faults' = faults + 1
         /\ UNCHANGED calls

\* A request is cancelled, which is no Exception, or its body cannot be read,
\* which happens outside the try: nothing takes the key out.
Cancel(r) ==
    /\ Fault
    /\ at[r] # "idle"
    /\ Leave(r)
    /\ cancelled' = IF Keyed(r)
                    THEN cancelled \cup {<<job[r].proc, job[r].key>>}
                    ELSE cancelled
    /\ UNCHANGED <<memory, ran, forgotten>>

\* The memory of a process, and what it was serving, go with it.
Restart(p) ==
    /\ Fault
    /\ store' = [store EXCEPT ![p] = [k \in Keys |-> NoEntry]]
    /\ forgotten' = [forgotten EXCEPT ![p] = ran[p]]
    /\ cancelled' = {c \in cancelled : c[1] # p}
    /\ at' = [r \in Requests |-> IF job[r].proc = p THEN "idle" ELSE at[r]]
    /\ job' = [r \in Requests |-> IF job[r].proc = p THEN NoJob ELSE job[r]]
    /\ UNCHANGED ran

\* A day passes; an entry in progress is returned by get before its age is
\* looked at, and stays.
Age(p, k) ==
    /\ store[p][k].state = "kept"
    /\ Put(p, k, [store[p][k] EXCEPT !.state = "stale"])
    /\ Forget(p, k)
    /\ UNCHANGED <<flights, counts, ran, cancelled>>

-----------------------------------------------------------------------------
Init ==
    /\ store = [p \in Processes |-> [k \in Keys |-> NoEntry]]
    /\ at = [r \in Requests |-> "idle"]
    /\ job = [r \in Requests |-> NoJob]
    /\ calls = 0 /\ faults = 0
    /\ ran = [p \in Processes |-> [k \in Keys |-> 0]]
    /\ forgotten = [p \in Processes |-> [k \in Keys |-> 0]]
    /\ cancelled = {}

Dispatch(r) ==
    \E p \in Processes :
        \/ PassThrough(r, p)
        \/ \E k \in Keys : \/ Serve(r, p, k)
                           \/ Replay(r, p, k)

Respond(r) == Succeed(r) \/ Fail(r) \/ \E body \in Bodies : Drain(r, body)

Environment == \/ \E r \in Requests : Cancel(r)
               \/ \E p \in Processes : Restart(p) \/ \E k \in Keys : Age(p, k)

Next == \/ \E r \in Requests : Dispatch(r) \/ Respond(r)
        \/ Environment

\* An endpoint that is awaited answers, and the body of its answer ends.
Fairness == \A r \in Requests : WF_vars(Respond(r))

Spec == Init /\ [][Next]_vars /\ Fairness

-----------------------------------------------------------------------------
(***************************************************************************)
(* Properties.                                                             *)
(***************************************************************************)
TypeOK ==
    /\ store \in [Processes -> [Keys -> Entry]]
    /\ at \in [Requests -> {"idle", "handling", "draining"}]
    /\ job \in [Requests -> Job]
    /\ calls \in 0 .. MaxCalls /\ faults \in 0 .. MaxFaults
    /\ ran \in [Processes -> [Keys -> 0 .. MaxCalls]]
    /\ forgotten \in [Processes -> [Keys -> 0 .. MaxCalls]]
    /\ cancelled \subseteq Processes \X Keys

Serves(r, p, k) == at[r] # "idle" /\ job[r].proc = p /\ job[r].key = k

\* A process never has the endpoint run for a key twice at the same time: the
\* second of two submissions waits for no answer but gets 409 (middleware/
\* idempotency.py, "Requete en cours").
OneAtATime ==
    \A p \in Processes, k \in Keys, q, r \in Requests :
        Serves(q, p, k) /\ Serves(r, p, k) => q = r

\* However a submission is repeated, the endpoint succeeds once more than the
\* process forgot an answer: it forgets one that it could not keep, that is a
\* day old, or that a restart took, and nothing else lets a retry run again.
AtMostOnce ==
    \A p \in Processes, k \in Keys : ran[p][k] <= forgotten[p][k] + 1

\* The answer that is replayed is the one of the last success, even when it
\* was forgotten and the endpoint ran again.
ReplaysLast ==
    \A p \in Processes, k \in Keys :
        store[p][k].state = "kept" => store[p][k].answer = ran[p][k]

\* A key that is in progress is given back or gets its answer, whatever comes
\* in between, unless the request that had it was cancelled.
KeysReleased ==
    \A p \in Processes, k \in Keys :
        store[p][k].state = "progress"
            ~> (store[p][k].state # "progress" \/ <<p, k>> \in cancelled)

=============================================================================
