------------------------------- MODULE Lockout -------------------------------
(***************************************************************************)
(* The lock of an address or a number after failed logins: the lock is     *)
(* looked at, the password is checked against the database, and only then  *)
(* is the failure counted or the count reset.  Time goes by in minutes.    *)
(***************************************************************************)
EXTENDS Requests

VARIABLES
    count,      \* failures counted
    left,       \* minutes the lock still lasts; 0 is no lock
    since       \* history: who had passed the lock before it was set

lock == <<count, left>>

-----------------------------------------------------------------------------
\* _LOCKOUT_TIERS: failures, and minutes of the lock from that many on.
Tiers == {<<5, 1>>, <<10, 5>>, <<15, 15>>, <<20, 30>>}

Reached(n) == {t \in Tiers : n >= t[1]}

\* _get_lockout_duration: the last tier that is reached.
Duration(n) ==
    IF Reached(n) = {} THEN 0
    ELSE (CHOOSE t \in Reached(n) : \A u \in Reached(n) : u[1] <= t[1])[2]

-----------------------------------------------------------------------------
\* Mutation: the lock is not looked at.
LoginUnchecked(w) ==
    /\ Begin(w, [op |-> "login"], "checking")
    /\ UNCHANGED <<lock, since>>

\* check_locked: a request that finds the lock is refused.
Login(w) ==
    /\ left = 0
    /\ Begin(w, [op |-> "login"], "checking")
    /\ UNCHANGED <<lock, since>>

\* A wrong identifier or password, or an account that is not active.
RecordFailure(w) ==
    /\ pc[w] = "checking"
    /\ count' = count + 1
    /\ left' = IF Duration(count + 1) > 0 THEN Duration(count + 1) ELSE left
    /\ since' = IF Duration(count + 1) > 0
                THEN {v \in Workers \ {w} : pc[v] = "checking"} ELSE since \ {w}
    /\ Return(w)

\* The count and the lock go together.
RecordSuccess(w) ==
    /\ pc[w] = "checking"
    /\ count' = 0 /\ left' = 0
    /\ since' = since \ {w}
    /\ Return(w)

\* An error of the database counts as nothing.
AbortLogin(w) ==
    /\ Die(w)
    /\ since' = since \ {w}
    /\ UNCHANGED lock

\* Mutation: the time that is left has no end.
MinuteEndless ==
    /\ left' = left - 1
    /\ UNCHANGED <<count, since, flights>>

Minute ==
    /\ left > 0
    /\ left' = left - 1
    /\ UNCHANGED <<count, since, flights>>

\* An hour without a failure (cleanup, or the expiry in Redis) and the count
\* is forgotten.
Forget ==
    /\ count > 0 /\ left = 0
    /\ count' = 0
    /\ UNCHANGED <<left, since, flights>>

-----------------------------------------------------------------------------
Init == /\ count = 0 /\ left = 0
        /\ since = {}
        /\ InitFlights

Next == \/ Minute \/ Forget
        \/ \E w \in Workers : Login(w) \/ RecordFailure(w) \/ RecordSuccess(w) \/ AbortLogin(w)

Spec == Init /\ [][Next]_<<lock, since, flights>>

-----------------------------------------------------------------------------
TypeOK ==
    /\ count \in 0 .. MaxCalls /\ left \in 0 .. 30
    /\ since \subseteq Workers
    /\ FlightsOK

\* While the lock is on, whoever is checking a password had passed it before it was set;
\* and what has been counted or is being checked has come in.
Checking == {w \in Workers : pc[w] = "checking"}

Inv ==
    /\ TypeOK
    /\ \A w \in Workers : pc[w] \in {"idle", "checking"}
    /\ count + Cardinality(Checking) <= sent
    /\ left > 0 => Checking \subseteq since

\* Of a step: a failure that is counted while the lock is on had passed it before it was
\* set: within a lock there are no more of them than there were requests in
\* flight.
LockHolds ==
    count' > count /\ left > 0 =>
        \E w \in since : pc[w] = "checking" /\ pc'[w] = "idle"

\* Of a step: a lock ends when its time is up, or with the success of a request that had
\* passed it before it was set: a login under way can lift it.
LockEndsInTime ==
    left > 0 /\ left' = 0 =>
        \/ left = 1 /\ count' = count
        \/ \E w \in since : pc[w] = "checking" /\ pc'[w] = "idle"
=============================================================================
