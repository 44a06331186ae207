--------------------------- MODULE IdempotencyProofs ---------------------------
(***************************************************************************)
(* Proofs about Idempotency, for any number of requests, processes and     *)
(* keys.  The safety properties follow from one invariant that relates     *)
(* what a process remembers of a key, what it is serving for it and how    *)
(* often the endpoint has run.                                             *)
(***************************************************************************)
EXTENDS Idempotency, TLAPS

\* What an entry says of the runs of the endpoint and of those forgotten.
Books ==
    \A p \in Processes, k \in Keys :
        /\ store[p][k].state \in {"none", "stale"} => ran[p][k] = forgotten[p][k]
        /\ store[p][k].state = "progress" =>
               ran[p][k] \in {forgotten[p][k], forgotten[p][k] + 1}
        /\ store[p][k].state = "kept" =>
               /\ ran[p][k] = forgotten[p][k] + 1
               /\ store[p][k].answer = ran[p][k]

\* A request that is served under a key has that key in progress, and what it
\* did is not forgotten before it is answered.
Flights ==
    \A r \in Requests :
        /\ at[r] # "idle" => job[r].proc \in Processes
        /\ at[r] = "draining" => Keyed(r)
        /\ \A p \in Processes, k \in Keys :
             Serves(r, p, k) =>
                 /\ store[p][k].state = "progress"
                 /\ at[r] = "handling" => /\ ran[p][k] = forgotten[p][k]
                                          /\ ran[p][k] < calls
                 /\ at[r] = "draining" => /\ ran[p][k] = forgotten[p][k] + 1
                                          /\ job[r].answer = ran[p][k]

\* No key had the endpoint run more often than requests were sent.
Counted == \A p \in Processes, k \in Keys : ran[p][k] <= calls

IInv == TypeOK /\ Books /\ Flights /\ Counted /\ OneAtATime

(***************************************************************************)
(* What the assignments of the middleware change.                          *)
(***************************************************************************)
LEMMA EntryTypes ==
  /\ NoEntry \in Entry /\ InProgress \in Entry
  /\ \A n \in 0 .. MaxCalls : Kept(n) \in Entry
  /\ NoJob \in Job
BY IdempotencyAssumption DEF NoEntry, InProgress, Kept, Entry, NoJob, Job

LEMMA PutChanges ==
  ASSUME TypeOK, NEW p \in Processes, NEW k \in Keys, NEW e \in Entry,
         Put(p, k, e)
  PROVE  /\ store' \in [Processes -> [Keys -> Entry]]
         /\ store'[p][k] = e
         /\ \A q \in Processes, l \in Keys :
                q # p \/ l # k => store'[q][l] = store[q][l]
BY DEF TypeOK, Put

LEMMA ForgetChanges ==
  ASSUME TypeOK, NEW p \in Processes, NEW k \in Keys, Forget(p, k)
  PROVE  /\ forgotten' \in [Processes -> [Keys -> 0 .. MaxCalls]]
         /\ forgotten'[p][k] = ran[p][k]
         /\ \A q \in Processes, l \in Keys :
                q # p \/ l # k => forgotten'[q][l] = forgotten[q][l]
BY DEF TypeOK, Forget

LEMMA LeaveChanges ==
  ASSUME TypeOK, NEW r \in Requests, Leave(r)
  PROVE  /\ at' \in [Requests -> {"idle", "handling", "draining"}]
         /\ job' \in [Requests -> Job]
         /\ at'[r] = "idle"
         /\ \A q \in Requests : q # r => at'[q] = at[q] /\ job'[q] = job[q]
BY EntryTypes DEF TypeOK, Leave, Go

LEMMA HandleChanges ==
  ASSUME TypeOK, NEW r \in Requests, NEW p \in Processes,
         NEW k \in Keys \cup {None}, Handle(r, p, k)
  PROVE  /\ at' \in [Requests -> {"idle", "handling", "draining"}]
         /\ job' \in [Requests -> Job]
         /\ at'[r] = "handling" /\ job'[r].proc = p /\ job'[r].key = k
         /\ \A q \in Requests : q # r => at'[q] = at[q] /\ job'[q] = job[q]
<1>1. [proc |-> p, key |-> k, answer |-> 0] \in Job
  BY IdempotencyAssumption DEF Job
<1>. QED
  BY <1>1 DEF TypeOK, Handle, Go

\* Flights, seen from the requests that a step leaves alone.
LEMMA OthersKeepFlying ==
  ASSUME IInv, NEW q \in Requests, at'[q] = at[q], job'[q] = job[q],
         calls' \in Nat, calls' >= calls,
         \A p \in Processes, k \in Keys :
             Serves(q, p, k) =>
                 /\ store'[p][k] = store[p][k] /\ ran'[p][k] = ran[p][k]
                 /\ forgotten'[p][k] = forgotten[p][k]
  PROVE  /\ at'[q] # "idle" => job'[q].proc \in Processes
         /\ at'[q] = "draining" => job'[q].key # None
         /\ \A p \in Processes, k \in Keys :
              Serves(q, p, k)' =>
                 /\ store'[p][k].state = "progress"
                 /\ at'[q] = "handling" => /\ ran'[p][k] = forgotten'[p][k]
                                           /\ ran'[p][k] < calls'
                 /\ at'[q] = "draining" => /\ ran'[p][k] = forgotten'[p][k] + 1
                                           /\ job'[q].answer = ran'[p][k]
BY DEF IInv, Flights, Serves, TypeOK, Keyed

(***************************************************************************)
(* The invariant holds at first, and every action keeps it.                *)
(***************************************************************************)
LEMMA InitInv == Init => IInv
<1>. SUFFICES ASSUME Init PROVE IInv
  OBVIOUS
<1>1. TypeOK
  BY EntryTypes, IdempotencyAssumption DEF Init, TypeOK
<1>2. Books /\ Counted
  BY DEF Init, Books, Counted, NoEntry
<1>3. Flights /\ OneAtATime
  BY DEF Init, Flights, OneAtATime, Serves
<1>. QED
  BY <1>1, <1>2, <1>3 DEF IInv

LEMMA PassThroughKeeps ==
  ASSUME IInv, NEW r \in Requests, NEW p \in Processes, PassThrough(r, p)
  PROVE  IInv'
<1>0. TypeOK /\ calls \in Nat /\ calls' = calls + 1 /\ calls < MaxCalls
  BY IdempotencyAssumption DEF IInv, TypeOK, PassThrough, Arrive
<1>1. /\ at' \in [Requests -> {"idle", "handling", "draining"}]
      /\ job' \in [Requests -> Job]
      /\ at'[r] = "handling" /\ job'[r].proc = p /\ job'[r].key = None
      /\ \A q \in Requests : q # r => at'[q] = at[q] /\ job'[q] = job[q]
  BY <1>0, HandleChanges DEF PassThrough
<1>2. UNCHANGED <<store, ran, forgotten, faults, cancelled>>
  BY DEF PassThrough, Arrive, memory
<1>3. TypeOK'
  BY <1>0, <1>1, <1>2, IdempotencyAssumption DEF TypeOK
<1>4. Books' /\ Counted'
  BY <1>0, <1>2 DEF IInv, TypeOK, Books, Counted
<1>5. Flights'
  <2>1. ASSUME NEW q \in Requests, q # r
        PROVE  /\ at'[q] # "idle" => job'[q].proc \in Processes
               /\ at'[q] = "draining" => job'[q].key # None
               /\ \A l \in Processes, k \in Keys :
                    Serves(q, l, k)' =>
                       /\ store'[l][k].state = "progress"
                       /\ at'[q] = "handling" => /\ ran'[l][k] = forgotten'[l][k]
                                                 /\ ran'[l][k] < calls'
                       /\ at'[q] = "draining" =>
                              /\ ran'[l][k] = forgotten'[l][k] + 1
                              /\ job'[q].answer = ran'[l][k]
    BY <1>0, <1>1, <1>2, <2>1, OthersKeepFlying
  <2>. QED
    BY <1>1, <2>1, IdempotencyAssumption DEF Flights, Serves, Keyed
<1>6. OneAtATime'
  BY <1>1, IdempotencyAssumption DEF IInv, OneAtATime, Serves
<1>. QED
  BY <1>3, <1>4, <1>5, <1>6 DEF IInv

LEMMA ServeKeeps ==
  ASSUME IInv, NEW r \in Requests, NEW p \in Processes, NEW k \in Keys,
         Serve(r, p, k)
  PROVE  IInv'
<1>0. TypeOK /\ calls \in Nat /\ calls' = calls + 1 /\ calls < MaxCalls
  BY IdempotencyAssumption DEF IInv, TypeOK, Serve, Arrive
<1>1. /\ at' \in [Requests -> {"idle", "handling", "draining"}]
      /\ job' \in [Requests -> Job]
      /\ at'[r] = "handling" /\ job'[r].proc = p /\ job'[r].key = k
      /\ \A q \in Requests : q # r => at'[q] = at[q] /\ job'[q] = job[q]
  BY <1>0, HandleChanges DEF Serve
<1>2. UNCHANGED <<ran, forgotten, faults, cancelled>>
  BY DEF Serve, Arrive
<1>3. /\ store' \in [Processes -> [Keys -> Entry]]
      /\ store'[p][k] = InProgress
      /\ \A q \in Processes, l \in Keys :
             q # p \/ l # k => store'[q][l] = store[q][l]
  BY <1>0, PutChanges, EntryTypes DEF Serve
<1>4. ran[p][k] = forgotten[p][k] /\ ran[p][k] <= calls /\ ran[p][k] \in Nat
  BY DEF IInv, Serve, Books, Counted, TypeOK
<1>5. \A q \in Requests : ~Serves(q, p, k)
  BY DEF IInv, Flights, Serve
<1>6. TypeOK'
  BY <1>0, <1>1, <1>2, <1>3, IdempotencyAssumption DEF TypeOK
<1>7. Books' /\ Counted'
  <2>1. Counted'
    BY <1>0, <1>2 DEF IInv, TypeOK, Counted
  <2>2. \A m \in Processes, l \in Keys : m # p \/ l # k =>
            /\ store'[m][l] = store[m][l] /\ ran'[m][l] = ran[m][l]
            /\ forgotten'[m][l] = forgotten[m][l]
    BY <1>2, <1>3
  <2>3. /\ store'[p][k].state = "progress" /\ ran'[p][k] = forgotten'[p][k]
    BY <1>2, <1>3, <1>4 DEF InProgress
  <2>. QED
    BY <2>1, <2>2, <2>3 DEF IInv, Books
<1>8. Flights'
  <2>1. ASSUME NEW q \in Requests, q # r
        PROVE  /\ at'[q] # "idle" => job'[q].proc \in Processes
               /\ at'[q] = "draining" => job'[q].key # None
               /\ \A m \in Processes, l \in Keys :
                    Serves(q, m, l)' =>
                       /\ store'[m][l].state = "progress"
                       /\ at'[q] = "handling" => /\ ran'[m][l] = forgotten'[m][l]
                                                 /\ ran'[m][l] < calls'
                       /\ at'[q] = "draining" =>
                              /\ ran'[m][l] = forgotten'[m][l] + 1
                              /\ job'[q].answer = ran'[m][l]
    BY <1>0, <1>1, <1>2, <1>3, <1>5, <2>1, OthersKeepFlying
  <2>. QED
    BY <1>0, <1>1, <1>2, <1>3, <1>4, <2>1 DEF Flights, Serves, Keyed, InProgress
<1>9. OneAtATime'
  BY <1>1, <1>5 DEF IInv, OneAtATime, Serves
<1>. QED
  BY <1>6, <1>7, <1>8, <1>9 DEF IInv

LEMMA ReplayKeeps ==
  ASSUME IInv, NEW r \in Requests, NEW p \in Processes, NEW k \in Keys,
         Replay(r, p, k)
  PROVE  IInv'
<1>0. TypeOK /\ calls \in Nat /\ calls' = calls + 1 /\ calls < MaxCalls
  BY IdempotencyAssumption DEF IInv, TypeOK, Replay, Arrive
<1>1. UNCHANGED <<store, at, job, ran, forgotten, faults, cancelled>>
  BY DEF Replay, Arrive, memory, flights
<1>2. TypeOK'
  BY <1>0, <1>1, IdempotencyAssumption DEF TypeOK
<1>3. Books' /\ Counted'
  BY <1>0, <1>1 DEF IInv, TypeOK, Books, Counted
<1>4. Flights'
  BY <1>0, <1>1 DEF IInv, TypeOK, Flights, Serves, Keyed
<1>5. OneAtATime'
  BY <1>1 DEF IInv, OneAtATime, Serves
<1>. QED
  BY <1>2, <1>3, <1>4, <1>5 DEF IInv

\* A request that serves nothing leaves the books as they are.
LEMMA UnkeyedLeaves ==
  ASSUME IInv, NEW r \in Requests, ~Keyed(r), Leave(r),
         UNCHANGED <<store, calls, ran, forgotten>>,
         faults' \in 0 .. MaxFaults, cancelled' \subseteq Processes \X Keys
  PROVE  IInv'
<1>0. TypeOK /\ calls \in Nat
  BY IdempotencyAssumption DEF IInv, TypeOK
<1>1. /\ at' \in [Requests -> {"idle", "handling", "draining"}]
      /\ job' \in [Requests -> Job]
      /\ at'[r] = "idle"
      /\ \A q \in Requests : q # r => at'[q] = at[q] /\ job'[q] = job[q]
  BY <1>0, LeaveChanges
<1>2. TypeOK'
  BY <1>0, <1>1 DEF TypeOK
<1>3. Books' /\ Counted'
  BY DEF IInv, Books, Counted
<1>4. Flights'
  BY <1>0, <1>1 DEF IInv, Flights, Serves, Keyed
<1>5. OneAtATime'
  BY <1>1 DEF IInv, OneAtATime, Serves
<1>. QED
  BY <1>2, <1>3, <1>4, <1>5 DEF IInv

\* A request that served a key leaves, and the books of that key alone change.
LEMMA KeyedLeaves ==
  ASSUME IInv, NEW r \in Requests, NEW p \in Processes, NEW k \in Keys,
         Serves(r, p, k), Leave(r),
         UNCHANGED <<calls, ran>>,
         store' \in [Processes -> [Keys -> Entry]],
         forgotten' \in [Processes -> [Keys -> 0 .. MaxCalls]],
         faults' \in 0 .. MaxFaults, cancelled' \subseteq Processes \X Keys,
         \A m \in Processes, l \in Keys : m # p \/ l # k =>
             store'[m][l] = store[m][l] /\ forgotten'[m][l] = forgotten[m][l],
         store'[p][k].state \in {"none", "stale"} =>
             ran[p][k] = forgotten'[p][k],
         store'[p][k].state = "progress" =>
             ran[p][k] \in {forgotten'[p][k], forgotten'[p][k] + 1},
         store'[p][k].state = "kept" =>
             ran[p][k] = forgotten'[p][k] + 1 /\ store'[p][k].answer = ran[p][k]
  PROVE  IInv'
<1>0. TypeOK /\ calls \in Nat
  BY IdempotencyAssumption DEF IInv, TypeOK
<1>1. /\ at' \in [Requests -> {"idle", "handling", "draining"}]
      /\ job' \in [Requests -> Job]
      /\ at'[r] = "idle"
      /\ \A q \in Requests : q # r => at'[q] = at[q] /\ job'[q] = job[q]
  BY <1>0, LeaveChanges
<1>2. TypeOK'
  BY <1>0, <1>1 DEF TypeOK
<1>3. Books'
  <2>1. ASSUME NEW m \in Processes, NEW l \in Keys, m # p \/ l # k
        PROVE  /\ store'[m][l] = store[m][l] /\ forgotten'[m][l] = forgotten[m][l]
               /\ ran'[m][l] = ran[m][l]
    BY <2>1
  <2>2. Books /\ ran'[p][k] = ran[p][k]
    BY DEF IInv
  <2>. QED
    BY <2>1, <2>2 DEF Books
<1>7. Counted'
  BY DEF IInv, Counted
<1>4. \A q \in Requests : q # r => ~Serves(q, p, k)
  BY DEF IInv, OneAtATime
<1>5. Flights'
  BY <1>0, <1>1, <1>4 DEF IInv, Flights, Serves, Keyed
<1>6. OneAtATime'
  <2>1. ASSUME NEW m \in Processes, NEW l \in Keys, NEW q \in Requests,
               Serves(q, m, l)'
        PROVE  Serves(q, m, l)
    BY <1>1, <2>1 DEF Serves
  <2>. QED
    BY <2>1 DEF IInv, OneAtATime
<1>. QED
  BY <1>2, <1>3, <1>5, <1>6, <1>7 DEF IInv

LEMMA SucceedKeeps ==
  ASSUME IInv, NEW r \in Requests, Succeed(r)
  PROVE  IInv'
<1>0. TypeOK /\ calls \in Nat
  BY IdempotencyAssumption DEF IInv, TypeOK
<1>1. UNCHANGED <<store, calls, faults, forgotten, cancelled>>
  BY DEF Succeed, memory, counts
<1>2. CASE ~Keyed(r)
  BY <1>0, <1>1, <1>2, UnkeyedLeaves DEF Succeed, TypeOK
<1>3. CASE Keyed(r)
  <2> DEFINE p == job[r].proc  k == job[r].key
  <2>1. p \in Processes /\ k \in Keys /\ Serves(r, p, k)
    BY <1>0, <1>3 DEF Succeed, IInv, Flights, TypeOK, Job, Keyed, Serves
  <2>2. /\ store[p][k].state = "progress"
        /\ ran[p][k] = forgotten[p][k] /\ ran[p][k] < calls
        /\ ran[p][k] \in Nat /\ ran[p][k] + 1 \in 0 .. MaxCalls
    BY <1>0, <2>1, IdempotencyAssumption
       DEF IInv, Flights, Succeed, Serves, TypeOK
  <2>3. /\ ran' = [ran EXCEPT ![p][k] = ran[p][k] + 1]
        /\ job' = [job EXCEPT ![r].answer = ran[p][k] + 1]
        /\ at' = [at EXCEPT ![r] = "draining"]
    BY <1>3 DEF Succeed, Go
  <2>4. /\ ran' \in [Processes -> [Keys -> 0 .. MaxCalls]]
        /\ ran'[p][k] = ran[p][k] + 1
        /\ \A m \in Processes, l \in Keys :
               m # p \/ l # k => ran'[m][l] = ran[m][l]
    BY <1>0, <2>1, <2>2, <2>3 DEF TypeOK
  <2>5. /\ job' \in [Requests -> Job]
        /\ at' \in [Requests -> {"idle", "handling", "draining"}]
        /\ at'[r] = "draining" /\ job'[r].proc = p /\ job'[r].key = k
        /\ job'[r].answer = ran[p][k] + 1
        /\ \A q \in Requests : q # r => at'[q] = at[q] /\ job'[q] = job[q]
    BY <1>0, <2>2, <2>3 DEF TypeOK, Job
  <2>. HIDE DEF p, k
  <2>6. TypeOK'
    BY <1>0, <1>1, <2>4, <2>5 DEF TypeOK
  <2>7. Counted'
    BY <1>0, <1>1, <2>1, <2>2, <2>4 DEF IInv, Counted, TypeOK
  <2>8. Books'
    <3>1. ASSUME NEW m \in Processes, NEW l \in Keys, m # p \/ l # k
          PROVE  /\ ran'[m][l] = ran[m][l] /\ store'[m][l] = store[m][l]
                 /\ forgotten'[m][l] = forgotten[m][l]
      BY <1>1, <2>4, <3>1
    <3>2. /\ store'[p][k].state = "progress"
          /\ ran'[p][k] = forgotten'[p][k] + 1
      BY <1>1, <2>2, <2>4
    <3>. QED
      BY <3>1, <3>2 DEF IInv, Books
  <2>9. \A q \in Requests : q # r => ~Serves(q, p, k)
    BY <2>1 DEF IInv, OneAtATime
  <2>10. Flights'
    <3>1. ASSUME NEW q \in Requests, q # r
          PROVE  /\ at'[q] # "idle" => job'[q].proc \in Processes
                 /\ at'[q] = "draining" => job'[q].key # None
                 /\ \A m \in Processes, l \in Keys :
                      Serves(q, m, l)' =>
                         /\ store'[m][l].state = "progress"
                         /\ at'[q] = "handling" =>
                                /\ ran'[m][l] = forgotten'[m][l]
                                /\ ran'[m][l] < calls'
                         /\ at'[q] = "draining" =>
                                /\ ran'[m][l] = forgotten'[m][l] + 1
                                /\ job'[q].answer = ran'[m][l]
      BY <1>0, <1>1, <2>4, <2>5, <2>9, <3>1, OthersKeepFlying
    <3>2. /\ store'[p][k].state = "progress"
          /\ ran'[p][k] = forgotten'[p][k] + 1
          /\ job'[r].answer = ran'[p][k]
      BY <1>1, <2>2, <2>4, <2>5
    <3>. QED
      BY <2>1, <2>5, <3>1, <3>2, IdempotencyAssumption
         DEF Flights, Serves, Keyed
  <2>11. OneAtATime'
    BY <2>1, <2>5, <2>9 DEF IInv, OneAtATime, Serves
  <2>. QED
    BY <2>6, <2>7, <2>8, <2>10, <2>11 DEF IInv
<1>. QED
  BY <1>2, <1>3

LEMMA FailKeeps ==
  ASSUME IInv, NEW r \in Requests, Fail(r)
  PROVE  IInv'
<1>0. TypeOK
  BY DEF IInv
<1>1. Leave(r) /\ UNCHANGED <<calls, faults, ran, forgotten, cancelled>>
  BY DEF Fail, counts, history
<1>2. CASE ~Keyed(r)
  BY <1>0, <1>1, <1>2, UnkeyedLeaves DEF Fail, TypeOK
<1>3. CASE Keyed(r)
  <2> DEFINE p == job[r].proc  k == job[r].key
  <2>1. p \in Processes /\ k \in Keys /\ Serves(r, p, k)
    BY <1>0, <1>3 DEF Fail, IInv, Flights, TypeOK, Job, Keyed, Serves
  <2>2. ran[p][k] = forgotten[p][k]
    BY <2>1 DEF IInv, Flights, Fail
  <2>3. Put(p, k, NoEntry)
    BY <1>3 DEF Fail
  <2>. HIDE DEF p, k
  <2>4. /\ store' \in [Processes -> [Keys -> Entry]]
        /\ store'[p][k] = NoEntry
        /\ \A q \in Processes, l \in Keys :
               q # p \/ l # k => store'[q][l] = store[q][l]
    BY <1>0, <2>1, <2>3, PutChanges, EntryTypes
  <2>5. store'[p][k].state = "none"
    BY <2>4 DEF NoEntry
  <2>6. /\ forgotten' \in [Processes -> [Keys -> 0 .. MaxCalls]]
        /\ faults' \in 0 .. MaxFaults /\ cancelled' \subseteq Processes \X Keys
        /\ UNCHANGED <<calls, ran>> /\ forgotten' = forgotten
    BY <1>0, <1>1 DEF TypeOK
  <2>. QED
    BY <1>1, <2>1, <2>2, <2>4, <2>5, <2>6, KeyedLeaves
<1>. QED
  BY <1>2, <1>3

LEMMA DrainKeeps ==
  ASSUME IInv, NEW r \in Requests, NEW body \in Bodies, Drain(r, body)
  PROVE  IInv'
<1> DEFINE p == job[r].proc  k == job[r].key
<1>0. TypeOK
  BY DEF IInv
<1>1. Leave(r) /\ UNCHANGED <<calls, faults, ran, cancelled>>
  BY DEF Drain, counts
<1>2. p \in Processes /\ k \in Keys /\ Serves(r, p, k)
  BY <1>0 DEF Drain, IInv, Flights, TypeOK, Job, Keyed, Serves
<1>3. /\ ran[p][k] = forgotten[p][k] + 1 /\ job[r].answer = ran[p][k]
      /\ job[r].answer \in 0 .. MaxCalls
  BY <1>0, <1>2 DEF IInv, Flights, Drain, TypeOK, Job
<1>4. CASE body = "small"
  <2>1. Put(p, k, Kept(job[r].answer)) /\ UNCHANGED forgotten
    BY <1>4 DEF Drain
  <2>. HIDE DEF p, k
  <2>2. /\ store' \in [Processes -> [Keys -> Entry]]
        /\ store'[p][k] = Kept(job[r].answer)
        /\ \A q \in Processes, l \in Keys :
               q # p \/ l # k => store'[q][l] = store[q][l]
    BY <1>0, <1>2, <1>3, <2>1, PutChanges, EntryTypes
  <2>3. store'[p][k].state = "kept" /\ store'[p][k].answer = ran[p][k]
    BY <1>3, <2>2 DEF Kept
  <2>4. /\ forgotten' \in [Processes -> [Keys -> 0 .. MaxCalls]]
        /\ faults' \in 0 .. MaxFaults /\ cancelled' \subseteq Processes \X Keys
        /\ UNCHANGED <<calls, ran>> /\ forgotten' = forgotten
    BY <1>0, <1>1, <2>1 DEF TypeOK
  <2>. QED
    BY <1>1, <1>2, <1>3, <2>2, <2>3, <2>4, KeyedLeaves
<1>5. CASE body # "small"
  <2>1. Put(p, k, NoEntry) /\ Forget(p, k)
    BY <1>5 DEF Drain
  <2>. HIDE DEF p, k
  <2>2. /\ store' \in [Processes -> [Keys -> Entry]]
        /\ store'[p][k] = NoEntry
        /\ \A q \in Processes, l \in Keys :
               q # p \/ l # k => store'[q][l] = store[q][l]
    BY <1>0, <1>2, <2>1, PutChanges, EntryTypes
  <2>3. /\ forgotten' \in [Processes -> [Keys -> 0 .. MaxCalls]]
        /\ forgotten'[p][k] = ran[p][k]
        /\ \A q \in Processes, l \in Keys :
               q # p \/ l # k => forgotten'[q][l] = forgotten[q][l]
    BY <1>0, <1>2, <2>1, ForgetChanges
  <2>4. store'[p][k].state = "none"
    BY <2>2 DEF NoEntry
  <2>5. /\ faults' \in 0 .. MaxFaults /\ cancelled' \subseteq Processes \X Keys
        /\ UNCHANGED <<calls, ran>>
    BY <1>0, <1>1 DEF TypeOK
  <2>. QED
    BY <1>1, <1>2, <2>2, <2>3, <2>4, <2>5, KeyedLeaves
<1>. QED
  BY <1>4, <1>5

\* The key of a cancelled request stays as the request left it.
LEMMA CancelKeeps ==
  ASSUME IInv, NEW r \in Requests, Cancel(r)
  PROVE  IInv'
<1>0. TypeOK /\ faults' \in 0 .. MaxFaults
  BY IdempotencyAssumption DEF IInv, TypeOK, Cancel, Fault
<1>1. Leave(r) /\ UNCHANGED <<store, calls, ran, forgotten>>
  BY DEF Cancel, Fault, memory
<1>2. CASE ~Keyed(r)
  BY <1>0, <1>1, <1>2, UnkeyedLeaves DEF Cancel, TypeOK
<1>3. CASE Keyed(r)
  <2> DEFINE p == job[r].proc  k == job[r].key
  <2>1. p \in Processes /\ k \in Keys /\ Serves(r, p, k)
    BY <1>0, <1>3 DEF Cancel, IInv, Flights, TypeOK, Job, Keyed, Serves
  <2>2. cancelled' \subseteq Processes \X Keys
    BY <1>0, <1>3, <2>1 DEF Cancel, TypeOK
  <2>. HIDE DEF p, k
  <2>. QED
    BY <1>0, <1>1, <2>1, <2>2, KeyedLeaves DEF IInv, Books, TypeOK
<1>. QED
  BY <1>2, <1>3

LEMMA RestartKeeps ==
  ASSUME IInv, NEW p \in Processes, Restart(p)
  PROVE  IInv'
<1>0. TypeOK /\ faults' \in 0 .. MaxFaults /\ UNCHANGED <<calls, ran>>
  BY IdempotencyAssumption DEF IInv, TypeOK, Restart, Fault
<1>1. /\ store' \in [Processes -> [Keys -> Entry]]
      /\ \A l \in Keys : store'[p][l] = NoEntry
      /\ \A q \in Processes : q # p => store'[q] = store[q]
  BY <1>0, EntryTypes DEF Restart, TypeOK
<1>2. /\ forgotten' \in [Processes -> [Keys -> 0 .. MaxCalls]]
      /\ forgotten'[p] = ran[p]
      /\ \A q \in Processes : q # p => forgotten'[q] = forgotten[q]
  BY <1>0 DEF Restart, TypeOK
<1>3. /\ at' \in [Requests -> {"idle", "handling", "draining"}]
      /\ job' \in [Requests -> Job]
      /\ \A r \in Requests :
             IF job[r].proc = p THEN at'[r] = "idle"
                                ELSE at'[r] = at[r] /\ job'[r] = job[r]
  BY <1>0, EntryTypes DEF Restart, TypeOK
<1>4. cancelled' \subseteq Processes \X Keys
  BY <1>0 DEF Restart, TypeOK
<1>5. TypeOK'
  BY <1>0, <1>1, <1>2, <1>3, <1>4 DEF TypeOK
<1>6. Books' /\ Counted'
  BY <1>0, <1>1, <1>2, SMTT(30) DEF IInv, Books, Counted, NoEntry
<1>7. \A r \in Requests, m \in Processes, l \in Keys :
          Serves(r, m, l)' => Serves(r, m, l) /\ m # p
  BY <1>3 DEF Serves
<1>8. Flights'
  BY <1>0, <1>1, <1>2, <1>3, <1>7 DEF IInv, Flights, Serves, Keyed
<1>9. OneAtATime'
  BY <1>7 DEF IInv, OneAtATime
<1>. QED
  BY <1>5, <1>6, <1>8, <1>9 DEF IInv

LEMMA AgeKeeps ==
  ASSUME IInv, NEW p \in Processes, NEW k \in Keys, Age(p, k)
  PROVE  IInv'
<1>0. TypeOK /\ calls \in Nat
  BY IdempotencyAssumption DEF IInv, TypeOK
<1>1. UNCHANGED <<at, job, calls, faults, ran, cancelled>>
  BY DEF Age, flights, counts
<1>2. [store[p][k] EXCEPT !.state = "stale"] \in Entry
  <2>1. store[p][k] \in Entry
    BY <1>0 DEF TypeOK
  <2>. QED
    BY <2>1 DEF Entry
<1>3. /\ store' \in [Processes -> [Keys -> Entry]]
      /\ store'[p][k] = [store[p][k] EXCEPT !.state = "stale"]
      /\ \A q \in Processes, l \in Keys :
             q # p \/ l # k => store'[q][l] = store[q][l]
  BY <1>0, <1>2, PutChanges DEF Age
<1>4. /\ forgotten' \in [Processes -> [Keys -> 0 .. MaxCalls]]
      /\ forgotten'[p][k] = ran[p][k]
      /\ \A q \in Processes, l \in Keys :
             q # p \/ l # k => forgotten'[q][l] = forgotten[q][l]
  BY <1>0, ForgetChanges DEF Age
<1>5. TypeOK'
  BY <1>0, <1>1, <1>3, <1>4 DEF TypeOK
<1>6. Books' /\ Counted'
  <2>1. store'[p][k].state = "stale" /\ ran'[p][k] = forgotten'[p][k]
    BY <1>0, <1>1, <1>3, <1>4 DEF TypeOK, Entry
  <2>2. ASSUME NEW m \in Processes, NEW l \in Keys, m # p \/ l # k
        PROVE  /\ ran'[m][l] = ran[m][l] /\ store'[m][l] = store[m][l]
               /\ forgotten'[m][l] = forgotten[m][l]
    BY <1>1, <1>3, <1>4, <2>2
  <2>. QED
    BY <1>1, <2>1, <2>2 DEF IInv, Books, Counted
<1>7. \A r \in Requests : ~Serves(r, p, k)
  BY DEF IInv, Flights, Age
<1>8. Flights'
  BY <1>0, <1>1, <1>3, <1>4, <1>7 DEF IInv, Flights, Serves, Keyed
<1>9. OneAtATime'
  BY <1>1 DEF IInv, OneAtATime, Serves
<1>. QED
  BY <1>5, <1>6, <1>8, <1>9 DEF IInv

LEMMA StutterKeeps == IInv /\ UNCHANGED vars => IInv'
BY DEF IInv, TypeOK, Books, Flights, Counted, OneAtATime, Serves, Keyed, vars,
       memory, flights, counts, history

LEMMA InvariantKept == IInv /\ [Next]_vars => IInv'
<1>. SUFFICES ASSUME IInv, [Next]_vars PROVE IInv'
  OBVIOUS
<1>1. ASSUME NEW r \in Requests, Dispatch(r) PROVE IInv'
  BY <1>1, PassThroughKeeps, ServeKeeps, ReplayKeeps DEF Dispatch
<1>2. ASSUME NEW r \in Requests, Respond(r) PROVE IInv'
  BY <1>2, SucceedKeeps, FailKeeps, DrainKeeps DEF Respond
<1>3. CASE Environment
  BY <1>3, CancelKeeps, RestartKeeps, AgeKeeps DEF Environment
<1>. QED
  BY <1>1, <1>2, <1>3, StutterKeeps DEF Next

LEMMA Invariant == Spec => []IInv
BY InitInv, InvariantKept, PTL DEF Spec

(***************************************************************************)
(* The theorems.                                                           *)
(***************************************************************************)

\* Every reachable state is well typed.
THEOREM TypeCorrect == Spec => []TypeOK
BY Invariant, PTL DEF IInv

\* However requests, answers, cancellations and restarts fall, a process runs
\* the endpoint for a key once at a time.
THEOREM RunsOneAtATime == Spec => []OneAtATime
BY Invariant, PTL DEF IInv

\* Whatever is repeated, the endpoint has succeeded at most once more than an
\* answer was forgotten.
THEOREM RunsAtMostOnce == Spec => []AtMostOnce
<1>1. IInv => AtMostOnce
  <2>. SUFFICES ASSUME IInv, NEW p \in Processes, NEW k \in Keys
                PROVE  ran[p][k] <= forgotten[p][k] + 1
    BY DEF AtMostOnce
  <2>1. store[p][k].state \in {"none", "progress", "kept", "stale"}
    BY DEF IInv, TypeOK, Entry
  <2>2. ran[p][k] \in Nat /\ forgotten[p][k] \in Nat
    BY DEF IInv, TypeOK
  <2>. QED
    BY <2>1, <2>2 DEF IInv, Books
<1>. QED
  BY <1>1, Invariant, PTL

\* An answer that is replayed is that of the last run of the endpoint.
THEOREM LastIsReplayed == Spec => []ReplaysLast
<1>1. IInv => ReplaysLast
  BY DEF IInv, Books, ReplaysLast
<1>. QED
  BY <1>1, Invariant, PTL
=============================================================================
