------------------------------ MODULE Requests -------------------------------
(***************************************************************************)
(* The requests a server has in flight, as the services see them: each has *)
(* one database session, waits at every call it makes, and others run      *)
(* while it waits.  An object that a session has read stays as it was read *)
(* (expire_on_commit=False), and a commit writes the columns in which it   *)
(* has been changed since.  Any of them may die on its way.                *)
(***************************************************************************)
EXTENDS Naturals, FiniteSets

CONSTANTS
    Workers,    \* requests that can be in flight at the same time
    None,       \* no value, or no row yet
    Gone,       \* what is left of a row that was deleted
    MaxCalls    \* bound: requests that come in

VARIABLES
    pc,         \* where each request is
    req,        \* what it asks for and what its session has read
    sent        \* requests so far

flights == <<pc, req, sent>>

NoRequest == [op |-> "none"]

InitFlights == /\ pc = [w \in Workers |-> "idle"]
               /\ req = [w \in Workers |-> NoRequest]
               /\ sent = 0

At(w, r, place) == /\ req' = [req EXCEPT ![w] = r]
                   /\ pc' = [pc EXCEPT ![w] = place]

\* A request that asks for r comes in and waits at its first place.
Begin(w, r, place) ==
    /\ pc[w] = "idle"
    /\ sent < MaxCalls
    /\ sent' = sent + 1
    /\ At(w, r, place)

\* It goes on at another place, with what it has read meanwhile.
Continue(w, r, place) == At(w, r, place) /\ UNCHANGED sent

\* The handler returns or raises: its session and what it had read are gone.
Return(w) == Continue(w, NoRequest, "idle")

\* A database error or a restart ends it; what it has committed stays.
Die(w) == pc[w] # "idle" /\ Return(w)

Exists(row) == row \notin {None, Gone}

\* Another request is in flight whose field f is x.
Alongside(w, f, x) ==
    \E v \in Workers \ {w} : f \in DOMAIN req[v] /\ req[v][f] = x

\* What a commit leaves in a row, when the session read it as read and has
\* made it new: only the columns it has changed are written.
Flush(row, read, new) ==
    [f \in DOMAIN row |-> IF new[f] = read[f] THEN row[f] ELSE new[f]]

FlightsOK == /\ DOMAIN pc = Workers /\ DOMAIN req = Workers
             /\ \A w \in Workers : pc[w] = "idle" <=> req[w] = NoRequest
             /\ sent \in 0 .. MaxCalls
=============================================================================
