---------------------------- MODULE PosteRegistry ----------------------------
(***************************************************************************)
(* What the nominations promise: a register of who holds which poste.  It  *)
(* changes by one pair at a time.  A servant is appointed only when he     *)
(* holds no poste and nobody holds this one, unless appointments have      *)
(* raced.                                                                  *)
(***************************************************************************)
CONSTANTS Users, Postes

VARIABLES
    held,       \* the pairs <<servant, poste>> in force
    raced       \* requests have overlapped

Init == held = {} /\ raced = FALSE

Free(u, p) == \A h \in held : h[1] # u /\ h[2] # p

Appoint(u, p) ==
    /\ Free(u, p) \/ raced
    /\ held' = held \cup {<<u, p>>}
    /\ UNCHANGED raced

Dismiss(u, p) ==
    /\ <<u, p>> \in held
    /\ held' = held \ {<<u, p>>}
    /\ UNCHANGED raced

Race == raced' = TRUE /\ UNCHANGED held

Next == Race \/ \E u \in Users, p \in Postes : Appoint(u, p) \/ Dismiss(u, p)

Spec == Init /\ [][Next]_<<held, raced>>
=============================================================================
