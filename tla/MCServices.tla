----------------------------- MODULE MCServices -------------------------------
(***************************************************************************)
(* Instances for TLC of all the services that are built on Requests: those *)
(* of Services and those of MoreServices, of which a behaviour is one in   *)
(* the same way.                                                           *)
(***************************************************************************)
EXTENDS Services, MoreServices, TLC

Symmetry == Permutations(Workers) \cup Permutations(Rows) \cup Permutations(Others)

-----------------------------------------------------------------------------
MCInit == (Init /\ NoSpare) \/ MoreInit
MCNext == (Next /\ UNCHANGED Spare) \/ MoreNext
MCSpec == MCInit /\ [][MCNext]_<<vars, Spare>>

-----------------------------------------------------------------------------
\* Whichever service a behaviour is of, its rows and its requests have their types: of the
\* fifteen services of Services, and of the eight of MoreServices.
AllTyped == RowsTyped /\ MoreRowsTyped
=============================================================================
