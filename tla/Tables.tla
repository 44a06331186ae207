-------------------------------- MODULE Tables --------------------------------
(***************************************************************************)
(* What the compositions of the services have in common.  The services     *)
(* share no row, so a behaviour is one of a single service: focus says of  *)
(* which, and x1, x2, ... stand for its variables, in their order.         *)
(***************************************************************************)
EXTENDS Requests

CONSTANTS
    Ones, Rows, Thirds, Others, \* rows of tables: one, two, a third, two of another
    Elsewhere,      \* a photograph that is not in the storage, an account there is not
    FewCalls        \* MaxCalls of the services whose requests take more steps

VARIABLES focus, x1, x2, x3, x4, x5, x6, x7, x8, x9

\* What a service that has fewer variables does not use.
Rest3 == <<x3, x4, x5, x6, x7, x8, x9>>
Rest4 == <<x4, x5, x6, x7, x8, x9>>
Rest5 == <<x5, x6, x7, x8, x9>>
Rest6 == <<x6, x7, x8, x9>>
Rest7 == <<x7, x8, x9>>
Rest8 == <<x8, x9>>
Rest9 == x9

Unused9 == x9 = None
Unused8 == x8 = None /\ Unused9
Unused7 == x7 = None /\ Unused8
Unused6 == x6 = None /\ Unused7
Unused5 == x5 = None /\ Unused6
Unused4 == x4 = None /\ Unused5
Unused3 == x3 = None /\ Unused4
===============================================================================
