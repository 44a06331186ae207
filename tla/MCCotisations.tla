---------------------------- MODULE MCCotisations ----------------------------
(***************************************************************************)
(* Instances of Cotisations for TLC.                                       *)
(***************************************************************************)
EXTENDS Cotisations, TLC

\* A month and a camp, for requests that overlap.
Overlapped ==
    {[kind |-> "MENSUEL", start |-> 0, end |-> 1, amount |-> 5],
     [kind |-> "SPECIALE", start |-> 0, end |-> 1, amount |-> 2]}

\* Weeks that follow each other, and the month they are in.
Weeks ==
    {[kind |-> "HEBDOMADAIRE", start |-> 0, end |-> 1, amount |-> 1],
     [kind |-> "HEBDOMADAIRE", start |-> 1, end |-> 2, amount |-> 1],
     [kind |-> "ORDINAIRE", start |-> 2, end |-> 3, amount |-> 2],
     [kind |-> "MENSUEL", start |-> 0, end |-> 3, amount |-> 5]}

\* A month and its weeks.
Modes == {d \in Weeks : d.kind # "ORDINAIRE"}

Entered == Overlapped \cup Weeks

\* Requests and servants are interchangeable.
Symmetry == Permutations(Workers) \cup Permutations(Servants)

-----------------------------------------------------------------------------
(***************************************************************************)
(* One run looks at requests that overlap on one period, and at periods    *)
(* that overlap with one request at a time: focus says at which.           *)
(***************************************************************************)
VARIABLE focus

Created(c) == periods[c].state # "UNUSED"
Used       == {c \in Periods : Created(c)}
Kept(c)    == [kind |-> periods[c].kind, start |-> periods[c].start, end |-> periods[c].end,
             amount |-> periods[c].amount]
Involved   == (members \cup responsables \cup {req[w].servant : w \in Workers}
             \cup {rows[r].servant : r \in Rows}) \ {None}

\* A month or a camp, its first day, and three requests.
Overlap == /\ today = 0 /\ calls <= 3 /\ Cardinality(Used) <= 1
           /\ \A c \in Used : periods[c].end <= 1 /\ periods[c].kind \in {"MENSUEL", "SPECIALE"}

\* One servant without a post, payments of one sum, and periods that end as they
\* were entered to, entered by the date they start on; a request waits for the end
\* of another, and none dies.
Control == /\ aborts = 0 /\ responsables = {} /\ Cardinality(Involved) <= 1
           /\ \A w \in Workers : req[w].amount # 4
           /\ \A c \in Used : \E d \in Weeks : Kept(c) = [d EXCEPT !.amount = Kept(c).amount]
           /\ \A c, d \in Used : c < d => periods[c].start <= periods[d].start

Alone == (\E w \in Workers : pc[w] # "idle") => calls' = calls

\* Identifiers are interchangeable too: they are handed out in their order.
InOrder == /\ \A c \in Periods \ {1} : Created(c) => Created(c - 1)
           /\ \A r \in Rows \ {1} : rows[r] # UnusedRow => rows[r - 1] # UnusedRow

Watched == /\ IF focus = "overlap" THEN Overlap ELSE Control
           /\ InOrder

MCInit == /\ Init
          /\ focus \in {"overlap", "control"}
          /\ Watched

MCSpec == MCInit
          /\ [][/\ Next /\ UNCHANGED focus
                /\ (focus = "control" => Alone) /\ Watched']_<<vars, focus>>
=============================================================================
