-------------------------- MODULE DisciplineCouncil --------------------------
(***************************************************************************)
(* The disciplinary module: case files, the council's collegial vote and   *)
(* the sanction, as concurrent HTTP requests drive them.                   *)
(*                                                                         *)
(* A worker is one request in flight.  Every handler reads the case row,   *)
(* checks its status and then commits; nothing locks the row, so the other *)
(* workers run between any two of its database calls.  A step of this      *)
(* module is the code from one such point to the next.                     *)
(***************************************************************************)
EXTENDS Naturals, FiniteSets, TLC

CONSTANTS
    Workers,        \* requests that can be in flight at the same time
    Cases,          \* identifiers of case files
    Servants,       \* altar servers who can be accused
    Seats,          \* the council seats of this instance
    Sanctions,      \* the sanctions that requests use
    MaxReseats,     \* bound: changes of seat holders
    MaxAborts       \* bound: requests that die half way

CouncilPostes ==
    {"DELEGUE", "VICE_DELEGUE", "SECRETAIRE_GENERAL",
     "SECRETAIRE_GENERAL_ADJOINT", "CENSEUR", "CENSEUR_ADJOINT",
     "CEREMONIAIRE"}

SanctionType ==
    {"AUCUNE", "AVERTISSEMENT_VERBAL", "AVERTISSEMENT_ECRIT",
     "SUSPENSION_TEMPORAIRE", "EXCLUSION_DEFINITIVE", "LETTRE_EXCUSE",
     "CORVEE_INTENSIVE", "RECYCLAGE_SERVICE"}

MinorSanctions == SanctionType \ {"AUCUNE", "EXCLUSION_DEFINITIVE"}

ASSUME CouncilAssumption ==
    /\ Cases # {} /\ Servants # {}
    /\ Seats \subseteq CouncilPostes /\ IsFiniteSet(Seats)
    /\ Sanctions \subseteq SanctionType /\ "AUCUNE" \in Sanctions
    /\ MaxReseats \in Nat /\ MaxAborts \in Nat

NoOne  == "NO_ONE"
NoVote == "NO_VOTE"
Deciders == Seats \cup {"AUMONIER", "ADMIN", NoOne}

OpenStatus   == {"SIGNALE", "CONVOQUE", "EN_AUDIENCE"}
ClosedStatus == {"EXECUTE", "CLASSE"}
CaseStatus   == OpenStatus \cup ClosedStatus \cup {"VERDICT_RENDU"}

\* A row of discipline_cases; "ABSENT" is a file nobody has opened yet.
CaseRow == [status    : CaseStatus \cup {"ABSENT"},
            accused   : Servants,
            sanction  : Sanctions,
            verdictBy : Deciders,
            suspended : BOOLEAN]    \* the suspension_* columns are filled

\* What the direct verdict lets the holder of each seat pronounce alone.
VerdictScope(poste) ==
    CASE poste = "CENSEUR"            -> SanctionType
      [] poste = "CENSEUR_ADJOINT"    -> MinorSanctions
      [] poste = "SECRETAIRE_GENERAL" -> {"EXCLUSION_DEFINITIVE"}
      [] poste = "CEREMONIAIRE"       ->
             MinorSanctions \ {"SUSPENSION_TEMPORAIRE"}
      [] OTHER                        -> {}

VARIABLES
    cases,      \* table discipline_cases
    votes,      \* table discipline_case_votes, unique on (case, poste)
    filled,     \* seats with an active nomination
    active,     \* servants whose account is active
    issued,     \* DisciplineSanctionIssued events published, per case
    pc,         \* where each worker is
    req,        \* the request each worker serves and what it has read
    reseats,    \* changes of seat holders so far
    aborts,     \* requests that died so far
    overlapped  \* history: two requests were in flight at the same time

vars == <<cases, votes, filled, active, issued, pc, req, reseats, aborts,
          overlapped>>
tables == <<cases, votes, filled, active>>

-----------------------------------------------------------------------------
(***************************************************************************)
(* Requests in flight.                                                     *)
(***************************************************************************)

Ops == {"convoke", "hearing", "verdict", "vote", "execute", "dismiss", "none"}
Places == {"idle", "loaded", "selected", "voted", "counted", "decided"}

Request == [op : Ops, case : Cases, by : Deciders, sanction : Sanctions,
            row : CaseRow,          \* the case as it was when it was read
            existing : BOOLEAN,     \* the seat's vote was found
            quorum : SUBSET Seats]  \* seats found filled

NoRequest ==
    LET c == CHOOSE c \in Cases : TRUE IN
    [op |-> "none", case |-> c, by |-> NoOne, sanction |-> "AUCUNE",
     row |-> [status |-> "ABSENT", accused |-> CHOOSE s \in Servants : TRUE,
              sanction |-> "AUCUNE", verdictBy |-> NoOne, suspended |-> FALSE],
     existing |-> FALSE, quorum |-> {}]

At(w, op, place) == pc[w] = place /\ req[w].op = op
Goto(w, place)   == pc' = [pc EXCEPT ![w] = place]

\* The handler returns or raises: its session and what it had read are gone.
Return(w) == /\ Goto(w, "idle")
             /\ req' = [req EXCEPT ![w] = NoRequest]

\* case_repo.get and the status check every handler begins with; a case in
\* another status is refused and nothing changes.
Load(w, op, c, by, x, from) ==
    /\ pc[w] = "idle"
    /\ cases[c].status \in from
    /\ Goto(w, "loaded")
    /\ req' = [req EXCEPT ![w] = [op |-> op, case |-> c, by |-> by,
                                  sanction |-> x, row |-> cases[c],
                                  existing |-> FALSE, quorum |-> {}]]
    /\ overlapped' = (overlapped \/ \E v \in Workers : pc[v] # "idle")
    /\ UNCHANGED <<tables, issued, reseats, aborts>>

\* One column of an ORM flush: it is written only if the handler changed it.
Column(read, assigned, stored) == IF assigned = read THEN stored ELSE assigned

\* case_repo.update: the UPDATE names only the columns whose value differs from
\* what the session read, so the rest keep what other requests stored.
Flush(read, new, row) ==
    [status    |-> Column(read.status, new.status, row.status),
     accused   |-> row.accused,
     sanction  |-> Column(read.sanction, new.sanction, row.sanction),
     verdictBy |-> Column(read.verdictBy, new.verdictBy, row.verdictBy),
     suspended |-> Column(read.suspended, new.suspended, row.suspended)]

Store(w, new) ==
    cases' = [cases EXCEPT ![req[w].case] =
                  Flush(req[w].row, new, cases[req[w].case])]

\* The row a verdict makes of the one that was read.
Judged(row, x, by) ==
    [row EXCEPT !.status = "VERDICT_RENDU", !.sanction = x, !.verdictBy = by,
                !.suspended = (x = "SUSPENSION_TEMPORAIRE") \/ @]

\* Commit a verdict, then publish DisciplineSanctionIssued.
Pronounce(w) ==
    LET r == req[w] IN
    /\ Store(w, Judged(r.row, r.sanction, r.by))
    /\ issued' = [issued EXCEPT ![r.case] =
                      @ \cup {[sanction |-> r.sanction, by |-> r.by]}]
    /\ Return(w)
    /\ UNCHANGED <<votes, filled, active, reseats, aborts, overlapped>>

-----------------------------------------------------------------------------
(***************************************************************************)
(* The workflow: open, convoke, hear.                                      *)
(***************************************************************************)

OpenCase(c, s) ==
    /\ cases[c].status = "ABSENT"
    /\ cases' = [cases EXCEPT ![c].status = "SIGNALE", ![c].accused = s]
    /\ UNCHANGED <<votes, filled, active, issued, pc, req, reseats, aborts,
                   overlapped>>

BeginConvoke(w, c) == Load(w, "convoke", c, NoOne, "AUCUNE", {"SIGNALE"})
BeginHearing(w, c) == Load(w, "hearing", c, NoOne, "AUCUNE", {"CONVOQUE"})

CommitStatus(w, op, status) ==
    /\ At(w, op, "loaded")
    /\ Store(w, [req[w].row EXCEPT !.status = status])
    /\ Return(w)
    /\ UNCHANGED <<votes, filled, active, issued, reseats, aborts, overlapped>>

CommitConvoke(w) == CommitStatus(w, "convoke", "CONVOQUE")
CommitHearing(w) == CommitStatus(w, "hearing", "EN_AUDIENCE")

-----------------------------------------------------------------------------
(***************************************************************************)
(* The direct verdict.                                                     *)
(***************************************************************************)

CheckVerdictAuthority(by, x) ==
    \/ by = "AUMONIER"
    \/ by \in filled /\ x \in VerdictScope(by)

\* Mutation: a verdict may be rendered over a verdict.
BeginVerdictAgain(w, c, by, x) ==
    /\ CheckVerdictAuthority(by, x)
    /\ Load(w, "verdict", c, by, x, OpenStatus \cup {"VERDICT_RENDU"})

BeginVerdict(w, c, by, x) ==
    /\ CheckVerdictAuthority(by, x)
    /\ Load(w, "verdict", c, by, x, OpenStatus)

CommitVerdict(w) == At(w, "verdict", "loaded") /\ Pronounce(w)

-----------------------------------------------------------------------------
(***************************************************************************)
(* The collegial vote: store the vote, read which seats are filled, read   *)
(* the votes, and commit a verdict when a sanction has the majority.       *)
(***************************************************************************)

BeginVote(w, c, seat, x) ==
    /\ seat \in filled
    /\ Load(w, "vote", c, seat, x, OpenStatus)

\* upsert_vote looks for the seat's earlier vote.
SelectVote(w) ==
    /\ At(w, "vote", "loaded")
    /\ req' = [req EXCEPT ![w].existing =
                   votes[req[w].case][req[w].by] # NoVote]
    /\ Goto(w, "selected")
    /\ UNCHANGED <<tables, issued, reseats, aborts, overlapped>>

\* UPDATE of the vote that was found, or INSERT of a new one.
UpsertVote(w) ==
    LET r == req[w] IN
    /\ At(w, "vote", "selected")
    /\ r.existing \/ votes[r.case][r.by] = NoVote
    /\ votes' = [votes EXCEPT ![r.case][r.by] = r.sanction]
    /\ Goto(w, "voted")
    /\ UNCHANGED <<cases, filled, active, issued, req, reseats, aborts,
                   overlapped>>

\* The INSERT meets the unique constraint: 409 and nothing is stored.
VoteConflict(w) ==
    /\ At(w, "vote", "selected")
    /\ ~req[w].existing /\ votes[req[w].case][req[w].by] # NoVote
    /\ Return(w)
    /\ UNCHANGED <<tables, issued, reseats, aborts, overlapped>>

\* Mutation: the quorum counts vacant seats.
ReadQuorumAllSeats(w) ==
    /\ At(w, "vote", "voted")
    /\ req' = [req EXCEPT ![w].quorum = Seats]
    /\ Goto(w, "counted")
    /\ UNCHANGED <<tables, issued, reseats, aborts, overlapped>>

ReadQuorum(w) ==
    /\ At(w, "vote", "voted")
    /\ req' = [req EXCEPT ![w].quorum = filled]
    /\ Goto(w, "counted")
    /\ UNCHANGED <<tables, issued, reseats, aborts, overlapped>>

\* Mutation: half of the seats is enough.
HalfRequired(seats) == Cardinality(seats) \div 2

MajorityRequired(seats) == Cardinality(seats) \div 2 + 1
SeatsFor(c, x, seats)   == {s \in seats : votes[c][s] = x}
HasMajority(c, x, seats) ==
    Cardinality(SeatsFor(c, x, seats)) >= MajorityRequired(seats)

TallyDecides(w) ==
    /\ At(w, "vote", "counted")
    /\ \E x \in Sanctions :
         /\ HasMajority(req[w].case, x, req[w].quorum)
         /\ req' = [req EXCEPT ![w].sanction = x]
    /\ Goto(w, "decided")
    /\ UNCHANGED <<tables, issued, reseats, aborts, overlapped>>

TallyUndecided(w) ==
    /\ At(w, "vote", "counted")
    /\ ~ \E x \in Sanctions : HasMajority(req[w].case, x, req[w].quorum)
    /\ Return(w)
    /\ UNCHANGED <<tables, issued, reseats, aborts, overlapped>>

CommitCouncilVerdict(w) == At(w, "vote", "decided") /\ Pronounce(w)

-----------------------------------------------------------------------------
(***************************************************************************)
(* Execution and dismissal.                                                *)
(***************************************************************************)

\* Mutation: execute_sanction forgets to check that a verdict was rendered.
BeginExecuteUnchecked(w, c) ==
    Load(w, "execute", c, NoOne, "AUCUNE", CaseStatus \ ClosedStatus)

BeginExecute(w, c) ==
    Load(w, "execute", c, NoOne, "AUCUNE", {"VERDICT_RENDU"})

\* Mutation: the account is looked up for a suspension.
CommitExecuteWrongSanction(w) ==
    LET r == req[w] IN
    /\ At(w, "execute", "loaded")
    /\ Store(w, [r.row EXCEPT !.status = "EXECUTE"])
    /\ active' = IF r.row.sanction = "SUSPENSION_TEMPORAIRE"
                 THEN active \ {r.row.accused} ELSE active
    /\ Return(w)
    /\ UNCHANGED <<votes, filled, issued, reseats, aborts, overlapped>>

\* The first commit, that of user_repo.update when the sanction that was read
\* is an exclusion, also flushes the case's new status.
CommitExecute(w) ==
    LET r == req[w] IN
    /\ At(w, "execute", "loaded")
    /\ Store(w, [r.row EXCEPT !.status = "EXECUTE"])
    /\ active' = IF r.row.sanction = "EXCLUSION_DEFINITIVE"
                 THEN active \ {r.row.accused} ELSE active
    /\ Return(w)
    /\ UNCHANGED <<votes, filled, issued, reseats, aborts, overlapped>>

CenseurAccess ==
    {"AUMONIER", "ADMIN"} \cup (filled \cap {"CENSEUR", "CENSEUR_ADJOINT"})

BeginDismiss(w, c, by) ==
    /\ by \in CenseurAccess
    /\ Load(w, "dismiss", c, by, "AUCUNE", CaseStatus \ ClosedStatus)

CommitDismiss(w) ==
    /\ At(w, "dismiss", "loaded")
    /\ Store(w, [req[w].row EXCEPT !.status = "CLASSE", !.sanction = "AUCUNE"])
    /\ Return(w)
    /\ UNCHANGED <<votes, filled, active, issued, reseats, aborts, overlapped>>

-----------------------------------------------------------------------------
(***************************************************************************)
(* What other parts of the system do to this state.                        *)
(***************************************************************************)

\* A nomination to a vacant seat, or the revocation of one.
Reseat(s) ==
    /\ reseats < MaxReseats
    /\ reseats' = reseats + 1
    /\ filled' = IF s \in filled THEN filled \ {s} ELSE filled \cup {s}
    /\ UNCHANGED <<cases, votes, active, issued, pc, req, aborts, overlapped>>

\* An administrator reactivates an account.
Reactivate(s) ==
    /\ s \notin active
    /\ active' = active \cup {s}
    /\ UNCHANGED <<cases, votes, filled, issued, pc, req, reseats, aborts,
                   overlapped>>

\* A database error or a restart ends a request; what it has committed stays.
Abort(w) ==
    /\ pc[w] # "idle"
    /\ aborts < MaxAborts
    /\ aborts' = aborts + 1
    /\ Return(w)
    /\ UNCHANGED <<tables, issued, reseats, overlapped>>

-----------------------------------------------------------------------------
Init ==
    /\ cases = [c \in Cases |-> NoRequest.row]
    /\ votes = [c \in Cases |-> [s \in Seats |-> NoVote]]
    /\ filled \in SUBSET Seats
    /\ active = Servants
    /\ issued = [c \in Cases |-> {}]
    /\ pc = [w \in Workers |-> "idle"]
    /\ req = [w \in Workers |-> NoRequest]
    /\ reseats = 0
    /\ aborts = 0
    /\ overlapped = FALSE

Arrive(w) ==
    \E c \in Cases :
        \/ BeginConvoke(w, c)
        \/ BeginHearing(w, c)
        \/ \E by \in Deciders, x \in Sanctions : BeginVerdict(w, c, by, x)
        \/ \E seat \in Seats, x \in Sanctions : BeginVote(w, c, seat, x)
        \/ BeginExecute(w, c)
        \/ \E by \in Deciders : BeginDismiss(w, c, by)

\* The steps of a request that is being served.
Serve(w) ==
    \/ CommitConvoke(w) \/ CommitHearing(w) \/ CommitVerdict(w)
    \/ SelectVote(w) \/ UpsertVote(w) \/ VoteConflict(w)
    \/ ReadQuorum(w) \/ TallyDecides(w) \/ TallyUndecided(w)
    \/ CommitCouncilVerdict(w)
    \/ CommitExecute(w) \/ CommitDismiss(w)

Environment ==
    \/ \E c \in Cases, s \in Servants : OpenCase(c, s)
    \/ \E s \in Seats : Reseat(s)
    \/ \E s \in Servants : Reactivate(s)
    \/ \E w \in Workers : Abort(w)

Next == Environment \/ \E w \in Workers : Arrive(w) \/ Serve(w)

Spec == Init /\ [][Next]_vars

\* The event loop resumes every request whose database call has answered.
FairSpec == Spec /\ \A w \in Workers : WF_vars(Serve(w))

-----------------------------------------------------------------------------
(***************************************************************************)
(* Properties that every interleaving of requests keeps.                   *)
(***************************************************************************)

\* Every table, every session's snapshot and every program counter holds
\* values of its type.
TypeOK ==
    /\ cases \in [Cases -> CaseRow]
    /\ votes \in [Cases -> [Seats -> Sanctions \cup {NoVote}]]
    /\ filled \in SUBSET Seats
    /\ active \in SUBSET Servants
    /\ issued \in [Cases -> SUBSET [sanction : Sanctions, by : Deciders]]
    /\ pc \in [Workers -> Places]
    /\ req \in [Workers -> Request]
    /\ reseats \in 0..MaxReseats
    /\ aborts \in 0..MaxAborts
    /\ overlapped \in BOOLEAN

\* A file that reached the verdict or its execution names who decided, however
\* stale the rows the handlers wrote back were (verdict_by is never cleared and
\* execute_sanction only starts from a verdict).
DecidedIsSigned ==
    \A c \in Cases :
        cases[c].status \in {"VERDICT_RENDU", "EXECUTE"} =>
            cases[c].verdictBy # NoOne

\* A temporary suspension on file always has its period (suspension_start, _end
\* and _days), whichever of two racing verdicts each column comes from.
SuspensionHasPeriod ==
    \A c \in Cases :
        cases[c].sanction = "SUSPENSION_TEMPORAIRE" => cases[c].suspended

Counting(c) ==
    \E w \in Workers : /\ req[w].op = "vote" /\ req[w].case = c
                       /\ pc[w] \in {"voted", "counted", "decided"}

\* Two seats voting at the same time never both miss the majority they form
\* together: once no tally of the case is running, an agreeing majority has led
\* to a verdict.  Seats must not have changed and no request died half way.
NoMissedMajority ==
    reseats = 0 /\ aborts = 0 =>
        \A c \in Cases, x \in Sanctions :
            HasMajority(c, x, filled) /\ ~Counting(c) =>
                cases[c].verdictBy # NoOne

-----------------------------------------------------------------------------
(***************************************************************************)
(* Properties of requests that have not overlapped.                        *)
(***************************************************************************)

\* A dismissed file carries no sanction (AUCUNE: "Classe sans suite").
DismissedHasNoSanction ==
    overlapped \/ \A c \in Cases :
        cases[c].status = "CLASSE" => cases[c].sanction = "AUCUNE"

\* The step that marks a definitive exclusion as executed also leaves the
\* account of the accused inactive.
ExclusionDeactivates ==
    [][\A c \in Cases :
           /\ cases[c].status # "EXECUTE" /\ cases'[c].status = "EXECUTE"
           /\ cases'[c].sanction = "EXCLUSION_DEFINITIVE" /\ ~overlapped
           => cases'[c].accused \notin active']_vars

\* The audit trail and the file agree: every DisciplineSanctionIssued of a
\* decided case names the sanction and the decider on file, and there is one.
AuditMatchesFile ==
    overlapped \/ \A c \in Cases :
        cases[c].status \in {"VERDICT_RENDU", "EXECUTE"} =>
            issued[c] = {[sanction |-> cases[c].sanction,
                          by       |-> cases[c].verdictBy]}

\* A seat holder signs a sanction beyond what the rules let them pronounce
\* alone only when a majority of the filled seats voted for it.
CollegialOrEmpowered ==
    reseats = 0 /\ ~overlapped =>
        \A c \in Cases :
            LET by == cases[c].verdictBy
                x  == cases[c].sanction IN
            /\ cases[c].status \in {"VERDICT_RENDU", "EXECUTE"}
            /\ by \in Seats /\ x \notin VerdictScope(by)
            => 2 * Cardinality(SeatsFor(c, x, filled)) > Cardinality(filled)

-----------------------------------------------------------------------------
(***************************************************************************)
(* What the documentation says and the code does not do.                   *)
(***************************************************************************)

\* "L'Aumonier a le dernier mot sur toute sanction": a sanction he pronounced
\* changes only by a request of his own.
AumonierLastWord ==
    [][\A c \in Cases :
           /\ cases[c].verdictBy = "AUMONIER"
           /\ cases'[c].sanction # cases[c].sanction
           => \E w \in Workers : req[w].by = "AUMONIER" /\ pc'[w] # pc[w]]_vars

-----------------------------------------------------------------------------
(***************************************************************************)
(* For TLC.                                                                *)
(***************************************************************************)

\* Requests are interchangeable; used in the runs without liveness.
WorkerSymmetry == Permutations(Workers)

\* A seat changes hands or a request dies only in a council with one seat filled
\* at most: with both filled, requests overlap and nothing else goes wrong.
OneFault == reseats' + aborts' > 0 =>
                reseats' + aborts' = 1 /\ Cardinality(filled \cup filled') <= 1

MCSpec == Init /\ [][Next /\ OneFault]_vars
=============================================================================
