----------------------------- MODULE Permissions -----------------------------
(***************************************************************************)
(* Who gets through: the token, the account, then the gate of the          *)
(* operation, which lets roles through and servants by the postes they     *)
(* hold.  Each is a call before the handler runs; what is decided holds    *)
(* until the request is over, and a connection until it is closed.         *)
(***************************************************************************)
EXTENDS Requests

CONSTANTS
    Posts,      \* bound: the postes that are given in a run
    Tried       \* bound: the names of the gates that are asked for in a run

VARIABLES
    account,    \* the row of users the requests come from
    tokenOff,   \* its token is on the list of revoked ones
    holds,      \* its nominations that are ACTIVE
    held,       \* its nominations that are REVOQUEE
    acts,       \* history: the last that went through, and if it still should
    changed     \* history: requests the account or its postes changed under

permissionTables  == <<account, tokenOff, holds, held>>
permissionHistory == <<acts, changed>>

Roles == {"ADMIN", "AUMONIER", "PARENT", "SERVANT"}

-----------------------------------------------------------------------------
\* A gate: the roles it lets through, and the postes it lets a servant
\* through with.
Gate(roles, postes) == [roles |-> roles, postes |-> postes]

Clergy == {"ADMIN", "AUMONIER"}

Anyone          == Gate(Roles, {})

AdminOnly       == Gate({"ADMIN"}, {})
AumonierOnly    == Gate({"AUMONIER"}, {})
AdminOrAumonier == Gate(Clergy, {})
ParentOnly      == Gate({"PARENT"}, {})
ServantOnly     == Gate({"SERVANT"}, {})
Responsable     == Gate(Clergy, Posts)

ChargeLiturgie == Gate(Clergy, {"CHARGE_LITURGIE", "CHARGE_LITURGIE_ADJOINT"})
SportCulture   == Gate(Clergy, {"CHARGE_SPORT_CULTURE", "CHARGE_SPORT_CULTURE_ADJOINT"})
Intendant      == Gate(Clergy, {"INTENDANT", "INTENDANT_ADJOINT"})
Delegue        == Gate(Clergy, {"DELEGUE", "VICE_DELEGUE"})
DelegueOrSG    == Gate(Clergy, {"DELEGUE", "VICE_DELEGUE", "SECRETAIRE_GENERAL"})
Commissaire    == Gate(Clergy, {"COMMISSAIRE_AUX_COMPTES"})
Econome        == Gate(Clergy, {"ECONOME"})
Censeur        == Gate(Clergy, {"CENSEUR", "CENSEUR_ADJOINT"})

\* The strict ones let no role through.
CommissaireStrict == Gate({}, {"COMMISSAIRE_AUX_COMPTES"})
CenseurStrict     == Gate({}, {"CENSEUR", "CENSEUR_ADJOINT"})

Secretariat == {"SECRETAIRE", "SECRETAIRE_ADJOINT",
                "SECRETAIRE_GENERAL", "SECRETAIRE_GENERAL_ADJOINT"}

Secretaire         == Gate({}, Secretariat)
SecretariatOrAdmin == Gate(Clergy, Secretariat)
ConvocationManager == Gate(Clergy, Secretariat \cup {"CENSEUR", "CENSEUR_ADJOINT"})

\* COUNCIL_POSTES: the seats of the council, and no clergy.
CouncilMember == Gate({}, {"DELEGUE", "VICE_DELEGUE", "SECRETAIRE_GENERAL",
                           "SECRETAIRE_GENERAL_ADJOINT", "CENSEUR", "CENSEUR_ADJOINT",
                           "CEREMONIAIRE"})
OpenDisciplineCase == Gate(Clergy, {"CENSEUR", "CENSEUR_ADJOINT", "CEREMONIAIRE"})
ConvokeDiscipline  == Gate(Clergy, {"CENSEUR", "CENSEUR_ADJOINT", "DELEGUE", "VICE_DELEGUE"})
VerdictAuthority   == Gate({"AUMONIER"}, {"CENSEUR", "CENSEUR_ADJOINT",
                                          "SECRETAIRE_GENERAL", "CEREMONIAIRE"})

ClassementDimanche == Gate(Clergy, {"CHARGE_CLASSEMENT_DIMANCHE"})
ClassementSemaine  == Gate(Clergy, {"CHARGE_CLASSEMENT_SEMAINE"})
SundayHistory      == Gate(Clergy, {"CHARGE_CLASSEMENT_DIMANCHE", "CENSEUR", "CENSEUR_ADJOINT"})
ClassementManager  == Gate(Clergy, {"CHARGE_CLASSEMENT_DIMANCHE", "CHARGE_CLASSEMENT_SEMAINE"})

Gates == [AdminOnly |-> AdminOnly, AumonierOnly |-> AumonierOnly,
          AdminOrAumonier |-> AdminOrAumonier, ParentOnly |-> ParentOnly,
          ServantOnly |-> ServantOnly, Responsable |-> Responsable,
          ChargeLiturgie |-> ChargeLiturgie, SportCulture |-> SportCulture,
          Intendant |-> Intendant, Delegue |-> Delegue,
          DelegueOrSG |-> DelegueOrSG, Commissaire |-> Commissaire,
          Econome |-> Econome, Censeur |-> Censeur,
          CommissaireStrict |-> CommissaireStrict,
          CenseurStrict |-> CenseurStrict, Secretaire |-> Secretaire,
          SecretariatOrAdmin |-> SecretariatOrAdmin,
          ConvocationManager |-> ConvocationManager,
          CouncilMember |-> CouncilMember,
          OpenDisciplineCase |-> OpenDisciplineCase,
          ConvokeDiscipline |-> ConvokeDiscipline,
          VerdictAuthority |-> VerdictAuthority,
          ClassementDimanche |-> ClassementDimanche,
          ClassementSemaine |-> ClassementSemaine,
          SundayHistory |-> SundayHistory,
          ClassementManager |-> ClassementManager]

Passes(gate, role, postes) ==
    role \in gate.roles \/ (role = "SERVANT" /\ postes \cap gate.postes # {})

-----------------------------------------------------------------------------
Change == changed' = {w \in Workers : pc[w] # "idle"}

\* get_current_user: the token, then the account it names; the role in the
\* token has to be the one in the table, where nothing changes it.
Ask(w, gate) ==
    /\ ~tokenOff
    /\ Begin(w, [op |-> "call", gate |-> gate], "identifying")
    /\ changed' = changed \ {w}
    /\ UNCHANGED <<permissionTables, acts>>

\* get_current_active_user; a gate of roles decides at once.
Identify(w) ==
    LET r == req[w] IN
    /\ pc[w] = "identifying"
    /\ IF account.active /\ account.role \in r.gate.roles
       THEN Continue(w, r, "acting")
       ELSE IF account.active /\ account.role = "SERVANT"
            THEN Continue(w, r, "entitling") ELSE Return(w)
    /\ UNCHANGED <<permissionTables, permissionHistory>>

\* Mutation: the nominations are read whatever their status.
EntitleFormer(w) ==
    /\ pc[w] = "entitling"
    /\ IF (holds \cup held) \cap req[w].gate.postes # {}
       THEN Continue(w, req[w], "acting") ELSE Return(w)
    /\ UNCHANGED <<permissionTables, permissionHistory>>

\* The postes in force, by get_active_by_user.
Entitle(w) ==
    /\ pc[w] = "entitling"
    /\ IF holds \cap req[w].gate.postes # {}
       THEN Continue(w, req[w], "acting") ELSE Return(w)
    /\ UNCHANGED <<permissionTables, permissionHistory>>

\* The handler runs; of a connection, each message it is sent.
Act(w) ==
    /\ pc[w] = "acting"
    /\ acts' = [gate |-> req[w].gate, role |-> account.role,
                entitled |-> account.active /\ Passes(req[w].gate, account.role, holds),
                moved |-> w \in changed]
    /\ IF req[w].op = "connect" THEN Continue(w, req[w], "acting") ELSE Return(w)
    /\ UNCHANGED <<permissionTables, changed>>

\* validate_ws_token: neither the list nor the role is looked at.
Connect(w) ==
    /\ Begin(w, [op |-> "connect", gate |-> Anyone], "identifying")
    /\ changed' = changed \ {w}
    /\ UNCHANGED <<permissionTables, acts>>

Leave(w) == Die(w) /\ UNCHANGED <<permissionTables, permissionHistory>>

-----------------------------------------------------------------------------
Nominate(p) ==
    /\ account.role = "SERVANT" /\ p \notin holds
    /\ holds' = holds \cup {p}
    /\ Change
    /\ UNCHANGED <<account, tokenOff, held, acts, flights>>

RevokeNomination(p) ==
    /\ p \in holds
    /\ holds' = holds \ {p} /\ held' = held \cup {p}
    /\ Change
    /\ UNCHANGED <<account, tokenOff, acts, flights>>

SetActive(b) ==
    /\ account.active # b
    /\ account' = [account EXCEPT !.active = b]
    /\ Change
    /\ UNCHANGED <<tokenOff, holds, held, acts, flights>>

\* The token that is presented goes on the list until it expires.
Logout ==
    /\ ~tokenOff /\ account.active
    /\ tokenOff' = TRUE
    /\ UNCHANGED <<account, holds, held, permissionHistory, flights>>

\* A login hands out another.
LoginAgain ==
    /\ tokenOff /\ account.active
    /\ tokenOff' = FALSE
    /\ UNCHANGED <<account, holds, held, permissionHistory, flights>>

-----------------------------------------------------------------------------
Init ==
    /\ account \in [role : Roles, active : {TRUE}]
    /\ tokenOff = FALSE
    /\ holds = {} /\ held = {}
    /\ acts = None /\ changed = {}
    /\ InitFlights

Next ==
    \/ \E w \in Workers :
          \/ \E gate \in Tried : Ask(w, Gates[gate])
          \/ Identify(w) \/ Entitle(w) \/ Act(w) \/ Connect(w) \/ Leave(w)
    \/ \E p \in Posts : Nominate(p) \/ RevokeNomination(p)
    \/ \E b \in BOOLEAN : SetActive(b)
    \/ Logout \/ LoginAgain

Spec == Init /\ [][Next]_<<permissionTables, permissionHistory, flights>>

-----------------------------------------------------------------------------
TypeOK ==
    /\ account \in [role : Roles, active : BOOLEAN] /\ tokenOff \in BOOLEAN
    /\ holds \cup held \subseteq Posts
    /\ acts = None \/ acts.gate \in {Gates[g] : g \in Tried} \cup {Anyone}
    /\ changed \subseteq Workers
    /\ FlightsOK

\* What is done by one who is not entitled when it is done was decided before
\* his account or his postes changed under it; and of the strict gates none
\* lets the clergy through, of the others none a parent.
ActsAreEntitled ==
    acts # None =>
        /\ acts.entitled \/ acts.moved
        /\ acts.gate \in {CommissaireStrict, CenseurStrict, Secretaire, CouncilMember} =>
              acts.role = "SERVANT"
        /\ acts.role = "PARENT" => acts.gate \in {Anyone, ParentOnly}

\* A request past its account has its role by the table, where no role changes;
\* past the gate, it passes it still or something has changed under it.
Sound(w) ==
    LET r == req[w] IN
    \/ pc[w] = "idle"
    \/ /\ pc[w] \in {"identifying", "entitling", "acting"}
       /\ r \in [op : {"call", "connect"}, gate : {Gates[g] : g \in Tried} \cup {Anyone}]
       /\ pc[w] = "entitling" =>
             account.role = "SERVANT" /\ (account.active \/ w \in changed)
       /\ pc[w] = "acting" =>
             /\ account.role \in r.gate.roles \/ account.role = "SERVANT"
             /\ \/ w \in changed
                \/ account.active /\ Passes(r.gate, account.role, holds)

Inv == TypeOK /\ ActsAreEntitled /\ \A w \in Workers : Sound(w)
=============================================================================
