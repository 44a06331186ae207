------------------------------ MODULE Accounts -------------------------------
(***************************************************************************)
(* The accounts: registration with its checks, invitations, the edits of a *)
(* profile and the deletion.  A name, an e-mail or a telephone is stored   *)
(* encrypted beside a keyed hash it is looked up by; the encryption is not *)
(* the same twice, so a commit writes every encrypted column as the        *)
(* session read it, and a hash only when it has become another one.        *)
(***************************************************************************)
EXTENDS Requests

CONSTANTS
    Users,          \* rows of users; Chief is one of them
    Chief,          \* the account ADMIN that the system is installed with
    Emails,         \* addresses
    Codes           \* rows of invitation_codes

VARIABLES
    users,          \* table users
    codes,          \* table invitation_codes
    raced,          \* history: addresses two requests have met on
    crossed,        \* history: accounts two requests have met on
    rivals,         \* history: offices two registrations have met on
    made,           \* history: accounts made with each code
    spent,          \* history: codes met on, not marked, or made PENDING after a use
    asked           \* history: the address each account was last given

accountTables  == <<users, codes>>
accountHistory == <<raced, crossed, rivals, made, spent, asked>>

-----------------------------------------------------------------------------
\* A SERVANT is registered as a PARENT who has no code.
Roles == {"ADMIN", "AUMONIER", "PARENT"}

\* email is the encrypted column, hash the one it is looked up by.
User == [role : Roles, active : BOOLEAN, email : Emails \cup {None},
         hash : Emails \cup {None}]

InvitationCode == [status : {"PENDING", "ACCEPTED", "REVOKED"},
                   email : Emails \cup {None}, used_by : Users \cup {None}]

Having(role) == {u \in Users : Exists(users[u]) /\ users[u].role = role}

\* Mutation: an account that was deactivated is not found.
TakenByActive(e, but) ==
    /\ e # None
    /\ \E u \in Users \ {but} : Exists(users[u]) /\ users[u].active /\ users[u].hash = e

\* get_by_email and email_exists: without an address nobody is looked for.
Taken(e, but) == /\ e # None
                 /\ \E u \in Users \ {but} : Exists(users[u]) /\ users[u].hash = e

Usable(c) == codes[c] # None /\ codes[c].status = "PENDING"

\* Another request in flight has read e, or wants it.
Wanted(w, e) == e # None /\ \E v \in Workers \ {w} :
                    \/ "email" \in DOMAIN req[v] /\ req[v].email = e
                    \/ "read" \in DOMAIN req[v] /\ e \in {req[v].read.email, req[v].read.hash}

ShareCode(w, c) ==
    spent' = IF c # None /\ Alongside(w, "code", c) THEN spent \cup {c} ELSE spent

MeetOn(w, e) == raced' = IF Wanted(w, e) THEN raced \cup {e} ELSE raced

-----------------------------------------------------------------------------
(***************************************************************************)
(* Registration: the address, then what the role asks for, then the row,   *)
(* then the code is marked; each is a call.                                *)
(***************************************************************************)
\* A code is what the public form has for a parent; None stands for the desk
\* of the administrator, or a parent who enters his child.
Register(w, role, e, code) ==
    /\ code = None \/ role = "PARENT"
    /\ role \in {"ADMIN", "AUMONIER"} => e # None
    /\ Begin(w, [op |-> "register", role |-> role, email |-> e, code |-> code], "checking")
    /\ UNCHANGED <<accountTables, accountHistory>>

CheckAddress(w) ==
    /\ pc[w] = "checking"
    /\ IF Taken(req[w].email, None) THEN Return(w) ELSE Continue(w, req[w], "admitting")
    /\ UNCHANGED <<accountTables, accountHistory>>

\* An office is looked for, an invitation has to be pending and his.
Admitted(r) ==
    /\ r.role \in {"ADMIN", "AUMONIER"} => Having(r.role) = {}
    /\ r.code # None =>
          Usable(r.code) /\ codes[r.code].email \in {None, r.email}

\* Mutation: the office is not looked for.
AdmitAnyway(w) ==
    LET r == req[w] IN
    /\ pc[w] = "admitting"
    /\ IF r.code = None \/ Usable(r.code)
       THEN Continue(w, r, "inserting") ELSE Return(w)
    /\ UNCHANGED <<accountTables, accountHistory>>

Admit(w) ==
    /\ pc[w] = "admitting"
    /\ IF Admitted(req[w]) THEN Continue(w, req[w], "inserting") ELSE Return(w)
    /\ UNCHANGED <<accountTables, accountHistory>>

\* No constraint of the table says that the address is free.
InsertUser(w) ==
    LET r == req[w] IN
    /\ pc[w] = "inserting"
    /\ \E u \in Users :
          /\ users[u] = None
          /\ users' = [users EXCEPT ![u] = [role |-> r.role, active |-> TRUE,
                                            email |-> r.email, hash |-> r.email]]
          /\ asked' = [asked EXCEPT ![u] = r.email]
          /\ IF r.code = None
             THEN Return(w)
             ELSE Continue(w, [op |-> "mark", code |-> r.code, email |-> r.email,
                               user |-> u], "marking")
    /\ MeetOn(w, r.email)
    /\ rivals' = IF Alongside(w, "role", r.role) THEN rivals \cup {r.role} ELSE rivals
    /\ made' = [c \in Codes |-> IF c = r.code THEN made[c] + 1 ELSE made[c]]
    /\ ShareCode(w, r.code)
    /\ UNCHANGED <<codes, crossed>>

\* Mutation: an address that was not asked for in the code leaves it pending.
MarkIfNamed(w) ==
    LET c == req[w].code IN
    /\ pc[w] = "marking"
    /\ codes' = IF Usable(c) /\ codes[c].email # None
                THEN [codes EXCEPT ![c].status = "ACCEPTED", ![c].used_by = req[w].user]
                ELSE codes
    /\ Return(w)
    /\ UNCHANGED <<users, accountHistory>>

\* mark_as_used: a code that is no longer pending is passed over in silence.
MarkAsUsed(w) ==
    LET c == req[w].code IN
    /\ pc[w] = "marking"
    /\ codes' = IF Usable(c)
                THEN [codes EXCEPT ![c].status = "ACCEPTED", ![c].used_by = req[w].user]
                ELSE codes
    /\ ShareCode(w, c)
    /\ Return(w)
    /\ UNCHANGED <<users, raced, crossed, rivals, made, asked>>

-----------------------------------------------------------------------------
\* With a number to send it to and no address, the code is made and the
\* request fails.
CreateInvitation(c, e) ==
    /\ codes[c] = None
    /\ codes' = [codes EXCEPT ![c] = [status |-> "PENDING", email |-> e, used_by |-> None]]
    /\ UNCHANGED <<users, accountHistory, flights>>

\* Whatever its status.
RevokeInvitation(c) ==
    /\ codes[c] # None
    /\ codes' = [codes EXCEPT ![c].status = "REVOKED"]
    /\ UNCHANGED <<users, accountHistory, flights>>

\* Only ACCEPTED is refused: a code that was revoked after its use is not.
ToggleInvitation(w, c) ==
    /\ codes[c] # None /\ codes[c].status # "ACCEPTED"
    /\ Begin(w, [op |-> "toggle", code |-> c,
                 status |-> IF codes[c].status = "PENDING" THEN "REVOKED" ELSE "PENDING"],
             "toggling")
    /\ UNCHANGED <<accountTables, accountHistory>>

StoreToggle(w) ==
    LET r == req[w] IN
    /\ pc[w] = "toggling"
    /\ codes' = [codes EXCEPT ![r.code].status = r.status]
    /\ spent' = IF r.status = "PENDING" /\ made[r.code] > 0 THEN spent \cup {r.code} ELSE spent
    /\ Return(w)
    /\ UNCHANGED <<users, raced, crossed, rivals, made, asked>>

-----------------------------------------------------------------------------
(***************************************************************************)
(* Edits: new is the row as the session holds it, email the address it is  *)
(* given; a password, a name, a photograph or a consent gives none.        *)
(***************************************************************************)
Edit(w, u, new, given, place) ==
    /\ Begin(w, [op |-> "edit", user |-> u, read |-> users[u], new |-> new,
                 given |-> given, email |-> new.email], place)
    /\ UNCHANGED <<accountTables, accountHistory>>

\* update_profile and admin_update_user: another address has to be free.
EditAddress(w, u, e, active) ==
    /\ Exists(users[u])
    /\ u = Chief => active
    /\ Edit(w, u, [users[u] EXCEPT !.email = e, !.hash = e, !.active = active],
            TRUE, IF e = users[u].email THEN "storing" ELSE "asking")

AskForAddress(w) ==
    /\ pc[w] = "asking"
    /\ IF Taken(req[w].email, req[w].user)
       THEN Return(w) ELSE Continue(w, req[w], "storing")
    /\ UNCHANGED <<accountTables, accountHistory>>

\* change_password, admin_reset_password, the consents.
EditOther(w, u) ==
    /\ Exists(users[u])
    /\ Edit(w, u, [users[u] EXCEPT !.hash = users[u].email], FALSE, "storing")

\* activate_user, and deactivate_user for an account that is not one's own.
SetActive(w, u, active) ==
    /\ Exists(users[u]) /\ users[u].active # active
    /\ u = Chief => active
    /\ Edit(w, u, [users[u] EXCEPT !.hash = users[u].email, !.active = active], FALSE, "storing")

\* Mutation: the hash is left as it was.
WrittenOldHash(u, r) ==
    [Flush(users[u], r.read, r.new) EXCEPT !.email = r.new.email, !.hash = users[u].hash]

\* What the commit writes: an encrypted column always, the others when they
\* have changed.
Written(u, r) ==
    [Flush(users[u], r.read, r.new) EXCEPT !.email = IF r.new.email = None THEN @ ELSE r.new.email]

\* A row that is gone is an error.
StoreEdit(w) ==
    LET r == req[w]  u == r.user IN
    /\ pc[w] = "storing"
    /\ IF Exists(users[u])
       THEN /\ users' = [users EXCEPT ![u] = Written(u, r)]
            /\ asked' = IF r.given THEN [asked EXCEPT ![u] = r.new.email] ELSE asked
            /\ crossed' = IF Alongside(w, "user", u) THEN crossed \cup {u} ELSE crossed
            /\ MeetOn(w, r.new.email)
       ELSE UNCHANGED <<users, raced, crossed, asked>>
    /\ Return(w)
    /\ UNCHANGED <<codes, rivals, made, spent>>

\* Not one's own account and not the last ADMIN; what refers to the account
\* may refuse.  ON DELETE SET NULL clears the codes it used.
DeleteUser(u) ==
    /\ Exists(users[u]) /\ u # Chief
    /\ users[u].role = "ADMIN" => Cardinality(Having("ADMIN")) > 1
    /\ users' = [users EXCEPT ![u] = Gone]
    /\ codes' = [c \in Codes |->
          IF codes[c] # None /\ codes[c].used_by = u
          THEN [codes[c] EXCEPT !.used_by = None] ELSE codes[c]]
    /\ UNCHANGED <<accountHistory, flights>>

-----------------------------------------------------------------------------
AbortAccount(w) ==
    /\ Die(w)
    /\ spent' = IF pc[w] = "marking" THEN spent \cup {req[w].code} ELSE spent
    /\ UNCHANGED <<accountTables, raced, crossed, rivals, made, asked>>

-----------------------------------------------------------------------------
Init ==
    /\ \E e \in Emails :
          /\ users = [u \in Users |->
                IF u = Chief THEN [role |-> "ADMIN", active |-> TRUE, email |-> e, hash |-> e]
                ELSE None]
          /\ asked = [u \in Users |-> IF u = Chief THEN e ELSE None]
    /\ codes = [c \in Codes |-> None]
    /\ raced = {} /\ crossed = {} /\ rivals = {} /\ spent = {}
    /\ made = [c \in Codes |-> 0]
    /\ InitFlights

AccountDesk(u) ==
    \/ DeleteUser(u)
    \/ \E w \in Workers :
          \/ EditOther(w, u)
          \/ \E active \in BOOLEAN :
                \/ SetActive(w, u, active)
                \/ \E e \in Emails : EditAddress(w, u, e, active)

InvitationDesk(c) ==
    \/ RevokeInvitation(c)
    \/ \E e \in Emails \cup {None} : CreateInvitation(c, e)
    \/ \E w \in Workers : ToggleInvitation(w, c)

RegistrationDesk(w) ==
    \E role \in Roles, e \in Emails \cup {None}, code \in Codes \cup {None} :
        Register(w, role, e, code)

ServeAccount(w) ==
    \/ CheckAddress(w) \/ Admit(w) \/ InsertUser(w) \/ MarkAsUsed(w) \/ StoreToggle(w)
    \/ AskForAddress(w) \/ StoreEdit(w) \/ AbortAccount(w)

Next == \/ \E u \in Users : AccountDesk(u)
        \/ \E c \in Codes : InvitationDesk(c)
        \/ \E w \in Workers : RegistrationDesk(w) \/ ServeAccount(w)

Spec == Init /\ [][Next]_<<accountTables, accountHistory, flights>>

-----------------------------------------------------------------------------
TypeOK ==
    /\ users \in [Users -> User \cup {None, Gone}]
    /\ codes \in [Codes -> InvitationCode \cup {None}]
    /\ asked \in [Users -> Emails \cup {None}]
    /\ raced \subseteq Emails /\ crossed \subseteq Users
    /\ rivals \subseteq Roles /\ made \in [Codes -> Nat] /\ spent \subseteq Codes
    /\ FlightsOK

\* No two accounts are found by one address, unless two requests have met on
\* it, or two edits on one of the accounts, whose hash is then of another address
\* than it shows: the table does not refuse it, since what is unique there is the
\* encrypted column (which is never the same twice).
AddressesUnique ==
    \A u, v \in Users \ crossed :
        /\ u # v /\ Exists(users[u]) /\ Exists(users[v])
        /\ users[u].hash = users[v].hash /\ users[u].hash # None
        => users[u].hash \in raced

\* An account shows the address it was last given and is found by it, unless
\* two edits of it have met.
AddressesStand ==
    \A u \in Users :
        Exists(users[u]) /\ u \notin crossed =>
            users[u].email = asked[u] /\ users[u].hash = asked[u]

\* There is always an ADMIN, never two, and two AUMONIERs only when two
\* registrations have met.
OfficesHeld ==
    /\ Cardinality(Having("ADMIN")) = 1
    /\ Cardinality(Having("AUMONIER")) <= 1 \/ "AUMONIER" \in rivals

\* A code makes one account, unless two registrations have met on it, one was
\* cut off before it marked the code, or the code was made pending again after
\* it had been used: the switch refuses that for an accepted code, but not for
\* one that was revoked since.
CodesServeOnce == \A c \in Codes : made[c] <= 1 \/ c \in spent

\* Of a step, as the description of the profile's operation says: only the fields
\* that are given are changed.
OnlyGivenFields ==
    \A w \in Workers :
        pc[w] = "storing" /\ pc'[w] = "idle" /\ ~req[w].given =>
            LET u == req[w].user IN
            Exists(users[u]) /\ Exists(users'[u]) => users'[u].email = users[u].email

-----------------------------------------------------------------------------
\* No other account is found by e, but for those that requests have met on.
Free(e, but) ==
    \/ e = None \/ e \in raced
    \/ \A v \in Users \ ({but} \cup crossed) : Exists(users[v]) => users[v].hash # e

\* A registration that has made its account and not marked its code.
Unmarked(w, c) == pc[w] = "marking" /\ req[w].code = c

\* A registration past its checks: the address is free, no office is filled, and
\* its code has made no account, or another that has is about to mark it.
Registering(w) ==
    LET r == req[w] IN
    /\ pc[w] \in {"checking", "admitting", "inserting"}
    /\ r \in [op : {"register"}, role : Roles, email : Emails \cup {None},
              code : Codes \cup {None}]
    /\ pc[w] # "checking" => Free(r.email, None)
    /\ pc[w] = "inserting" =>
          /\ r.role # "ADMIN"
          /\ r.role = "AUMONIER" => Having("AUMONIER") = {} \/ "AUMONIER" \in rivals
          /\ r.code # None =>
                /\ codes[r.code] # None
                /\ \/ made[r.code] = 0 \/ r.code \in spent
                   \/ \E v \in Workers \ {w} : Unmarked(v, r.code)

\* A request about a code there is.
Coding(w) ==
    LET r == req[w] IN
    /\ \/ /\ pc[w] = "marking"
          /\ r \in [op : {"mark"}, code : Codes, email : Emails \cup {None}, user : Users]
       \/ /\ pc[w] = "toggling"
          /\ r \in [op : {"toggle"}, code : Codes, status : {"PENDING", "REVOKED"}]
    /\ codes[r.code] # None

\* An edit has read the row as it is, unless it has met another, and the address
\* it stores is free.
Editing(w) ==
    LET r == req[w] IN
    /\ pc[w] \in {"asking", "storing"}
    /\ r \in [op : {"edit"}, user : Users, read : User, new : User, given : BOOLEAN,
              email : Emails \cup {None}]
    /\ r.new.email = r.email /\ r.new.hash = r.email /\ r.new.role = r.read.role
    /\ ~r.given => r.email = r.read.email
    /\ users[r.user] # None
    /\ \/ r.user \in crossed \/ ~Exists(users[r.user])
       \/ users[r.user] = r.read
    /\ pc[w] = "storing" => r.user \in crossed \/ Free(r.email, r.user)

Sound(w) == pc[w] = "idle" \/ Registering(w) \/ Coding(w) \/ Editing(w)

\* The one ADMIN is the one that was installed.
ChiefIsAdmin == Having("ADMIN") = {Chief}

\* A code that has made an account cannot be used, or is about to be marked.
MadeAreMarked ==
    \A c \in Codes :
        made[c] > 0 => /\ codes[c] # None
                       /\ ~Usable(c) \/ c \in spent \/ \E w \in Workers : Unmarked(w, c)

Inv == /\ TypeOK /\ AddressesUnique /\ AddressesStand /\ OfficesHeld /\ CodesServeOnce
       /\ ChiefIsAdmin /\ MadeAreMarked
       /\ \A w \in Workers : Sound(w)
=============================================================================
