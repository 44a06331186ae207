----------------------------- MODULE Credentials -----------------------------
(***************************************************************************)
(* What one account is let in with: refresh tokens that are renewed once,  *)
(* codes that are sent and verified once, reset tokens that set one        *)
(* password, and the list of revoked tokens, which may be in memory only.  *)
(* A token is signed and kept nowhere: only its revocation is.             *)
(***************************************************************************)
EXTENDS Requests

CONSTANTS
    Tokens,         \* identifiers (jti) of tokens
    ResetCodes      \* rows of password_reset_codes

VARIABLES
    active,         \* the column is_active of the account
    tokens,         \* the tokens that were handed out, and what for
    revoked,        \* the list of revoked tokens
    resetCodes,     \* table password_reset_codes
    served,         \* history: what each token was good for, in times
    answered,       \* history: reset tokens made with each code
    met,            \* history: tokens, codes two requests have met on
    lostList,       \* history: the list of revoked tokens was lost
    cutOff          \* history: tokens whose use was cut off

credentialTables  == <<active, tokens, revoked, resetCodes>>
credentialHistory == <<served, answered, met, lostList, cutOff>>

-----------------------------------------------------------------------------
\* A token that has not been handed out yet is handed out.
Issue(kind, t) ==
    /\ tokens[t] = None
    /\ tokens' = [tokens EXCEPT ![t] = kind]

Shared(w, f, x) == met' = IF Alongside(w, f, x) THEN met \cup {x} ELSE met

Codes(status) == {c \in ResetCodes : resetCodes[c] = status}

\* A login by password, number or provider.
Login(t) ==
    /\ active
    /\ Issue("refresh", t)
    /\ UNCHANGED <<active, revoked, resetCodes, credentialHistory, flights>>

SetAccountActive(b) ==
    /\ active # b
    /\ active' = b
    /\ UNCHANGED <<tokens, revoked, resetCodes, credentialHistory, flights>>

-----------------------------------------------------------------------------
(***************************************************************************)
(* A token is used in calls: it is not on the list, the account is there   *)
(* and active, then refresh puts it on the list and hands out another; a   *)
(* reset stores the password first and puts the token on the list after.   *)
(***************************************************************************)
\* Mutation: the list is not looked at.
PresentAny(w, t) ==
    /\ tokens[t] # None
    /\ Begin(w, [op |-> tokens[t], token |-> t], "reading")
    /\ UNCHANGED <<credentialTables, credentialHistory>>

Present(w, t) ==
    /\ tokens[t] # None /\ t \notin revoked
    /\ Begin(w, [op |-> tokens[t], token |-> t], "reading")
    /\ UNCHANGED <<credentialTables, credentialHistory>>

ReadAccount(w) ==
    /\ pc[w] = "reading"
    /\ IF active
       THEN Continue(w, req[w], IF req[w].op = "reset" THEN "setting" ELSE "revoking")
       ELSE Return(w)
    /\ UNCHANGED <<credentialTables, credentialHistory>>

SetPassword(w) ==
    LET t == req[w].token IN
    /\ pc[w] = "setting"
    /\ served' = [served EXCEPT ![t] = @ + 1]
    /\ Shared(w, "token", t)
    /\ Continue(w, req[w], "revoking")
    /\ UNCHANGED <<credentialTables, answered, lostList, cutOff>>

Revoke(w) ==
    LET t == req[w].token IN
    /\ pc[w] = "revoking"
    /\ revoked' = revoked \cup {t}
    /\ Shared(w, "token", t)
    /\ IF req[w].op = "reset" THEN Return(w) ELSE Continue(w, req[w], "renewing")
    /\ UNCHANGED <<active, tokens, resetCodes, served, answered, lostList, cutOff>>

Renew(w) ==
    LET old == req[w].token IN
    /\ pc[w] = "renewing"
    /\ \E t \in Tokens : Issue("refresh", t)
    /\ served' = [served EXCEPT ![old] = @ + 1]
    /\ Return(w)
    /\ UNCHANGED <<active, revoked, resetCodes, answered, met, lostList, cutOff>>

-----------------------------------------------------------------------------
(***************************************************************************)
(* A code: those the account had are deleted, then it is made, in two      *)
(* commits; verified, it is marked, in a call after the one that found it. *)
(***************************************************************************)
\* Mutation: a new code is left beside those there are.
AskForAnother(w) ==
    /\ active
    /\ Begin(w, [op |-> "ask", account |-> TRUE], "making")
    /\ UNCHANGED <<credentialTables, credentialHistory>>

AskForCode(w) ==
    /\ active
    /\ Begin(w, [op |-> "ask", account |-> TRUE], "clearing")
    /\ UNCHANGED <<credentialTables, credentialHistory>>

ClearCodes(w) ==
    /\ pc[w] = "clearing"
    /\ resetCodes' = [c \in ResetCodes |-> IF resetCodes[c] = None THEN None ELSE Gone]
    /\ Continue(w, req[w], "making")
    /\ UNCHANGED <<active, tokens, revoked, credentialHistory>>

MakeCode(w) ==
    /\ pc[w] = "making"
    /\ \E c \in ResetCodes :
          /\ resetCodes[c] = None
          /\ resetCodes' = [resetCodes EXCEPT ![c] = "sent"]
          /\ met' = IF Alongside(w, "account", TRUE) THEN met \cup {c} ELSE met
    /\ Return(w)
    /\ UNCHANGED <<active, tokens, revoked, served, answered, lostList, cutOff>>

VerifyCode(w, c) ==
    /\ active /\ resetCodes[c] = "sent"
    /\ Begin(w, [op |-> "verify", code |-> c], "marking")
    /\ UNCHANGED <<credentialTables, credentialHistory>>

\* Mutation: a code that was verified stays as it was.
MarkNothing(w) ==
    /\ pc[w] = "marking"
    /\ \E t \in Tokens : Issue("reset", t)
    /\ answered' = [answered EXCEPT ![req[w].code] = @ + 1]
    /\ Return(w)
    /\ UNCHANGED <<active, revoked, resetCodes, served, met, lostList, cutOff>>

\* mark_used passes over a code that is gone; the token is made all the same.
MarkUsed(w) ==
    LET c == req[w].code IN
    /\ pc[w] = "marking"
    /\ resetCodes' = IF Exists(resetCodes[c]) THEN [resetCodes EXCEPT ![c] = "used"] ELSE resetCodes
    /\ \E t \in Tokens : Issue("reset", t)
    /\ answered' = [answered EXCEPT ![c] = @ + 1]
    /\ Shared(w, "code", c)
    /\ Return(w)
    /\ UNCHANGED <<active, revoked, served, lostList, cutOff>>

\* delete_expired, a quarter of an hour after it was sent.
CodeExpires(c) ==
    /\ Exists(resetCodes[c])
    /\ resetCodes' = [resetCodes EXCEPT ![c] = Gone]
    /\ UNCHANGED <<active, tokens, revoked, credentialHistory, flights>>

\* forgot_password: a reset token with no code.
ForgotPassword(t) ==
    /\ active
    /\ Issue("reset", t)
    /\ UNCHANGED <<active, revoked, resetCodes, credentialHistory, flights>>

-----------------------------------------------------------------------------
AbortCredential(w) ==
    /\ Die(w)
    /\ cutOff' = IF "token" \in DOMAIN req[w] THEN cutOff \cup {req[w].token} ELSE cutOff
    /\ UNCHANGED <<credentialTables, served, answered, met, lostList>>

\* A restart where no Redis is configured: the list was in memory.
LoseList ==
    /\ revoked # {}
    /\ \A w \in Workers : pc[w] = "idle"
    /\ revoked' = {} /\ lostList' = TRUE
    /\ UNCHANGED <<active, tokens, resetCodes, served, answered, met, cutOff, flights>>

-----------------------------------------------------------------------------
Init ==
    /\ active = TRUE
    /\ tokens = [t \in Tokens |-> None] /\ revoked = {}
    /\ resetCodes = [c \in ResetCodes |-> None]
    /\ served = [t \in Tokens |-> 0] /\ answered = [c \in ResetCodes |-> 0]
    /\ met = {} /\ lostList = FALSE /\ cutOff = {}
    /\ InitFlights

\* By e-mail or by telephone.
CodeRequest(w) == AskForCode(w) \/ \E c \in ResetCodes : VerifyCode(w, c)

\* The same Present is the one of the refresh.
ResetDesk(w) ==
    \/ CodeRequest(w)
    \/ \E t \in Tokens : ForgotPassword(t) \/ Present(w, t)

Next ==
    \/ LoseList
    \/ \E b \in BOOLEAN : SetAccountActive(b)
    \/ \E t \in Tokens : Login(t)
    \/ \E c \in ResetCodes : CodeExpires(c)
    \/ \E w \in Workers :
          \/ ResetDesk(w) \/ ClearCodes(w) \/ MakeCode(w) \/ MarkUsed(w)
          \/ ReadAccount(w) \/ SetPassword(w) \/ Revoke(w) \/ Renew(w)
          \/ AbortCredential(w)

Spec == Init /\ [][Next]_<<credentialTables, credentialHistory, flights>>

-----------------------------------------------------------------------------
TypeOK ==
    /\ active \in BOOLEAN /\ lostList \in BOOLEAN
    /\ tokens \in [Tokens -> {None, "refresh", "reset"}]
    /\ revoked \cup cutOff \subseteq Tokens
    /\ resetCodes \in [ResetCodes -> {None, Gone, "sent", "used"}]
    /\ served \in [Tokens -> Nat] /\ answered \in [ResetCodes -> Nat]
    /\ met \subseteq Tokens \cup ResetCodes
    /\ FlightsOK

\* A refresh token is renewed once and a reset token sets one password, unless
\* two requests have met on it, a reset was cut off before the token was put
\* on the list, or the list was lost with the memory it was in.
TokensServeOnce ==
    \A t \in Tokens :
        served[t] <= 1 \/ t \in met \/ lostList \/ (tokens[t] = "reset" /\ t \in cutOff)

\* A code makes one reset token, unless two requests have met on it, and at
\* most one code is good at a time unless two requests for one have met.
CodesAnswerOnce ==
    /\ \A c \in ResetCodes : answered[c] <= 1 \/ c \in met
    /\ \A c, d \in Codes("sent") : c # d => met \cap {c, d} # {}

-----------------------------------------------------------------------------
\* What excuses a second use of a token.
Excused(t) == t \in met \/ lostList \/ (tokens[t] = "reset" /\ t \in cutOff)

\* A reset whose password is set while its token is not on the list yet.
HalfReset(w, t) ==
    pc[w] = "revoking" /\ req[w].op = "reset" /\ req[w].token = t

\* A request that uses a token: before its use the token has served nobody,
\* unless a reset is between the password and the list; before it renews one
\* the token is on the list and it alone has it.
Using(w) ==
    LET r == req[w] IN
    /\ r \in [op : {"refresh", "reset"}, token : Tokens] /\ tokens[r.token] = r.op
    /\ \/ /\ pc[w] \in {"reading", "setting", "revoking"}
          /\ pc[w] = "setting" => r.op = "reset"
          /\ ~HalfReset(w, r.token)
          /\ \/ Excused(r.token) \/ served[r.token] = 0
             \/ \E v \in Workers \ {w} : HalfReset(v, r.token)
       \/ HalfReset(w, r.token) /\ (Excused(r.token) \/ served[r.token] = 1)
       \/ /\ pc[w] = "renewing" /\ r.op = "refresh"
          /\ \/ Excused(r.token)
             \/ /\ r.token \in revoked /\ served[r.token] = 0
                /\ ~Alongside(w, "token", r.token)

\* A request for a code: once the codes there were are deleted, those there are
\* have been made meanwhile.
Coding(w) ==
    /\ pc[w] \in {"clearing", "making"} /\ req[w] = [op |-> "ask", account |-> TRUE]
    /\ pc[w] = "making" => Codes("sent") \subseteq met

\* A request that has found its code good, before it marks it.
Marking(w) ==
    LET r == req[w] IN
    /\ pc[w] = "marking" /\ r \in [op : {"verify"}, code : ResetCodes]
    /\ resetCodes[r.code] # None
    /\ answered[r.code] = 0 \/ r.code \in met

Sound(w) == pc[w] = "idle" \/ Using(w) \/ Coding(w) \/ Marking(w)

\* A token that has served is on the list, or is about to be.
ServedAreListed ==
    \A t \in Tokens :
        served[t] > 0 =>
            Excused(t) \/ t \in revoked \/ \E w \in Workers : HalfReset(w, t)

AnsweredAreUsed ==
    \A c \in ResetCodes : answered[c] > 0 => resetCodes[c] \in {"used", Gone}

Inv == /\ TypeOK /\ TokensServeOnce /\ CodesAnswerOnce /\ ServedAreListed /\ AnsweredAreUsed
       /\ \A w \in Workers : Sound(w)
=============================================================================
