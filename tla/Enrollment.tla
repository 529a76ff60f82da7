----------------------------- MODULE Enrollment -----------------------------
(***************************************************************************)
(* Enrolling Macs: the administrator's card of tokens                      *)
(* (components/enrollment-tokens-card.tsx), the page a Mac's user opens    *)
(* with the link (app/enroll), and api/routes/enroll.py over               *)
(* services/enrollment.py.  A redemption reads the token, commits that it  *)
(* is used, builds the profile with the repository's password if the token *)
(* carries it, and then wipes the password - four steps that interleave    *)
(* with another redemption of the same token and with its revocation.      *)
(***************************************************************************)
EXTENDS Naturals, FiniteSets, TLC

CONSTANTS
    Tokens,
    Macs,              \* Macs whose user has the page open
    None,
    MaxEnrollEvents    \* bound: clicks

EnrollmentTokenRow == [secret : BOOLEAN, redeemed : BOOLEAN, expired : BOOLEAN]
Redemption ==
    [token : Tokens, stage : {"sent", "read", "redeemed", "built"}, header : BOOLEAN]

EnrollmentAssumption ==
    /\ None \notin Tokens \cup EnrollmentTokenRow \cup Redemption
    /\ MaxEnrollEvents \in Nat

VARIABLES
    tokens,          \* server: token -> [secret, redeemed, expired], None where there is none
    tokenList,       \* the card's query: rows by token, None while loading
    tokenListStale,
    tokenForm,       \* is the repository password typed?
    creation,        \* the creation on its way, or None
    justCreated,     \* the token shown once, or None
    revocation,      \* the revocation on its way, or None
    enrollPage,      \* Mac -> [token typed, outcome shown]
    redemption,      \* Mac -> the request on its way, or None
    profiles,        \* history: [mac, token, header] of the profiles built
    brokenOff,       \* history: tokens whose redemption broke off after the commit
    enrollEvents

card == <<tokenList, tokenListStale, tokenForm, creation, justCreated, revocation>>
macPages == <<enrollPage, redemption, profiles, brokenOff>>
enrollVars == <<tokens, card, macPages, enrollEvents>>

-----------------------------------------------------------------------------
Issued == {t \in Tokens : tokens[t] # None}
Quiet == UNCHANGED enrollEvents
Event == enrollEvents < MaxEnrollEvents /\ enrollEvents' = enrollEvents + 1

\* A token is never issued twice; a revoked one keeps its link in the world.
Fresh == {t \in Tokens : /\ tokens[t] = None /\ justCreated # t
                         /\ \A m \in Macs : enrollPage[m].token # t
                         /\ t \notin {p.token : p \in profiles}}

\* Its time is over.
Expire(t) ==
    /\ tokens[t] # None /\ ~tokens[t].expired
    /\ tokens' = [tokens EXCEPT ![t].expired = TRUE]
    /\ Event /\ UNCHANGED <<card, macPages>>

-----------------------------------------------------------------------------
\* EnrollmentTokensCard
LoadTokens ==
    /\ tokenList = None \/ tokenListStale
    /\ tokenList' = Issued /\ tokenListStale' = FALSE
    /\ Quiet /\ UNCHANGED <<tokens, tokenForm, creation, justCreated, revocation, macPages>>

TypePassword ==
    /\ tokenForm' = ~tokenForm
    /\ Event /\ UNCHANGED <<tokens, tokenList, tokenListStale, creation, justCreated, revocation, macPages>>

\* The form: its button is the form's, so that Enter waits for it too.
onCreate ==
    /\ creation = None /\ creation' = [secret |-> tokenForm]
    /\ Event /\ UNCHANGED <<tokens, tokenList, tokenListStale, tokenForm, justCreated, revocation, macPages>>
create_token ==
    /\ creation # None /\ Fresh # {}
    /\ LET t == CHOOSE x \in Fresh : TRUE
       IN  /\ tokens' = [tokens EXCEPT ![t] = [secret |-> creation.secret, redeemed |-> FALSE, expired |-> FALSE]]
           /\ justCreated' = t
    /\ creation' = None /\ tokenForm' = FALSE /\ tokenListStale' = TRUE
    /\ Quiet /\ UNCHANGED <<tokenList, revocation, macPages>>
\* A password that does not match is refused; the form stays.
CreateFails ==
    /\ creation # None /\ creation' = None
    /\ Quiet /\ UNCHANGED <<tokens, tokenList, tokenListStale, tokenForm, justCreated, revocation, macPages>>

\* The bin of any row listed, used or not.
TokenRows == IF tokenList = None THEN {} ELSE tokenList
RevokeToken(t) ==
    /\ t \in TokenRows /\ revocation = None
    /\ revocation' = t
    /\ Event /\ UNCHANGED <<tokens, tokenList, tokenListStale, tokenForm, creation, justCreated, macPages>>
revoke_token ==
    /\ revocation # None /\ revocation' = None
    /\ IF tokens[revocation] = None THEN UNCHANGED <<tokens, tokenListStale>>
       ELSE tokens' = [tokens EXCEPT ![revocation] = None] /\ tokenListStale' = TRUE
    /\ Quiet /\ UNCHANGED <<tokenList, tokenForm, creation, justCreated, macPages>>

-----------------------------------------------------------------------------
\* EnrollPage, opened with the link the card shows.
OpenLink(m) ==
    /\ justCreated # None /\ redemption[m] = None
    /\ enrollPage' = [enrollPage EXCEPT ![m] = [token |-> justCreated, outcome |-> None]]
    /\ Event /\ UNCHANGED <<tokens, card, redemption, profiles, brokenOff>>
\* The form's button; the token field is filled from the link.
MayDownload(m) == redemption[m] = None /\ enrollPage[m].token # None
onDownload(m) ==
    /\ MayDownload(m)
    /\ enrollPage' = [enrollPage EXCEPT ![m].outcome = None]
    /\ redemption' = [redemption EXCEPT ![m] = [token |-> enrollPage[m].token, stage |-> "sent", header |-> FALSE]]
    /\ Event /\ UNCHANGED <<tokens, card, profiles, brokenOff>>

Settle(m, outcome) ==
    /\ redemption' = [redemption EXCEPT ![m] = None]
    /\ enrollPage' = [enrollPage EXCEPT ![m].outcome = outcome]

At(m, stage) == IF redemption[m] = None THEN FALSE ELSE redemption[m].stage = stage
Stage(m, stage) == redemption' = [redemption EXCEPT ![m].stage = stage]

\* redeem_token: the row is read and looked at, then written.
MayRedeem(t) == IF tokens[t] = None THEN FALSE ELSE ~tokens[t].redeemed /\ ~tokens[t].expired

ReadToken(m) ==
    /\ At(m, "sent")
    /\ IF MayRedeem(redemption[m].token) THEN Stage(m, "read") /\ UNCHANGED enrollPage
       ELSE Settle(m, "refused")
    /\ Quiet /\ UNCHANGED <<tokens, card, profiles, brokenOff>>
CommitRedeemed(m) ==
    LET t == redemption[m].token
    IN  /\ At(m, "read")
        /\ IF tokens[t] = None THEN Settle(m, "refused") /\ UNCHANGED tokens
           ELSE /\ tokens' = [tokens EXCEPT ![t].redeemed = TRUE]
                /\ redemption' = [redemption EXCEPT ![m].stage = "redeemed", ![m].header = tokens[t].secret]
                /\ UNCHANGED enrollPage
        /\ Quiet /\ UNCHANGED <<card, profiles, brokenOff>>
build_profile(m) ==
    /\ At(m, "redeemed") /\ Stage(m, "built")
    /\ profiles' = profiles \cup {[mac |-> m, token |-> redemption[m].token, header |-> redemption[m].header]}
    /\ Quiet /\ UNCHANGED <<tokens, card, enrollPage, brokenOff>>

\* Mutant: the password stays with the token.
Wiped_Kept(t) == tokens

\* clear_embedded_secret
Wiped(t) == IF tokens[t] = None THEN tokens ELSE [tokens EXCEPT ![t].secret = FALSE]

Downloaded(m) ==
    /\ At(m, "built") /\ tokens' = Wiped(redemption[m].token)
    /\ Settle(m, "downloaded")
    /\ Quiet /\ UNCHANGED <<card, profiles, brokenOff>>
\* The address of the server is not configured, the process ends, or the
\* connection: the token stays as it is by then.
BreaksOff(m) ==
    /\ redemption[m] # None /\ Settle(m, "failed")
    /\ brokenOff' = IF At(m, "sent") \/ At(m, "read") THEN brokenOff
                    ELSE brokenOff \cup {redemption[m].token}
    /\ Quiet /\ UNCHANGED <<tokens, card, profiles>>

-----------------------------------------------------------------------------
Init ==
    /\ tokens = [t \in Tokens |-> None]
    /\ tokenList = None /\ tokenListStale = FALSE /\ tokenForm = FALSE
    /\ creation = None /\ justCreated = None /\ revocation = None
    /\ enrollPage = [m \in Macs |-> [token |-> None, outcome |-> None]]
    /\ redemption = [m \in Macs |-> None]
    /\ profiles = {} /\ brokenOff = {} /\ enrollEvents = 0

Next ==
    \/ \E t \in Tokens : Expire(t) \/ RevokeToken(t)
    \/ LoadTokens \/ TypePassword \/ onCreate \/ create_token \/ CreateFails \/ revoke_token
    \/ \E m \in Macs : \/ OpenLink(m) \/ onDownload(m)
                       \/ ReadToken(m) \/ CommitRedeemed(m) \/ build_profile(m)
                       \/ Downloaded(m) \/ BreaksOff(m)

Spec == Init /\ [][Next]_enrollVars

-----------------------------------------------------------------------------
EnrollmentTypeOK ==
    /\ tokens \in [Tokens -> EnrollmentTokenRow \cup {None}]
    /\ TokenRows \subseteq Tokens /\ justCreated \in Tokens \cup {None}
    /\ creation \in [secret : BOOLEAN] \cup {None} /\ tokenForm \in BOOLEAN
    /\ enrollPage \in [Macs -> [token : Tokens \cup {None},
                                outcome : {None, "refused", "downloaded", "failed"}]]
    /\ redemption \in [Macs -> Redemption \cup {None}]

(* A token that was redeemed no longer carries the repository's password    *)
(* once no redemption of it is on its way, also when two ran side by side - *)
(* unless one broke off between the commit and the wipe.                    *)
SecretsAreWiped ==
    \A t \in Issued :
        /\ tokens[t].redeemed /\ t \notin brokenOff
        /\ \A m \in Macs : redemption[m] # None => redemption[m].token # t
        => ~tokens[t].secret
=============================================================================
