-------------------------- MODULE EnrollmentProofs --------------------------
(***************************************************************************)
(* Theorems about Enrollment, for any tokens, any number of Macs that have *)
(* the link of one token, and any clicks.                                  *)
(***************************************************************************)
EXTENDS Enrollment, TLAPS

-----------------------------------------------------------------------------
\* A redemption of t that has committed and has not wiped the password yet.
WipeIsDue(t) ==
    \E m \in Macs : /\ redemption[m] # None
                    /\ redemption[m].token = t
                    /\ redemption[m].stage \in {"redeemed", "built"}

\* A password outlives the redemption only while a redemption will wipe it.
NoneForgotten ==
    \A t \in Issued :
        tokens[t].redeemed /\ t \notin brokenOff /\ tokens[t].secret => WipeIsDue(t)

IInv == EnrollmentTypeOK /\ NoneForgotten

\* The token itself, what became of its redemption, and who is at work on it.
server == <<tokens, redemption, brokenOff>>

-----------------------------------------------------------------------------
\* What is asked of the card and of a page changes no token.
LEMMA UntouchedServer ==
    ASSUME NoneForgotten, UNCHANGED server
    PROVE  NoneForgotten'
  BY DEF NoneForgotten, WipeIsDue, Issued, server

\* While the other rows and the other requests stay as they are, only the
\* token t, and the requests of m, need a look.
LEMMA OneToken ==
    ASSUME IInv, NEW t \in Tokens, NEW m \in Macs,
           \A x \in Tokens \ {t} : tokens'[x] = tokens[x],
           \A n \in Macs \ {m} : redemption'[n] = redemption[n],
           brokenOff \subseteq brokenOff',
           redemption[m] # None => redemption[m].token = t,
           (tokens'[t] # None /\ tokens'[t].redeemed /\ t \notin brokenOff' /\ tokens'[t].secret)
              => WipeIsDue(t)'
    PROVE  NoneForgotten'
<1> SUFFICES ASSUME NEW x \in Issued', tokens'[x].redeemed, x \notin brokenOff', tokens'[x].secret
             PROVE  WipeIsDue(x)'
  BY DEF NoneForgotten
<1>0. x \in Tokens /\ tokens'[x] # None
  BY DEF Issued
<1>1. CASE x = t
  BY <1>0, <1>1
<1>2. CASE x # t
  <2>1. WipeIsDue(x)
    BY <1>0, <1>2 DEF IInv, NoneForgotten, Issued
  <2>2. PICK n \in Macs : /\ redemption[n] # None
                          /\ redemption[n].token = x
                          /\ redemption[n].stage \in {"redeemed", "built"}
    BY <2>1 DEF WipeIsDue
  <2>3. n # m
    BY <1>2, <2>2
  <2> QED
    BY <2>2, <2>3 DEF WipeIsDue
<1> QED
  BY <1>1, <1>2

\* While no request moves, only the token t needs a look.
LEMMA TokenOnly ==
    ASSUME NoneForgotten, NEW t \in Tokens,
           \A x \in Tokens \ {t} : tokens'[x] = tokens[x],
           UNCHANGED <<redemption, brokenOff>>,
           (tokens'[t] # None /\ tokens'[t].redeemed /\ tokens'[t].secret)
              => /\ tokens[t] # None /\ tokens[t].redeemed /\ tokens[t].secret
    PROVE  NoneForgotten'
  BY DEF NoneForgotten, WipeIsDue, Issued

\* A request that has nothing to wipe may come, go and wait.
LEMMA NothingToWipe ==
    ASSUME NoneForgotten, NEW m \in Macs,
           \A n \in Macs \ {m} : redemption'[n] = redemption[n],
           redemption[m] # None => redemption[m].stage \in {"sent", "read"},
           UNCHANGED tokens, brokenOff \subseteq brokenOff'
    PROVE  NoneForgotten'
<1> SUFFICES ASSUME NEW x \in Issued, tokens[x].redeemed, x \notin brokenOff, tokens[x].secret
             PROVE  WipeIsDue(x)'
  BY DEF NoneForgotten, Issued
<1>1. PICK n \in Macs : /\ redemption[n] # None
                        /\ redemption[n].token = x
                        /\ redemption[n].stage \in {"redeemed", "built"}
  BY DEF NoneForgotten, WipeIsDue
<1>2. n # m
  BY <1>1
<1> QED
  BY <1>1, <1>2 DEF WipeIsDue

-----------------------------------------------------------------------------
LEMMA InitIInv == ASSUME EnrollmentAssumption, Init PROVE IInv
<1>1. Issued = {}
  BY DEF Init, Issued
<1>2. EnrollmentTypeOK
  BY DEF Init, EnrollmentTypeOK, TokenRows
<1> QED
  BY <1>1, <1>2 DEF IInv, NoneForgotten

\* A token is written as a row or removed.
LEMMA CardIInv ==
    ASSUME EnrollmentAssumption, IInv,
           \/ \E t \in Tokens : Expire(t) \/ RevokeToken(t)
           \/ LoadTokens \/ TypePassword \/ onCreate \/ create_token \/ CreateFails
           \/ revoke_token
    PROVE  IInv'
<1> USE DEF IInv
<1>1. ASSUME NEW t \in Tokens, Expire(t) PROVE IInv'
  <2>1. tokens[t] \in EnrollmentTokenRow
    BY <1>1 DEF EnrollmentTypeOK, Expire
  <2>2. tokens'[t] = [tokens[t] EXCEPT !.expired = TRUE]
    BY <1>1 DEF Expire, EnrollmentTypeOK
  <2>3. EnrollmentTypeOK'
    BY <1>1, <2>1 DEF EnrollmentTypeOK, Expire, TokenRows, EnrollmentTokenRow, card, macPages
  <2>4. NoneForgotten'
    <3>1. \A x \in Tokens \ {t} : tokens'[x] = tokens[x]
      BY <1>1 DEF Expire, EnrollmentTypeOK
    <3>2. /\ UNCHANGED <<redemption, brokenOff>>
          /\ tokens[t] # None
      BY <1>1 DEF Expire, macPages
    <3>3. tokens'[t].redeemed = tokens[t].redeemed /\ tokens'[t].secret = tokens[t].secret
      BY <2>1, <2>2 DEF EnrollmentTokenRow
    <3> QED
      BY <3>1, <3>2, <3>3, TokenOnly
  <2> QED
    BY <2>3, <2>4
<1>2. ASSUME \/ \E t \in Tokens : RevokeToken(t)
             \/ LoadTokens \/ TypePassword \/ onCreate \/ CreateFails
      PROVE  IInv'
  <2>1. UNCHANGED server
    BY <1>2 DEF RevokeToken, LoadTokens, TypePassword, onCreate, CreateFails, macPages, server
  <2>2. NoneForgotten'
    BY <2>1, UntouchedServer
  <2>3. CASE \E t \in Tokens : RevokeToken(t)
    BY <2>3, <2>2 DEF EnrollmentTypeOK, RevokeToken, TokenRows, macPages
  <2>4. CASE LoadTokens
    <3>1. TokenRows' \subseteq Tokens
      BY <2>4 DEF LoadTokens, TokenRows, Issued
    <3> QED
      BY <2>4, <2>2, <3>1 DEF EnrollmentTypeOK, LoadTokens, macPages
  <2>5. CASE TypePassword
    BY <2>5, <2>2 DEF EnrollmentTypeOK, TypePassword, TokenRows, macPages
  <2>6. CASE onCreate
    BY <2>6, <2>2 DEF EnrollmentTypeOK, onCreate, TokenRows, macPages
  <2>7. CASE CreateFails
    BY <2>7, <2>2 DEF EnrollmentTypeOK, CreateFails, TokenRows, macPages
  <2> QED
    BY <1>2, <2>3, <2>4, <2>5, <2>6, <2>7
<1>3. CASE create_token
  <2>1. PICK t \in Fresh :
          /\ tokens' = [tokens EXCEPT ![t] = [secret |-> creation.secret, redeemed |-> FALSE,
                                              expired |-> FALSE]]
          /\ justCreated' = t
    BY <1>3 DEF create_token
  <2>2. t \in Tokens /\ creation # None
    BY <1>3 DEF create_token, Fresh
  <2>3. [secret |-> creation.secret, redeemed |-> FALSE, expired |-> FALSE] \in EnrollmentTokenRow
    BY <2>2 DEF EnrollmentTypeOK, EnrollmentTokenRow
  <2>4. EnrollmentTypeOK'
    BY <1>3, <2>1, <2>2, <2>3 DEF EnrollmentTypeOK, create_token, TokenRows, macPages
  <2>5. NoneForgotten'
    <3>1. /\ \A x \in Tokens \ {t} : tokens'[x] = tokens[x]
          /\ ~tokens'[t].redeemed
      BY <2>1, <2>2 DEF EnrollmentTypeOK
    <3>2. UNCHANGED <<redemption, brokenOff>>
      BY <1>3 DEF create_token, macPages
    <3> QED
      BY <2>2, <3>1, <3>2, TokenOnly
  <2> QED
    BY <2>4, <2>5
<1>4. CASE revoke_token
  <2>1. \/ tokens' = tokens
        \/ tokens' = [tokens EXCEPT ![revocation] = None]
    BY <1>4 DEF revoke_token
  <2>2. EnrollmentTypeOK'
    BY <1>4, <2>1 DEF EnrollmentTypeOK, revoke_token, TokenRows, macPages
  <2>3. \A x \in Tokens : tokens'[x] \in {tokens[x], None}
    BY <2>1 DEF EnrollmentTypeOK
  <2>4. NoneForgotten'
    BY <1>4, <2>3 DEF NoneForgotten, WipeIsDue, Issued, revoke_token, macPages
  <2> QED
    BY <2>2, <2>4
<1> QED
  BY <1>1, <1>2, <1>3, <1>4

\* A Mac's page and its request.  The commit makes the wipe this request's
\* duty; only the wipe, or breaking off, ends it.
LEMMA MacIInv ==
    ASSUME EnrollmentAssumption, IInv, NEW m \in Macs,
           \/ OpenLink(m) \/ onDownload(m)
           \/ ReadToken(m) \/ CommitRedeemed(m) \/ build_profile(m)
           \/ Downloaded(m) \/ BreaksOff(m)
    PROVE  IInv'
<1> USE DEF IInv
<1>1. CASE OpenLink(m)
  <2>1. NoneForgotten'
    BY <1>1, UntouchedServer DEF OpenLink, server
  <2>2. EnrollmentTypeOK'
    BY <1>1 DEF EnrollmentTypeOK, OpenLink, TokenRows, card
  <2> QED
    BY <2>1, <2>2
<1>2. CASE onDownload(m)
  <2>1. enrollPage[m].token \in Tokens /\ redemption[m] = None
    BY <1>2 DEF EnrollmentTypeOK, onDownload, MayDownload
  <2>2. EnrollmentTypeOK'
    BY <1>2, <2>1 DEF EnrollmentTypeOK, Redemption, onDownload, TokenRows, card
  <2>3. \A n \in Macs \ {m} : redemption'[n] = redemption[n]
    BY <1>2 DEF EnrollmentTypeOK, onDownload
  <2>4. UNCHANGED <<tokens, brokenOff>>
    BY <1>2 DEF onDownload
  <2>5. NoneForgotten'
    BY <2>1, <2>3, <2>4, NothingToWipe
  <2> QED
    BY <2>2, <2>5
<1>3. ASSUME ReadToken(m) \/ CommitRedeemed(m) \/ build_profile(m) \/ Downloaded(m) \/ BreaksOff(m)
      PROVE  \E t \in Tokens : /\ redemption[m] # None /\ redemption[m] \in Redemption
                               /\ redemption[m].token = t
                               /\ \A n \in Macs \ {m} : redemption'[n] = redemption[n]
  <2>1. redemption[m] # None
    BY <1>3 DEF ReadToken, CommitRedeemed, build_profile, Downloaded, BreaksOff, At
  <2>2. redemption[m] \in Redemption
    BY <2>1 DEF EnrollmentTypeOK
  <2>3. \A n \in Macs \ {m} : redemption'[n] = redemption[n]
    BY <1>3 DEF EnrollmentTypeOK, ReadToken, CommitRedeemed, build_profile, Downloaded, BreaksOff,
                Stage, Settle
  <2> QED
    BY <2>1, <2>2, <2>3 DEF Redemption
<1>4. CASE ReadToken(m)
  <2>0. PICK t \in Tokens : /\ redemption[m] # None /\ redemption[m] \in Redemption
                            /\ redemption[m].token = t
                            /\ \A n \in Macs \ {m} : redemption'[n] = redemption[n]
    BY <1>3, <1>4
  <2>1. EnrollmentTypeOK'
    BY <2>0, <1>4 DEF EnrollmentTypeOK, ReadToken, Stage, Settle, Redemption, TokenRows, card
  <2>2. redemption[m].stage = "sent"
    BY <2>0, <1>4 DEF ReadToken, At
  <2>3. UNCHANGED <<tokens, brokenOff>>
    BY <1>4 DEF ReadToken
  <2>4. NoneForgotten'
    BY <2>0, <2>2, <2>3, NothingToWipe
  <2> QED
    BY <2>1, <2>4
<1>5. CASE CommitRedeemed(m)
  <2>0. PICK t \in Tokens : /\ redemption[m] # None /\ redemption[m] \in Redemption
                            /\ redemption[m].token = t
                            /\ \A n \in Macs \ {m} : redemption'[n] = redemption[n]
    BY <1>3, <1>5
  <2>1. CASE tokens[t] = None
    <3>1. /\ tokens' = tokens /\ brokenOff' = brokenOff
          /\ Settle(m, "refused") /\ UNCHANGED card
      BY <2>0, <1>5, <2>1 DEF CommitRedeemed
    <3>2. EnrollmentTypeOK'
      BY <2>0, <3>1 DEF EnrollmentTypeOK, Settle, TokenRows, card
    <3>3. NoneForgotten'
      BY <2>0, <2>1, <3>1, OneToken
    <3> QED
      BY <3>2, <3>3
  <2>2. CASE tokens[t] # None
    <3>1. /\ tokens' = [tokens EXCEPT ![t].redeemed = TRUE]
          /\ redemption' = [redemption EXCEPT ![m].stage = "redeemed", ![m].header = tokens[t].secret]
          /\ UNCHANGED <<card, enrollPage, brokenOff>>
      BY <2>0, <1>5, <2>2 DEF CommitRedeemed
    <3>2. tokens[t] \in EnrollmentTokenRow
      BY <2>0, <2>2 DEF EnrollmentTypeOK
    <3>3. redemption'[m] = [redemption[m] EXCEPT !.stage = "redeemed", !.header = tokens[t].secret]
      BY <2>0, <3>1 DEF EnrollmentTypeOK
    <3>4. /\ redemption'[m] \in Redemption
          /\ redemption'[m].token = t /\ redemption'[m].stage = "redeemed"
      BY <2>0, <3>2, <3>3 DEF Redemption, EnrollmentTokenRow
    <3>5. EnrollmentTypeOK'
      <4>1. tokens' \in [Tokens -> EnrollmentTokenRow \cup {None}]
        BY <2>0, <3>1, <3>2 DEF EnrollmentTypeOK, EnrollmentTokenRow
      <4>2. redemption' \in [Macs -> Redemption \cup {None}]
        BY <2>0, <3>1, <3>4 DEF EnrollmentTypeOK
      <4> QED
        BY <3>1, <4>1, <4>2 DEF EnrollmentTypeOK, TokenRows, card
    <3>6. WipeIsDue(t)'
      BY <3>4 DEF WipeIsDue, EnrollmentAssumption
    <3>7. \A x \in Tokens \ {t} : tokens'[x] = tokens[x]
      BY <3>1 DEF EnrollmentTypeOK
    <3>8. NoneForgotten'
      BY <2>0, <3>1, <3>6, <3>7, OneToken
    <3> QED
      BY <3>5, <3>8
  <2> QED
    BY <2>1, <2>2
<1>6. CASE build_profile(m)
  <2>0. PICK t \in Tokens : /\ redemption[m] # None /\ redemption[m] \in Redemption
                            /\ redemption[m].token = t
                            /\ \A n \in Macs \ {m} : redemption'[n] = redemption[n]
    BY <1>3, <1>6
  <2>1. /\ redemption' = [redemption EXCEPT ![m].stage = "built"]
        /\ UNCHANGED <<tokens, card, enrollPage, brokenOff>>
    BY <1>6 DEF build_profile, Stage
  <2>2. redemption'[m] = [redemption[m] EXCEPT !.stage = "built"]
    BY <2>1 DEF EnrollmentTypeOK
  <2>3. /\ redemption'[m] \in Redemption
        /\ redemption'[m].token = t /\ redemption'[m].stage = "built"
    BY <2>0, <2>2 DEF Redemption
  <2>4. EnrollmentTypeOK'
    BY <1>6, <2>1, <2>3 DEF EnrollmentTypeOK, TokenRows, card
  <2>5. WipeIsDue(t)'
    BY <2>3 DEF WipeIsDue, EnrollmentAssumption
  <2>6. NoneForgotten'
    BY <2>0, <2>1, <2>5, OneToken
  <2> QED
    BY <2>4, <2>6
<1>7. CASE Downloaded(m)
  <2>0. PICK t \in Tokens : /\ redemption[m] # None /\ redemption[m] \in Redemption
                            /\ redemption[m].token = t
                            /\ \A n \in Macs \ {m} : redemption'[n] = redemption[n]
    BY <1>3, <1>7
  <2>1. /\ tokens' = Wiped(t) /\ Settle(m, "downloaded")
        /\ UNCHANGED <<card, brokenOff>>
    BY <2>0, <1>7 DEF Downloaded
  <2>2. /\ tokens' \in [Tokens -> EnrollmentTokenRow \cup {None}]
        /\ tokens'[t] = None \/ ~tokens'[t].secret
        /\ \A x \in Tokens \ {t} : tokens'[x] = tokens[x]
    <3>1. CASE tokens[t] = None
      BY <2>1, <3>1 DEF Wiped, EnrollmentTypeOK
    <3>2. CASE tokens[t] # None
      <4>1. tokens[t] \in EnrollmentTokenRow
        BY <2>0, <3>2 DEF EnrollmentTypeOK
      <4>2. tokens' = [tokens EXCEPT ![t].secret = FALSE]
        BY <2>1, <3>2 DEF Wiped
      <4>3. /\ [tokens[t] EXCEPT !.secret = FALSE] \in EnrollmentTokenRow
            /\ ~[tokens[t] EXCEPT !.secret = FALSE].secret
        BY <4>1 DEF EnrollmentTokenRow
      <4> QED
        BY <2>0, <4>2, <4>3 DEF EnrollmentTypeOK
    <3> QED
      BY <3>1, <3>2
  <2>3. EnrollmentTypeOK'
    BY <2>1, <2>2 DEF EnrollmentTypeOK, Settle, TokenRows, card
  <2>4. NoneForgotten'
    BY <2>0, <2>1, <2>2, OneToken
  <2> QED
    BY <2>3, <2>4
<1>8. CASE BreaksOff(m)
  <2>0. PICK t \in Tokens : /\ redemption[m] # None /\ redemption[m] \in Redemption
                            /\ redemption[m].token = t
                            /\ \A n \in Macs \ {m} : redemption'[n] = redemption[n]
    BY <1>3, <1>8
  <2>1. EnrollmentTypeOK'
    BY <1>8 DEF EnrollmentTypeOK, BreaksOff, Settle, TokenRows, card
  <2>2. UNCHANGED tokens /\ brokenOff \subseteq brokenOff'
    BY <1>8 DEF BreaksOff
  <2>3. CASE redemption[m].stage \in {"sent", "read"}
    <3>1. NoneForgotten'
      BY <2>0, <2>2, <2>3, NothingToWipe
    <3> QED
      BY <2>1, <3>1
  <2>4. CASE redemption[m].stage \notin {"sent", "read"}
    <3>1. t \in brokenOff'
      BY <2>0, <1>8, <2>4 DEF BreaksOff, At
    <3>2. NoneForgotten'
      BY <2>0, <2>2, <3>1, OneToken
    <3> QED
      BY <2>1, <3>2
  <2> QED
    BY <2>3, <2>4
<1> QED
  BY <1>1, <1>2, <1>4, <1>5, <1>6, <1>7, <1>8

LEMMA NextIInv ==
    ASSUME EnrollmentAssumption, IInv, [Next]_enrollVars
    PROVE  IInv'
<1>1. CASE UNCHANGED enrollVars
  BY <1>1 DEF IInv, EnrollmentTypeOK, NoneForgotten, WipeIsDue, Issued, TokenRows, enrollVars,
              card, macPages
<1>2. CASE Next
  BY <1>2, CardIInv, MacIInv DEF Next
<1> QED
  BY <1>1, <1>2

LEMMA Inductive == ASSUME EnrollmentAssumption PROVE Spec => []IInv
<1>1. IInv /\ [Next]_enrollVars => IInv'
  BY NextIInv
<1> QED
  BY <1>1, InitIInv, PTL DEF Spec

-----------------------------------------------------------------------------
(* The rows of enrollment_token, the card and the requests keep their       *)
(* types, whatever redemptions and revocations overlap.                     *)
THEOREM EnrollmentTypeCorrect == ASSUME EnrollmentAssumption PROVE Spec => []EnrollmentTypeOK
<1>1. IInv => EnrollmentTypeOK
  BY DEF IInv
<1> QED
  BY <1>1, Inductive, PTL

(* redeem_token and clear_embedded_secret: however many Macs redeem one     *)
(* token side by side, and whatever is revoked meanwhile, a redeemed token  *)
(* carries no password once nobody is at work on it, unless a redemption of *)
(* it broke off after its commit.                                           *)
THEOREM RedeemedSecretsAreWiped == ASSUME EnrollmentAssumption PROVE Spec => []SecretsAreWiped
<1>1. IInv => SecretsAreWiped
  BY DEF IInv, NoneForgotten, WipeIsDue, SecretsAreWiped
<1> QED
  BY <1>1, Inductive, PTL
=============================================================================
