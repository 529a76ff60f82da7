------------------------ MODULE WebAdministrationProofs ------------------------
(***************************************************************************)
(* Theorems about the pages of WebAdministration.  Each page keeps an      *)
(* invariant of its own; the sections below state it and show that the     *)
(* page's steps keep it, and the last one puts the pages together: a step  *)
(* of the tab is one of a single page and leaves the state of the others   *)
(* as it is.                                                               *)
(***************************************************************************)
EXTENDS WebAdministration, SequenceTheorems, TLAPS

-----------------------------------------------------------------------------
(* Session.                                                                *)

\* Only what saves put there that were on their way at the sign-out.
Late(rs) == \A r \in rs : r.kind = "write" /\ ~r.live

SessionInv ==
    /\ SS!SessionTypeOK
    /\ token = None => Late(cached) /\ \A r \in apiCalls : r.live => r.as = None
    /\ reloads = IF chunkKey THEN 1 ELSE 0

LEMMA StartType == ASSUME NEW then \in AppPages \cup {None} PROVE SS!Start(then) \in SS!Refreshes
BY DEF SS!Start, SS!Refreshes, SS!Credentials

\* A cancelled request is one whose answer nobody reads.
LEMMA CancelledRequests ==
    ASSUME NEW rs \in SUBSET SS!Requests
    PROVE  LET dead == {[r EXCEPT !.live = FALSE] : r \in rs}
           IN  /\ dead \subseteq SS!Requests /\ \A r \in dead : ~r.live
               /\ SS!Cancelled(rs) \in {dead, rs}
<1>1. ASSUME NEW r \in rs
      PROVE  [r EXCEPT !.live = FALSE] \in SS!Requests /\ ~[r EXCEPT !.live = FALSE].live
  BY DEF SS!Requests
<1> QED
  BY <1>1 DEF SS!Cancelled

LEMMA SessionInit == ASSUME SS!SessionAssumption, SS!Init PROVE SessionInv
<1> USE DEF SS!Init
<1>1. refreshes \subseteq SS!Refreshes
  BY StartType
<1>2. token \in SS!Credentials /\ me \in SS!Credentials /\ steps \in 0 .. MaxSteps
  BY DEF SS!Credentials, SS!SessionAssumption
<1>3. chunkKey \in BOOLEAN /\ broken \in BOOLEAN
  OBVIOUS
<1>4. reloads \in 0 .. 2
  OBVIOUS
<1>5. place \in AppPages \cup SS!PublicPages
  BY DEF SS!PublicPages
<1>6. SS!SessionTypeOK
  BY <1>1, <1>2, <1>3, <1>4, <1>5 DEF SS!SessionTypeOK
<1> QED
  BY <1>6 DEF SessionInv, Late

\* A 401 takes the token and the cache, or finds the redirect under way.
LEMMA RedirectStep ==
    ASSUME SS!SessionAssumption, SessionInv, SS!redirectToLoginForExpiredAuth,
           NEW rs \in SUBSET apiCalls, apiCalls' = SS!Cancelled(rs)
    PROVE  /\ token' \in SS!Credentials /\ cached' \subseteq SS!Requests
           /\ leaving' \in AppPages \cup {None} /\ apiCalls' \subseteq SS!Requests
           /\ token' = None => Late(cached') /\ \A r \in apiCalls' : r.live => r.as = None
<1> USE DEF SessionInv, SS!SessionTypeOK, SS!Credentials, Late
<1>1. CASE leaving # None \/ SS!isPublicAuthPath
  <2>1. UNCHANGED <<token, leaving, cached>> /\ apiCalls' = rs
    BY <1>1 DEF SS!redirectToLoginForExpiredAuth, SS!Cancelled
  <2> QED
    BY <2>1
<1>2. CASE ~(leaving # None \/ SS!isPublicAuthPath)
  <2>1. leaving' = place /\ token' = None /\ cached' = {} /\ leaving = None
    BY <1>2 DEF SS!redirectToLoginForExpiredAuth
  <2>2. place \in AppPages /\ place # None
    BY <1>2 DEF SS!isPublicAuthPath, SS!SessionAssumption
  <2>3. apiCalls' = {[r EXCEPT !.live = FALSE] : r \in rs}
    BY <2>1, <2>2 DEF SS!Cancelled
  <2> QED
    BY <2>1, <2>2, <2>3, CancelledRequests
<1> QED
  BY <1>1, <1>2

LEMMA LoadStep ==
    ASSUME SS!SessionAssumption, SessionInv, NEW p, NEW q, SS!Load(p, q)
    PROVE  /\ place' = p /\ next' = q /\ leaving' = None /\ UNCHANGED <<token, lapsed>>
           /\ me' \in SS!Credentials /\ authMode' = None /\ refreshes' \subseteq SS!Refreshes
           /\ apiCalls' = {} /\ cached' = {} /\ signing' = None
BY StartType DEF SS!Load, SS!Credentials

-----------------------------------------------------------------------------
LEMMA SessionNext == ASSUME SS!SessionAssumption, SessionInv, SS!Next PROVE SessionInv'
<1> DEFINE Signing(s) ==
             \/ s = None
             \/ s \in [who : Users, to : AppPages \cup {None}, from : {"login", "register"}]
           Rest == /\ token \in SS!Credentials /\ lapsed \subseteq Users
                   /\ place \in AppPages \cup SS!PublicPages
                   /\ next \in AppPages \cup {None} /\ leaving \in AppPages \cup {None}
                   /\ me \in SS!Credentials /\ authMode \in {None, "jwt"}
                   /\ refreshes \subseteq SS!Refreshes /\ apiCalls \subseteq SS!Requests
                   /\ cached \subseteq SS!Requests /\ Signing(signing)
           SignedOut == token = None => Late(cached) /\ \A r \in apiCalls : r.live => r.as = None
           Reloads == /\ chunkKey \in BOOLEAN /\ broken \in BOOLEAN
                      /\ reloads = IF chunkKey THEN 1 ELSE 0
<1>1. Rest /\ SignedOut /\ Reloads /\ steps \in 0 .. MaxSteps
  BY DEF SessionInv, SS!SessionTypeOK
<1> USE <1>1 DEF Late
<1>2. SUFFICES Rest' /\ SignedOut' /\ Reloads' /\ (steps \in 0 .. MaxSteps)'
  <2>1. ASSUME Reloads' PROVE reloads' \in 0 .. 2
    BY <2>1
  <2> QED
    BY <2>1 DEF SessionInv, SS!SessionTypeOK
<1>3. ASSUME UNCHANGED steps \/ SS!Step PROVE (steps \in 0 .. MaxSteps)'
  BY <1>3 DEF SS!Step, SS!SessionAssumption
<1>4. ASSUME NEW f \in refreshes, NEW ok \in BOOLEAN, SS!RefreshConfig(f, ok)
      PROVE  Rest' /\ SignedOut' /\ Reloads' /\ UNCHANGED steps
  <2>1. f \in SS!Refreshes
    OBVIOUS
  <2>2. [f EXCEPT !.stage = "me", !.mode = IF ok THEN "jwt" ELSE None, !.sent = token]
            \in SS!Refreshes
    BY <2>1 DEF SS!Refreshes
  <2>3. f.then \in AppPages \cup {None}
    BY <2>1 DEF SS!Refreshes
  <2>4. UNCHANGED <<lapsed, next, signing, chunkKey, broken, reloads, steps>>
    BY <1>4 DEF SS!RefreshConfig
  <2>5. authMode' \in {None, "jwt"} /\ refreshes' \subseteq SS!Refreshes /\ me' \in SS!Credentials
        /\ place' \in AppPages \cup SS!PublicPages
    BY <1>4, <2>2, <2>3 DEF SS!RefreshConfig, SS!Credentials
  <2>6. CASE ok /\ token = None
    BY <1>4, <2>4, <2>5, <2>6, RedirectStep DEF SS!RefreshConfig
  <2>7. CASE ~(ok /\ token = None)
    BY <1>4, <2>4, <2>5, <2>7 DEF SS!RefreshConfig
  <2> QED
    BY <2>6, <2>7
<1>5. ASSUME NEW f \in refreshes, NEW ok \in BOOLEAN, SS!RefreshMe(f, ok)
      PROVE  Rest' /\ SignedOut' /\ Reloads' /\ UNCHANGED steps
  <2>1. f \in SS!Refreshes
    OBVIOUS
  <2>2. f.then \in AppPages \cup {None} /\ f.sent \in SS!Credentials
    BY <2>1 DEF SS!Refreshes
  <2>3. UNCHANGED <<lapsed, next, authMode, signing, chunkKey, broken, reloads, steps>>
    BY <1>5 DEF SS!RefreshMe
  <2>4. refreshes' \subseteq SS!Refreshes /\ me' \in SS!Credentials
        /\ place' \in AppPages \cup SS!PublicPages
    BY <1>5, <2>2 DEF SS!RefreshMe, SS!Credentials
  <2>5. CASE ok /\ ~SS!Accepted(f.sent)
    BY <1>5, <2>3, <2>4, <2>5, RedirectStep DEF SS!RefreshMe
  <2>6. CASE ok /\ SS!Accepted(f.sent)
    BY <1>5, <2>3, <2>4, <2>6 DEF SS!RefreshMe
  <2>7. CASE ~ok
    BY <1>5, <2>3, <2>4, <2>7 DEF SS!RefreshMe, SS!Cancelled
  <2> QED
    BY <2>5, <2>6, <2>7
<1>6. ASSUME SS!logout PROVE Rest' /\ SignedOut' /\ Reloads' /\ SS!Step
  <2>1. apiCalls' \subseteq SS!Requests /\ \A r \in apiCalls' : ~r.live
    BY <1>6, CancelledRequests DEF SS!logout, SS!DropCache
  <2> QED
    BY <1>6, <2>1 DEF SS!logout, SS!DropCache, SS!Credentials, SS!PublicPages
<1>7. ASSUME NEW kind \in {"read", "write"}, SS!apiFetch(kind)
      PROVE  Rest' /\ SignedOut' /\ Reloads' /\ SS!Step
  <2>1. [kind |-> kind, as |-> token, live |-> TRUE] \in SS!Requests
    BY DEF SS!Requests
  <2>2. Rest' /\ Reloads' /\ SS!Step
    BY <1>7, <2>1 DEF SS!apiFetch
  <2>3. SignedOut'
    BY <1>7 DEF SS!apiFetch
  <2> QED
    BY <2>2, <2>3
<1>8. ASSUME NEW r \in apiCalls, SS!handle401(r)
      PROVE  Rest' /\ SignedOut' /\ Reloads' /\ UNCHANGED steps
  BY <1>8, RedirectStep DEF SS!handle401
<1>9. ASSUME NEW r \in apiCalls, SS!Answer(r)
      PROVE  Rest' /\ SignedOut' /\ Reloads' /\ UNCHANGED steps
  <2>1. r.as \in SS!Credentials /\ r.as # None
    BY <1>9 DEF SS!Answer, SS!Accepted, SS!Requests
  <2>2. PICK stored \in SS!Stores(r) : cached' = IF stored THEN cached \cup {r} ELSE cached
    BY <1>9 DEF SS!Answer
  <2>3. cached' \subseteq SS!Requests
    BY <2>2
  <2>4. ASSUME token = None PROVE Late(cached')
    <3>1. ~r.live /\ r.kind \in {"read", "write"}
      BY <2>1, <2>4 DEF SS!Requests
    <3>2. stored => r.kind = "write"
      BY <2>2, <3>1 DEF SS!Stores
    <3> QED
      BY <2>2, <2>4, <3>1, <3>2
  <2> QED
    BY <1>9, <2>1, <2>3, <2>4 DEF SS!Answer
<1>10. ASSUME NEW t \in Users, SS!Lapse(t) PROVE Rest' /\ SignedOut' /\ Reloads' /\ SS!Step
  BY <1>10 DEF SS!Lapse
<1>11. ASSUME NEW p \in AppPages \cup {"login", "register"}, SS!Navigate(p)
       PROVE  Rest' /\ SignedOut' /\ Reloads' /\ SS!Step
  BY <1>11 DEF SS!Navigate, SS!PublicPages
<1>12. ASSUME SS!Redirected PROVE Rest' /\ SignedOut' /\ Reloads' /\ UNCHANGED steps
  <2>1. Rest' /\ SignedOut' /\ UNCHANGED steps
    BY <1>12, LoadStep DEF SS!Redirected, SS!PublicPages
  <2>2. chunkKey' \in BOOLEAN /\ broken' \in BOOLEAN
    BY <1>12 DEF SS!Redirected
  <2> QED
    BY <1>12, <2>1, <2>2 DEF SS!Redirected
<1>13. ASSUME NEW u \in Users, SS!onSubmit(u) PROVE Rest' /\ SignedOut' /\ Reloads' /\ SS!Step
  BY <1>13 DEF SS!onSubmit
<1>14. ASSUME NEW home \in AppPages, SS!SignedIn(home)
       PROVE  Rest' /\ SignedOut' /\ Reloads' /\ UNCHANGED steps
  <2>1. signing.who \in Users /\ signing.to \in AppPages \cup {None}
    BY <1>14 DEF SS!SignedIn
  <2>2. refreshes' \subseteq SS!Refreshes
    BY <1>14, <2>1, StartType DEF SS!SignedIn
  <2> QED
    BY <1>14, <2>1, <2>2 DEF SS!SignedIn, SS!Credentials, SS!SessionAssumption
<1>15. ASSUME SS!SignInFails PROVE Rest' /\ SignedOut' /\ Reloads' /\ UNCHANGED steps
  BY <1>15 DEF SS!SignInFails, SS!PublicPages
<1>16. ASSUME NEW u \in Users, NEW home \in AppPages, SS!AuthCallback(u, home)
       PROVE  Rest' /\ SignedOut' /\ Reloads' /\ SS!Step
  <2>1. refreshes' \subseteq SS!Refreshes
    BY <1>16, StartType DEF SS!AuthCallback
  <2> QED
    BY <1>16, <2>1 DEF SS!AuthCallback, SS!Credentials, SS!PublicPages, SS!SessionAssumption
<1>17. ASSUME SS!ChunkFails PROVE Rest' /\ SignedOut' /\ Reloads' /\ SS!Step
  BY <1>17 DEF SS!ChunkFails
<1>18. ASSUME SS!RouteErrorBoundary
       PROVE  Rest' /\ SignedOut' /\ Reloads' /\ UNCHANGED steps
  BY <1>18, LoadStep DEF SS!RouteErrorBoundary
<1>19. ASSUME SS!ReloadButton PROVE Rest' /\ SignedOut' /\ Reloads' /\ SS!Step
  <2>1. Rest' /\ SignedOut' /\ SS!Step
    BY <1>19, LoadStep DEF SS!ReloadButton
  <2>2. chunkKey' \in BOOLEAN /\ broken' \in BOOLEAN
    BY <1>19 DEF SS!ReloadButton
  <2> QED
    BY <1>19, <2>1, <2>2 DEF SS!ReloadButton
<1>20. ASSUME SS!RootLayout PROVE Rest' /\ SignedOut' /\ Reloads' /\ UNCHANGED steps
  BY <1>20 DEF SS!RootLayout
<1> QED
  BY <1>3, <1>4, <1>5, <1>6, <1>7, <1>8, <1>9, <1>10, <1>11, <1>12, <1>13, <1>14, <1>15, <1>16,
     <1>17, <1>18, <1>19, <1>20 DEF SS!Next

-----------------------------------------------------------------------------
(* InsightsChat.                                                           *)

Message == [role : {"user", "assistant"}, question : Questions, text : IC!Text \cup {None}]

\* Questions and answers alternate, and an answer has text of its own question.
Turn(messages, i) ==
    /\ i % 2 = 1 => messages[i].role = "user"
    /\ i % 2 # 1 => /\ messages[i].role = "assistant"
                    /\ messages[i].question = messages[i - 1].question
                    /\ messages[i].text # None =>
                          messages[i].text.of = messages[i].question

InTurn(messages) ==
    /\ messages \in Seq(Message) /\ Len(messages) % 2 = 0
    /\ \A i \in 1 .. Len(messages) : Turn(messages, i)

Stream == [question : Questions, mount : Nat, stage : {"open", "text", "done"}]

ChatInv ==
    /\ IC!ChatTypeOK /\ mount \in Nat /\ streams \subseteq Stream
    /\ InTurn(chat)

LEMMA InTurnMessages ==
    ASSUME NEW messages, InTurn(messages)
    PROVE  /\ Len(messages) \in Nat /\ DOMAIN messages = 1 .. Len(messages)
           /\ \A i \in 1 .. Len(messages) : messages[i] \in Message
BY LenProperties, ElementOfSeq DEF InTurn

LEMMA AskedInTurn == ASSUME InTurn(chat), NEW q \in Questions PROVE InTurn(chat \o IC!Ask(q))
<1> DEFINE asked == chat \o IC!Ask(q)
           n == Len(chat)
<1>1. IC!Ask(q) \in Seq(Message) /\ Len(IC!Ask(q)) = 2
  <2>1. <<IC!Ask(q)[1], IC!Ask(q)[2]>> \in Seq(Message)
    BY DEF IC!Ask, Message
  <2> QED
    BY <2>1 DEF IC!Ask
<1>2. chat \in Seq(Message) /\ n \in Nat /\ n % 2 = 0
  BY InTurnMessages DEF InTurn
<1>3. /\ asked \in Seq(Message) /\ Len(asked) = n + 2
      /\ \A i \in 1 .. n + 2 : asked[i] = IF i <= n THEN chat[i] ELSE IC!Ask(q)[i - n]
  <2>1. /\ asked \in Seq(Message) /\ Len(asked) = n + Len(IC!Ask(q))
        /\ \A i \in 1 .. n + Len(IC!Ask(q)) :
              asked[i] = IF i <= n THEN chat[i] ELSE IC!Ask(q)[i - n]
    BY <1>1, <1>2, ConcatProperties, Zenon
  <2> QED
    BY <1>1, <2>1
<1> HIDE DEF asked, n
<1>4. /\ \A i \in 1 .. n : asked[i] = chat[i]
      /\ asked[n + 1] = IC!Ask(q)[1] /\ asked[n + 2] = IC!Ask(q)[2]
  BY <1>2, <1>3
<1>5. (n + 2) % 2 = 0 /\ (n + 1) % 2 = 1
  BY <1>2
<1>6. ASSUME NEW i \in 1 .. n + 2
      PROVE  Turn(asked, i)
  <2>1. CASE i \in 1 .. n
    <3>1. i % 2 # 1 => i - 1 \in 1 .. n
      BY <2>1, <1>2
    <3> QED
      BY <2>1, <3>1, <1>4 DEF InTurn, Turn, n
  <2>2. CASE i = n + 1
    BY <2>2, <1>4, <1>5 DEF IC!Ask, Turn
  <2>3. CASE i = n + 2
    <3>1. i - 1 = n + 1
      BY <2>3, <1>2
    <3> QED
      BY <2>3, <3>1, <1>4, <1>5 DEF IC!Ask, Turn
  <2> QED
    BY <1>2, <2>1, <2>2, <2>3
<1> QED
  BY <1>3, <1>5, <1>6 DEF InTurn, asked, n

LEMMA PatchedInTurn ==
    ASSUME InTurn(chat), NEW q \in Questions, NEW stage \in {"part", "whole", "failed"}
    PROVE  InTurn(IC!patchAssistant(q, [of |-> q, stage |-> stage]))
<1> DEFINE text == [of |-> q, stage |-> stage]
           patched == IC!patchAssistant(q, text)
<1>1. text \in IC!Text /\ text.of = q
  BY DEF IC!Text
<1>2. DOMAIN chat = 1 .. Len(chat) /\ Len(chat) \in Nat
  BY InTurnMessages
<1>3. ASSUME NEW i \in 1 .. Len(chat)
      PROVE  /\ patched[i] \in Message
             /\ patched[i].role = chat[i].role /\ patched[i].question = chat[i].question
             /\ patched[i].text = IF chat[i].role = "assistant" /\ chat[i].question = q
                                  THEN text ELSE chat[i].text
  <2>1. chat[i] \in Message
    BY InTurnMessages
  <2>2. patched[i] = IF chat[i].role = "assistant" /\ chat[i].question = q
                     THEN [chat[i] EXCEPT !.text = text] ELSE chat[i]
    BY <1>2 DEF IC!patchAssistant
  <2> QED
    BY <1>1, <2>1, <2>2 DEF Message
<1>4. patched \in [1 .. Len(chat) -> Message]
  BY <1>2, <1>3 DEF IC!patchAssistant
<1>5. patched \in Seq(Message) /\ Len(patched) = Len(chat)
  BY <1>2, <1>4
<1> HIDE DEF patched, text
<1>6. \A i \in 1 .. Len(chat) : i % 2 # 1 => i - 1 \in 1 .. Len(chat)
  BY <1>2
<1> QED
  BY <1>1, <1>3, <1>5, <1>6 DEF InTurn, Turn, patched, text

LEMMA TrimmedInTurn ==
    ASSUME IC!ChatAssumption, InTurn(chat) PROVE InTurn(IC!trimSession(chat))
<1>1. CASE Len(chat) <= MaxStored
  BY <1>1 DEF IC!trimSession
<1>2. CASE ~(Len(chat) <= MaxStored)
  <2> DEFINE n == Len(chat)
             cut == n - MaxStored
             trimmed == IC!trimSession(chat)
  <2>1. n \in Nat /\ n % 2 = 0 /\ MaxStored \in Nat /\ MaxStored % 2 = 0
    BY InTurnMessages DEF IC!ChatAssumption, InTurn
  <2>2. trimmed = SubSeq(chat, cut + 1, n)
    BY <1>2 DEF IC!trimSession
  <2> HIDE DEF n, trimmed
  <2>3. cut \in Nat /\ cut % 2 = 0 /\ n - (cut + 1) + 1 = MaxStored
    <3>1. n > MaxStored
      BY <1>2, <2>1 DEF n
    <3>2. n \in Nat /\ MaxStored \in Nat
      BY <2>1
    <3>3. cut \in Nat /\ n - (cut + 1) + 1 = MaxStored
      BY <3>1, <3>2
    <3>5. cut % 2 = 0
      BY <2>1, <3>1
    <3> QED
      BY <3>3, <3>5
  <2>4. \A i \in cut + 1 .. n : chat[i] \in Message
    BY <2>1, <2>3, InTurnMessages DEF n
  <2>5. /\ trimmed \in Seq(Message) /\ Len(trimmed) = MaxStored
        /\ \A i \in 1 .. MaxStored : trimmed[i] = chat[cut + 1 + i - 1]
    <3>1. /\ trimmed \in Seq(Message)
          /\ Len(trimmed) = IF cut + 1 <= n THEN n - (cut + 1) + 1 ELSE 0
          /\ \A i \in 1 .. n - (cut + 1) + 1 : trimmed[i] = chat[cut + 1 + i - 1]
      <4>1. cut + 1 \in Int /\ n \in Int
        BY <2>1, <2>3
      <4> QED
        BY <4>1, <2>2, <2>4, SubSeqProperties
    <3>2. n \in Nat /\ MaxStored \in Nat
      BY <2>1
    <3>3. ~(cut + 1 <= n) => MaxStored = 0
      BY <3>2
    <3> QED
      BY <2>3, <3>1, <3>3
  <2>6. ASSUME NEW i \in 1 .. MaxStored
        PROVE  /\ trimmed[i] = chat[cut + i] /\ (cut + i) % 2 = i % 2 /\ cut + i \in 1 .. n
               /\ i % 2 # 1 => i - 1 \in 1 .. MaxStored /\ cut + (i - 1) = (cut + i) - 1
    <3>1. cut + 1 + i - 1 = cut + i
      BY <2>3
    <3>2. (cut + i) % 2 = i % 2 /\ cut + i \in 1 .. n
      BY <2>1, <2>3
    <3>3. i % 2 # 1 => i - 1 \in 1 .. MaxStored /\ cut + (i - 1) = (cut + i) - 1
      BY <2>1, <2>3
    <3> QED
      BY <2>5, <3>1, <3>2, <3>3
  <2> HIDE DEF cut
  <2>7. ASSUME NEW i \in 1 .. MaxStored PROVE Turn(trimmed, i)
    <3>1. cut + i \in 1 .. Len(chat) /\ ((cut + i) % 2 = 1 <=> i % 2 = 1)
      BY <2>6 DEF n
    <3>2. Turn(chat, cut + i)
      BY <3>1 DEF InTurn
    <3>3. trimmed[i] = chat[cut + i] /\ (i % 2 # 1 => trimmed[i - 1] = chat[(cut + i) - 1])
      BY <2>6
    <3>4. CASE i % 2 = 1
      BY <3>1, <3>2, <3>3, <3>4 DEF Turn
    <3>5. CASE i % 2 # 1
      BY <3>1, <3>2, <3>3, <3>5 DEF Turn
    <3> QED
      BY <3>4, <3>5
  <2> QED
    BY <2>1, <2>5, <2>7 DEF InTurn, trimmed
<1> QED
  BY <1>1, <1>2

LEMMA ChatInit == ASSUME IC!Init PROVE ChatInv
<1>1. chat = <<>> /\ Len(chat) = 0 /\ chat \in Seq(Message) /\ chat \in Seq(IC!InsightsChatMessage)
  BY DEF IC!Init
<1>2. InTurn(chat)
  BY <1>1 DEF InTurn
<1> QED
  BY <1>1, <1>2 DEF IC!Init, ChatInv, IC!ChatTypeOK, IC!InsightsChatStatus

LEMMA ChatNext == ASSUME IC!ChatAssumption, ChatInv, IC!Next PROVE ChatInv'
<1> DEFINE Page == /\ chatStatus \in IC!InsightsChatStatus /\ abortRef \in Questions \cup {None}
                   /\ mount \in Nat /\ streams \subseteq Stream
                   /\ \A s \in streams : s.question \in Questions /\ s.mount <= mount
<1>1. Page /\ InTurn(chat)
  BY DEF ChatInv, IC!ChatTypeOK
<1>2. SUFFICES Page' /\ InTurn(chat')
  BY DEF ChatInv, IC!ChatTypeOK, InTurn, Message, IC!InsightsChatMessage
<1> USE <1>1 DEF IC!InsightsChatStatus, IC!page
<1>3. ASSUME NEW s \in streams, NEW stage \in {"text", "done"}, IC!Moves(s, stage),
             UNCHANGED mount
      PROVE  /\ streams' \subseteq Stream
             /\ \A x \in streams' : x.question \in Questions /\ x.mount <= mount'
  <2>1. [s EXCEPT !.stage = stage] \in Stream
    BY DEF Stream
  <2>2. [s EXCEPT !.stage = stage].mount = s.mount
    BY DEF Stream
  <2>3. \A x \in Stream : x.question \in Questions
    BY DEF Stream
  <2> QED
    BY <1>3, <2>1, <2>2, <2>3 DEF IC!Moves
<1>4. ASSUME NEW q \in Questions, IC!sendMessage(q) PROVE Page' /\ InTurn(chat')
  <2>1. [question |-> q, mount |-> mount, stage |-> "open"] \in Stream
    BY DEF Stream
  <2> QED
    BY <1>4, <2>1, AskedInTurn DEF IC!sendMessage
<1>5. ASSUME NEW s \in streams, IC!TextDelta(s) \/ IC!Done(s) PROVE Page' /\ InTurn(chat')
  BY <1>3, <1>5, PatchedInTurn DEF IC!TextDelta, IC!Done
<1>6. ASSUME NEW s \in streams, IC!ErrorEvent(s) \/ IC!StreamEnds(s)
      PROVE  Page' /\ InTurn(chat')
  BY <1>3, <1>6 DEF IC!ErrorEvent, IC!StreamEnds
<1>7. ASSUME NEW s \in streams, IC!RequestFails(s) PROVE Page' /\ InTurn(chat')
  BY <1>7, PatchedInTurn DEF IC!RequestFails
<1>8. ASSUME IC!stop PROVE Page' /\ InTurn(chat')
  BY <1>8 DEF IC!stop
<1>9. ASSUME IC!clearConversation PROVE Page' /\ InTurn(chat')
  <2>1. chat' = <<>> /\ Len(chat') = 0 /\ chat' \in Seq(Message)
    BY <1>9 DEF IC!clearConversation
  <2>2. InTurn(chat')
    BY <2>1 DEF InTurn
  <2> QED
    BY <1>9, <2>2 DEF IC!clearConversation
<1>10. ASSUME IC!LeavePage \/ IC!OpenPage PROVE Page' /\ InTurn(chat')
  <2>1. \A x \in streams : x.mount \in Nat
    BY DEF Stream
  <2> QED
    BY <1>10, <2>1 DEF IC!LeavePage, IC!OpenPage, IC!Mount
<1>11. ASSUME IC!ReloadBrowser PROVE Page' /\ InTurn(chat')
  BY <1>11, TrimmedInTurn DEF IC!ReloadBrowser, IC!Mount
<1> QED
  BY <1>4, <1>5, <1>6, <1>7, <1>8, <1>9, <1>10, <1>11 DEF IC!Next

LEMMA ChatImplies == ASSUME ChatInv PROVE AnswersUnderTheirQuestion
<1> SUFFICES ASSUME NEW i \in DOMAIN chat, chat[i].role = "assistant"
             PROVE  /\ i > 1 /\ chat[i - 1].role = "user"
                    /\ chat[i - 1].question = chat[i].question
                    /\ chat[i].text # None => chat[i].text.of = chat[i].question
  BY DEF AnswersUnderTheirQuestion, IC!AnswersUnderTheirQuestion
<1>1. i \in 1 .. Len(chat) /\ Len(chat) \in Nat
  BY InTurnMessages DEF ChatInv
<1>2. i % 2 # 1
  BY <1>1 DEF ChatInv, InTurn, Turn
<1>3. i - 1 \in 1 .. Len(chat) /\ (i - 1) % 2 = 1 /\ i > 1
  BY <1>1, <1>2
<1> QED
  BY <1>1, <1>2, <1>3 DEF ChatInv, InTurn, Turn

-----------------------------------------------------------------------------
(* ApprovalsPage.                                                          *)

\* The rows that a handler has loaded.
Rows == UNION {[rs -> AP!AutoPkgRecipe] : rs \in SUBSET TrustRecipes}

Check ==
    [kind : {"verify", "bulk", "update"}, began : Nat, loaded : Rows, new : Rows,
     todo : SUBSET TrustRecipes, walking : TrustRecipes \cup {None}, walked : AP!Content,
     filed : Seq(AP!TrustChangeRequestRead)]

Filed(c, r) == \E i \in DOMAIN c.filed : c.filed[i].recipe = r

\* A recipe that a handler is about to block has its request, or will have it
\* after the second walk; only the check of all recipes makes no such promise.
Promised(c, r) ==
    \/ c.new[r].trust_status # "pending_approval"
    \/ c.new[r].trust_status = c.loaded[r].trust_status
    \/ c.kind = "bulk" \/ Filed(c, r)
    \/ c.walking = r

GoodCheck(c) ==
    /\ c \in Check
    /\ DOMAIN c.new = DOMAIN c.loaded /\ c.todo \subseteq DOMAIN c.loaded
    /\ c.walking # None => c.walking \in c.todo /\ c.kind # "update"
    /\ \A i \in DOMAIN c.filed : c.filed[i].status = "pending"
    /\ \A r \in DOMAIN c.loaded : Promised(c, r)

Decision ==
    [recipe : TrustRecipes, shown : AP!Content \cup {None}, approved : BOOLEAN,
     loaded : AP!AutoPkgRecipe \cup {None}, chosen : Nat]

\* The request a decision has taken is one of its recipe.
GoodDecision(d, rs) ==
    /\ d \in Decision
    /\ d.chosen # 0 => /\ d.loaded # None /\ d.chosen \in DOMAIN rs
                       /\ rs[d.chosen].recipe = d.recipe

ApprovalInv ==
    /\ AP!ApprovalsTypeOK
    /\ ancestors \in [TrustRecipes -> AP!Content]
    /\ DOMAIN checks = 1 .. MaxChecks /\ checks = [h \in DOMAIN checks |-> checks[h]]
    /\ \A h \in DOMAIN checks : checks[h] # None => GoodCheck(checks[h])
    /\ DOMAIN decisions = {"page", "other"} /\ decisions = [w \in DOMAIN decisions |-> decisions[w]]
    /\ \A w \in DOMAIN decisions : decisions[w] # None => GoodDecision(decisions[w], requests)
    /\ changesListed # None =>
          \A i \in DOMAIN changesListed : changesListed[i] \in AP!TrustChangeRequestRead
    /\ approvalEvents \in Nat

LEMMA RequestTypes ==
    ASSUME NEW s \in Seq(AP!TrustChangeRequestRead)
    PROVE  /\ Len(s) \in Nat /\ DOMAIN s = 1 .. Len(s)
           /\ \A i \in DOMAIN s : s[i] \in AP!TrustChangeRequestRead
BY LenProperties, ElementOfSeq

\* A handler that has not committed leaves the tables alone.
LEMMA HandlesStep ==
    ASSUME ApprovalInv, NEW h \in DOMAIN checks, NEW c, c # None => GoodCheck(c), AP!Handles(h, c)
    PROVE  ApprovalInv' /\ UNCHANGED <<trust, requests>>
<1>1. UNCHANGED <<ancestors, trust, requests, decisions, imports, changesListed, approvalStale,
                  approvalTab, approvalEvents>>
  BY DEF AP!Handles, AP!page, AP!Quiet
<1>2. checks' = [checks EXCEPT ![h] = c]
  BY DEF AP!Handles
<1>3. /\ DOMAIN checks' = DOMAIN checks /\ checks' = [g \in DOMAIN checks' |-> checks'[g]]
      /\ \A g \in DOMAIN checks : checks'[g] = IF g = h THEN c ELSE checks[g]
  BY <1>2 DEF ApprovalInv
<1>4. \A g \in DOMAIN checks' : checks'[g] # None => GoodCheck(checks'[g])
  BY <1>3 DEF ApprovalInv
<1>5. \A w \in DOMAIN decisions' : decisions'[w] # None => GoodDecision(decisions'[w], requests')
  BY <1>1 DEF ApprovalInv, GoodDecision
<1> QED
  BY <1>1, <1>3, <1>4, <1>5 DEF ApprovalInv, AP!ApprovalsTypeOK

LEMMA LoadedRecipes == ASSUME NEW c \in Check PROVE DOMAIN c.loaded \subseteq TrustRecipes
<1>1. \A rows \in Rows : DOMAIN rows \subseteq TrustRecipes
  BY DEF Rows
<1> QED
  BY <1>1 DEF Check

\* One recipe of a handler is dealt with.
LEMMA DoneStep ==
    ASSUME NEW c, GoodCheck(c), NEW r \in c.todo, NEW row \in AP!AutoPkgRecipe,
           AP!ApprovalsAssumption, c.walking \in {None, r},
           NEW filed \in Seq(AP!TrustChangeRequestRead),
           \A i \in DOMAIN filed : filed[i].status = "pending",
           \A q : Filed(c, q) => \E i \in DOMAIN filed : filed[i].recipe = q,
           NEW todo \in SUBSET (c.todo \ {r}),
           \/ row.trust_status # "pending_approval" \/ c.kind = "bulk"
           \/ row.trust_status = c.loaded[r].trust_status
           \/ \E i \in DOMAIN filed : filed[i].recipe = r,
           NEW d, d = [c EXCEPT !.new = [c.new EXCEPT ![r] = row], !.todo = todo,
                                !.walking = None, !.walked = 0, !.filed = filed]
    PROVE  GoodCheck(d)
<1>1. c \in Check /\ r \in DOMAIN c.loaded /\ DOMAIN c.new = DOMAIN c.loaded
      /\ c.todo \subseteq TrustRecipes /\ r \in TrustRecipes
  BY DEF GoodCheck, Check
<1>2. [c.new EXCEPT ![r] = row] \in Rows /\ DOMAIN [c.new EXCEPT ![r] = row] = DOMAIN c.loaded
      /\ \A q \in DOMAIN c.loaded : [c.new EXCEPT ![r] = row][q] = IF q = r THEN row ELSE c.new[q]
  <2>1. c.new \in Rows
    BY <1>1 DEF Check
  <2>2. PICK rs \in SUBSET TrustRecipes : c.new \in [rs -> AP!AutoPkgRecipe]
    BY <2>1 DEF Rows
  <2>3. [c.new EXCEPT ![r] = row] \in [rs -> AP!AutoPkgRecipe]
    BY <2>2
  <2> QED
    BY <1>1, <2>2, <2>3 DEF Rows
<1>3. /\ d.kind = c.kind /\ d.loaded = c.loaded /\ d.todo = todo /\ d.walking = None
      /\ d.filed = filed /\ d.new = [c.new EXCEPT ![r] = row]
  BY <1>1 DEF Check
<1>4. d \in Check
  <2>1. 0 \in AP!Content /\ todo \in SUBSET TrustRecipes /\ None \in TrustRecipes \cup {None}
    BY <1>1 DEF AP!Content, AP!ApprovalsAssumption
  <2> QED
    BY <1>1, <1>2, <2>1 DEF Check
<1>5. ASSUME NEW q \in DOMAIN c.loaded PROVE Promised(d, q)
  <2>1. CASE q = r
    BY <1>2, <1>3, <2>1 DEF Promised, Filed
  <2>2. CASE q # r
    <3>1. Promised(c, q) /\ d.new[q] = c.new[q]
      BY <1>2, <1>3, <2>2 DEF GoodCheck
    <3>2. c.walking # q
      BY <1>1, <2>2, LoadedRecipes DEF AP!ApprovalsAssumption
    <3>3. Filed(c, q) => Filed(d, q)
      BY <1>3 DEF Filed
    <3> QED
      BY <1>3, <3>1, <3>2, <3>3 DEF Promised
  <2> QED
    BY <2>1, <2>2
<1> QED
  BY <1>1, <1>2, <1>3, <1>4, <1>5 DEF GoodCheck

\* Its fields, of the handler's types.
LEMMA CheckTypes ==
    ASSUME NEW c, GoodCheck(c), NEW r \in c.todo
    PROVE  /\ c.new[r] \in AP!AutoPkgRecipe /\ c.loaded[r] \in AP!AutoPkgRecipe
           /\ c.filed \in Seq(AP!TrustChangeRequestRead) /\ r \in TrustRecipes
           /\ c.began \in Nat
<1>1. c \in Check /\ r \in DOMAIN c.loaded /\ r \in DOMAIN c.new
  BY DEF GoodCheck
<1>2. \A rows \in Rows : \A q \in DOMAIN rows : rows[q] \in AP!AutoPkgRecipe
  BY DEF Rows
<1> QED
  BY <1>1, <1>2 DEF Check

LEMMA RowTypes ==
    ASSUME NEW row \in AP!AutoPkgRecipe, NEW status \in AP!TrustStatus
    PROVE  /\ [row EXCEPT !.trust_status = status] \in AP!AutoPkgRecipe
           /\ [row EXCEPT !.trust_status = status].trust_status = status
BY DEF AP!AutoPkgRecipe

LEMMA FlushedTypes ==
    ASSUME NEW row \in AP!AutoPkgRecipe, NEW loaded \in AP!AutoPkgRecipe,
           NEW new \in AP!AutoPkgRecipe
    PROVE  /\ AP!Flushed(row, loaded, new) \in AP!AutoPkgRecipe
           /\ AP!Flushed(row, loaded, new).trust_status =
                 IF new.trust_status = loaded.trust_status THEN row.trust_status
                 ELSE new.trust_status
BY DEF AP!Flushed, AP!AutoPkgRecipe

LEMMA Statuses == {"verified", "failed", "pending_approval", "unknown"} = AP!TrustStatus
BY DEF AP!TrustStatus

\* What a handler does with its recipes before it commits.
LEMMA HandlerStep ==
    ASSUME AP!ApprovalsAssumption, ApprovalInv, NEW h \in DOMAIN checks, checks[h] # None,
           \/ \E r \in checks[h].todo : AP!verify_trust(h, r) \/ AP!WalkFails(h, r) \/ AP!Refetch(h, r)
           \/ AP!FileRequest(h) \/ AP!RequestFails(h)
    PROVE  ApprovalInv' /\ UNCHANGED <<trust, requests>>
<1> DEFINE c == checks[h]
<1>1. GoodCheck(c) /\ c # None
  BY DEF ApprovalInv
<1>2. c \in Check /\ \A i \in DOMAIN c.filed : c.filed[i].status = "pending"
  BY <1>1 DEF GoodCheck
<1>3. \A r \in c.todo : /\ c.new[r] \in AP!AutoPkgRecipe /\ c.loaded[r] \in AP!AutoPkgRecipe
                        /\ c.filed \in Seq(AP!TrustChangeRequestRead) /\ r \in TrustRecipes
                        /\ c.began \in Nat
  BY <1>1, CheckTypes
<1>4. \A r \in TrustRecipes : ancestors[r] \in AP!Content
  BY DEF ApprovalInv
<1>5. ASSUME NEW d, AP!Handles(h, d), d # None => GoodCheck(d)
      PROVE  ApprovalInv' /\ UNCHANGED <<trust, requests>>
  BY <1>5, HandlesStep
<1> HIDE DEF c
<1>6. ASSUME NEW r \in c.todo, c.walking \in {None, r},
             NEW row \in AP!AutoPkgRecipe, NEW ended \in BOOLEAN,
             \/ row.trust_status # "pending_approval" \/ c.kind = "bulk"
             \/ row.trust_status = c.loaded[r].trust_status
      PROVE  GoodCheck([AP!Done(c, r, row) EXCEPT !.todo = IF ended THEN {} ELSE @])
             /\ GoodCheck(AP!Done(c, r, row))
  <2> DEFINE d == [c EXCEPT !.new = [c.new EXCEPT ![r] = row], !.todo = c.todo \ {r},
                            !.walking = None, !.walked = 0, !.filed = c.filed]
             e == [c EXCEPT !.new = [c.new EXCEPT ![r] = row],
                            !.todo = IF ended THEN {} ELSE c.todo \ {r},
                            !.walking = None, !.walked = 0, !.filed = c.filed]
  <2>1. AP!Done(c, r, row) = d
    BY <1>2 DEF AP!Done, Check
  <2>2. [AP!Done(c, r, row) EXCEPT !.todo = IF ended THEN {} ELSE @] = e
    BY <1>2 DEF AP!Done, Check
  <2>3. GoodCheck(d) /\ GoodCheck(e)
    <3>1. \A q : Filed(c, q) => \E i \in DOMAIN c.filed : c.filed[i].recipe = q
      BY DEF Filed
    <3>2. c.filed \in Seq(AP!TrustChangeRequestRead)
      BY <1>3, <1>6
    <3>3. GoodCheck(d)
      BY <1>1, <1>2, <1>6, <3>1, <3>2, DoneStep
    <3>4. (IF ended THEN {} ELSE c.todo \ {r}) \in SUBSET (c.todo \ {r})
      OBVIOUS
    <3>5. GoodCheck(e)
      BY <1>1, <1>2, <1>6, <3>1, <3>2, <3>4, DoneStep
    <3> QED
      BY <3>3, <3>5
  <2> QED
    BY <2>1, <2>2, <2>3
<1>7. ASSUME NEW r \in c.todo, AP!verify_trust(h, r)
      PROVE  ApprovalInv' /\ UNCHANGED <<trust, requests>>
  <2> DEFINE verified == [c.new[r] EXCEPT !.trust_status = "verified"]
             blocked == [c.new[r] EXCEPT !.trust_status = "pending_approval"]
             walking == [c EXCEPT !.new[r] = blocked, !.walking = r, !.walked = ancestors[r]]
  <2>1. c.walking = None /\ c.kind # "update"
        /\ AP!Handles(h, IF ancestors[r] = c.loaded[r].trust_info
                            THEN AP!Done(c, r, verified) ELSE walking)
    BY <1>7 DEF AP!verify_trust, c
  <2>2. verified \in AP!AutoPkgRecipe /\ verified.trust_status = "verified"
        /\ blocked \in AP!AutoPkgRecipe
    BY <1>3, <1>7, RowTypes, Statuses
  <2>3. GoodCheck(AP!Done(c, r, verified))
    BY <1>6, <1>7, <2>1, <2>2
  <2> HIDE DEF blocked
  <2>4. GoodCheck(walking)
    <3>1. r \in DOMAIN c.loaded /\ DOMAIN c.new = DOMAIN c.loaded /\ r \in TrustRecipes
          /\ c.todo \subseteq DOMAIN c.loaded
      BY <1>1, <1>3, <1>7 DEF GoodCheck
    <3>2. [c.new EXCEPT ![r] = blocked] \in Rows
          /\ DOMAIN [c.new EXCEPT ![r] = blocked] = DOMAIN c.loaded
          /\ \A q \in DOMAIN c.loaded : [c.new EXCEPT ![r] = blocked][q] = IF q = r THEN blocked ELSE c.new[q]
      <4>1. PICK rs \in SUBSET TrustRecipes : c.new \in [rs -> AP!AutoPkgRecipe]
        BY <1>2 DEF Check, Rows
      <4>2. [c.new EXCEPT ![r] = blocked] \in [rs -> AP!AutoPkgRecipe]
        BY <2>2, <4>1
      <4> QED
        BY <3>1, <4>1, <4>2 DEF Rows
    <3>3. /\ walking.kind = c.kind /\ walking.loaded = c.loaded /\ walking.todo = c.todo
          /\ walking.filed = c.filed /\ walking.new = [c.new EXCEPT ![r] = blocked]
          /\ walking.walking = r
      BY <1>2 DEF Check
    <3>4. walking \in Check
      <4>1. walking = [c EXCEPT !.new = [c.new EXCEPT ![r] = blocked],
                                !.walking = r, !.walked = ancestors[r]]
        BY <1>2 DEF Check
      <4>2. r \in TrustRecipes /\ ancestors[r] \in AP!Content
        BY <1>4, <3>1
      <4> QED
        BY <1>2, <3>2, <4>1, <4>2 DEF Check
    <3> HIDE DEF walking
    <3>5. ASSUME NEW q \in DOMAIN c.loaded PROVE Promised(walking, q)
      <4>1. CASE q = r
        BY <3>3, <4>1 DEF Promised
      <4>2. CASE q # r
        <5>1. Promised(c, q) /\ walking.new[q] = c.new[q]
          BY <1>1, <3>2, <3>3, <4>2 DEF GoodCheck
        <5> QED
          <6>1. c.walking # q
            BY <1>2, <2>1, LoadedRecipes DEF AP!ApprovalsAssumption
          <6>2. Filed(c, q) => Filed(walking, q)
            BY <3>3 DEF Filed
          <6> QED
            BY <3>3, <5>1, <6>1, <6>2 DEF Promised
      <4> QED
        BY <4>1, <4>2
    <3> QED
      BY <1>2, <1>7, <2>1, <3>1, <3>2, <3>3, <3>4, <3>5 DEF GoodCheck
  <2> HIDE DEF walking, verified
  <2> QED
    BY <1>5, <2>1, <2>3, <2>4
<1>8. ASSUME NEW r \in c.todo, AP!WalkFails(h, r)
      PROVE  ApprovalInv' /\ UNCHANGED <<trust, requests>>
  <2> DEFINE left == IF c.kind = "verify" THEN [c.new[r] EXCEPT !.trust_status = "unknown"]
                     ELSE c.new[r]
  <2>1. PICK ended \in BOOLEAN :
           AP!Handles(h, [AP!Done(c, r, left) EXCEPT !.todo = IF ended THEN {} ELSE @])
    BY <1>8 DEF AP!WalkFails, c
  <2>2. c.walking = None /\ c.kind \in {"verify", "bulk"}
    BY <1>8 DEF AP!WalkFails, c
  <2>3. left \in AP!AutoPkgRecipe /\ (left.trust_status # "pending_approval" \/ c.kind = "bulk")
    BY <1>3, <1>8, <2>2, RowTypes, Statuses
  <2> HIDE DEF left
  <2>4. GoodCheck([AP!Done(c, r, left) EXCEPT !.todo = IF ended THEN {} ELSE @])
    BY <1>6, <1>8, <2>2, <2>3
  <2> QED
    BY <1>5, <2>1, <2>4
<1>9. ASSUME NEW r \in c.todo, AP!Refetch(h, r)
      PROVE  ApprovalInv' /\ UNCHANGED <<trust, requests>>
  <2> DEFINE row == [trust_info |-> ancestors[r], trust_status |-> "verified"]
  <2>1. c.kind = "update" /\ (AP!Handles(h, AP!Done(c, r, row)) \/ AP!Handles(h, None))
    BY <1>9 DEF AP!Refetch, c
  <2>2. row \in AP!AutoPkgRecipe /\ row.trust_status # "pending_approval"
    BY <1>3, <1>4, <1>9 DEF AP!AutoPkgRecipe, AP!TrustStatus
  <2>3. c.walking \in {None, r}
    BY <1>1, <1>2, <1>9, <2>1 DEF GoodCheck, Check
  <2> HIDE DEF row
  <2>4. GoodCheck(AP!Done(c, r, row))
    BY <1>6, <1>9, <2>2, <2>3
  <2> QED
    BY <1>5, <2>1, <2>4
<1>10. ASSUME c.walking # None
       PROVE  c.walking \in c.todo /\ c.walking \in {None, c.walking}
  BY <1>1, <1>10 DEF GoodCheck
<1>11. ASSUME AP!RequestFails(h) PROVE ApprovalInv' /\ UNCHANGED <<trust, requests>>
  <2>1. c.walking # None
    BY <1>11 DEF AP!RequestFails, c
  <2>2. CASE c.kind = "verify"
    BY <1>5, <1>11, <2>2 DEF AP!RequestFails, c
  <2>3. CASE c.kind # "verify"
    <3>1. PICK ended \in BOOLEAN :
             AP!Handles(h, [AP!Done(c, c.walking, c.new[c.walking]) EXCEPT
                              !.todo = IF ended THEN {} ELSE @])
      BY <1>11, <2>3 DEF AP!RequestFails, c
    <3>2. c.kind = "bulk"
      BY <1>1, <1>2, <2>1, <2>3 DEF GoodCheck, Check
    <3>3. GoodCheck([AP!Done(c, c.walking, c.new[c.walking]) EXCEPT
                       !.todo = IF ended THEN {} ELSE @])
      BY <1>3, <1>6, <1>10, <2>1, <3>2
    <3> QED
      BY <1>5, <3>1, <3>3
  <2> QED
    BY <2>2, <2>3
<1>12. ASSUME AP!FileRequest(h) PROVE ApprovalInv' /\ UNCHANGED <<trust, requests>>
  <2> DEFINE r == c.walking
             request == [recipe |-> r, diff |-> c.walked, new_trust_info |-> ancestors[r],
                         status |-> "pending", requested_at |-> c.began]
             filed == Append(c.filed, request)
             d == [c EXCEPT !.new = [c.new EXCEPT ![r] = c.new[r]], !.todo = c.todo \ {r},
                            !.walking = None, !.walked = 0, !.filed = filed]
  <2>1. c.walking # None /\ AP!Handles(h, [AP!Done(c, r, c.new[r]) EXCEPT !.filed = Append(@, request)])
    BY <1>12 DEF AP!FileRequest, c
  <2>2. r \in c.todo
    BY <1>10, <2>1
  <2>3. request \in AP!TrustChangeRequestRead /\ request.recipe = r /\ request.status = "pending"
    BY <1>2, <1>3, <1>4, <2>2 DEF AP!TrustChangeRequestRead, Check
  <2>4. [AP!Done(c, r, c.new[r]) EXCEPT !.filed = Append(@, request)] = d
    BY <1>2 DEF AP!Done, Check
  <2> HIDE DEF request
  <2>5. c.filed \in Seq(AP!TrustChangeRequestRead) /\ filed \in Seq(AP!TrustChangeRequestRead)
    BY <1>3, <2>2, <2>3, AppendProperties
  <2>6. /\ DOMAIN c.filed = 1 .. Len(c.filed) /\ Len(c.filed) \in Nat
        /\ DOMAIN filed = 1 .. Len(c.filed) + 1 /\ filed[Len(c.filed) + 1] = request
        /\ \A i \in DOMAIN c.filed : filed[i] = c.filed[i]
    BY <2>3, <2>5, RequestTypes, AppendProperties
  <2> HIDE DEF filed
  <2>7. \A i \in DOMAIN filed : filed[i].status = "pending"
    BY <1>2, <2>3, <2>6
  <2>8. \A q : Filed(c, q) => \E i \in DOMAIN filed : filed[i].recipe = q
    BY <2>6 DEF Filed
  <2>9. \E i \in DOMAIN filed : filed[i].recipe = r
    BY <2>3, <2>6
  <2>10. c.new[r] \in AP!AutoPkgRecipe /\ c.todo \ {r} \in SUBSET (c.todo \ {r})
    BY <1>3, <2>2
  <2>11. GoodCheck(d)
    BY <1>1, <2>2, <2>5, <2>7, <2>8, <2>9, <2>10, DoneStep
  <2> HIDE DEF d
  <2> QED
    BY <1>5, <2>1, <2>4, <2>11
<1> QED
  BY <1>7, <1>8, <1>9, <1>11, <1>12 DEF c

LEMMA CommitStep ==
    ASSUME AP!ApprovalsAssumption, ApprovalInv, NEW h \in DOMAIN checks, checks[h] # None,
           AP!CheckCommits(h)
    PROVE  /\ ApprovalInv'
           /\ \A r \in TrustRecipes : ~AP!Blocked(r) /\ AP!Blocked(r)' => AP!Excused(r)
<1> DEFINE c == checks[h]
           row(r) == IF r \in DOMAIN c.loaded THEN AP!Flushed(trust[r], c.loaded[r], c.new[r])
                     ELSE trust[r]
<1>1. GoodCheck(c) /\ c \in Check /\ c # None
  BY DEF ApprovalInv, GoodCheck
<1>2. /\ c.todo = {} /\ requests' = requests \o c.filed
      /\ checks' = [checks EXCEPT ![h] = None]
      /\ UNCHANGED <<ancestors, decisions, imports, changesListed, approvalStale, approvalTab,
                     approvalEvents>>
  BY DEF AP!CheckCommits, AP!page, AP!Quiet
<1>3. trust' = [r \in TrustRecipes |-> row(r)]
  BY DEF AP!CheckCommits
<1>4. trust \in [TrustRecipes -> AP!AutoPkgRecipe] /\ requests \in Seq(AP!TrustChangeRequestRead)
  BY DEF ApprovalInv, AP!ApprovalsTypeOK
<1> HIDE DEF c
<1>5. ASSUME NEW r \in DOMAIN c.loaded
      PROVE  /\ c.loaded[r] \in AP!AutoPkgRecipe /\ c.new[r] \in AP!AutoPkgRecipe
             /\ r \in TrustRecipes
  <2>1. \A rows \in Rows : DOMAIN rows \subseteq TrustRecipes
                          /\ \A q \in DOMAIN rows : rows[q] \in AP!AutoPkgRecipe
    BY DEF Rows
  <2> QED
    BY <1>1, <1>5, <2>1 DEF GoodCheck, Check
<1>6. ASSUME NEW r \in TrustRecipes
      PROVE  /\ row(r) \in AP!AutoPkgRecipe
             /\ \/ row(r).trust_status = trust[r].trust_status
                \/ /\ r \in DOMAIN c.loaded /\ row(r).trust_status = c.new[r].trust_status
                   /\ c.new[r].trust_status # c.loaded[r].trust_status
  BY <1>4, <1>5, FlushedTypes
<1>7. trust' \in [TrustRecipes -> AP!AutoPkgRecipe] /\ \A r \in TrustRecipes : trust'[r] = row(r)
  BY <1>3, <1>6
<1> HIDE DEF row
<1>8. /\ c.filed \in Seq(AP!TrustChangeRequestRead) /\ requests' \in Seq(AP!TrustChangeRequestRead)
      /\ DOMAIN requests' = 1 .. Len(requests) + Len(c.filed)
      /\ DOMAIN requests = 1 .. Len(requests) /\ DOMAIN c.filed = 1 .. Len(c.filed)
      /\ Len(requests) \in Nat /\ Len(c.filed) \in Nat
      /\ \A i \in DOMAIN requests : requests'[i] = requests[i]
      /\ \A i \in DOMAIN c.filed : requests'[Len(requests) + i] = c.filed[i]
  <2>1. c.filed \in Seq(AP!TrustChangeRequestRead)
    BY <1>1 DEF Check
  <2>2. requests \o c.filed \in Seq(AP!TrustChangeRequestRead)
        /\ Len(requests \o c.filed) = Len(requests) + Len(c.filed)
        /\ \A i \in 1 .. Len(requests) + Len(c.filed) :
              (requests \o c.filed)[i] = IF i <= Len(requests) THEN requests[i]
                                         ELSE c.filed[i - Len(requests)]
    BY <1>4, <2>1, ConcatProperties
  <2>3. /\ DOMAIN requests = 1 .. Len(requests) /\ DOMAIN c.filed = 1 .. Len(c.filed)
        /\ Len(requests) \in Nat /\ Len(c.filed) \in Nat
        /\ DOMAIN requests' = 1 .. Len(requests')
    BY <1>2, <1>4, <2>1, <2>2, RequestTypes
  <2>4. \A i \in DOMAIN requests : requests'[i] = requests[i]
    BY <1>2, <2>2, <2>3
  <2>5. \A i \in DOMAIN c.filed : requests'[Len(requests) + i] = c.filed[i]
    BY <1>2, <2>2, <2>3
  <2> QED
    BY <1>2, <2>1, <2>2, <2>3, <2>4, <2>5
<1>9. ApprovalInv'
  <2>1. /\ DOMAIN checks' = DOMAIN checks /\ checks' = [g \in DOMAIN checks' |-> checks'[g]]
        /\ \A g \in DOMAIN checks : checks'[g] = IF g = h THEN None ELSE checks[g]
    BY <1>2 DEF ApprovalInv
  <2>2. \A g \in DOMAIN checks' : checks'[g] # None => GoodCheck(checks'[g])
    BY <2>1 DEF ApprovalInv
  <2>3. \A w \in DOMAIN decisions' : decisions'[w] # None => GoodDecision(decisions'[w], requests')
    BY <1>2, <1>8 DEF ApprovalInv, GoodDecision
  <2> QED
    BY <1>2, <1>7, <1>8, <2>1, <2>2, <2>3 DEF ApprovalInv, AP!ApprovalsTypeOK
<1>10. ASSUME NEW r \in TrustRecipes, ~AP!Blocked(r), AP!Blocked(r)' PROVE AP!Excused(r)
  <2>1. trust'[r].trust_status = "pending_approval" /\ AP!PendingOf(r)' = {}
    BY <1>10 DEF AP!Blocked
  <2>2. AP!PendingOf(r) = {}
    BY <1>8, <2>1 DEF AP!PendingOf, AP!Pending
  <2>3. ~Filed(c, r)
    <3>1. SUFFICES ASSUME NEW i \in DOMAIN c.filed, c.filed[i].recipe = r PROVE FALSE
      BY DEF Filed
    <3>2. c.filed[i].status = "pending"
      BY <1>1 DEF GoodCheck
    <3>3. Len(requests) + i \in DOMAIN requests'
      BY <1>8
    <3> QED
      BY <1>8, <2>1, <3>1, <3>2, <3>3 DEF AP!PendingOf, AP!Pending
  <2>4. /\ r \in DOMAIN c.loaded /\ c.new[r].trust_status = "pending_approval"
        /\ c.new[r].trust_status # c.loaded[r].trust_status
    BY <1>6, <1>7, <1>10, <2>1, <2>2 DEF AP!Blocked
  <2>5. c.walking # r
    BY <1>1, <1>2, <1>10 DEF GoodCheck, AP!ApprovalsAssumption
  <2>6. c.kind = "bulk" /\ r \in DOMAIN c.new
    BY <1>1, <2>3, <2>4, <2>5 DEF GoodCheck, Promised
  <2>7. AP!BlocksOnly(c, r)
    BY <1>1, <2>3, <2>4, <2>6 DEF AP!BlocksOnly, Filed
  <2>8. checks'[h] = None
    BY <1>2
  <2> QED
    BY <2>7, <2>8 DEF AP!Excused, c
<1> QED
  BY <1>9, <1>10

LEMMA DecideStep ==
    ASSUME AP!ApprovalsAssumption, ApprovalInv, NEW w \in DOMAIN decisions, AP!Decide(w)
    PROVE  /\ ApprovalInv'
           /\ \A r \in TrustRecipes : ~AP!Blocked(r) /\ AP!Blocked(r)' => AP!Excused(r)
<1> DEFINE d == decisions[w]
           i == d.chosen
           new == IF d.approved
                  THEN [trust_info |-> requests[i].new_trust_info, trust_status |-> "verified"]
                  ELSE [d.loaded EXCEPT !.trust_status = "failed"]
           status == IF d.approved THEN "approved" ELSE "rejected"
<1>1. /\ d # None /\ i # 0 /\ requests' = [requests EXCEPT ![i].status = status]
      /\ trust' = [trust EXCEPT ![d.recipe] = AP!Flushed(@, d.loaded, new)]
      /\ decisions' = [decisions EXCEPT ![w] = None]
      /\ approvalStale' \in {approvalStale, approvalStale \cup {"pending-trust-changes"}}
      /\ UNCHANGED <<ancestors, checks, imports, changesListed, approvalTab, approvalEvents>>
  BY DEF AP!Decide
<1>2. trust \in [TrustRecipes -> AP!AutoPkgRecipe] /\ requests \in Seq(AP!TrustChangeRequestRead)
  BY DEF ApprovalInv, AP!ApprovalsTypeOK
<1>3. /\ d.recipe \in TrustRecipes /\ d.loaded \in AP!AutoPkgRecipe /\ d.loaded # None
      /\ i \in DOMAIN requests /\ requests[i].recipe = d.recipe
  BY <1>1 DEF ApprovalInv, GoodDecision, Decision
<1>4. requests[i] \in AP!TrustChangeRequestRead
  BY <1>2, <1>3, RequestTypes
<1> HIDE DEF d, i
<1>5. new \in AP!AutoPkgRecipe /\ new.trust_status # "pending_approval"
  BY <1>3, <1>4 DEF AP!AutoPkgRecipe, AP!TrustChangeRequestRead, AP!TrustStatus
<1> HIDE DEF new
<1>6. /\ AP!Flushed(trust[d.recipe], d.loaded, new) \in AP!AutoPkgRecipe
      /\ AP!Flushed(trust[d.recipe], d.loaded, new).trust_status =
            IF new.trust_status = d.loaded.trust_status THEN trust[d.recipe].trust_status
            ELSE new.trust_status
  BY <1>2, <1>3, <1>5, FlushedTypes
<1>7. trust' \in [TrustRecipes -> AP!AutoPkgRecipe]
      /\ \A r \in TrustRecipes : trust'[r] = IF r = d.recipe
            THEN AP!Flushed(trust[d.recipe], d.loaded, new) ELSE trust[r]
  BY <1>1, <1>2, <1>3, <1>6
<1>8. [requests[i] EXCEPT !.status = status] \in AP!TrustChangeRequestRead
      /\ [requests[i] EXCEPT !.status = status].recipe = requests[i].recipe
  BY <1>4 DEF AP!TrustChangeRequestRead
<1>9. requests' = [requests EXCEPT ![i] = [requests[i] EXCEPT !.status = status]]
  BY <1>1, <1>2, <1>3
<1> HIDE DEF status
<1>10. /\ requests' \in Seq(AP!TrustChangeRequestRead) /\ DOMAIN requests' = DOMAIN requests
       /\ requests'[i].recipe = requests[i].recipe
       /\ \A k \in DOMAIN requests : k # i => requests'[k] = requests[k]
  <2> DEFINE decided == [requests[i] EXCEPT !.status = status]
  <2>1. decided \in AP!TrustChangeRequestRead /\ decided.recipe = requests[i].recipe
        /\ requests' = [requests EXCEPT ![i] = decided]
    BY <1>8, <1>9
  <2> HIDE DEF decided
  <2>2. requests' \in Seq(AP!TrustChangeRequestRead) /\ DOMAIN requests' = DOMAIN requests
        /\ \A k \in DOMAIN requests : k # i => requests'[k] = requests[k]
    BY <1>2, <1>3, <2>1, RequestTypes, ExceptSeq
  <2> QED
    BY <1>2, <1>3, <2>1, <2>2
<1>11. ApprovalInv'
  <2>1. /\ DOMAIN decisions' = DOMAIN decisions
        /\ decisions' = [v \in DOMAIN decisions' |-> decisions'[v]]
        /\ \A v \in DOMAIN decisions : decisions'[v] = IF v = w THEN None ELSE decisions[v]
    BY <1>1 DEF ApprovalInv
  <2>2. \A v \in DOMAIN decisions' : decisions'[v] # None => GoodDecision(decisions'[v], requests')
    BY <1>10, <2>1 DEF ApprovalInv, GoodDecision
  <2>3. approvalStale' \subseteq AP!Queries
    BY <1>1 DEF ApprovalInv, AP!ApprovalsTypeOK, AP!Queries
  <2> QED
    BY <1>1, <1>7, <1>10, <2>1, <2>2, <2>3 DEF ApprovalInv, AP!ApprovalsTypeOK
<1>12. ASSUME NEW r \in TrustRecipes, ~AP!Blocked(r), AP!Blocked(r)' PROVE AP!Excused(r)
  <2>1. trust'[r].trust_status = "pending_approval" /\ AP!PendingOf(r)' = {}
    BY <1>12 DEF AP!Blocked
  <2>2. CASE r # d.recipe
    <3>1. AP!PendingOf(r) = {}
      BY <1>3, <1>10, <2>1, <2>2 DEF AP!PendingOf, AP!Pending
    <3> QED
      BY <1>7, <1>12, <2>1, <2>2, <3>1 DEF AP!Blocked
  <2>3. CASE r = d.recipe
    <3>1. d.loaded.trust_status # "pending_approval"
      BY <1>5, <1>6, <1>7, <2>1, <2>3
    <3>2. AP!LoadedBefore(d, r)
      BY <1>1, <1>3, <2>3, <3>1 DEF AP!LoadedBefore
    <3>3. decisions'[w] = None
      BY <1>1
    <3> QED
      BY <3>2, <3>3 DEF AP!Excused, d
  <2> QED
    BY <2>2, <2>3
<1> QED
  BY <1>11, <1>12

\* A new handler has changed nothing yet.
LEMMA BeginStep ==
    ASSUME AP!ApprovalsAssumption, ApprovalInv, NEW kind \in {"verify", "bulk", "update"},
           NEW rs \in SUBSET TrustRecipes, AP!Begin(kind, rs)
    PROVE  ApprovalInv' /\ UNCHANGED <<trust, requests>>
<1> DEFINE rows == [r \in rs |-> trust[r]]
           c == [kind |-> kind, began |-> approvalEvents, loaded |-> rows, new |-> rows,
                 todo |-> rs, walking |-> None, walked |-> 0, filed |-> <<>>]
<1>1. PICK h \in DOMAIN checks : checks' = [checks EXCEPT ![h] = c]
  BY DEF AP!Begin
<1>2. /\ UNCHANGED <<ancestors, trust, requests, decisions, imports, changesListed, approvalStale,
                     approvalTab>>
      /\ approvalEvents' = approvalEvents + 1
  BY DEF AP!Begin, AP!Event, AP!page
<1>3. rows \in Rows /\ DOMAIN rows = rs
  <2>1. rows \in [rs -> AP!AutoPkgRecipe]
    BY DEF ApprovalInv, AP!ApprovalsTypeOK
  <2> QED
    BY <2>1 DEF Rows
<1> HIDE DEF rows
<1>4. c \in Check
  <2>1. <<>> \in Seq(AP!TrustChangeRequestRead) /\ 0 \in AP!Content /\ approvalEvents \in Nat
    BY DEF ApprovalInv, AP!Content, AP!ApprovalsAssumption
  <2> QED
    BY <1>3, <2>1 DEF Check
<1>5. GoodCheck(c)
  BY <1>3, <1>4 DEF GoodCheck, Promised
<1> HIDE DEF c
<1>6. /\ DOMAIN checks' = DOMAIN checks /\ checks' = [g \in DOMAIN checks' |-> checks'[g]]
      /\ \A g \in DOMAIN checks : checks'[g] = IF g = h THEN c ELSE checks[g]
  BY <1>1 DEF ApprovalInv
<1>7. \A g \in DOMAIN checks' : checks'[g] # None => GoodCheck(checks'[g])
  BY <1>5, <1>6 DEF ApprovalInv
<1>8. \A v \in DOMAIN decisions' : decisions'[v] # None => GoodDecision(decisions'[v], requests')
  BY <1>2 DEF ApprovalInv, GoodDecision
<1> QED
  BY <1>2, <1>6, <1>7, <1>8 DEF ApprovalInv, AP!ApprovalsTypeOK

\* A decision that has not committed leaves the tables alone.
LEMMA DecisionStep ==
    ASSUME ApprovalInv, NEW w \in DOMAIN decisions, NEW d, d # None => GoodDecision(d, requests),
           decisions' = [decisions EXCEPT ![w] = d],
           UNCHANGED <<ancestors, trust, requests, checks, imports, AP!page>>,
           approvalEvents' \in {approvalEvents, approvalEvents + 1}
    PROVE  ApprovalInv' /\ UNCHANGED <<trust, requests>>
<1>1. /\ DOMAIN decisions' = DOMAIN decisions
      /\ decisions' = [v \in DOMAIN decisions' |-> decisions'[v]]
      /\ \A v \in DOMAIN decisions : decisions'[v] = IF v = w THEN d ELSE decisions[v]
  BY DEF ApprovalInv
<1>2. \A v \in DOMAIN decisions' : decisions'[v] # None => GoodDecision(decisions'[v], requests')
  BY <1>1 DEF ApprovalInv, GoodDecision
<1>3. UNCHANGED <<changesListed, approvalStale, approvalTab>> /\ approvalEvents' \in Nat
  BY DEF AP!page, ApprovalInv
<1>4. \A g \in DOMAIN checks' : checks'[g] # None => GoodCheck(checks'[g])
  BY DEF ApprovalInv
<1> QED
  BY <1>1, <1>2, <1>3, <1>4 DEF ApprovalInv, AP!ApprovalsTypeOK

LEMMA ApprovalInit == ASSUME AP!ApprovalsAssumption, AP!Init PROVE ApprovalInv
<1>1. 0 \in AP!Content
  BY DEF AP!ApprovalsAssumption, AP!Content
<1>2. /\ checks = [h \in 1 .. MaxChecks |-> None] /\ decisions = [w \in {"page", "other"} |-> None]
      /\ changesListed = None /\ approvalEvents = 0
  BY DEF AP!Init
<1>3. AP!ApprovalsTypeOK /\ ancestors \in [TrustRecipes -> AP!Content]
  BY <1>1 DEF AP!Init, AP!ApprovalsTypeOK, AP!AutoPkgRecipe, AP!TrustStatus
<1> QED
  BY <1>2, <1>3 DEF ApprovalInv

LEMMA ApprovalNext ==
    ASSUME AP!ApprovalsAssumption, ApprovalInv, AP!Next
    PROVE  /\ ApprovalInv'
           /\ \A r \in TrustRecipes : ~AP!Blocked(r) /\ AP!Blocked(r)' => AP!Excused(r)
<1> DEFINE Good == /\ ApprovalInv'
                   /\ \A r \in TrustRecipes : ~AP!Blocked(r) /\ AP!Blocked(r)' => AP!Excused(r)
<1>1. ASSUME ApprovalInv' /\ UNCHANGED <<trust, requests>> PROVE Good
  BY <1>1 DEF AP!Blocked, AP!PendingOf, AP!Pending
<1>2. ASSUME NEW r \in TrustRecipes, AP!AncestorsChange(r) PROVE Good
  <2>1. ancestors[r] + 1 \in AP!Content /\ ancestors \in [TrustRecipes -> AP!Content]
    BY <1>2 DEF AP!AncestorsChange, AP!Content, ApprovalInv, AP!ApprovalsAssumption
  <2>2. /\ ancestors' \in [TrustRecipes -> AP!Content]
        /\ UNCHANGED <<trust, requests, checks, decisions, imports, changesListed, approvalStale,
                       approvalTab, approvalEvents>>
    BY <1>2, <2>1 DEF AP!AncestorsChange, AP!page, AP!Quiet
  <2> QED
    BY <1>1, <2>2 DEF ApprovalInv, AP!ApprovalsTypeOK, GoodDecision
<1>3. ASSUME NEW r \in TrustRecipes, AP!verify_recipe_trust(r) \/ AP!update_recipe_trust(r) PROVE Good
  BY <1>1, <1>3, BeginStep DEF AP!verify_recipe_trust, AP!update_recipe_trust
<1>4. ASSUME NEW rs \in SUBSET TrustRecipes,
             AP!verify_trust_live_for_recipes(rs) \/ AP!update_repos_and_verify_trust(rs)
      PROVE  Good
  BY <1>1, <1>4, BeginStep DEF AP!verify_trust_live_for_recipes, AP!update_repos_and_verify_trust
<1>5. ASSUME NEW h \in DOMAIN checks, checks[h] # None,
             \/ \E r \in checks[h].todo :
                   AP!verify_trust(h, r) \/ AP!WalkFails(h, r) \/ AP!Refetch(h, r)
             \/ AP!FileRequest(h) \/ AP!RequestFails(h)
      PROVE  Good
  BY <1>1, <1>5, HandlerStep
<1>6. ASSUME NEW h \in DOMAIN checks, checks[h] # None, AP!CheckCommits(h) PROVE Good
  BY <1>6, CommitStep
<1>7. ASSUME NEW r \in TrustRecipes, AP!OtherDecides(r) PROVE Good
  <2>1. PICK approved \in BOOLEAN : decisions' = [decisions EXCEPT !["other"] =
           [recipe |-> r, shown |-> None, approved |-> approved, loaded |-> None, chosen |-> 0]]
    BY <1>7 DEF AP!OtherDecides
  <2>2. GoodDecision([recipe |-> r, shown |-> None, approved |-> approved, loaded |-> None,
                      chosen |-> 0], requests)
    BY DEF GoodDecision, Decision
  <2>3. UNCHANGED <<ancestors, trust, requests, checks, imports, AP!page>>
        /\ approvalEvents' = approvalEvents + 1
    BY <1>7 DEF AP!OtherDecides, AP!Event
  <2>4. "other" \in DOMAIN decisions
    BY DEF ApprovalInv
  <2> QED
    BY <1>1, <2>1, <2>2, <2>3, <2>4, DecisionStep
<1>8. ASSUME NEW w \in DOMAIN decisions, AP!LoadRecipe(w) PROVE Good
  <2> DEFINE d == [decisions[w] EXCEPT !.loaded = trust[decisions[w].recipe]]
  <2>1. /\ decisions[w] # None /\ decisions[w].loaded = None
        /\ decisions' = [decisions EXCEPT ![w].loaded = trust[decisions[w].recipe]]
        /\ UNCHANGED <<ancestors, trust, requests, checks, imports, AP!page>>
        /\ UNCHANGED approvalEvents
    BY <1>8 DEF AP!LoadRecipe, AP!Quiet
  <2>2. GoodDecision(decisions[w], requests)
    BY <2>1 DEF ApprovalInv
  <2>3. decisions' = [decisions EXCEPT ![w] = d]
    BY <2>1
  <2>4. GoodDecision(d, requests)
    <3>1. decisions[w] \in Decision /\ decisions[w].chosen = 0
      BY <2>1, <2>2 DEF GoodDecision
    <3>2. trust[decisions[w].recipe] \in AP!AutoPkgRecipe
      BY <3>1 DEF Decision, ApprovalInv, AP!ApprovalsTypeOK
    <3> QED
      BY <3>1, <3>2 DEF GoodDecision, Decision
  <2> HIDE DEF d
  <2> QED
    BY <1>1, <2>1, <2>3, <2>4, DecisionStep
<1>9. ASSUME NEW w \in DOMAIN decisions, AP!SelectRequest(w) PROVE Good
  <2>1. PICK i \in AP!PendingOf(decisions[w].recipe) :
           decisions' = [decisions EXCEPT ![w].chosen = i]
    BY <1>9 DEF AP!SelectRequest
  <2> DEFINE d == [decisions[w] EXCEPT !.chosen = i]
  <2>2. /\ decisions[w] # None /\ decisions[w].loaded # None
        /\ UNCHANGED <<ancestors, trust, requests, checks, imports, AP!page>>
        /\ UNCHANGED approvalEvents
    BY <1>9 DEF AP!SelectRequest, AP!Quiet
  <2>3. decisions[w] \in Decision
    BY <2>2 DEF ApprovalInv, GoodDecision
  <2>4. decisions' = [decisions EXCEPT ![w] = d]
    BY <2>1
  <2>5. i \in DOMAIN requests /\ i \in Nat /\ requests[i].recipe = decisions[w].recipe
    BY <2>1, RequestTypes DEF AP!PendingOf, AP!Pending, ApprovalInv, AP!ApprovalsTypeOK
  <2>6. GoodDecision(d, requests)
    BY <2>2, <2>3, <2>5 DEF GoodDecision, Decision
  <2> HIDE DEF d
  <2> QED
    BY <1>1, <2>2, <2>4, <2>6, DecisionStep
<1>10. ASSUME NEW w \in DOMAIN decisions, AP!Decide(w) PROVE Good
  BY <1>10, DecideStep
<1>11. ASSUME NEW w \in DOMAIN decisions, AP!Refused(w) PROVE Good
  BY <1>1, <1>11, DecisionStep DEF AP!Refused, AP!Quiet
<1>12. ASSUME AP!trustApproveMutation PROVE Good
  <2>1. PICK card \in AP!TrustCards : decisions' = [decisions EXCEPT !["page"] =
           [recipe |-> card.recipe, shown |-> card.shown, approved |-> card.approved,
            loaded |-> None, chosen |-> 0]]
    BY <1>12 DEF AP!trustApproveMutation
  <2>2. PICK i \in DOMAIN changesListed : \E ok \in BOOLEAN :
           changesListed # None /\
           card = [recipe |-> changesListed[i].recipe, shown |-> changesListed[i].diff, approved |-> ok]
    BY <2>1 DEF AP!TrustCards, AP!isLoading
  <2>3. card.recipe \in TrustRecipes /\ card.shown \in AP!Content /\ card.approved \in BOOLEAN
    BY <2>2 DEF ApprovalInv, AP!TrustChangeRequestRead
  <2>4. GoodDecision([recipe |-> card.recipe, shown |-> card.shown, approved |-> card.approved,
                      loaded |-> None, chosen |-> 0], requests)
    BY <2>3 DEF GoodDecision, Decision
  <2>5. UNCHANGED <<ancestors, trust, requests, checks, imports, AP!page>>
        /\ approvalEvents' = approvalEvents + 1 /\ "page" \in DOMAIN decisions
    BY <1>12 DEF AP!trustApproveMutation, AP!Event, ApprovalInv
  <2> QED
    BY <1>1, <2>1, <2>4, <2>5, DecisionStep
<1>13. ASSUME \/ AP!LoadChanges \/ AP!LoadImports \/ AP!ListsExpire
              \/ \E t \in AP!Tabs : AP!setTab(t)
              \/ AP!approveMutation \/ AP!ImportDecided \/ AP!ImportRefused
       PROVE  Good
  <2>1. UNCHANGED <<ancestors, trust, requests, checks, decisions>>
    BY <1>13 DEF AP!LoadChanges, AP!LoadImports, AP!ListsExpire, AP!setTab, AP!server,
         AP!approveMutation, AP!ImportDecided, AP!ImportRefused
  <2>2. /\ approvalStale' \subseteq AP!Queries /\ approvalTab' \in AP!Tabs \cup {None}
        /\ imports' \subseteq Results
    BY <1>13 DEF AP!LoadChanges, AP!LoadImports, AP!ListsExpire, AP!setTab, AP!server,
         AP!approveMutation, AP!ImportDecided, AP!ImportRefused, AP!Queries, ApprovalInv,
         AP!ApprovalsTypeOK
  <2>3. changesListed' \in {changesListed, AP!PendingList} /\ approvalEvents' \in Nat
    BY <1>13 DEF AP!LoadChanges, AP!LoadImports, AP!ListsExpire, AP!setTab, AP!server,
         AP!approveMutation, AP!ImportDecided, AP!ImportRefused, AP!Quiet, AP!Event, ApprovalInv
  <2>4. \A i \in DOMAIN AP!PendingList : AP!PendingList[i] \in AP!TrustChangeRequestRead
    BY RequestTypes DEF AP!PendingList, AP!Pending, ApprovalInv, AP!ApprovalsTypeOK
  <2>5. changesListed' # None =>
           \A i \in DOMAIN changesListed' : changesListed'[i] \in AP!TrustChangeRequestRead
    BY <2>3, <2>4 DEF ApprovalInv
  <2>6. \A v \in DOMAIN decisions' : decisions'[v] # None => GoodDecision(decisions'[v], requests')
    BY <2>1 DEF ApprovalInv, GoodDecision
  <2> QED
    BY <1>1, <2>1, <2>2, <2>3, <2>5, <2>6 DEF ApprovalInv, AP!ApprovalsTypeOK
<1> HIDE DEF Good
<1>14. QED
  BY <1>2, <1>3, <1>4, <1>5, <1>6, <1>7, <1>8, <1>9, <1>10, <1>11, <1>12, <1>13
     DEF AP!Next, Good

-----------------------------------------------------------------------------
(* ScheduleEditor.                                                         *)

ScheduleRow == [id : Schedules, fields : SC!ScheduleRead]
ScheduleForm ==
    [label : Labels \cup {None}, subset : BOOLEAN, selected : SUBSET Recipes, enabled : BOOLEAN]
ScheduleSave ==
    [id : Schedules \cup {None}, subset : BOOLEAN, fields : SC!ScheduleRead]

ScheduleInv ==
    /\ schedules \in [Schedules -> SC!ScheduleRead \cup {None}]
    /\ schedulesShown # None => schedulesShown \subseteq ScheduleRow
    /\ scheduleDialog # None => scheduleDialog \in [editing : ScheduleRow \cup {None}]
    /\ scheduleForm \in ScheduleForm /\ recipeSearch \subseteq Recipes /\ removing \subseteq Schedules
    /\ saving # None => saving \in ScheduleSave /\ (saving.subset => saving.fields.recipes # SC!All)
    /\ restricted \subseteq Schedules \ SC!Free
    /\ SC!RestrictedStaysRestricted

LEMMA ScheduleInit == ASSUME SC!ScheduleEditorAssumption, SC!Init PROVE ScheduleInv
<1>1. PICK s \in Schedules, l \in Labels, names \in SUBSET Recipes :
         /\ schedules = [x \in Schedules |->
               IF x = s THEN [label |-> l, recipes |-> names, enabled |-> TRUE] ELSE None]
         /\ restricted = IF names = SC!All THEN {} ELSE {s}
  BY DEF SC!Init
<1> DEFINE row == [label |-> l, recipes |-> names, enabled |-> TRUE]
<1>2. row \in SC!ScheduleRead /\ row # None /\ row.recipes = names
  <2>1. row \in SC!ScheduleRead /\ row.recipes = names
    BY DEF SC!ScheduleRead
  <2> HIDE DEF row
  <2> QED
    BY <2>1 DEF SC!ScheduleEditorAssumption
<1> HIDE DEF row
<1>3. schedules = [x \in Schedules |-> IF x = s THEN row ELSE None]
  BY <1>1 DEF row
<1>4. restricted \subseteq Schedules \ SC!Free /\ SC!RestrictedStaysRestricted
  BY <1>1, <1>2, <1>3 DEF SC!Free, SC!RestrictedStaysRestricted
<1>5. SC!emptyScheduleForm \in ScheduleForm
  BY DEF SC!emptyScheduleForm, ScheduleForm
<1> QED
  BY <1>2, <1>3, <1>4, <1>5 DEF SC!Init, ScheduleInv

\* One schedule changes.
LEMMA OneSchedule ==
    ASSUME SC!ScheduleEditorAssumption, ScheduleInv, NEW s \in Schedules,
           NEW new \in SC!ScheduleRead, schedules' = [schedules EXCEPT ![s] = new],
           \/ restricted' = restricted \cup {s} /\ new.recipes # SC!All
           \/ restricted' = restricted \ {s}
    PROVE  /\ schedules' \in [Schedules -> SC!ScheduleRead \cup {None}]
           /\ restricted' \subseteq Schedules \ SC!Free'
           /\ SC!RestrictedStaysRestricted'
<1>1. new # None
  BY DEF SC!ScheduleEditorAssumption
<1> QED
  BY <1>1 DEF ScheduleInv, SC!Free, SC!RestrictedStaysRestricted

LEMMA ScheduleNext == ASSUME SC!ScheduleEditorAssumption, ScheduleInv, SC!Next PROVE ScheduleInv'
<1> DEFINE Server == /\ schedules \in [Schedules -> SC!ScheduleRead \cup {None}]
                     /\ restricted \subseteq Schedules \ SC!Free
                     /\ SC!RestrictedStaysRestricted
           Page == /\ schedulesShown # None => schedulesShown \subseteq ScheduleRow
                   /\ scheduleDialog # None => scheduleDialog \in [editing : ScheduleRow \cup {None}]
                   /\ recipeSearch \subseteq Recipes /\ removing \subseteq Schedules
           Form == scheduleForm \in ScheduleForm
           Sent == saving # None => saving \in ScheduleSave
                                    /\ (saving.subset => saving.fields.recipes # SC!All)
<1>1. Server /\ Page /\ Form /\ Sent
  BY DEF ScheduleInv
<1>2. SUFFICES Server' /\ Page' /\ Form' /\ Sent'
  BY DEF ScheduleInv
<1>3. ASSUME UNCHANGED <<schedules, restricted>> PROVE Server'
  BY <1>1, <1>3 DEF SC!Free, SC!RestrictedStaysRestricted
<1> USE DEF SC!server, SC!queries, SC!dialog, SC!Quiet
<1>4. ASSUME SC!LoadSchedules PROVE Server' /\ Page' /\ Form' /\ Sent'
  <2>1. schedulesShown' \subseteq ScheduleRow
    BY <1>1, <1>4 DEF SC!LoadSchedules, ScheduleRow
  <2> QED
    BY <1>1, <1>3, <1>4, <2>1 DEF SC!LoadSchedules
<1>5. ASSUME SC!LoadRecipes \/ SC!CloseDialog \/ SC!SaveFails
      PROVE  Server' /\ Page' /\ Form' /\ Sent'
  BY <1>1, <1>3, <1>5 DEF SC!LoadRecipes, SC!CloseDialog, SC!SaveFails
<1>6. ASSUME SC!openCreate PROVE Server' /\ Page' /\ Form' /\ Sent'
  <2>1. SC!emptyScheduleForm \in ScheduleForm
    BY DEF SC!emptyScheduleForm, ScheduleForm
  <2> QED
    BY <1>1, <1>3, <1>6, <2>1 DEF SC!openCreate, SC!OpenDialog
<1>7. ASSUME NEW row \in SC!ScheduleRows, SC!openEdit(row)
      PROVE  Server' /\ Page' /\ Form' /\ Sent'
  <2>1. row \in ScheduleRow
    BY <1>1 DEF SC!ScheduleRows
  <2>2. SC!scheduleToForm(row) \in ScheduleForm
    BY <2>1 DEF ScheduleRow, SC!ScheduleRead, SC!scheduleToForm, ScheduleForm
  <2>3. scheduleForm' \in ScheduleForm
    BY <1>7, <2>2 DEF SC!openEdit, SC!OpenDialog, SC!emptyScheduleForm, ScheduleForm
  <2> QED
    BY <1>1, <1>3, <1>7, <2>1, <2>3 DEF SC!openEdit, SC!OpenDialog
<1>8. ASSUME NEW row \in SC!ScheduleRows, SC!Remove(row)
      PROVE  Server' /\ Page' /\ Form' /\ Sent'
  <2>1. row.id \in Schedules
    BY <1>1 DEF SC!ScheduleRows, ScheduleRow
  <2> QED
    BY <1>1, <1>3, <1>8, <2>1 DEF SC!Remove
<1>9. ASSUME NEW form \in ScheduleForm, SC!Fill(form)
      PROVE  Server' /\ Page' /\ Form' /\ Sent'
  BY <1>1, <1>3, <1>9 DEF SC!Fill
<1>10. ASSUME SC!TypeField PROVE Server' /\ Page' /\ Form' /\ Sent'
  <2>1. \A l \in Labels : [scheduleForm EXCEPT !.label = l] \in ScheduleForm
    BY <1>1 DEF ScheduleForm
  <2>2. /\ [scheduleForm EXCEPT !.enabled = ~@] \in ScheduleForm
        /\ [scheduleForm EXCEPT !.subset = ~@] \in ScheduleForm
    BY <1>1 DEF ScheduleForm
  <2> QED
    BY <1>9, <1>10, <2>1, <2>2 DEF SC!TypeField
<1>11. ASSUME NEW r \in Recipes, SC!TickRecipe(r) PROVE Server' /\ Page' /\ Form' /\ Sent'
  <2>1. [scheduleForm EXCEPT !.selected = (@ \cup {r}) \ (@ \cap {r})] \in ScheduleForm
    BY <1>1 DEF ScheduleForm
  <2> QED
    BY <1>9, <1>11, <2>1 DEF SC!TickRecipe
<1>12. ASSUME SC!SelectAll PROVE Server' /\ Page' /\ Form' /\ Sent'
  <2>1. SC!runnableInFilter \subseteq Recipes
    BY <1>1 DEF SC!runnableInFilter
  <2>2. [scheduleForm EXCEPT !.selected =
            IF SC!runnableInFilter \subseteq @ THEN {} ELSE SC!runnableInFilter] \in ScheduleForm
    BY <1>1, <2>1 DEF ScheduleForm
  <2> QED
    BY <1>9, <1>12, <2>2 DEF SC!SelectAll
<1>13. ASSUME NEW names \in SUBSET Recipes, SC!SearchRecipes(names)
       PROVE  Server' /\ Page' /\ Form' /\ Sent'
  BY <1>1, <1>3, <1>13 DEF SC!SearchRecipes
<1>14. ASSUME SC!Save PROVE Server' /\ Page' /\ Form' /\ Sent'
  <2> DEFINE names == IF scheduleForm.subset THEN SC!runnable ELSE SC!All
             fields == [label |-> scheduleForm.label, enabled |-> scheduleForm.enabled,
                        recipes |-> names]
             id == IF scheduleDialog.editing = None THEN None ELSE scheduleDialog.editing.id
  <2>1. names \in SUBSET Recipes /\ (scheduleForm.subset => names # SC!All)
    BY <1>1, <1>14 DEF SC!Save, SC!MaySave, SC!runnable, SC!All, ScheduleForm
  <2>2. saving' = [id |-> id, subset |-> scheduleForm.subset, fields |-> fields]
    BY <1>14 DEF SC!Save
  <2> HIDE DEF names
  <2>3. fields \in SC!ScheduleRead /\ fields.recipes = names
    BY <1>1, <1>14, <2>1 DEF SC!Save, SC!ScheduleRead, ScheduleForm
  <2>4. id \in Schedules \cup {None}
    BY <1>1, <1>14 DEF SC!Save, ScheduleRow
  <2>5. scheduleForm.subset \in BOOLEAN
    BY <1>1 DEF ScheduleForm
  <2> HIDE DEF fields, id
  <2>6. Sent'
    BY <2>1, <2>2, <2>3, <2>4, <2>5 DEF ScheduleSave
  <2> QED
    BY <1>1, <1>3, <1>14, <2>6 DEF SC!Save
<1>15. ASSUME SC!Saved PROVE Server' /\ Page' /\ Form' /\ Sent'
  <2>1. PICK s \in IF saving.id = None THEN SC!Free ELSE {saving.id} \ SC!Free :
           /\ schedules' = [schedules EXCEPT ![s] = saving.fields]
           /\ restricted' = IF saving.subset THEN restricted \cup {s} ELSE restricted \ {s}
    BY <1>15 DEF SC!Saved
  <2>2. /\ saving.id \in Schedules \cup {None} /\ saving.fields \in SC!ScheduleRead
        /\ saving.subset => saving.fields.recipes # SC!All
    BY <1>1, <1>15 DEF SC!Saved, ScheduleSave
  <2>3. s \in Schedules
    BY <2>1, <2>2 DEF SC!Free
  <2>4. Server'
    BY <2>1, <2>2, <2>3, OneSchedule
  <2> QED
    BY <1>1, <1>15, <2>4 DEF SC!Saved
<1>16. ASSUME NEW s \in Schedules, SC!Removed(s) PROVE Server' /\ Page' /\ Form' /\ Sent'
  <2>1. Server'
    BY <1>1, <1>16 DEF SC!Removed, SC!Free, SC!RestrictedStaysRestricted
  <2> QED
    BY <1>1, <1>16, <2>1 DEF SC!Removed
<1>17. ASSUME NEW r \in Recipes, NEW state \in SC!RecipeState, SC!RecipeChanges(r, state)
       PROVE  Server' /\ Page' /\ Form' /\ Sent'
  BY <1>1, <1>3, <1>17 DEF SC!RecipeChanges
<1>18. ASSUME NEW names \in SUBSET Recipes, NEW s \in Schedules, SC!OtherNarrows(s, names)
       PROVE  Server' /\ Page' /\ Form' /\ Sent'
  <2> DEFINE new == [schedules[s] EXCEPT !.recipes = names]
  <2>1. schedules[s] \in SC!ScheduleRead
    BY <1>1, <1>18 DEF SC!OtherNarrows, SC!Free
  <2>2. new \in SC!ScheduleRead /\ new.recipes = names
    BY <2>1 DEF SC!ScheduleRead
  <2>3. schedules' = [schedules EXCEPT ![s] = new]
    BY <1>1, <1>18 DEF SC!OtherNarrows
  <2> HIDE DEF new
  <2>4. Server'
    BY <1>18, <2>2, <2>3, OneSchedule DEF SC!OtherNarrows, SC!All
  <2> QED
    BY <1>1, <1>18, <2>4 DEF SC!OtherNarrows
<1> QED
  BY <1>4, <1>5, <1>6, <1>7, <1>8, <1>10, <1>11, <1>12, <1>13, <1>14, <1>15, <1>16, <1>17, <1>18
     DEF SC!Next

-----------------------------------------------------------------------------
(* OverrideImport.                                                         *)

ImportInv ==
    /\ OI!ImportTypeOK
    /\ importBatch = None => importItems \cap acked = {}
    /\ importBatch # None =>
          /\ importBatch.left \cup importBatch.failed \subseteq importBatch.items
          /\ importBatch.left \cap importBatch.failed = {}
          /\ acked \cap (importBatch.left \cup importBatch.failed) = {}
          /\ acked \cap importItems \subseteq importBatch.items

LEMMA ImportInit == ASSUME OI!Init PROVE ImportInv
BY DEF OI!Init, ImportInv, OI!ImportTypeOK

\* One answer takes its file from those left.
LEMMA AnswerStep ==
    ASSUME OI!ImportAssumption, ImportInv, NEW file \in Files, OI!ImportNext(file)
    PROVE  ImportInv'
<1> DEFINE done == [importBatch EXCEPT !.left = @ \ {file}]
           bad == [importBatch EXCEPT !.left = @ \ {file}, !.failed = @ \cup {file}]
<1>1. importBatch # None /\ importBatch \in OI!Batch /\ file \in importBatch.left
  BY DEF OI!ImportNext, ImportInv, OI!ImportTypeOK
<1>2. /\ done \in OI!Batch /\ done.items = importBatch.items
      /\ done.left = importBatch.left \ {file} /\ done.failed = importBatch.failed
  BY <1>1 DEF OI!Batch
<1>3. /\ bad \in OI!Batch /\ bad.items = importBatch.items
      /\ bad.left = importBatch.left \ {file} /\ bad.failed = importBatch.failed \cup {file}
  BY <1>1 DEF OI!Batch
<1>4. \/ importBatch' = done /\ acked' = acked \cup {file}
      \/ importBatch' = bad /\ UNCHANGED acked
  BY DEF OI!ImportNext
<1> HIDE DEF done, bad
<1>5. /\ importBatch' \in OI!Batch /\ imported' \cup acked' \subseteq Files
      /\ UNCHANGED <<importOpen, importContent, importItems, importSingle>>
  BY <1>2, <1>3, <1>4 DEF OI!ImportNext, OI!dialogVars, OI!Batch, ImportInv, OI!ImportTypeOK
<1>6. OI!ImportTypeOK'
  BY <1>5 DEF ImportInv, OI!ImportTypeOK
<1>7. CASE importBatch' = done /\ acked' = acked \cup {file}
  <2>1. importBatch' # None
    BY <1>2, <1>7 DEF OI!ImportAssumption
  <2> QED
    BY <1>1, <1>2, <1>5, <1>6, <1>7, <2>1 DEF ImportInv
<1>8. CASE importBatch' = bad /\ UNCHANGED acked
  <2>1. importBatch' # None
    BY <1>3, <1>8 DEF OI!ImportAssumption
  <2> QED
    BY <1>1, <1>3, <1>5, <1>6, <1>8, <2>1 DEF ImportInv
<1> QED
  BY <1>4, <1>7, <1>8

LEMMA ImportNext == ASSUME OI!ImportAssumption, ImportInv, OI!Next PROVE ImportInv'
<1> USE DEF ImportInv, OI!dialogVars, OI!Blank
<1>1. ASSUME OI!OpenImport \/ OI!CloseImport PROVE ImportInv'
  <2>1. OI!ImportTypeOK'
    BY <1>1 DEF OI!OpenImport, OI!CloseImport, OI!ImportTypeOK
  <2> QED
    BY <1>1, <2>1 DEF OI!OpenImport, OI!CloseImport
<1>2. ASSUME NEW files \in SUBSET Files \ {{}}, OI!ChooseFiles(files) PROVE ImportInv'
  <2>1. /\ importItems' \in {{}, files} /\ importContent' \in files \cup {None}
        /\ acked' = acked \ files
        /\ UNCHANGED <<imported, importOpen, importBatch, importSingle>>
    BY <1>2 DEF OI!ChooseFiles
  <2>2. OI!ImportTypeOK'
    BY <2>1 DEF OI!ImportTypeOK
  <2> QED
    BY <2>1, <2>2
<1>3. ASSUME NEW file \in Files, OI!TypeContent(file) PROVE ImportInv'
  <2>1. OI!ImportTypeOK'
    BY <1>3 DEF OI!TypeContent, OI!ImportTypeOK
  <2> QED
    BY <1>3, <2>1 DEF OI!TypeContent
<1>4. ASSUME OI!ImportAll PROVE ImportInv'
  <2> DEFINE batch == [items |-> importItems, left |-> importItems, failed |-> {}]
  <2>1. /\ batch \in OI!Batch /\ batch.items = importItems /\ batch.left = importItems
        /\ batch.failed = {}
    BY DEF OI!Batch, OI!ImportTypeOK
  <2>2. importBatch = None /\ importBatch' = batch
        /\ UNCHANGED <<imported, importOpen, importContent, importItems, importSingle, acked>>
    BY <1>4 DEF OI!ImportAll
  <2> HIDE DEF batch
  <2>3. OI!ImportTypeOK'
    BY <2>1, <2>2 DEF OI!ImportTypeOK, OI!Batch
  <2> QED
    BY <2>1, <2>2, <2>3
<1>5. ASSUME OI!BatchDone PROVE ImportInv'
  <2>1. importBatch \in OI!Batch /\ importBatch.left = {} /\ importBatch' = None
        /\ UNCHANGED <<imported, importSingle, acked>>
    BY <1>5 DEF OI!BatchDone, OI!ImportTypeOK
  <2>2. \/ importItems' = {}
        \/ UNCHANGED importItems /\ importBatch.failed = importBatch.items
        \/ importItems' = importBatch.failed
    BY <1>5 DEF OI!BatchDone, OI!KeepFailed
  <2>3. importOpen' \in BOOLEAN /\ importContent' \in Files \cup {None}
    BY <1>5 DEF OI!BatchDone, OI!KeepFailed, OI!ImportTypeOK
  <2>4. OI!ImportTypeOK'
    BY <2>1, <2>2, <2>3 DEF OI!ImportTypeOK, OI!Batch
  <2> QED
    BY <1>5, <2>1, <2>2, <2>4 DEF OI!BatchDone
<1>6. ASSUME OI!ImportOne \/ OI!OneDone PROVE ImportInv'
  <2>1. OI!ImportTypeOK'
    BY <1>6 DEF OI!ImportOne, OI!OneDone, OI!ImportTypeOK
  <2> QED
    BY <1>6, <2>1 DEF OI!ImportOne, OI!OneDone
<1> QED
  BY <1>1, <1>2, <1>3, <1>4, <1>5, <1>6, AnswerStep DEF OI!Next

\* A batch starts with files none of which was acknowledged.
LEMMA ImportStep ==
    ASSUME ImportInv, OI!Next, importBatch = None, importBatch' # None
    PROVE  importBatch'.items \cap acked = {}
BY DEF ImportInv, OI!Next, OI!OpenImport, OI!CloseImport, OI!ChooseFiles, OI!TypeContent,
    OI!ImportNext, OI!ImportAll, OI!BatchDone, OI!ImportOne, OI!OneDone, OI!dialogVars

-----------------------------------------------------------------------------
(* DiscoverPage.                                                           *)

DiscoverInv ==
    /\ repos \in [Repos -> DI!CachedGitHubRepo \cup {None}]
    /\ discovered \subseteq {DI!override_identifier(r) : r \in Repos}
    /\ reposShown # None => \A row \in reposShown : row.id \in Repos
    /\ selectedRepo # None => selectedRepo.id \in Repos
    /\ addRepo \in Repos \cup {None}
    /\ \A c \in discoverCalls : c.what \in {"add repo", "remove", "add"} => c.repo \in Repos
    /\ \A c \in dialogCalls : c.repo \in Repos /\ c \in [what : {"sync", "add"}, repo : Repos, open : BOOLEAN]
    /\ byHand \subseteq Repos /\ \A r \in byHand : repos[r] # None /\ repos[r].is_custom

LEMMA DiscoverInit == ASSUME DI!DiscoverAssumption, DI!Init PROVE DiscoverInv
<1>1. [is_custom |-> FALSE, cached |-> TRUE] \in DI!CachedGitHubRepo
  BY DEF DI!CachedGitHubRepo
<1> QED
  BY <1>1 DEF DI!Init, DiscoverInv

\* What the answers do to the cache of the repositories.
LEMMA CacheSteps ==
    ASSUME DI!DiscoverAssumption, DiscoverInv, NEW r \in Repos,
           \/ DI!ReposSynced \/ DI!RecipesSynced \/ DI!RepoAdded(r) \/ DI!RepoRemoved(r)
           \/ /\ repos[r] # None /\ repos' = [repos EXCEPT ![r].cached = TRUE]
              /\ UNCHANGED byHand
    PROVE  /\ repos' \in [Repos -> DI!CachedGitHubRepo \cup {None}]
           /\ byHand' \subseteq Repos /\ \A q \in byHand' : repos'[q] # None /\ repos'[q].is_custom
<1>1. /\ repos \in [Repos -> DI!CachedGitHubRepo \cup {None}]
      /\ byHand \subseteq Repos /\ \A q \in byHand : repos[q] # None /\ repos[q].is_custom
  BY DEF DiscoverInv
<1>2. \A row \in DI!CachedGitHubRepo :
         /\ [row EXCEPT !.cached = TRUE] \in DI!CachedGitHubRepo
         /\ [row EXCEPT !.cached = TRUE].is_custom = row.is_custom
         /\ row # None
  BY DEF DI!CachedGitHubRepo, DI!DiscoverAssumption
<1>3. CASE DI!ReposSynced
  <2>1. \A q \in Repos : [is_custom |-> FALSE, cached |-> repos[q] # None /\ repos[q].cached]
                            \in DI!CachedGitHubRepo
    BY <1>1 DEF DI!CachedGitHubRepo
  <2>2. /\ repos' = [q \in Repos |->
              CASE q \in organisation ->
                     [is_custom |-> FALSE, cached |-> repos[q] # None /\ repos[q].cached]
                [] q \in DI!Pruned(organisation) -> None
                [] OTHER -> repos[q]]
        /\ byHand' = byHand \ organisation
    BY <1>3 DEF DI!ReposSynced
  <2>3. \A q \in byHand : q \notin DI!Pruned(organisation)
    BY <1>1 DEF DI!Pruned
  <2>4. \A q \in Repos : repos'[q] \in DI!CachedGitHubRepo \cup {None}
    BY <1>1, <2>1, <2>2
  <2>5. \A q \in byHand' : repos'[q] = repos[q]
    BY <1>1, <2>2, <2>3
  <2> QED
    BY <1>1, <2>2, <2>4, <2>5
<1>4. CASE DI!RecipesSynced
  BY <1>1, <1>2, <1>4 DEF DI!RecipesSynced
<1>5. CASE DI!RepoAdded(r)
  <2>1. /\ [is_custom |-> TRUE, cached |-> FALSE] \in DI!CachedGitHubRepo
        /\ [is_custom |-> TRUE, cached |-> FALSE].is_custom
    BY DEF DI!CachedGitHubRepo
  <2> QED
    BY <1>1, <1>2, <1>5, <2>1 DEF DI!RepoAdded
<1>6. CASE DI!RepoRemoved(r)
  BY <1>1, <1>6 DEF DI!RepoRemoved
<1>7. CASE /\ repos[r] # None /\ repos' = [repos EXCEPT ![r].cached = TRUE]
           /\ UNCHANGED byHand
  BY <1>1, <1>2, <1>7
<1> QED
  BY <1>3, <1>4, <1>5, <1>6, <1>7

LEMMA DiscoverNext == ASSUME DI!DiscoverAssumption, DiscoverInv, DI!Next PROVE DiscoverInv'
<1> DEFINE Cached == /\ repos \in [Repos -> DI!CachedGitHubRepo \cup {None}]
                     /\ byHand \subseteq Repos
                     /\ \A r \in byHand : repos[r] # None /\ repos[r].is_custom
           Overridden == discovered \subseteq {DI!override_identifier(r) : r \in Repos}
           Shown == /\ reposShown # None => \A row \in reposShown : row.id \in Repos
                    /\ selectedRepo # None => selectedRepo.id \in Repos
                    /\ addRepo \in Repos \cup {None}
           DialogCall == [what : {"sync", "add"}, repo : Repos, open : BOOLEAN]
           Calls == /\ \A c \in discoverCalls :
                          c.what \in {"add repo", "remove", "add"} => c.repo \in Repos
                    /\ \A c \in dialogCalls : c.repo \in Repos /\ c \in DialogCall
<1>1. Cached /\ Overridden /\ Shown /\ Calls
  BY DEF DiscoverInv
<1>2. SUFFICES Cached' /\ Overridden' /\ Shown' /\ Calls'
  BY DEF DiscoverInv
<1> USE DEF DI!server, DI!cached, DI!dialogs, DI!calls, DI!Quiet
<1>3. ASSUME DI!LoadRepos PROVE Cached' /\ Overridden' /\ Shown' /\ Calls'
  <2>1. \A r : DI!Row(r).id = r
    BY DEF DI!Row
  <2>2. \A row \in reposShown' : row.id \in Repos
    BY <1>3, <2>1 DEF DI!LoadRepos
  <2> QED
    BY <1>1, <1>3, <2>2 DEF DI!LoadRepos
<1>4. ASSUME DI!LoadRecipes \/ DI!Search \/ \E r \in Repos : DI!OrganisationChanges(r)
      PROVE  Cached' /\ Overridden' /\ Shown' /\ Calls'
  BY <1>1, <1>4 DEF DI!LoadRecipes, DI!Search, DI!OrganisationChanges
<1>5. ASSUME NEW b \in DI!HeaderButtons, DI!PressHeader(b)
      PROVE  Cached' /\ Overridden' /\ Shown' /\ Calls'
  <2> DEFINE call == [what |-> b]
  <2>1. b \in {"sync repos", "add repo", "sync recipes"}
    BY DEF DI!HeaderButtons
  <2>2. call.what = b /\ (b # "add repo" => b \notin {"add repo", "remove", "add"})
    BY <2>1
  <2>3. CASE b = "add repo"
    BY <1>1, <1>5, <2>3 DEF DI!PressHeader
  <2>4. CASE b # "add repo"
    <3>1. discoverCalls' = discoverCalls \cup {call} /\ UNCHANGED addRepo
      BY <1>5, <2>4 DEF DI!PressHeader
    <3> HIDE DEF call
    <3>2. Calls'
      BY <1>1, <1>5, <2>2, <2>4, <3>1 DEF DI!PressHeader
    <3> QED
      BY <1>1, <1>5, <3>1, <3>2 DEF DI!PressHeader
  <2> QED
    BY <2>3, <2>4
<1>6. ASSUME NEW card \in DI!RepoCards \cup DI!RecipeCards, DI!PressCard(card)
      PROVE  Cached' /\ Overridden' /\ Shown' /\ Calls'
  <2> DEFINE call == [what |-> card.what, repo |-> card.repo.id]
  <2>1. reposShown # None /\ card.repo \in reposShown
    <3>1. CASE card \in DI!RepoCards
      BY <3>1 DEF DI!RepoCards
    <3>2. CASE card \in DI!RecipeCards
      BY <3>2 DEF DI!RecipeCards
    <3> QED
      BY <3>1, <3>2
  <2>2. card.repo.id \in Repos
    BY <1>1, <2>1
  <2>3. call.repo \in Repos
    BY <2>2
  <2> HIDE DEF call
  <2>4. \/ selectedRepo' = card.repo /\ UNCHANGED discoverCalls
        \/ discoverCalls' = discoverCalls \cup {call} /\ UNCHANGED selectedRepo
    BY <1>6 DEF DI!PressCard, call
  <2> QED
    BY <1>1, <1>6, <2>2, <2>3, <2>4 DEF DI!PressCard
<1>7. ASSUME DI!ConfirmAddRepo PROVE Cached' /\ Overridden' /\ Shown' /\ Calls'
  <2> DEFINE call == [what |-> "add repo", repo |-> addRepo]
  <2>1. call.repo \in Repos
    BY <1>1, <1>7 DEF DI!ConfirmAddRepo
  <2>2. discoverCalls' = discoverCalls \cup {call}
    BY <1>7 DEF DI!ConfirmAddRepo
  <2> HIDE DEF call
  <2> QED
    BY <1>1, <1>7, <2>1, <2>2 DEF DI!ConfirmAddRepo
<1>8. ASSUME DI!CloseDialogs PROVE Cached' /\ Overridden' /\ Shown' /\ Calls'
  <2>1. \A c \in dialogCalls : [c EXCEPT !.open = FALSE] \in DialogCall
                                 /\ [c EXCEPT !.open = FALSE].repo \in Repos
    BY <1>1
  <2>2. dialogCalls' = {[c EXCEPT !.open = FALSE] : c \in dialogCalls}
    BY <1>8 DEF DI!CloseDialogs
  <2>3. \A c \in dialogCalls' : c.repo \in Repos /\ c \in DialogCall
    BY <2>1, <2>2
  <2> QED
    BY <1>1, <1>8, <2>3 DEF DI!CloseDialogs
<1>9. ASSUME NEW b \in DI!RepoRecipesDialog, DI!PressInDialog(b)
      PROVE  Cached' /\ Overridden' /\ Shown' /\ Calls'
  <2>1. b \in {"sync", "add"} /\ selectedRepo # None
    BY DEF DI!RepoRecipesDialog
  <2> DEFINE call == [what |-> b, repo |-> selectedRepo.id, open |-> TRUE]
  <2>2. call \in DialogCall /\ call.repo \in Repos
    BY <1>1, <2>1
  <2>3. dialogCalls' = dialogCalls \cup {call}
    BY <1>9 DEF DI!PressInDialog
  <2> HIDE DEF call
  <2> QED
    BY <1>1, <1>9, <2>2, <2>3 DEF DI!PressInDialog
<1>10. ASSUME NEW r \in Repos, DI!OverrideAdded(r)
       PROVE  Overridden' /\ UNCHANGED <<repos, byHand, selectedRepo, addRepo>>
  BY <1>1, <1>10 DEF DI!OverrideAdded
<1>11. ASSUME NEW c \in discoverCalls, DI!Answered(c)
       PROVE  Cached' /\ Overridden' /\ Shown' /\ Calls'
  <2>1. Calls' /\ UNCHANGED reposShown
    BY <1>1, <1>11 DEF DI!Answered
  <2>2. CASE c.what = "sync repos" /\ DI!ReposSynced
    BY <1>1, <2>1, <2>2, CacheSteps DEF DI!ReposSynced
  <2>3. CASE c.what = "sync recipes" /\ DI!RecipesSynced
    BY <1>1, <2>1, <2>3, CacheSteps DEF DI!RecipesSynced
  <2>4. CASE c.what = "add repo" /\ DI!RepoAdded(c.repo)
    <3>1. c.repo \in Repos
      BY <1>1, <2>4
    <3> QED
      BY <1>1, <2>1, <2>4, <3>1, CacheSteps DEF DI!RepoAdded
  <2>5. CASE c.what = "remove" /\ DI!RepoRemoved(c.repo)
    <3>1. c.repo \in Repos
      BY <1>1, <2>5
    <3> QED
      BY <1>1, <2>1, <2>5, <3>1, CacheSteps DEF DI!RepoRemoved, DI!Unselect
  <2>6. CASE c.what = "add" /\ DI!OverrideAdded(c.repo)
    BY <1>1, <1>10, <2>1, <2>6
  <2>7. CASE DI!CallFails
    BY <1>1, <2>1, <2>7 DEF DI!CallFails
  <2> QED
    BY <1>11, <2>2, <2>3, <2>4, <2>5, <2>6, <2>7 DEF DI!Answered
<1>12. ASSUME NEW c \in dialogCalls, DI!DialogAnswered(c)
       PROVE  Cached' /\ Overridden' /\ Shown' /\ Calls'
  <2>1. Calls' /\ UNCHANGED reposShown /\ c.repo \in Repos
    BY <1>1, <1>12 DEF DI!DialogAnswered
  <2>2. CASE repos[c.repo] # None /\ repos' = [repos EXCEPT ![c.repo].cached = TRUE]
             /\ UNCHANGED <<discovered, byHand, selectedRepo, addRepo>>
    BY <1>1, <2>1, <2>2, CacheSteps
  <2>3. CASE c.what = "add" /\ DI!OverrideAdded(c.repo)
    BY <1>1, <1>10, <2>1, <2>3
  <2>4. CASE DI!CallFails
    BY <1>1, <2>1, <2>4 DEF DI!CallFails
  <2> QED
    BY <1>12, <2>2, <2>3, <2>4 DEF DI!DialogAnswered
<1> QED
  BY <1>3, <1>4, <1>5, <1>6, <1>7, <1>8, <1>9, <1>11, <1>12 DEF DI!Next

LEMMA RemovalStep ==
    ASSUME DI!Next, NEW c \in discoverCalls \ discoverCalls', c.what = "remove",
           repos[c.repo] # None, repos'[c.repo] = None
    PROVE  selectedRepo' = None \/ (selectedRepo' # None /\ selectedRepo'.id # c.repo)
<1>1. DI!Answered(c)
  BY DEF DI!Next, DI!LoadRepos, DI!LoadRecipes, DI!Search, DI!PressHeader, DI!PressCard,
         DI!ConfirmAddRepo, DI!CloseDialogs, DI!PressInDialog, DI!Answered, DI!DialogAnswered,
         DI!OrganisationChanges, DI!calls
<1>2. DI!RepoRemoved(c.repo)
  BY <1>1 DEF DI!Answered, DI!CallFails, DI!server
<1> QED
  BY <1>2 DEF DI!RepoRemoved, DI!Unselect

-----------------------------------------------------------------------------
(* AccessAdmin.                                                            *)

\* No role is in a list twice.
RoleList(list) ==
    /\ list \subseteq AA!RoleRead
    /\ \A r, s \in list : r.id = s.id => r = s

Lists(rows) == rows.users \subseteq AA!UserRolesRead /\ RoleList(rows.roles)

AccessServer ==
    /\ memberships \in [Accounts -> (SUBSET Roles) \cup {None}]
    /\ permissions \in [Roles -> AA!RolePermissions \cup {None}]

AccessInv ==
    /\ AccessServer
    /\ users \subseteq AA!UserRolesRead /\ RoleList(roles)
    /\ \A load \in loads : /\ load = [rows |-> load.rows, opens |-> load.opens]
                           /\ load.rows # None => Lists(load.rows)
    /\ levels \in AA!RolePermissions /\ selected \subseteq Roles /\ touched \in BOOLEAN
    /\ \A c \in accessCalls : /\ c.what = "roles" => c.role_ids \subseteq Roles
                              /\ c.what = "levels" => c.levels \in AA!RolePermissions
    /\ AA!UntouchedLevelsAreListed

LEMMA AccessInit == ASSUME AA!AccessAssumption, AA!Init PROVE AccessInv
<1>1. AA!NoAccess \in AA!RolePermissions
  BY DEF AA!NoAccess, AA!RolePermissions, AA!AccessLevel
<1>2. \A load \in loads : load = [rows |-> load.rows, opens |-> load.opens] /\ load.rows = None
  BY DEF AA!Init
<1>3. RoleList(roles) /\ AA!UntouchedLevelsAreListed
  BY DEF AA!Init, RoleList, AA!UntouchedLevelsAreListed, AA!RoleIn
<1> QED
  BY <1>1, <1>2, <1>3 DEF AA!Init, AccessInv, AccessServer

LEMMA RowsListed == ASSUME AccessServer PROVE Lists(AA!Rows)
<1>1. AA!Rows.users \subseteq AA!UserRolesRead
  <2> SUFFICES ASSUME NEW u \in Accounts, memberships[u] # None
               PROVE  [user_id |-> u, role_ids |-> memberships[u]] \in AA!UserRolesRead
    BY DEF AA!Rows
  <2>1. memberships[u] \in SUBSET Roles
    BY DEF AccessServer
  <2> QED
    BY <2>1 DEF AA!UserRolesRead
<1>2. RoleList(AA!Rows.roles)
  BY DEF AccessServer, AA!Rows, AA!RoleRead, RoleList
<1> QED
  BY <1>1, <1>2 DEF Lists

\* The levels of the dialog are those of the row with the id.
LEMMA ReseedStep ==
    ASSUME NEW list, RoleList(list), NEW id, AA!Reseed(list, id),
           levels \in AA!RolePermissions, touched \in BOOLEAN
    PROVE  /\ levels' \in AA!RolePermissions /\ touched' \in BOOLEAN
           /\ \A r \in AA!RoleIn(list, id) : levels' = r.permissions
<1>1. CASE AA!RoleIn(list, id) = {}
  BY <1>1 DEF AA!Reseed
<1>2. CASE AA!RoleIn(list, id) # {}
  <2> DEFINE row == CHOOSE r \in AA!RoleIn(list, id) : TRUE
  <2>1. row \in AA!RoleIn(list, id)
    BY <1>2
  <2>2. levels' = row.permissions /\ touched' = FALSE
    BY <1>2 DEF AA!Reseed
  <2> HIDE DEF row
  <2>3. row \in AA!RoleRead /\ \A r \in AA!RoleIn(list, id) : r = row
    BY <2>1 DEF AA!RoleIn, RoleList
  <2> QED
    BY <2>2, <2>3 DEF AA!RoleRead
<1> QED
  BY <1>1, <1>2

LEMMA AccessNext == ASSUME AA!AccessAssumption, AccessInv, AA!Next PROVE AccessInv'
<1> DEFINE Listed == users \subseteq AA!UserRolesRead /\ RoleList(roles)
           Loads == \A load \in loads : /\ load = [rows |-> load.rows, opens |-> load.opens]
                                        /\ load.rows # None => Lists(load.rows)
           Levels == levels \in AA!RolePermissions /\ touched \in BOOLEAN
                     /\ AA!UntouchedLevelsAreListed
           Sent == \A c \in accessCalls :
                      /\ c.what = "roles" => c.role_ids \subseteq Roles
                      /\ c.what = "levels" => c.levels \in AA!RolePermissions
           Good == /\ AccessServer /\ Listed /\ Loads /\ Levels /\ Sent
                   /\ selected \subseteq Roles
<1>1. Good
  BY DEF AccessInv
<1>2. SUFFICES Good'
  BY DEF AccessInv
<1> USE DEF AA!rbac, AA!listed, AA!userDialogs, AA!levelsDialog, AA!roleDialogs, AA!Quiet
<1>3. ASSUME UNCHANGED <<memberships, permissions>> PROVE AccessServer'
  BY <1>1, <1>3 DEF AccessServer
<1>4. ASSUME UNCHANGED <<users, roles>> PROVE Listed'
  BY <1>1, <1>4 DEF RoleList
<1>5. ASSUME UNCHANGED loads PROVE Loads'
  BY <1>1, <1>5
<1>6. ASSUME UNCHANGED <<roles, levels, touched>>,
             permissionsDialogRoleId' \in {permissionsDialogRoleId, None}
      PROVE  Levels'
  <2>1. AA!RoleIn(roles, None) = {}
    BY <1>1 DEF AA!RoleIn, RoleList, AA!RoleRead, AA!AccessAssumption
  <2> QED
    BY <1>1, <1>6, <2>1 DEF AA!UntouchedLevelsAreListed, AA!RoleIn
<1>7. ASSUME NEW list, RoleList(list), NEW id, AA!Reseed(list, id), roles' = list,
             permissionsDialogRoleId' = id
      PROVE  Levels'
  BY <1>1, <1>7, ReseedStep DEF AA!UntouchedLevelsAreListed, AA!RoleIn
<1>8. ASSUME NEW load \in loads, AA!ServerReads(load) PROVE Good'
  <2> DEFINE read == [load EXCEPT !.rows = AA!Rows]
  <2>1. read.rows = AA!Rows /\ read = [rows |-> read.rows, opens |-> read.opens]
    BY <1>1
  <2>2. loads' = (loads \ {load}) \cup {read}
    BY <1>8 DEF AA!ServerReads
  <2> HIDE DEF read
  <2>3. Loads'
    BY <1>1, <2>1, <2>2, RowsListed
  <2> QED
    BY <1>1, <1>3, <1>4, <1>6, <1>8, <2>3 DEF AA!ServerReads
<1>9. ASSUME NEW load \in loads, AA!Loaded(load) PROVE Good'
  <2>1. AccessServer' /\ Loads' /\ Sent' /\ (selected \subseteq Roles)'
    BY <1>1, <1>3, <1>9 DEF AA!Loaded
  <2>2. CASE /\ load.rows # None
             /\ users' = load.rows.users /\ roles' = load.rows.roles
             /\ AA!Reseed(load.rows.roles, permissionsDialogRoleId')
    <3>1. Lists(load.rows)
      BY <1>1, <2>2
    <3>2. Listed' /\ Levels'
      BY <1>7, <2>2, <3>1 DEF Lists, RoleList
    <3> QED
      BY <2>1, <3>2
  <2>3. CASE /\ UNCHANGED <<users, roles>>
             /\ IF load.opens = None THEN UNCHANGED <<levels, touched>>
                ELSE AA!Reseed(roles, load.opens)
    <3>1. Listed'
      BY <1>4, <2>3
    <3>2. CASE load.opens = None
      BY <1>6, <1>9, <2>1, <2>3, <3>1, <3>2 DEF AA!Loaded
    <3>3. CASE load.opens # None
      BY <1>1, <1>7, <1>9, <2>1, <2>3, <3>1, <3>3 DEF AA!Loaded
    <3> QED
      BY <3>2, <3>3
  <2> QED
    BY <1>9, <2>2, <2>3 DEF AA!Loaded
<1>10. ASSUME NEW b \in AA!userColumns, AA!PressUser(b) PROVE Good'
  <2>1. b.row \in users
    BY DEF AA!userColumns
  <2>2. b.row.role_ids \subseteq Roles
    BY <1>1, <2>1 DEF AA!UserRolesRead
  <2> QED
    BY <1>1, <1>3, <1>4, <1>5, <1>6, <1>10, <2>2 DEF AA!PressUser
<1>11. ASSUME NEW b \in AA!roleColumns, AA!PressRole(b) PROVE Good'
  <2>1. Levels'
    BY <1>1, <1>6, <1>7, <1>11 DEF AA!PressRole
  <2> QED
    BY <1>1, <1>3, <1>4, <1>5, <1>11, <2>1 DEF AA!PressRole
<1>12. ASSUME AA!PressAddRole \/ AA!CloseDialog PROVE Good'
  BY <1>1, <1>3, <1>4, <1>5, <1>6, <1>12 DEF AA!PressAddRole, AA!CloseDialog
<1>13. ASSUME NEW r \in Roles, AA!TickRole(r) PROVE Good'
  BY <1>1, <1>3, <1>4, <1>5, <1>6, <1>13 DEF AA!TickRole
<1>14. ASSUME NEW p \in AA!ALL_PAGES, NEW l \in AA!AccessLevel, AA!SetLevel(p, l) PROVE Good'
  <2>1. [levels EXCEPT ![p] = l] \in AA!RolePermissions
    BY <1>1 DEF AA!RolePermissions
  <2>2. Levels'
    BY <1>14, <2>1 DEF AA!SetLevel, AA!UntouchedLevelsAreListed
  <2> QED
    BY <1>1, <1>3, <1>4, <1>5, <1>14, <2>2 DEF AA!SetLevel
<1>15. ASSUME NEW call, AA!Send(call),
              /\ call.what = "roles" => call.role_ids \subseteq Roles
              /\ call.what = "levels" => call.levels \in AA!RolePermissions
       PROVE  Good'
  BY <1>1, <1>3, <1>4, <1>5, <1>6, <1>15 DEF AA!Send
<1>16. ASSUME \/ AA!save \/ AA!confirmDeleteUser \/ AA!savePerms \/ AA!submitRole
              \/ AA!confirmDeleteRole
       PROVE  Good'
  BY <1>1, <1>15, <1>16 DEF AA!save, AA!confirmDeleteUser, AA!savePerms, AA!submitRole,
                            AA!confirmDeleteRole
<1>17. ASSUME NEW opens, AA!LoadThenOpen(opens) PROVE Loads'
  <2> DEFINE load == [rows |-> None, opens |-> opens]
  <2>1. load = [rows |-> load.rows, opens |-> load.opens] /\ load.rows = None
    OBVIOUS
  <2>2. loads' = loads \cup {load}
    BY <1>17 DEF AA!LoadThenOpen
  <2> HIDE DEF load
  <2> QED
    BY <1>1, <2>1, <2>2
<1>18. ASSUME NEW c \in accessCalls, AA!Answer(c) PROVE Good'
  <2>1. Sent' /\ (c.what = "roles" => c.role_ids \subseteq Roles)
        /\ (c.what = "levels" => c.levels \in AA!RolePermissions)
    BY <1>1, <1>18 DEF AA!Answer
  <2>2. CASE AA!RolesSaved(c)
    <3>1. AccessServer'
      BY <1>1, <2>1, <2>2 DEF AA!RolesSaved, AccessServer
    <3> QED
      BY <1>1, <1>4, <1>6, <1>17, <2>1, <2>2, <3>1 DEF AA!RolesSaved, AA!Load
  <2>3. CASE AA!UserDeleted(c)
    <3>1. AccessServer'
      <4>1. memberships' = [memberships EXCEPT ![c.user] = None] /\ UNCHANGED permissions
        BY <2>3 DEF AA!UserDeleted
      <4>2. \A u \in Accounts : memberships'[u] \in {memberships[u], None}
        BY <1>1, <4>1 DEF AccessServer
      <4> QED
        BY <1>1, <4>1, <4>2 DEF AccessServer
    <3> QED
      BY <1>1, <1>4, <1>6, <1>17, <2>1, <2>3, <3>1 DEF AA!UserDeleted, AA!Load
  <2>4. CASE AA!LevelsSaved(c)
    <3>1. AccessServer'
      BY <1>1, <2>1, <2>4 DEF AA!LevelsSaved, AccessServer
    <3> QED
      BY <1>1, <1>4, <1>6, <1>17, <2>1, <2>4, <3>1 DEF AA!LevelsSaved, AA!Load
  <2>5. CASE AA!RoleAdded(c)
    <3>1. AA!NoAccess \in AA!RolePermissions
      BY DEF AA!NoAccess, AA!RolePermissions, AA!AccessLevel
    <3>2. AccessServer'
      BY <1>1, <2>5, <3>1 DEF AA!RoleAdded, AccessServer
    <3> QED
      BY <1>1, <1>4, <1>6, <1>17, <2>1, <2>5, <3>2 DEF AA!RoleAdded
  <2>6. CASE AA!RoleDeleted(c)
    <3>1. AccessServer'
      BY <1>1, <2>6 DEF AA!RoleDeleted, AccessServer
    <3> QED
      BY <1>1, <1>4, <1>6, <1>17, <2>1, <2>6, <3>1 DEF AA!RoleDeleted, AA!Load
  <2>7. CASE UNCHANGED <<AA!rbac, AA!listed, AA!userDialogs, AA!roleDialogs>>
    BY <1>1, <1>3, <1>4, <1>5, <1>6, <2>1, <2>7
  <2> QED
    BY <1>18, <2>2, <2>3, <2>4, <2>5, <2>6, <2>7 DEF AA!Answer
<1>19. ASSUME AA!OtherAdmin PROVE Good'
  <2>1. AccessServer'
    BY <1>1, <1>19 DEF AA!OtherAdmin, AccessServer
  <2> QED
    BY <1>1, <1>4, <1>5, <1>6, <1>19, <2>1 DEF AA!OtherAdmin
<1> QED
  BY <1>8, <1>9, <1>10, <1>11, <1>12, <1>13, <1>14, <1>16, <1>18, <1>19 DEF AA!Next

-----------------------------------------------------------------------------
(* OverrideEditor.                                                         *)

Fields == {"general", "input", "pkginfo"}
Form == [general : {"", "a", "b"}, input : OE!Texts, pkginfo : OE!PkginfoForms,
         edited : SUBSET Fields]
Body == [general : {"", "a", "b"}, input : {"string", "json"}, pkginfo : OE!PkginfoForms]
RecipeCall ==
    [kind : {"save", "trust", "delete"}, id : Recipes, key : Recipes, attached : BOOLEAN,
     body : Body \cup {None}, received : OE!Recipe, edited : SUBSET Fields]

\* What the operator left alone is as the recipe shown has it.
FormOf(form, recipe) ==
    /\ "general" \notin form.edited => form.general = recipe.general
    /\ "input" \notin form.edited => form.input = OE!kvFromDict(recipe.input)
    /\ "pkginfo" \notin form.edited => form.pkginfo = OE!extractPkginfo(recipe.pkginfo)

BodyOf(c) ==
    /\ "general" \notin c.edited => c.body.general = c.received.general
    /\ "input" \notin c.edited => c.body.input = OE!kvToDict(OE!kvFromDict(c.received.input))
    /\ "pkginfo" \notin c.edited => c.body.pkginfo = OE!extractPkginfo(c.received.pkginfo)

GoodCall(c) ==
    /\ c \in RecipeCall /\ c.id = c.received.id
    /\ c.kind = "save" => c.body \in Body /\ BodyOf(c)

FormInv ==
    overrideForm # None =>
        /\ OE!shownRecipe # None /\ overrideForm \in Form
        /\ FormOf(overrideForm, OE!shownRecipe)

RecipeInv ==
    /\ recipes \in [Recipes -> OE!Recipe \cup {None}]
    /\ recipeCache \in [Recipes -> OE!Recipe \cup {None}]
    /\ recipeStale \subseteq Recipes
    /\ recipeAnswer # None => recipeAnswer.key \in Recipes /\ recipeAnswer.recipe \in OE!Recipe
    /\ recipePage \in Recipes \cup {None}
    /\ FormInv
    /\ \A c \in recipeCalls : GoodCall(c)

LEMMA LoadedForm ==
    ASSUME NEW recipe \in OE!Recipe, OE!RecipeAssumption
    PROVE  OE!Loaded(recipe) \in Form /\ FormOf(OE!Loaded(recipe), recipe)
<1>1. recipe # None
  BY DEF OE!RecipeAssumption
<1>2. OE!kvFromDict(recipe.input) \in OE!Texts
  BY DEF OE!kvFromDict, OE!Texts
<1>3. OE!extractPkginfo(recipe.pkginfo) \in OE!PkginfoForms
  BY DEF OE!extractPkginfo, OE!PkginfoForms
<1>4. recipe.general \in {"", "a", "b"}
  BY DEF OE!Recipe
<1> QED
  BY <1>1, <1>2, <1>3, <1>4 DEF OE!Loaded, Form, FormOf

LEMMA RecipeInit == ASSUME OE!RecipeAssumption, OE!Init PROVE RecipeInv
<1> DEFINE fresh(id) == [id |-> id, general |-> "a", input |-> "string",
                         pkginfo |-> "no keys", trust |-> FALSE]
<1>1. \A id \in Recipes : fresh(id) \in OE!Recipe
  BY DEF OE!Recipe, OE!Stored, OE!PkginfoForms
<1>2. recipes = [id \in Recipes |-> fresh(id)]
  BY DEF OE!Init
<1> HIDE DEF fresh
<1>3. FormInv
  <2>1. CASE overrideForm = None
    BY <2>1 DEF FormInv
  <2>2. CASE /\ recipePage \in Recipes /\ recipeCache = recipes
             /\ overrideForm = OE!Loaded(recipes[recipePage])
    <3>1. recipes[recipePage] \in OE!Recipe /\ recipes[recipePage] # None /\ recipePage # None
      BY <1>1, <1>2, <2>2 DEF OE!RecipeAssumption
    <3> QED
      BY <2>2, <3>1, LoadedForm DEF FormInv, OE!shownRecipe
  <2> QED
    BY <2>1, <2>2 DEF OE!Init
<1>4. recipes \in [Recipes -> OE!Recipe \cup {None}]
  BY <1>1, <1>2
<1>5. recipeCache \in [Recipes -> OE!Recipe \cup {None}] /\ recipePage \in Recipes \cup {None}
  BY <1>4 DEF OE!Init
<1> QED
  BY <1>3, <1>4, <1>5 DEF OE!Init, RecipeInv

LEMMA RerenderStep ==
    ASSUME NEW calls, \A c \in calls : GoodCall(c), NEW fetched \in OE!Recipe \cup {None}
    PROVE  \A c \in OE!Rerender(calls, fetched) : GoodCall(c)
<1> SUFFICES ASSUME NEW c \in calls
             PROVE  GoodCall(IF ~c.attached THEN c
                             ELSE IF fetched = None THEN [c EXCEPT !.attached = FALSE]
                             ELSE [c EXCEPT !.key = fetched.id])
  BY DEF OE!Rerender
<1>1. GoodCall(c)
  OBVIOUS
<1>2. GoodCall([c EXCEPT !.attached = FALSE])
  BY <1>1 DEF GoodCall, RecipeCall, BodyOf
<1>3. fetched # None => GoodCall([c EXCEPT !.key = fetched.id])
  <2>1. fetched # None => fetched.id \in Recipes
    BY DEF OE!Recipe
  <2> QED
    BY <1>1, <2>1 DEF GoodCall, RecipeCall, BodyOf
<1> QED
  BY <1>1, <1>2, <1>3

\* The fields follow the recipe that is shown.
LEMMA FormStep ==
    ASSUME OE!RecipeAssumption, FormInv, NEW fetched \in OE!Recipe \cup {None}, OE!Reload(fetched),
           OE!shownRecipe' = fetched
    PROVE  FormInv'
<1>1. CASE fetched = OE!shownRecipe /\ overrideForm # None
  <2>1. overrideForm' = overrideForm /\ OE!shownRecipe' = OE!shownRecipe
    BY <1>1 DEF OE!Reload
  <2> QED
    BY <2>1 DEF FormInv, FormOf
<1>2. CASE ~(fetched = OE!shownRecipe /\ overrideForm # None)
  <2>1. overrideForm' = OE!Loaded(fetched)
    BY <1>2 DEF OE!Reload
  <2>2. CASE fetched = None
    BY <2>1, <2>2 DEF OE!Loaded, FormInv
  <2>3. CASE fetched \in OE!Recipe
    <3>1. fetched # None
      BY <2>3 DEF OE!RecipeAssumption
    <3> QED
      BY <2>1, <2>3, <3>1, LoadedForm DEF FormInv
  <2> QED
    BY <2>2, <2>3
<1> QED
  BY <1>1, <1>2

\* What is cached under a key, the page being the same.
LEMMA CacheStep ==
    ASSUME OE!RecipeAssumption, RecipeInv, NEW key \in Recipes, NEW recipe \in OE!Recipe,
           OE!Cache(key, recipe), UNCHANGED recipePage
    PROVE  recipeCache' \in [Recipes -> OE!Recipe \cup {None}] /\ FormInv'
<1>1. /\ recipeCache \in [Recipes -> OE!Recipe \cup {None}] /\ FormInv
      /\ recipeCache' = [recipeCache EXCEPT ![key] = recipe]
  BY DEF RecipeInv, OE!Cache
<1>2. recipeCache' \in [Recipes -> OE!Recipe \cup {None}]
  BY <1>1
<1>3. CASE key = recipePage
  <2>1. OE!shownRecipe' = recipe /\ OE!Reload(recipe)
    BY <1>1, <1>3 DEF OE!shownRecipe, OE!Cache, OE!RecipeAssumption
  <2> QED
    BY <1>1, <1>2, <2>1, FormStep
<1>4. CASE key # recipePage
  <2>1. OE!shownRecipe' = OE!shownRecipe /\ UNCHANGED overrideForm
    BY <1>1, <1>4 DEF OE!shownRecipe, OE!Cache, RecipeInv
  <2> QED
    BY <1>1, <1>2, <2>1 DEF FormInv, FormOf
<1> QED
  BY <1>3, <1>4

LEMMA CallStep ==
    ASSUME RecipeInv, NEW kind \in {"save", "trust", "delete"}, NEW body \in Body \cup {None},
           OE!Call(kind, body), overrideForm # None, OE!RecipeAssumption,
           kind = "save" => body = OE!currentSnapshot /\ body \in Body
    PROVE  \A c \in recipeCalls' : GoodCall(c)
<1> DEFINE call == [kind |-> kind, id |-> OE!shownRecipe.id, key |-> OE!shownRecipe.id,
                    attached |-> TRUE, body |-> body, received |-> OE!shownRecipe,
                    edited |-> overrideForm.edited]
<1>1. /\ OE!shownRecipe \in OE!Recipe /\ OE!shownRecipe.id \in Recipes
      /\ overrideForm \in Form /\ FormOf(overrideForm, OE!shownRecipe)
  BY DEF RecipeInv, FormInv, OE!shownRecipe, OE!Recipe
<1>2. call \in RecipeCall /\ call.id = call.received.id
  BY <1>1 DEF RecipeCall, Form
<1>3. kind = "save" => BodyOf(call)
  BY <1>1 DEF BodyOf, FormOf, OE!currentSnapshot
<1>4. GoodCall(call)
  BY <1>2, <1>3 DEF GoodCall
<1>5. recipeCalls' = recipeCalls \cup {call}
  BY DEF OE!Call
<1> HIDE DEF call
<1> QED
  BY <1>4, <1>5 DEF RecipeInv

LEMMA RecipeNext == ASSUME OE!RecipeAssumption, RecipeInv, OE!Next PROVE RecipeInv'
<1> DEFINE Server == recipes \in [Recipes -> OE!Recipe \cup {None}]
           Cached == recipeCache \in [Recipes -> OE!Recipe \cup {None}]
           Answer == recipeAnswer # None =>
                        recipeAnswer.key \in Recipes /\ recipeAnswer.recipe \in OE!Recipe
           Page == recipeStale \subseteq Recipes /\ recipePage \in Recipes \cup {None}
           Calls == \A c \in recipeCalls : GoodCall(c)
           Good == Server /\ Cached /\ Answer /\ Page /\ FormInv /\ Calls
<1>1. Good
  BY DEF RecipeInv
<1>2. SUFFICES Good'
  BY DEF RecipeInv
<1> USE DEF OE!serverState, OE!pageState, OE!boundState, OE!Free
<1>3. ASSUME UNCHANGED <<recipeCache, recipePage, overrideForm>> PROVE FormInv'
  BY <1>1, <1>3 DEF FormInv, FormOf, OE!shownRecipe
<1>4. ASSUME OE!RequestRecipe PROVE Good'
  <2>1. recipePage \in Recipes /\ recipes[recipePage] \in OE!Recipe
    BY <1>1, <1>4 DEF OE!RequestRecipe
  <2>2. Answer'
    BY <1>4, <2>1 DEF OE!RequestRecipe
  <2> QED
    BY <1>1, <1>3, <1>4, <2>2 DEF OE!RequestRecipe
<1>5. ASSUME OE!AnswerRecipe PROVE Good'
  <2>1. recipeAnswer.key \in Recipes /\ recipeAnswer.recipe \in OE!Recipe
    BY <1>1, <1>5 DEF OE!AnswerRecipe
  <2>2. Cached' /\ FormInv'
    BY <1>5, <2>1, CacheStep DEF OE!AnswerRecipe
  <2>3. Calls'
    BY <1>1, <1>5, <2>1, RerenderStep DEF OE!AnswerRecipe
  <2> QED
    BY <1>1, <1>5, <2>2, <2>3 DEF OE!AnswerRecipe
<1>6. ASSUME NEW to \in Recipes \cup {None}, OE!Navigate(to) PROVE Good'
  <2> DEFINE fetched == IF to = None THEN None ELSE recipeCache[to]
  <2>1. fetched \in OE!Recipe \cup {None}
    BY <1>1
  <2>2. /\ OE!Reload(fetched) /\ recipeCalls' = OE!Rerender(recipeCalls, fetched)
        /\ OE!shownRecipe' = fetched
    BY <1>6 DEF OE!Navigate, OE!shownRecipe
  <2> HIDE DEF fetched
  <2>3. FormInv' /\ Calls'
    BY <1>1, <2>1, <2>2, FormStep, RerenderStep
  <2> QED
    BY <1>1, <1>6, <2>3 DEF OE!Navigate
<1>7. ASSUME OE!LoseEdit \/ OE!ClickEdit PROVE Good'
  BY <1>1, <1>3, <1>7 DEF OE!LoseEdit, OE!ClickEdit
<1>8. ASSUME NEW id \in Recipes, OE!StaleTime(id) PROVE Good'
  BY <1>1, <1>3, <1>8 DEF OE!StaleTime
<1>9. ASSUME NEW id \in Recipes, OE!OtherEdits(id) PROVE Good'
  <2>1. PICK v \in OE!Stored : recipes' = [recipes EXCEPT ![id].general = "b", ![id].input = v]
    BY <1>9 DEF OE!OtherEdits
  <2>2. recipes[id] \in OE!Recipe
    BY <1>1, <1>9 DEF OE!OtherEdits
  <2>3. [recipes[id] EXCEPT !.general = "b", !.input = v] \in OE!Recipe
    BY <2>2 DEF OE!Recipe
  <2>4. recipes' = [recipes EXCEPT ![id] = [recipes[id] EXCEPT !.general = "b", !.input = v]]
    BY <1>1, <2>1, <2>2
  <2>5. Server'
    BY <1>1, <2>3, <2>4
  <2> QED
    BY <1>1, <1>3, <1>9, <2>5 DEF OE!OtherEdits
<1>10. ASSUME OE!handleCancelEdit PROVE Good'
  <2>1. OE!shownRecipe \in OE!Recipe /\ OE!shownRecipe # None
    BY <1>1, <1>10 DEF OE!handleCancelEdit, OE!HeaderButtons, FormInv, OE!shownRecipe
  <2>2. OE!shownRecipe' = OE!shownRecipe /\ overrideForm' = OE!Loaded(OE!shownRecipe)
    BY <1>10 DEF OE!handleCancelEdit, OE!shownRecipe
  <2>3. FormInv' /\ Calls'
    BY <1>1, <1>10, <2>1, <2>2, LoadedForm, RerenderStep DEF OE!handleCancelEdit, FormInv
  <2> QED
    BY <1>1, <1>10, <2>3 DEF OE!handleCancelEdit
<1>11. ASSUME NEW field \in Fields, NEW value, OE!ChangeField(field, value),
              [overrideForm EXCEPT ![field] = value, !.edited = @ \cup {field}] \in Form,
              FormOf([overrideForm EXCEPT ![field] = value, !.edited = @ \cup {field}],
                     OE!shownRecipe)
       PROVE  Good'
  <2>1. OE!shownRecipe' = OE!shownRecipe /\ overrideForm # None
    BY <1>11 DEF OE!ChangeField, OE!shownRecipe
  <2>2. FormInv'
    BY <1>1, <1>11, <2>1 DEF OE!ChangeField, FormInv
  <2> QED
    BY <1>1, <1>11, <2>2 DEF OE!ChangeField
<1>12. ASSUME OE!GeneralTab \/ OE!InputTab \/ OE!PkginfoTab PROVE Good'
  <2>1. overrideForm \in Form /\ FormOf(overrideForm, OE!shownRecipe)
    BY <1>1, <1>12 DEF OE!GeneralTab, OE!InputTab, OE!PkginfoTab, OE!ChangeField, FormInv
  <2>2. CASE OE!GeneralTab
    <3>1. PICK x \in {"", "a", "b"} : OE!ChangeField("general", x)
      BY <2>2 DEF OE!GeneralTab
    <3> DEFINE form == [overrideForm EXCEPT !["general"] = x, !.edited = @ \cup {"general"}]
    <3>2. form \in Form /\ FormOf(form, OE!shownRecipe) /\ "general" \in Fields
      BY <2>1 DEF Form, FormOf, Fields
    <3> QED
      BY <1>11, <3>1, <3>2
  <2>3. CASE OE!InputTab
    <3>1. PICK x \in OE!Texts : OE!ChangeField("input", x)
      BY <2>3 DEF OE!InputTab
    <3> DEFINE form == [overrideForm EXCEPT !["input"] = x, !.edited = @ \cup {"input"}]
    <3>2. form \in Form /\ FormOf(form, OE!shownRecipe) /\ "input" \in Fields
      BY <2>1 DEF Form, FormOf, Fields
    <3> QED
      BY <1>11, <3>1, <3>2
  <2>4. CASE OE!PkginfoTab
    <3>1. PICK x \in {"cleared", "set"} : OE!ChangeField("pkginfo", x)
      BY <2>4 DEF OE!PkginfoTab
    <3> DEFINE form == [overrideForm EXCEPT !["pkginfo"] = x, !.edited = @ \cup {"pkginfo"}]
    <3>2. form \in Form /\ FormOf(form, OE!shownRecipe) /\ "pkginfo" \in Fields
      BY <2>1 DEF Form, FormOf, Fields, OE!PkginfoForms
    <3> QED
      BY <1>11, <3>1, <3>2
  <2> QED
    BY <1>12, <2>2, <2>3, <2>4
<1>13. ASSUME NEW kind, NEW body, OE!Call(kind, body), \A c \in recipeCalls' : GoodCall(c)
       PROVE  Good'
  BY <1>1, <1>3, <1>13 DEF OE!Call, OE!Within
<1>14. ASSUME OE!handleSave PROVE Good'
  <2>1. OE!Call("save", OE!currentSnapshot) /\ overrideForm # None
    BY <1>14 DEF OE!handleSave, OE!HeaderButtons
  <2>2. OE!currentSnapshot \in Body
    BY <1>1, <2>1 DEF FormInv, Form, OE!currentSnapshot, Body, OE!kvToDict
  <2> QED
    BY <1>13, <2>1, <2>2, CallStep
<1>15. ASSUME OE!updateTrust PROVE Good'
  BY <1>13, <1>15, CallStep DEF OE!updateTrust
<1>16. ASSUME OE!confirmDeleteOverride PROVE Good'
  <2>1. OE!Call("delete", None) /\ overrideForm # None
    BY <1>16 DEF OE!confirmDeleteOverride, OE!HeaderButtons
  <2> QED
    BY <1>13, <2>1, CallStep
<1>17. ASSUME NEW c \in recipeCalls, OE!SaveDone(c) PROVE Good'
  <2> DEFINE saved == [recipes[c.id] EXCEPT !.general = c.body.general, !.input = c.body.input,
                                            !.pkginfo = c.body.pkginfo]
  <2>1. /\ c.id \in Recipes /\ c.key \in Recipes /\ c.body \in Body
        /\ recipes[c.id] \in OE!Recipe
    BY <1>1, <1>17 DEF OE!SaveDone, GoodCall, RecipeCall
  <2>2. saved \in OE!Recipe
    BY <2>1 DEF Body, OE!Recipe, OE!Stored
  <2>3. /\ recipes' = [recipes EXCEPT ![c.id] = saved] /\ OE!Cache(c.key, saved)
        /\ recipeCalls' = IF c.key = recipePage THEN OE!Rerender(recipeCalls \ {c}, saved)
                          ELSE recipeCalls \ {c}
        /\ UNCHANGED <<recipePage, recipeAnswer>> /\ recipeStale' = recipeStale \ {c.key}
    BY <1>17 DEF OE!SaveDone
  <2> HIDE DEF saved
  <2>4. Cached' /\ FormInv'
    BY <2>1, <2>2, <2>3, CacheStep
  <2>5. Calls'
    BY <1>1, <2>2, <2>3, RerenderStep
  <2> QED
    BY <1>1, <2>1, <2>2, <2>3, <2>4, <2>5
<1>18. ASSUME NEW c \in recipeCalls, OE!TrustDone(c) PROVE Good'
  <2>1. c.id \in Recipes /\ recipes[c.id] \in OE!Recipe
    BY <1>1, <1>18 DEF OE!TrustDone, GoodCall, RecipeCall
  <2>2. [recipes[c.id] EXCEPT !.trust = TRUE] \in OE!Recipe
    BY <2>1 DEF OE!Recipe
  <2>3. Server'
    BY <1>1, <1>18, <2>1, <2>2 DEF OE!TrustDone
  <2> QED
    BY <1>1, <1>3, <1>18, <2>3 DEF OE!TrustDone, OE!Done
<1>19. ASSUME NEW c \in recipeCalls, OE!DeleteDone(c) PROVE Good'
  <2>1. Calls'
    BY <1>1, <1>19, RerenderStep DEF OE!DeleteDone
  <2> QED
    BY <1>1, <1>19, <2>1 DEF OE!DeleteDone, FormInv
<1>20. ASSUME NEW c \in recipeCalls, OE!CallFails(c) PROVE Good'
  BY <1>1, <1>3, <1>20 DEF OE!CallFails, OE!Done
<1> QED
  BY <1>4, <1>5, <1>6, <1>7, <1>8, <1>9, <1>10, <1>12, <1>14, <1>15, <1>16, <1>17, <1>18, <1>19,
     <1>20 DEF OE!Next

-----------------------------------------------------------------------------
(* RecipesPage and RunsPage.                                               *)

Bad(check) == check.failed \cup check.error
SpareBad(names, check) ==
    (Bad(check) # {} => names # RU!All) /\ names \cap Bad(check) = {}

ListInv ==
    /\ trustIssue # None => trustIssue.ok \cap Bad(trustIssue) = {}
    /\ runPost # None => SpareBad(runPost.names, runPost.check)
    /\ RU!FailedCheckNeverRuns
    /\ verifying # None /\ verifying.names = RU!All => meantAll
    /\ RU!RunAllWasMeant

LEMMA ChecksSplit ==
    ASSUME NEW names, NEW check \in RU!Checks(names)
    PROVE  check.ok \cap Bad(check) = {}
BY DEF RU!Checks, Bad

LEMMA ListInit == ASSUME RU!RunsInit PROVE ListInv
BY DEF RU!RunsInit, RU!Init, ListInv, RU!FailedCheckNeverRuns, RU!RunAllWasMeant

\* The steps that only touch what the flow does not read.
LEMMA FlowApart ==
    ASSUME ListInv, UNCHANGED <<verifying, trustIssue, runPost, startedRuns, meantAll>>
    PROVE  ListInv'
BY DEF ListInv, RU!FailedCheckNeverRuns, RU!RunAllWasMeant

LEMMA FlowSteps ==
    ASSUME ListInv, UNCHANGED meantAll,
           \/ RU!onQuickRunConfirm \/ RU!VerifyFails
           \/ RU!onTrustDialogStop \/ RU!onTrustDialogContinue \/ RU!RunPosted \/ RU!RunRefused
    PROVE  ListInv'
<1> USE DEF ListInv, RU!RunAllWasMeant, RU!FailedCheckNeverRuns, RU!listVars, RU!runVars
<1>1. ASSUME RU!onQuickRunConfirm PROVE ListInv'
  <2>1. PICK check \in RU!Checks(verifying.names) :
           IF check.failed \cup check.error = {}
           THEN runPost' = [names |-> verifying.names, check |-> check] /\ UNCHANGED trustIssue
           ELSE trustIssue' = check /\ UNCHANGED runPost
    BY <1>1 DEF RU!onQuickRunConfirm
  <2>2. verifying # None /\ verifying' = None /\ UNCHANGED startedRuns
    BY <1>1 DEF RU!onQuickRunConfirm
  <2> QED
    BY <2>1, <2>2, ChecksSplit DEF Bad, SpareBad
<1>2. ASSUME RU!onTrustDialogContinue PROVE ListInv'
  BY <1>2 DEF RU!onTrustDialogContinue, RU!NamesLeft, SpareBad, RU!All
<1>3. ASSUME RU!RunPosted PROVE ListInv'
  BY <1>3 DEF RU!RunPosted, SpareBad, Bad
<1>4. ASSUME RU!VerifyFails \/ RU!onTrustDialogStop \/ RU!RunRefused PROVE ListInv'
  BY <1>4 DEF RU!VerifyFails, RU!onTrustDialogStop, RU!RunRefused
<1> QED
  BY <1>1, <1>2, <1>3, <1>4

\* The list of recipes, where nobody picks a part of the recipes to mean all.
LEMMA ListNext == ASSUME ListInv, meantAll, RU!Next, UNCHANGED meantAll PROVE ListInv'
<1> USE DEF RU!listVars, RU!runVars
<1>1. ASSUME RU!handleRun PROVE ListInv'
  BY <1>1 DEF RU!handleRun, ListInv, RU!FailedCheckNeverRuns, RU!RunAllWasMeant
<1>2. ASSUME \/ RU!LoadList \/ RU!TurnPage
             \/ \E f \in RU!Filters : RU!applyListFilter(f) \/ RU!FilterFromAddress(f)
             \/ \E r \in Overrides : RU!Tick(r) \/ RU!UpstreamChanges(r) \/ RU!OtherApproves(r)
             \/ RU!OpenQuickRun \/ RU!CloseQuickRun
             \/ \E row \in RU!rowsShown, what \in RU!RowActions : RU!RowCall(row, what)
             \/ \E c \in rowCalls : RU!RowDone(c) \/ RU!RowFails(c)
             \/ RU!verifyAll
      PROVE  UNCHANGED <<verifying, trustIssue, runPost, startedRuns>>
  BY <1>2 DEF RU!LoadList, RU!TurnPage, RU!applyListFilter, RU!FilterFromAddress, RU!Tick,
       RU!UpstreamChanges, RU!OtherApproves, RU!OpenQuickRun, RU!CloseQuickRun, RU!RowCall,
       RU!RowDone, RU!RowFails, RU!verifyAll
<1> QED
  BY <1>1, <1>2, FlowApart, FlowSteps DEF RU!Next

LEMMA RunsNext == ASSUME ListInv, RU!RunsNext PROVE ListInv'
<1> USE DEF RU!listVars, RU!runVars, RU!listPageVars
<1>1. ASSUME RU!handleTrigger PROVE ListInv'
  <2>1. /\ verifying' = [names |-> RU!runnableNames] /\ meantAll' = (picked = {})
        /\ runPost = None /\ UNCHANGED <<trustIssue, runPost, startedRuns>>
    BY <1>1 DEF RU!handleTrigger, RU!runActionPending
  <2>2. RU!runnableNames = {} => picked = {}
    BY <1>1 DEF RU!handleTrigger, RU!MayTrigger
  <2> QED
    BY <2>1, <2>2 DEF ListInv, RU!FailedCheckNeverRuns, RU!RunAllWasMeant, RU!All
<1>2. ASSUME \/ RU!FetchEnabled \/ RU!ShowDialog
             \/ \E matches \in SUBSET Overrides : RU!SearchRecipes(matches)
             \/ \E name \in Overrides : RU!toggleRecipe(name)
             \/ RU!toggleAll
      PROVE  UNCHANGED <<verifying, trustIssue, runPost, startedRuns, meantAll>>
  BY <1>2 DEF RU!FetchEnabled, RU!ShowDialog, RU!SearchRecipes, RU!toggleRecipe, RU!toggleAll,
       RU!Pick
<1>3. ASSUME RU!onTriggerRunWithTrust \/ RU!TriggerCheckFails \/ RU!TriggerPosted PROVE ListInv'
  BY <1>3, FlowSteps DEF RU!onTriggerRunWithTrust, RU!TriggerCheckFails, RU!TriggerPosted,
       RU!CloseAfterCheck
<1>4. ASSUME RU!Elsewhere PROVE ListInv'
  <2>1. UNCHANGED meantAll
    BY <1>4 DEF RU!Elsewhere, RU!triggerVars
  <2>2. CASE RU!verifyAll \/ \E r \in Overrides : RU!UpstreamChanges(r) \/ RU!OtherApproves(r)
    BY <2>1, <2>2, FlowApart DEF RU!verifyAll, RU!UpstreamChanges, RU!OtherApproves
  <2> QED
    BY <1>4, <2>1, <2>2, FlowSteps DEF RU!Elsewhere
<1> QED
  BY <1>1, <1>2, <1>3, <1>4, FlowApart DEF RU!RunsNext

-----------------------------------------------------------------------------
(* The types of the two pages.                                             *)

OverrideState == [trust : RU!TrustStatus, enabled : BOOLEAN]
Row == [id : Overrides, trust : RU!TrustStatus, enabled : BOOLEAN]

ListTypes ==
    /\ overrides \in [Overrides -> OverrideState \cup {None}]
    /\ upstream \cup selection \subseteq Overrides
    /\ filter \in RU!Filters /\ listStale \subseteq RU!Filters
    /\ listed \in [RU!Filters -> (SUBSET Row) \cup {None}]
    /\ rowCalls \subseteq [what : RU!RowActions, row : Row]
    /\ quickRun # None => quickRun.rows \subseteq Row
    /\ verifying # None => verifying.names \subseteq Overrides
    /\ trustIssue # None => trustIssue.ok \subseteq Overrides
    /\ runPost # None => runPost.names \subseteq Overrides
    /\ \A run \in startedRuns : run.names \subseteq Overrides

TriggerTypes ==
    /\ picked \cup pickSearch \subseteq Overrides
    /\ {triggerOpen, enabledStale, meantAll} \subseteq BOOLEAN
    /\ enabledRows # None => enabledRows \subseteq Row

LEMMA ListTypesInit == ASSUME RU!RunsInit PROVE ListTypes /\ TriggerTypes
<1>1. overrides \in [Overrides -> OverrideState \cup {None}]
  <2>1. [trust |-> "verified", enabled |-> TRUE] \in OverrideState
    BY DEF OverrideState, RU!TrustStatus
  <2> QED
    BY <2>1 DEF RU!RunsInit, RU!Init
<1> QED
  BY <1>1 DEF RU!RunsInit, RU!Init, ListTypes, TriggerTypes, RU!Filters

LEMMA ListingRows == ASSUME ListTypes, NEW f PROVE RU!Listing(f) \subseteq Row
<1> SUFFICES ASSUME NEW r \in Overrides, overrides[r] # None
             PROVE  [id |-> r, trust |-> overrides[r].trust, enabled |-> overrides[r].enabled] \in Row
  BY DEF RU!Listing
<1>1. overrides[r] \in OverrideState
  BY DEF ListTypes
<1> QED
  BY <1>1 DEF OverrideState, Row

LEMMA RowsShown == ASSUME ListTypes PROVE RU!rowsShown \subseteq Row
BY DEF ListTypes, RU!rowsShown

\* A check, the flow of a run, and what happens elsewhere.
LEMMA FlowTypes ==
    ASSUME ListTypes,
           \/ RU!onQuickRunConfirm \/ RU!VerifyFails
           \/ RU!onTrustDialogStop \/ RU!onTrustDialogContinue \/ RU!RunPosted \/ RU!RunRefused
           \/ RU!verifyAll \/ \E r \in Overrides : RU!UpstreamChanges(r) \/ RU!OtherApproves(r)
    PROVE  ListTypes'
<1> DEFINE Rest == /\ upstream \cup selection \subseteq Overrides
                   /\ filter \in RU!Filters /\ listStale \subseteq RU!Filters
                   /\ listed \in [RU!Filters -> (SUBSET Row) \cup {None}]
                   /\ rowCalls \subseteq [what : RU!RowActions, row : Row]
                   /\ quickRun # None => quickRun.rows \subseteq Row
           Flow == /\ verifying # None => verifying.names \subseteq Overrides
                   /\ trustIssue # None => trustIssue.ok \subseteq Overrides
                   /\ runPost # None => runPost.names \subseteq Overrides
                   /\ \A run \in startedRuns : run.names \subseteq Overrides
           Server == overrides \in [Overrides -> OverrideState \cup {None}]
<1>1. Server /\ Rest /\ Flow
  BY DEF ListTypes
<1>2. SUFFICES Server' /\ Rest' /\ Flow'
  BY DEF ListTypes
<1>3. RU!Invalidated \subseteq RU!Filters
  BY DEF RU!Invalidated
<1>4. \A state \in OverrideState, trust2 \in RU!TrustStatus :
         [state EXCEPT !.trust = trust2] \in OverrideState
  BY DEF OverrideState
<1>5. {"verified", "pending_approval", "unknown"} \subseteq RU!TrustStatus
  BY DEF RU!TrustStatus
<1> USE DEF RU!listVars, RU!runVars, RU!Silent
<1>6. ASSUME RU!onQuickRunConfirm PROVE Server' /\ Rest' /\ Flow'
  <2>1. PICK check \in RU!Checks(verifying.names) :
           /\ RU!Persist(check)
           /\ IF check.failed \cup check.error = {}
              THEN runPost' = [names |-> verifying.names, check |-> check] /\ UNCHANGED trustIssue
              ELSE trustIssue' = check /\ UNCHANGED runPost
    BY <1>6 DEF RU!onQuickRunConfirm
  <2>2. check.ok \cup check.failed \cup check.error \subseteq RU!Candidates(verifying.names)
    BY DEF RU!Checks
  <2>3. \A r \in RU!Candidates(verifying.names) : r \in Overrides /\ overrides[r] \in OverrideState
    BY <1>1 DEF RU!Candidates, RU!Runnable
  <2>4. Server'
    BY <1>1, <1>4, <1>5, <2>1, <2>2, <2>3 DEF RU!Persist
  <2>5. Rest'
    BY <1>1, <1>3, <1>6 DEF RU!onQuickRunConfirm
  <2>6. verifying # None /\ verifying' = None /\ UNCHANGED startedRuns
    BY <1>6 DEF RU!onQuickRunConfirm
  <2>7. Flow'
    BY <1>1, <2>1, <2>2, <2>3, <2>6
  <2> QED
    BY <2>4, <2>5, <2>7
<1>7. ASSUME RU!VerifyFails \/ RU!onTrustDialogStop \/ RU!RunRefused
      PROVE  Server' /\ Rest' /\ Flow'
  BY <1>1, <1>7 DEF RU!VerifyFails, RU!onTrustDialogStop, RU!RunRefused
<1>8. ASSUME RU!onTrustDialogContinue PROVE Server' /\ Rest' /\ Flow'
  BY <1>1, <1>8 DEF RU!onTrustDialogContinue, RU!NamesLeft
<1>9. ASSUME RU!RunPosted PROVE Server' /\ Rest' /\ Flow'
  <2>1. Flow'
    BY <1>1, <1>9 DEF RU!RunPosted
  <2> QED
    BY <1>1, <1>3, <1>9, <2>1 DEF RU!RunPosted
<1>10. ASSUME RU!verifyAll PROVE Server' /\ Rest' /\ Flow'
  <2>1. Server'
    BY <1>1, <1>4, <1>5, <1>10 DEF RU!verifyAll
  <2> QED
    BY <1>1, <1>3, <1>10, <2>1 DEF RU!verifyAll
<1>11. ASSUME NEW r \in Overrides, RU!UpstreamChanges(r) PROVE Server' /\ Rest' /\ Flow'
  BY <1>1, <1>11 DEF RU!UpstreamChanges
<1>12. ASSUME NEW r \in Overrides, RU!OtherApproves(r) PROVE Server' /\ Rest' /\ Flow'
  <2>1. overrides[r] \in OverrideState
    BY <1>1, <1>12 DEF RU!OtherApproves
  <2>2. overrides' = [overrides EXCEPT ![r] = [overrides[r] EXCEPT !.trust = "verified"]]
    BY <1>1, <1>12 DEF RU!OtherApproves
  <2>3. Server'
    BY <1>1, <1>4, <1>5, <2>1, <2>2
  <2> QED
    BY <1>1, <1>12, <2>3 DEF RU!OtherApproves
<1> QED
  BY <1>6, <1>7, <1>8, <1>9, <1>10, <1>11, <1>12

LEMMA ListTypesNext == ASSUME ListTypes, RU!Next PROVE ListTypes'
<1> USE DEF RU!listVars, RU!runVars, RU!Silent
<1>1. RU!Invalidated \subseteq RU!Filters
  BY DEF RU!Invalidated
<1>2. ASSUME RU!LoadList PROVE ListTypes'
  <2>1. RU!Listing(filter) \in SUBSET Row
    BY ListingRows
  <2>2. listed' \in [RU!Filters -> (SUBSET Row) \cup {None}]
    BY <1>2, <2>1 DEF RU!LoadList, ListTypes
  <2> QED
    BY <1>2, <2>2 DEF RU!LoadList, ListTypes
<1>3. ASSUME NEW f \in RU!Filters, RU!applyListFilter(f) \/ RU!FilterFromAddress(f) PROVE ListTypes'
  BY <1>3 DEF RU!applyListFilter, RU!FilterFromAddress, ListTypes
<1>4. ASSUME NEW r \in Overrides, RU!Tick(r) PROVE ListTypes'
  BY <1>4 DEF RU!Tick, ListTypes
<1>5. ASSUME RU!TurnPage \/ RU!CloseQuickRun PROVE ListTypes'
  BY <1>5 DEF RU!TurnPage, RU!CloseQuickRun, ListTypes
<1>6. ASSUME RU!OpenQuickRun PROVE ListTypes'
  <2>1. RU!rowsShown \subseteq Row
    BY RowsShown
  <2>2. \A run \in RU!HeaderRuns \cup RU!RowRuns : run.rows \subseteq Row
    BY <2>1 DEF RU!HeaderRuns, RU!RowRuns, RU!selectedRecipes
  <2>3. quickRun'.rows \subseteq Row
    BY <1>6, <2>2 DEF RU!OpenQuickRun
  <2> QED
    BY <1>6, <2>3 DEF RU!OpenQuickRun, ListTypes
<1>7. ASSUME RU!handleRun PROVE ListTypes'
  <2>1. quickRun.rows \subseteq Row
    BY <1>7 DEF RU!handleRun, ListTypes
  <2>2. verifying'.names \subseteq Overrides
    BY <1>7, <2>1 DEF RU!handleRun, Row
  <2> QED
    BY <1>7, <2>2 DEF RU!handleRun, ListTypes
<1>8. ASSUME NEW row \in RU!rowsShown, NEW what \in RU!RowActions, RU!RowCall(row, what)
      PROVE  ListTypes'
  <2>1. row \in Row
    BY RowsShown
  <2>2. rowCalls' \subseteq [what : RU!RowActions, row : Row]
    BY <1>8, <2>1 DEF RU!RowCall, ListTypes
  <2> QED
    BY <1>8, <2>2 DEF RU!RowCall, ListTypes
<1>9. ASSUME NEW c \in rowCalls, RU!RowDone(c) PROVE ListTypes'
  <2> DEFINE id == c.row.id
             state == overrides[id]
             trusted == IF id \in upstream THEN "verified" ELSE "pending_approval"
  <2>1. c.row \in Row /\ id \in Overrides /\ c.what \in RU!RowActions
    BY DEF ListTypes, Row
  <2>2. overrides \in [Overrides -> OverrideState \cup {None}] /\ state \in OverrideState
    BY <1>9, <2>1 DEF RU!RowDone, ListTypes
  <2>3. /\ [state EXCEPT !.enabled = ~c.row.enabled] \in OverrideState
        /\ [state EXCEPT !.trust = trusted] \in OverrideState
    BY <2>1, <2>2 DEF OverrideState, Row, RU!TrustStatus
  <2>4. \/ overrides' = [overrides EXCEPT ![id] = [state EXCEPT !.enabled = ~c.row.enabled]]
        \/ overrides' = [overrides EXCEPT ![id] = None]
        \/ overrides' = [overrides EXCEPT ![id] = [state EXCEPT !.trust = trusted]]
    <3>1. CASE c.what = "toggle"
      BY <1>9, <2>2, <3>1 DEF RU!RowDone
    <3>2. CASE c.what = "delete"
      BY <1>9, <2>2, <3>2 DEF RU!RowDone
    <3>3. CASE c.what = "verify"
      BY <1>9, <2>2, <3>3 DEF RU!RowDone
    <3> QED
      BY <2>1, <3>1, <3>2, <3>3 DEF RU!RowActions
  <2> HIDE DEF id, trusted, state
  <2>5. overrides' \in [Overrides -> OverrideState \cup {None}]
    BY <2>1, <2>2, <2>3, <2>4
  <2> QED
    BY <1>1, <1>9, <2>5 DEF RU!RowDone, ListTypes
<1>10. ASSUME NEW c \in rowCalls, RU!RowFails(c) PROVE ListTypes'
  BY <1>10 DEF RU!RowFails, ListTypes
<1> QED
  BY <1>2, <1>3, <1>4, <1>5, <1>6, <1>7, <1>8, <1>9, <1>10, FlowTypes DEF RU!Next

LEMMA RunsTypesNext ==
    ASSUME ListTypes, TriggerTypes, RU!RunsNext PROVE ListTypes' /\ TriggerTypes'
<1> USE DEF RU!listVars, RU!runVars, RU!listPageVars, RU!triggerVars, RU!Silent
<1>1. RU!runnableInFilter \subseteq Overrides /\ RU!runnableNames \subseteq Overrides
  BY DEF RU!runnableInFilter, RU!filteredRows, RU!runnableNames, TriggerTypes, Row
<1>2. ASSUME UNCHANGED <<overrides, upstream, RU!listPageVars, verifying, trustIssue, runPost,
                         startedRuns>>
      PROVE  ListTypes'
  BY <1>2 DEF ListTypes
<1>3. ASSUME RU!FetchEnabled PROVE ListTypes' /\ TriggerTypes'
  <2>1. enabledRows' \subseteq Row
    BY <1>3, ListingRows DEF RU!FetchEnabled
  <2> QED
    BY <1>2, <1>3, <2>1 DEF RU!FetchEnabled, TriggerTypes
<1>4. ASSUME RU!ShowDialog \/ \E matches \in SUBSET Overrides : RU!SearchRecipes(matches)
      PROVE  ListTypes' /\ TriggerTypes'
  BY <1>2, <1>4 DEF RU!ShowDialog, RU!SearchRecipes, TriggerTypes
<1>5. ASSUME NEW names \in SUBSET Overrides, RU!Pick(names) PROVE ListTypes' /\ TriggerTypes'
  BY <1>2, <1>5 DEF RU!Pick, TriggerTypes
<1>6. ASSUME NEW name \in Overrides, RU!toggleRecipe(name) PROVE ListTypes' /\ TriggerTypes'
  <2>1. (picked \cup {name}) \ (picked \cap {name}) \in SUBSET Overrides
    BY DEF TriggerTypes
  <2> QED
    BY <1>5, <1>6, <2>1 DEF RU!toggleRecipe
<1>7. ASSUME RU!toggleAll PROVE ListTypes' /\ TriggerTypes'
  BY <1>1, <1>5, <1>7 DEF RU!toggleAll
<1>8. ASSUME RU!handleTrigger PROVE ListTypes' /\ TriggerTypes'
  <2>1. verifying'.names \subseteq Overrides
    BY <1>1, <1>8 DEF RU!handleTrigger
  <2>2. ListTypes'
    BY <1>8, <2>1 DEF RU!handleTrigger, ListTypes
  <2> QED
    BY <1>8, <2>2 DEF RU!handleTrigger, TriggerTypes
<1>9. ASSUME RU!onTriggerRunWithTrust \/ RU!TriggerCheckFails \/ RU!TriggerPosted
      PROVE  ListTypes' /\ TriggerTypes'
  <2>1. ListTypes'
    BY <1>9, FlowTypes DEF RU!onTriggerRunWithTrust, RU!TriggerCheckFails, RU!TriggerPosted
  <2>2. TriggerTypes'
    BY <1>9 DEF RU!onTriggerRunWithTrust, RU!TriggerCheckFails, RU!TriggerPosted,
                RU!CloseAfterCheck, TriggerTypes
  <2> QED
    BY <2>1, <2>2
<1>10. ASSUME RU!Elsewhere PROVE ListTypes' /\ TriggerTypes'
  <2>1. ListTypes'
    BY <1>10, FlowTypes DEF RU!Elsewhere
  <2> QED
    BY <1>10, <2>1 DEF RU!Elsewhere, TriggerTypes
<1> QED
  BY <1>3, <1>4, <1>6, <1>7, <1>8, <1>9, <1>10 DEF RU!RunsNext

-----------------------------------------------------------------------------
(* Enrollment: the theorems of EnrollmentProofs, for the page of the tab.  *)

ENP == INSTANCE EnrollmentProofs

LEMMA SameEnrollment ==
    /\ EN!EnrollmentAssumption <=> ENP!EnrollmentAssumption
    /\ EN!Init <=> ENP!Init
    /\ UNCHANGED enrollVars => UNCHANGED ENP!enrollVars
<1>1. EN!EnrollmentAssumption <=> ENP!EnrollmentAssumption
  BY DEF EN!EnrollmentAssumption, ENP!EnrollmentAssumption, EN!EnrollmentTokenRow,
      ENP!EnrollmentTokenRow, EN!Redemption, ENP!Redemption
<1>2. EN!Init <=> ENP!Init
  BY DEF EN!Init, ENP!Init
<1>3. UNCHANGED enrollVars => UNCHANGED ENP!enrollVars
  BY DEF enrollVars, ENP!enrollVars, ENP!card, ENP!macPages
<1> QED
  BY <1>1, <1>2, <1>3

LEMMA SameEnrollmentSteps == EN!Next <=> ENP!Next
BY DEF EN!Next, ENP!Next, EN!card, ENP!card, EN!macPages, ENP!macPages, EN!Issued, ENP!Issued,
    EN!Quiet, ENP!Quiet, EN!Event, ENP!Event, EN!Fresh, ENP!Fresh, EN!Expire, ENP!Expire,
    EN!LoadTokens, ENP!LoadTokens, EN!TypePassword, ENP!TypePassword, EN!onCreate,
    ENP!onCreate, EN!create_token, ENP!create_token, EN!CreateFails, ENP!CreateFails,
    EN!TokenRows, ENP!TokenRows, EN!RevokeToken, ENP!RevokeToken, EN!revoke_token,
    ENP!revoke_token, EN!OpenLink, ENP!OpenLink, EN!MayDownload, ENP!MayDownload,
    EN!onDownload, ENP!onDownload, EN!Settle, ENP!Settle, EN!At, ENP!At, EN!Stage, ENP!Stage,
    EN!MayRedeem, ENP!MayRedeem, EN!ReadToken, ENP!ReadToken, EN!CommitRedeemed,
    ENP!CommitRedeemed, EN!build_profile, ENP!build_profile, EN!Wiped, ENP!Wiped,
    EN!Downloaded, ENP!Downloaded, EN!BreaksOff, ENP!BreaksOff

-----------------------------------------------------------------------------
(* The composition.                                                        *)

\* The lists of recipes share their state; only the runs page lets the
\* operator pick a part of the recipes.
RunsInv == ListInv /\ ListTypes /\ TriggerTypes /\ (tab # "runs" => meantAll)

IInv ==
    /\ tab \in Tabs
    /\ RecipeInv /\ RunsInv /\ ImportInv /\ ApprovalInv /\ ScheduleInv /\ DiscoverInv
    /\ AccessInv /\ ENP!IInv /\ ChatInv /\ SessionInv

LEMMA TabStep ==
    ASSUME [Next]_vars
    PROVE  /\ UNCHANGED tab
           /\ OE!Next \/ UNCHANGED recipeVars
           /\ \/ tab = "recipes" /\ RU!Next /\ UNCHANGED triggerVars
              \/ tab = "runs" /\ RU!RunsNext
              \/ UNCHANGED <<listVars, triggerVars>>
           /\ OI!Next \/ UNCHANGED importVars
           /\ AP!Next \/ UNCHANGED approvalVars
           /\ SC!Next \/ UNCHANGED scheduleVars
           /\ DI!Next \/ UNCHANGED discoverVars
           /\ AA!Next \/ UNCHANGED accessVars
           /\ EN!Next \/ UNCHANGED enrollVars
           /\ IC!Next \/ UNCHANGED chatVars
           /\ SS!Next \/ UNCHANGED sessionVars
<1>1. CASE UNCHANGED vars
  BY <1>1 DEF vars
<1>2. ASSUME NEW t, Shows(t)
      PROVE  /\ UNCHANGED tab
             /\ OE!Next \/ UNCHANGED recipeVars
             /\ \/ tab = "recipes" /\ RU!Next /\ UNCHANGED triggerVars
                \/ tab = "runs" /\ RU!RunsNext
                \/ UNCHANGED <<listVars, triggerVars>>
             /\ OI!Next \/ UNCHANGED importVars
             /\ AP!Next \/ UNCHANGED approvalVars
             /\ SC!Next \/ UNCHANGED scheduleVars
             /\ DI!Next \/ UNCHANGED discoverVars
             /\ AA!Next \/ UNCHANGED accessVars
             /\ EN!Next \/ UNCHANGED enrollVars
             /\ IC!Next \/ UNCHANGED chatVars
             /\ SS!Next \/ UNCHANGED sessionVars
  BY <1>2 DEF Shows
<1> QED
  BY <1>1, <1>2 DEF Next

LEMMA TabInit == ASSUME Init PROVE IInv
<1>1. ENP!IInv
  BY SameEnrollment, InstanceAssumptions, ENP!InitIInv DEF Init
<1>2. RunsInv
  BY ListInit, ListTypesInit DEF Init, RunsInv, RU!RunsInit
<1>3. RecipeInv /\ ImportInv /\ ApprovalInv /\ ScheduleInv
  BY InstanceAssumptions, RecipeInit, ImportInit, ApprovalInit, ScheduleInit DEF Init
<1>4. DiscoverInv /\ AccessInv /\ ChatInv /\ SessionInv
  BY InstanceAssumptions, DiscoverInit, AccessInit, ChatInit, SessionInit DEF Init
<1> QED
  BY <1>1, <1>2, <1>3, <1>4 DEF Init, IInv

LEMMA AtRest ==
    ASSUME IInv
    PROVE  /\ UNCHANGED recipeVars => RecipeInv'
           /\ UNCHANGED <<tab, listVars, triggerVars>> => RunsInv'
           /\ UNCHANGED importVars => ImportInv'
           /\ UNCHANGED approvalVars => ApprovalInv'
           /\ UNCHANGED scheduleVars => ScheduleInv'
           /\ UNCHANGED discoverVars => DiscoverInv'
           /\ UNCHANGED accessVars => AccessInv'
           /\ UNCHANGED chatVars => ChatInv'
           /\ UNCHANGED sessionVars => SessionInv'
<1>1. UNCHANGED recipeVars => RecipeInv'
  BY DEF IInv, recipeVars, RecipeInv, FormInv, OE!shownRecipe
<1>2. UNCHANGED <<tab, listVars, triggerVars>> => RunsInv'
  BY DEF IInv, listVars, triggerVars, RunsInv, ListInv, ListTypes, TriggerTypes,
         RU!FailedCheckNeverRuns, RU!RunAllWasMeant
<1>3. UNCHANGED importVars => ImportInv'
  BY DEF IInv, importVars, ImportInv, OI!ImportTypeOK
<1>4. UNCHANGED approvalVars => ApprovalInv'
  BY DEF IInv, approvalVars, ApprovalInv, AP!ApprovalsTypeOK, GoodDecision
<1>5. UNCHANGED scheduleVars => ScheduleInv'
  BY DEF IInv, scheduleVars, ScheduleInv, SC!Free, SC!RestrictedStaysRestricted
<1>6. UNCHANGED discoverVars => DiscoverInv'
  BY DEF IInv, discoverVars, DiscoverInv
<1>7. UNCHANGED accessVars => AccessInv'
  BY DEF IInv, accessVars, AccessInv, AccessServer, AA!UntouchedLevelsAreListed, AA!RoleIn
<1>8. UNCHANGED chatVars => ChatInv'
  BY DEF IInv, chatVars, ChatInv, IC!ChatTypeOK
<1>9. UNCHANGED sessionVars => SessionInv'
  BY DEF IInv, sessionVars, SessionInv, SS!SessionTypeOK
<1> QED
  BY <1>1, <1>2, <1>3, <1>4, <1>5, <1>6, <1>7, <1>8, <1>9

LEMMA TabNext == ASSUME IInv, [Next]_vars PROVE IInv'
<1> USE TabStep, AtRest, InstanceAssumptions
<1>1. RecipeInv'
  BY RecipeNext DEF IInv
<1>2. RunsInv'
  <2>1. CASE tab = "recipes" /\ RU!Next /\ UNCHANGED triggerVars
    <3>1. meantAll /\ UNCHANGED meantAll /\ TriggerTypes'
      BY <2>1 DEF IInv, RunsInv, TriggerTypes, triggerVars
    <3> QED
      BY <2>1, <3>1, ListNext, ListTypesNext DEF IInv, RunsInv
  <2>2. CASE tab = "runs" /\ RU!RunsNext
    BY <2>2, RunsNext, RunsTypesNext DEF IInv, RunsInv
  <2> QED
    BY <2>1, <2>2
<1>3. ImportInv'
  BY ImportNext DEF IInv
<1>4. ApprovalInv'
  BY ApprovalNext DEF IInv
<1>5. ScheduleInv'
  BY ScheduleNext DEF IInv
<1>6. DiscoverInv'
  BY DiscoverNext DEF IInv
<1>7. AccessInv'
  BY AccessNext DEF IInv
<1>8. ENP!IInv'
  <2>1. ENP!EnrollmentAssumption /\ ENP!IInv
    BY SameEnrollment DEF IInv
  <2>2. [ENP!Next]_(ENP!enrollVars)
    BY SameEnrollment, SameEnrollmentSteps
  <2> QED
    BY <2>1, <2>2, ENP!NextIInv
<1>9. ChatInv'
  BY ChatNext DEF IInv
<1>10. SessionInv'
  BY SessionNext DEF IInv
<1> QED
  BY <1>1, <1>2, <1>3, <1>4, <1>5, <1>6, <1>7, <1>8, <1>9, <1>10 DEF IInv

LEMMA Inductive == Spec => []IInv
BY TabInit, TabNext, PTL DEF Spec

-----------------------------------------------------------------------------
(* Every page has its types.                                               *)
THEOREM PagesTypeCorrect == Spec => []TypeOK
<1>1. IInv => TypeOK
  <2> SUFFICES ASSUME IInv PROVE TypeOK
    OBVIOUS
  <2>1. OE!RecipeTypeOK
    <3>1. overrideForm # None => OE!currentSnapshot \in
             [general : {"", "a", "b"}, input : {"string", "json"}, pkginfo : OE!PkginfoForms]
      BY DEF IInv, RecipeInv, FormInv, Form, OE!currentSnapshot, OE!kvToDict
    <3> QED
      BY <3>1 DEF IInv, RecipeInv, OE!RecipeTypeOK
  <2>2. RU!RunsTypeOK
    BY DEF IInv, RunsInv, ListTypes, TriggerTypes, OverrideState, RU!RunsTypeOK, RU!ListTypeOK
  <2>3. OI!ImportTypeOK /\ AP!ApprovalsTypeOK /\ IC!ChatTypeOK /\ SS!SessionTypeOK
    BY DEF IInv, ImportInv, ApprovalInv, ChatInv, SessionInv
  <2>4. SC!ScheduleEditorTypeOK
    BY DEF IInv, ScheduleInv, ScheduleForm, SC!ScheduleEditorTypeOK, SC!Free
  <2>5. DI!DiscoverTypeOK
    BY DEF IInv, DiscoverInv, DI!DiscoverTypeOK
  <2>6. AA!AccessTypeOK
    BY DEF IInv, AccessInv, AccessServer, RoleList, AA!AccessTypeOK
  <2>7. EN!EnrollmentTypeOK
    BY DEF IInv, ENP!IInv, ENP!EnrollmentTypeOK, EN!EnrollmentTypeOK, ENP!TokenRows,
           EN!TokenRows, ENP!EnrollmentTokenRow, EN!EnrollmentTokenRow, ENP!Redemption,
           EN!Redemption
  <2> QED
    BY <2>1, <2>2, <2>3, <2>4, <2>5, <2>6, <2>7 DEF IInv, Tabs, TypeOK
<1> QED
  BY <1>1, Inductive, PTL

(* No save sends a field that its operator left alone in an older version  *)
(* than the page received, and each is addressed to the recipe its form    *)
(* was loaded from, although answers are cached under the key of whatever  *)
(* recipe is shown by then; nor do untouched levels of a role differ from  *)
(* the list's, which is loaded again under the open dialog.                *)
THEOREM UntouchedIsNotSentOld == Spec => []UntouchedIsAsReceived
<1>1. IInv => UntouchedIsAsReceived
  BY DEF IInv, RecipeInv, GoodCall, BodyOf, AccessInv, UntouchedIsAsReceived,
         OE!RecipeWritesItsOwn, OE!UntouchedAsReceived
<1> QED
  BY <1>1, Inductive, PTL

(* A recipe whose check failed is in no run that was started on that       *)
(* check, neither by name nor as one of all, and a run of all recipes is   *)
(* started only by an operator who ticked none.                            *)
THEOREM RunsStartedWereMeant == Spec => []RunsAreMeant
<1>1. IInv => RunsAreMeant
  BY DEF IInv, RunsInv, ListInv, RunsAreMeant
<1> QED
  BY <1>1, Inductive, PTL

(* "Import all" never sends a file that an earlier batch was told is       *)
(* imported, unless it was chosen again.                                   *)
THEOREM OnlyFailuresAreSentAgain == Spec => RetrySendsOnlyFailures
<1>1. IInv /\ [Next]_vars =>
         [importBatch = None /\ importBatch' # None => importBatch'.items \cap acked = {}]_(OI!vars)
  BY TabStep, ImportStep DEF IInv, importVars
<1> QED
  BY <1>1, Inductive, PTL DEF Spec, RetrySendsOnlyFailures, OI!RetrySendsOnlyFailures

(* Whatever checks, re-fetches and decisions overlap, only two commits      *)
(* leave a recipe waiting for an approval that nobody can give: that of the *)
(* check of all recipes after a second walk that was refused, and that of a *)
(* decision that loaded the recipe before it was blocked.                   *)
THEOREM BlockedRecipesHaveRequests == Spec => BlockedCanBeApproved
<1>1. IInv /\ [Next]_vars =>
         [\A r \in TrustRecipes : ~AP!Blocked(r) /\ AP!Blocked(r)' => AP!Excused(r)]_(AP!vars)
  <2> SUFFICES ASSUME IInv, [Next]_vars
      PROVE  [\A r \in TrustRecipes : ~AP!Blocked(r) /\ AP!Blocked(r)' => AP!Excused(r)]_(AP!vars)
    OBVIOUS
  <2>1. CASE AP!Next
    BY <2>1, ApprovalNext, InstanceAssumptions DEF IInv
  <2>2. CASE UNCHANGED approvalVars
    BY <2>2 DEF approvalVars, AP!vars, AP!server, AP!page
  <2> QED
    BY <2>1, <2>2, TabStep
<1> QED
  BY <1>1, Inductive, PTL DEF Spec, BlockedCanBeApproved, AP!BlockedCanBeApproved

(* A schedule that was saved for some recipes is not stored with the empty *)
(* list, which would run all of them.                                      *)
THEOREM RestrictedSchedulesNameRecipes == Spec => []RestrictedStaysRestricted
<1>1. IInv => RestrictedStaysRestricted
  BY DEF IInv, ScheduleInv, RestrictedStaysRestricted
<1> QED
  BY <1>1, Inductive, PTL

(* A repository added by hand stays cached until it is removed or has been *)
(* in a synchronised list, and the removal of a repository closes its      *)
(* dialog.                                                                 *)
THEOREM RepositoriesStayAsAsked == Spec => RepositoriesAsAsked
<1>1. IInv /\ [Next]_vars => [\A r \in byHand' : repos'[r] # None]_<<byHand, repos>>
  BY TabNext DEF IInv, DiscoverInv
<1>2. IInv /\ [Next]_vars =>
         [\A c \in discoverCalls \ discoverCalls' :
             c.what = "remove" /\ repos[c.repo] # None /\ repos'[c.repo] = None =>
                selectedRepo' = None \/ (selectedRepo' # None /\ selectedRepo'.id # c.repo)]_(DI!vars)
  BY TabStep, RemovalStep DEF discoverVars
<1> QED
  BY <1>1, <1>2, Inductive, PTL
     DEF Spec, RepositoriesAsAsked, DI!AddedByHandStays, DI!RemovedRepoIsClosed

(* A token that was redeemed to the end no longer carries the repository's *)
(* password.                                                               *)
THEOREM SecretsDoNotStay == Spec => []SecretsAreWiped
<1>1. IInv => SecretsAreWiped
  BY DEF IInv, ENP!IInv, ENP!NoneForgotten, ENP!WipeIsDue, ENP!Issued, SecretsAreWiped,
         EN!SecretsAreWiped, EN!Issued
<1> QED
  BY <1>1, Inductive, PTL

(* An answer stands under the question it was streamed for, however many   *)
(* streams, reloads and changes of page there were.                        *)
THEOREM AnswersStandUnderTheirQuestion == Spec => []AnswersUnderTheirQuestion
<1>1. IInv => AnswersUnderTheirQuestion
  BY ChatImplies DEF IInv
<1> QED
  BY <1>1, Inductive, PTL

(* A tab that is signed out holds nobody's data, but what a save that was  *)
(* on its way at the sign-out has put there since, and a missing script    *)
(* reloads it once.                                                        *)
THEOREM SessionEnds == Spec => []SessionEndsOnce
<1>1. IInv => SessionEndsOnce
  BY DEF IInv, SessionInv, Late, SessionEndsOnce, SS!SignedOutSeesNothing, SS!ReloadsOnce
<1> QED
  BY <1>1, Inductive, PTL
=============================================================================
