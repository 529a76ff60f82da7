------------------------------ MODULE Session ------------------------------
(***************************************************************************)
(* One browser tab of the web interface: who is signed in, what the query  *)
(* cache holds and where the tab is sent when a token has lapsed           *)
(* (lib/api.ts, lib/auth-redirect.ts, components/auth-provider.tsx, the    *)
(* login, register and callback pages, and the error boundary that reloads *)
(* the tab when a deployment has removed its scripts).                     *)
(*                                                                         *)
(* A token is the user it was issued to.  The server may let one lapse at  *)
(* any moment.  Requests carry the token that was stored when they were    *)
(* sent; refresh() of the provider runs to its end whatever happens        *)
(* meanwhile, and several may be under way.  The authentication mode of    *)
(* the server is jwt or oidc; in mode disabled nothing here happens.       *)
(***************************************************************************)
EXTENDS Integers, FiniteSets

CONSTANTS
    Users,          \* accounts
    Readers,        \* those whose levels on every page are read only
    AppPages,       \* pages that need an account
    None,           \* no token, no user, no page
    MaxSteps,       \* bound on what people and the server start
    MaxWaiting      \* bound on refreshes, and on requests, under way

SessionAssumption ==
    /\ Readers \subseteq Users
    /\ None \notin Users \cup AppPages
    /\ MaxSteps \in Nat /\ MaxWaiting \in Nat

VARIABLES
    token,      \* localStorage
    lapsed,     \* tokens the server answers 401 to
    place,      \* the path shown: an application page or a public one
    next,       \* ?next= of the login page
    leaving,    \* redirectInFlight: the page the pending reload comes back to
    me,         \* the provider's user
    authMode,   \* the provider's serverAuthMode, None until a config was read
    refreshes,  \* calls of refresh() under way
    requests,   \* api calls under way
    cached,     \* the requests whose answers the query cache holds
    signing,    \* the form posted on the login or register page
    chunkKey,   \* CHUNK_RELOAD_KEY in sessionStorage
    broken,     \* the route failed to load its scripts
    reloads,    \* automatic reloads since a route last mounted
    steps

sessionVars == <<token, lapsed, place, next, leaving, me, authMode, refreshes, requests,
                 cached, signing, chunkKey, broken, reloads, steps>>

PublicPages == {"login", "register", "callback"}
isPublicAuthPath == place \in PublicPages

Credentials == Users \cup {None}
Refreshes == [stage : {"config", "me"}, mode : {None, "jwt"}, sent : Credentials,
              then : AppPages \cup {None}]
Requests == [kind : {"read", "write"}, as : Credentials, live : BOOLEAN]

\* Levels come from /auth/me.  An unknown mode strips nothing; a superuser is
\* a user who is not among Readers.
canRead == authMode = None \/ me # None
canWrite == authMode = None \/ (me # None /\ me \notin Readers)

Start(then) == [stage |-> "config", mode |-> None, sent |-> None, then |-> then]

----------------------------------------------------------------------------
Init ==
    /\ token \in Credentials /\ lapsed = {}
    /\ place \in AppPages \cup {"login"} /\ next = None /\ leaving = None
    /\ me = None /\ authMode = None
    /\ refreshes = {Start(None)} /\ requests = {} /\ cached = {} /\ signing = None
    /\ chunkKey = FALSE /\ broken = FALSE /\ reloads = 0 /\ steps = 0

Step == steps < MaxSteps /\ steps' = steps + 1

\* cancelQueries() and clear(): a read under way can no longer be stored,
\* though its answer still arrives; a mutation's callbacks run all the same.
DropCache ==
    /\ cached' = {}
    /\ requests' = {[r EXCEPT !.live = FALSE] : r \in requests}

\* Mutant: the token goes and the cache stays.
redirectToLoginForExpiredAuth_TokenOnly ==
    IF leaving # None \/ isPublicAuthPath
    THEN UNCHANGED <<token, leaving, cached>>
    ELSE leaving' = place /\ token' = None /\ UNCHANGED cached

\* Nothing on a public page, nothing when a redirect is already under way;
\* otherwise the token and the cache go and the tab starts to load /login.
redirectToLoginForExpiredAuth ==
    IF leaving # None \/ isPublicAuthPath
    THEN UNCHANGED <<token, leaving, cached>>
    ELSE leaving' = place /\ token' = None /\ cached' = {}

\* What is still under way after one answer has been dealt with.
Cancelled(rs) ==
    IF leaving' # leaving /\ leaving' # None
    THEN {[r EXCEPT !.live = FALSE] : r \in rs} ELSE rs

----------------------------------------------------------------------------
\* The provider's refresh(): first the configuration, which may fail ...
RefreshConfig(f, ok) ==
    /\ f \in refreshes /\ f.stage = "config"
    /\ LET mode == IF ok THEN "jwt" ELSE None IN
       /\ authMode' = IF ok THEN "jwt" ELSE authMode
       /\ IF ok /\ token = None
          THEN \* no token: /auth/me would answer 401
               /\ me' = None
               /\ refreshes' = refreshes \ {f}
               /\ redirectToLoginForExpiredAuth
               /\ requests' = Cancelled(requests)
               /\ place' = IF f.then = None THEN place ELSE f.then
          ELSE /\ refreshes' = (refreshes \ {f}) \cup
                                 {[f EXCEPT !.stage = "me", !.mode = mode, !.sent = token]}
               /\ UNCHANGED <<token, leaving, cached, requests, me, place>>
    /\ UNCHANGED <<lapsed, next, signing, chunkKey, broken, reloads, steps>>

Accepted(t) == t # None /\ t \notin lapsed

\* ... then /auth/me: the user, a 401, or an error that leaves nobody.  A
\* sign-in that waited for it goes on to its page whatever came of it.
RefreshMe(f, ok) ==
    /\ f \in refreshes /\ f.stage = "me"
    /\ refreshes' = refreshes \ {f}
    /\ IF ok /\ Accepted(f.sent)
       THEN me' = f.sent /\ UNCHANGED <<token, leaving, cached, requests>>
       ELSE /\ me' = None
            /\ IF ok THEN redirectToLoginForExpiredAuth ELSE UNCHANGED <<token, leaving, cached>>
            /\ requests' = Cancelled(requests)
    /\ place' = IF f.then = None THEN place ELSE f.then
    /\ UNCHANGED <<lapsed, next, authMode, signing, chunkKey, broken, reloads, steps>>

\* Removes what this tab knows and shows the login page, without a reload.
logout ==
    /\ Step /\ place \in AppPages /\ me # None /\ ~broken
    /\ token' = None /\ me' = None /\ place' = "login" /\ next' = None
    /\ DropCache
    /\ UNCHANGED <<lapsed, leaving, authMode, refreshes, signing, chunkKey, broken, reloads>>

----------------------------------------------------------------------------
\* A component of an application page calls the api: a query as it mounts, a
\* mutation when the person may write.
apiFetch(kind) ==
    /\ Step /\ place \in AppPages /\ ~broken /\ Cardinality(requests) < MaxWaiting
    /\ kind = "write" => canWrite
    /\ requests' = requests \cup {[kind |-> kind, as |-> token, live |-> TRUE]}
    /\ UNCHANGED <<token, lapsed, place, next, leaving, me, authMode, refreshes, cached,
                   signing, chunkKey, broken, reloads>>

\* The answer is a 401 ...
handle401(r) ==
    /\ r \in requests /\ ~Accepted(r.as)
    /\ redirectToLoginForExpiredAuth
    /\ requests' = Cancelled(requests \ {r})
    /\ UNCHANGED <<lapsed, place, next, me, authMode, refreshes, signing, chunkKey, broken,
                   reloads, steps>>

\* ... or stored: a query's unless it was cancelled, a mutation's when its
\* onSuccess does so, as the save of a recipe's override does.
Stores(r) == IF r.kind = "write" THEN BOOLEAN ELSE {r.live}
Answer(r) ==
    /\ r \in requests /\ Accepted(r.as)
    /\ requests' = requests \ {r}
    /\ \E stored \in Stores(r) : cached' = IF stored THEN cached \cup {r} ELSE cached
    /\ UNCHANGED <<token, lapsed, place, next, leaving, me, authMode, refreshes, signing,
                   chunkKey, broken, reloads, steps>>

\* The server stops accepting a token.
Lapse(t) ==
    /\ Step /\ t \in Users \ lapsed
    /\ lapsed' = lapsed \cup {t}
    /\ UNCHANGED <<token, place, next, leaving, me, authMode, refreshes, requests, cached,
                   signing, chunkKey, broken, reloads>>

----------------------------------------------------------------------------
\* Going to another page of the application: its menu shows what one may
\* read, the history and links show the public pages too.
Navigate(p) ==
    /\ Step /\ p # place /\ ~broken
    /\ p \in AppPages => canRead
    /\ place' = p /\ next' = None
    /\ UNCHANGED <<token, lapsed, leaving, me, authMode, refreshes, requests, cached,
                   signing, chunkKey, broken, reloads>>

\* A page load: all that is not in storage starts again, and the provider
\* mounts and refreshes.
Load(p, q) ==
    /\ place' = p /\ next' = q /\ leaving' = None /\ me' = None /\ authMode' = None
    /\ refreshes' = {Start(None)} /\ requests' = {} /\ cached' = {} /\ signing' = None
    /\ UNCHANGED <<token, lapsed>>

\* The redirect's navigation takes place.
Redirected ==
    /\ leaving # None
    /\ Load("login", leaving)
    /\ broken' = FALSE /\ chunkKey' = FALSE /\ reloads' = 0
    /\ UNCHANGED steps

----------------------------------------------------------------------------
\* Posting the login form, the demo button, or the register form, which signs
\* in what it has created.  A new sign-in has a token that has not lapsed.
onSubmit(u) ==
    /\ Step /\ signing = None /\ u \notin lapsed
    /\ place \in {"login", "register"} /\ ~broken
    /\ signing' = [who |-> u, to |-> next, from |-> place]
    /\ UNCHANGED <<token, lapsed, place, next, leaving, me, authMode, refreshes, requests,
                   cached, chunkKey, broken, reloads>>

\* The token is stored and the provider refreshed before the page changes.
SignedIn(home) ==
    /\ signing # None /\ home \in AppPages
    /\ Cardinality(refreshes) < MaxWaiting
    /\ token' = signing.who /\ signing' = None
    /\ refreshes' = refreshes \cup {Start(IF signing.to = None THEN home ELSE signing.to)}
    /\ UNCHANGED <<lapsed, place, next, leaving, me, authMode, requests, cached, chunkKey,
                   broken, reloads, steps>>

\* Refused; an account that was created but could not be signed in is sent to
\* the login page.
SignInFails ==
    /\ signing # None /\ signing' = None
    /\ place' \in IF signing.from = "register" THEN {place, "login"} ELSE {place}
    /\ UNCHANGED <<token, lapsed, next, leaving, me, authMode, refreshes, requests, cached,
                   chunkKey, broken, reloads, steps>>

\* The identity provider sends the browser back: a page load that stores the
\* token of the address and refreshes.
AuthCallback(u, home) ==
    /\ Step /\ u \notin lapsed /\ place = "login" /\ home \in AppPages
    /\ place' = "callback" /\ next' = None /\ leaving' = None /\ me' = None
    /\ authMode' = None /\ token' = u
    /\ refreshes' = {Start(None), Start(home)}
    /\ requests' = {} /\ cached' = {} /\ signing' = None
    /\ broken' = FALSE /\ chunkKey' = FALSE /\ reloads' = 0
    /\ UNCHANGED lapsed

----------------------------------------------------------------------------
\* A deployment has removed a script the route needs.
ChunkFails ==
    /\ Step /\ ~broken /\ broken' = TRUE
    /\ UNCHANGED <<token, lapsed, place, next, leaving, me, authMode, refreshes, requests,
                   cached, signing, chunkKey, reloads>>

\* Mutant: no key is left that says so.
RouteErrorBoundary_NoKey ==
    /\ broken /\ ~chunkKey
    /\ chunkKey' = FALSE /\ reloads' = reloads + 1
    /\ Load(place, next)
    /\ UNCHANGED <<broken, steps>>

\* The boundary reloads the tab by itself, unless it already has; the script
\* may still be missing afterwards.
RouteErrorBoundary ==
    /\ broken /\ ~chunkKey
    /\ chunkKey' = TRUE /\ reloads' = reloads + 1
    /\ Load(place, next)
    /\ UNCHANGED <<broken, steps>>

\* The button of the card shown after a second failure.
ReloadButton ==
    /\ broken /\ chunkKey /\ Step
    /\ chunkKey' = FALSE /\ reloads' = 0
    /\ Load(place, next)
    /\ UNCHANGED broken

\* The script is there (again) and RootLayout mounts.
RootLayout ==
    /\ broken /\ broken' = FALSE
    /\ chunkKey' = FALSE /\ reloads' = 0
    /\ UNCHANGED <<token, lapsed, place, next, leaving, me, authMode, refreshes, requests,
                   cached, signing, steps>>

Next ==
    \/ \E f \in refreshes, ok \in BOOLEAN : RefreshConfig(f, ok) \/ RefreshMe(f, ok)
    \/ logout
    \/ \E kind \in {"read", "write"} : apiFetch(kind)
    \/ \E r \in requests : handle401(r) \/ Answer(r)
    \/ \E t \in Users : Lapse(t)
    \/ \E p \in AppPages \cup {"login", "register"} : Navigate(p)
    \/ Redirected
    \/ \E u \in Users : onSubmit(u)
    \/ \E home \in AppPages : SignedIn(home)
    \/ SignInFails
    \/ \E u \in Users, home \in AppPages : AuthCallback(u, home)
    \/ ChunkFails \/ RouteErrorBoundary \/ ReloadButton \/ RootLayout

Spec == Init /\ [][Next]_sessionVars

----------------------------------------------------------------------------
SessionTypeOK ==
    /\ token \in Credentials /\ lapsed \subseteq Users
    /\ place \in AppPages \cup PublicPages
    /\ next \in AppPages \cup {None} /\ leaving \in AppPages \cup {None}
    /\ me \in Credentials /\ authMode \in {None, "jwt"}
    /\ refreshes \subseteq Refreshes /\ requests \subseteq Requests
    /\ cached \subseteq Requests /\ steps \in 0..MaxSteps
    /\ \/ signing = None
       \/ signing \in [who : Users, to : AppPages \cup {None}, from : {"login", "register"}]
    /\ chunkKey \in BOOLEAN /\ broken \in BOOLEAN /\ reloads \in 0..2

\* A tab whose token is gone, by a logout or by a 401, shows nobody's data
\* any more, whichever answers were still under way and however long the
\* reload of the login page takes, but for one kind of answer: that of a save
\* on its way at the sign-out, which puts what was saved into the cache.
SignedOutSeesNothing ==
    token = None => \A r \in cached : r.kind = "write" /\ ~r.live

\* A script that stays missing does not keep the tab reloading.
ReloadsOnce == reloads <= 1
=============================================================================
