---------------------------- MODULE ApprovalsPage ----------------------------
(***************************************************************************)
(* Trust of the AutoPkg recipes and the page it is decided on              *)
(* (app/approvals; services/trust.py and the trust routes of               *)
(* api/routes/autopkg.py).  A check compares the recipe's stored trust     *)
(* with GitHub; where they differ it files a change request with the       *)
(* difference, and reads GitHub again for the content the approval will    *)
(* install.  The cards of the page are a cached list of the requests; the  *)
(* buttons send the recipe's id, not the request's.                        *)
(*                                                                         *)
(* The content of a recipe's ancestors is a number that grows with every   *)
(* change on GitHub.  A handler loads its rows in one step, awaits GitHub, *)
(* and flushes what it changed in another: handlers of the same recipe     *)
(* overlap as they like.                                                   *)
(***************************************************************************)
EXTENDS Integers, Sequences

CONSTANTS
    TrustRecipes, Results,
    None,
    MaxContent,          \* bound: changes on GitHub
    MaxRequests,         \* bound: change requests filed
    MaxChecks,           \* bound: checks and re-fetches under way
    MaxApprovalEvents    \* bound: clicks and expirations

ApprovalsAssumption ==
    None \notin TrustRecipes /\ {MaxContent, MaxRequests, MaxChecks, MaxApprovalEvents} \subseteq Nat

VARIABLES
    ancestors,       \* GitHub: recipe -> content of its parents
    trust,           \* recipe -> its trust_info and trust_status
    requests,        \* the change requests, oldest first
    checks,          \* handlers that check or re-fetch recipes, or None
    decisions,       \* the decision of this page and one of another operator, or None
    imports,         \* results awaiting approval
    changesListed, importsListed,  \* the page's query cache, None while loading
    approvalStale,   \* the queries marked invalid
    approvalTab,     \* ?tab=, None when absent
    importCall,      \* the import decision on its way, or None
    accepted,        \* history: what the last approval showed and installed
    approvalEvents

server == <<ancestors, trust, requests, checks, decisions, imports>>
page == <<changesListed, importsListed, approvalStale, approvalTab, importCall>>
vars == <<server, page, accepted, approvalEvents>>

-----------------------------------------------------------------------------
TrustStatus == {"verified", "failed", "pending_approval", "unknown"}
Content == 0..MaxContent

TrustChangeRequestRead ==
    [recipe : TrustRecipes, diff : Content, new_trust_info : Content,
     status : {"pending", "approved", "rejected"}, requested_at : Nat]
AutoPkgRecipe == [trust_info : Content, trust_status : TrustStatus]

Tabs == {"imports", "trust", "workflow"}
Queries == {"pending-approvals", "pending-trust-changes"}

Pending == {i \in DOMAIN requests : requests[i].status = "pending"}
PendingOf(r) == {i \in Pending : requests[i].recipe = r}
PendingList == [i \in Pending |-> requests[i]]

Quiet == UNCHANGED <<accepted, approvalEvents>>
Event == approvalEvents < MaxApprovalEvents /\ approvalEvents' = approvalEvents + 1

\* The unit of work writes only the columns that changed since the load.
Flushed(row, loaded, new) ==
    [trust_info |-> IF new.trust_info = loaded.trust_info THEN row.trust_info ELSE new.trust_info,
     trust_status |-> IF new.trust_status = loaded.trust_status THEN row.trust_status
                      ELSE new.trust_status]

-----------------------------------------------------------------------------
AncestorsChange(r) ==
    /\ ancestors[r] < MaxContent
    /\ ancestors' = [ancestors EXCEPT ![r] = @ + 1]
    /\ UNCHANGED <<trust, requests, checks, decisions, imports, page>> /\ Quiet

\* A handler begins: it loads the rows of its recipes, and its transaction's
\* time is the requested_at of what it files.
Begin(kind, rs) ==
    \E h \in DOMAIN checks :
        /\ checks[h] = None /\ \A g \in 1..(h - 1) : checks[g] # None
        /\ checks' = [checks EXCEPT ![h] =
              [kind |-> kind, began |-> approvalEvents, loaded |-> [r \in rs |-> trust[r]],
               new |-> [r \in rs |-> trust[r]], todo |-> rs, walking |-> None, walked |-> 0,
               filed |-> <<>>]]
        /\ Event /\ UNCHANGED <<ancestors, trust, requests, decisions, imports, page, accepted>>

\* One recipe's button, the recipes about to run, every enabled recipe, and
\* the re-fetch of one.
verify_recipe_trust(r) == Begin("verify", {r})
verify_trust_live_for_recipes(rs) ==
    (\A r \in rs : trust[r].trust_status \in {"verified", "unknown"}) /\ Begin("verify", rs)
update_repos_and_verify_trust(rs) == Begin("bulk", rs)
update_recipe_trust(r) == Begin("update", {r})

\* What a handler does with one of its recipes stays in its session.
Handles(h, c) == checks' = [checks EXCEPT ![h] = c] /\
                 UNCHANGED <<ancestors, trust, requests, decisions, imports, page>> /\ Quiet
Done(c, r, row) == [c EXCEPT !.new[r] = row, !.todo = @ \ {r}, !.walking = None, !.walked = 0]

\* verify_trust: the stored trust against one walk of the live chain.
verify_trust(h, r) ==
    LET c == checks[h]
        blocked == [c.new[r] EXCEPT !.trust_status = "pending_approval"]
    IN  /\ c.kind \in {"verify", "bulk"} /\ r \in c.todo /\ c.walking = None
        /\ Handles(h, IF ancestors[r] = c.loaded[r].trust_info
                      THEN Done(c, r, [c.new[r] EXCEPT !.trust_status = "verified"])
                      ELSE [c EXCEPT !.new[r] = blocked, !.walking = r, !.walked = ancestors[r]])

\* GitHub refuses: only a check on its own makes the status unknown, and a
\* rate limit ends the loop over the recipes.
WalkFails(h, r) ==
    LET c == checks[h]
        left == IF c.kind = "verify" THEN [c.new[r] EXCEPT !.trust_status = "unknown"] ELSE c.new[r]
    IN  /\ c.kind \in {"verify", "bulk"} /\ r \in c.todo /\ c.walking = None
        /\ \E ended \in BOOLEAN :
              Handles(h, [Done(c, r, left) EXCEPT !.todo = IF ended THEN {} ELSE @])

\* Mutant: a change that was rejected is not asked about again.
FileRequest_OnlyOnce(h) ==
    LET c == checks[h]
        r == c.walking
        request == [recipe |-> r, diff |-> c.walked, new_trust_info |-> ancestors[r],
                    status |-> "pending", requested_at |-> c.began]
    IN  /\ c.walking # None
        /\ Handles(h, [Done(c, r, c.new[r]) EXCEPT
              !.filed = IF c.loaded[r].trust_status = "failed" THEN @ ELSE Append(@, request)])

\* The request has the difference of that walk and the content of another.
FileRequest(h) ==
    LET c == checks[h]
        r == c.walking
        request == [recipe |-> r, diff |-> c.walked, new_trust_info |-> ancestors[r],
                    status |-> "pending", requested_at |-> c.began]
    IN  /\ c.walking # None
        /\ Handles(h, [Done(c, r, c.new[r]) EXCEPT !.filed = Append(@, request)])

\* GitHub refuses the second walk: a check on its own is rolled back, the one
\* of all recipes goes on to the next or, after a rate limit, to its commit.
RequestFails(h) ==
    LET c == checks[h]
        r == c.walking
    IN  /\ c.walking # None
        /\ IF c.kind = "verify" THEN Handles(h, None)
           ELSE \E ended \in BOOLEAN :
                    Handles(h, [Done(c, r, c.new[r]) EXCEPT !.todo = IF ended THEN {} ELSE @])

\* A re-fetch trusts whatever GitHub has; the requests stay.
Refetch(h, r) ==
    /\ checks[h].kind = "update" /\ r \in checks[h].todo
    /\ \/ Handles(h, Done(checks[h], r, [trust_info |-> ancestors[r], trust_status |-> "verified"]))
       \/ Handles(h, None)

CheckCommits(h) ==
    LET c == checks[h]
    IN  /\ c.todo = {} /\ Len(requests) + Len(c.filed) <= MaxRequests
        /\ trust' = [r \in TrustRecipes |->
              IF r \in DOMAIN c.loaded THEN Flushed(trust[r], c.loaded[r], c.new[r]) ELSE trust[r]]
        /\ requests' = requests \o c.filed
        /\ checks' = [checks EXCEPT ![h] = None]
        /\ UNCHANGED <<ancestors, decisions, imports, page>> /\ Quiet

-----------------------------------------------------------------------------
\* approve_recipe_trust, of the page and of another operator: it loads the
\* recipe, then its newest pending request (400 when there is none), and
\* commits both.
OtherDecides(r) ==
    /\ decisions["other"] = None
    /\ \E approved \in BOOLEAN :
          decisions' = [decisions EXCEPT !["other"] =
              [recipe |-> r, shown |-> None, approved |-> approved, loaded |-> None, chosen |-> 0]]
    /\ Event /\ UNCHANGED <<ancestors, trust, requests, checks, imports, page, accepted>>

LoadRecipe(who) ==
    LET d == decisions[who]
    IN  /\ d # None /\ d.loaded = None
        /\ decisions' = [decisions EXCEPT ![who].loaded = trust[d.recipe]]
        /\ UNCHANGED <<ancestors, trust, requests, checks, imports, page>> /\ Quiet
SelectRequest(who) ==
    LET d == decisions[who]
    IN  /\ d # None /\ d.loaded # None /\ d.chosen = 0
        /\ \E i \in PendingOf(d.recipe) :
              /\ \A j \in PendingOf(d.recipe) : requests[j].requested_at <= requests[i].requested_at
              /\ decisions' = [decisions EXCEPT ![who].chosen = i]
        /\ UNCHANGED <<ancestors, trust, requests, checks, imports, page>> /\ Quiet

\* The page's answer, unless it is lost, invalidates the list.
Decide(who) ==
    LET d == decisions[who]
        new == IF d.approved
               THEN [trust_info |-> requests[d.chosen].new_trust_info, trust_status |-> "verified"]
               ELSE [d.loaded EXCEPT !.trust_status = "failed"]
    IN  /\ d # None /\ d.chosen # 0
        /\ requests' = [requests EXCEPT ![d.chosen].status =
                            IF d.approved THEN "approved" ELSE "rejected"]
        /\ trust' = [trust EXCEPT ![d.recipe] = Flushed(@, d.loaded, new)]
        /\ decisions' = [decisions EXCEPT ![who] = None]
        /\ approvalStale' \in IF who = "page"
                              THEN {approvalStale, approvalStale \cup {"pending-trust-changes"}}
                              ELSE {approvalStale}
        /\ accepted' = IF who = "page" /\ d.approved
                       THEN [shown |-> d.shown, installed |-> requests[d.chosen].new_trust_info]
                       ELSE accepted
        /\ UNCHANGED <<ancestors, checks, imports, changesListed, importsListed, approvalTab,
                       importCall, approvalEvents>>

\* No recipe (404), no pending request (400), or the call fails.
Refused(who) ==
    /\ decisions[who] # None
    /\ decisions' = [decisions EXCEPT ![who] = None]
    /\ UNCHANGED <<ancestors, trust, requests, checks, imports, page>> /\ Quiet

-----------------------------------------------------------------------------
\* The page's queries.
LoadChanges ==
    /\ changesListed = None \/ "pending-trust-changes" \in approvalStale
    /\ changesListed' = PendingList
    /\ approvalStale' = approvalStale \ {"pending-trust-changes"}
    /\ UNCHANGED <<server, importsListed, approvalTab, importCall>> /\ Quiet
LoadImports ==
    /\ importsListed = None \/ "pending-approvals" \in approvalStale
    /\ importsListed' = imports
    /\ approvalStale' = approvalStale \ {"pending-approvals"}
    /\ UNCHANGED <<server, changesListed, approvalTab, importCall>> /\ Quiet
ListsExpire ==
    /\ changesListed # None /\ importsListed # None /\ approvalStale # Queries
    /\ approvalStale' = Queries
    /\ Event /\ UNCHANGED <<server, changesListed, importsListed, approvalTab, importCall,
                            accepted>>

isLoading == changesListed = None \/ importsListed = None

\* Without ?tab= the page opens on the trust changes while there are any.
activeTab ==
    CASE approvalTab # None -> approvalTab
      [] approvalTab = None /\ DOMAIN changesListed # {} -> "trust"
      [] OTHER -> "imports"

setTab(t) ==
    /\ ~isLoading /\ activeTab # t
    /\ approvalTab' = t
    /\ Event /\ UNCHANGED <<server, changesListed, importsListed, approvalStale, importCall,
                            accepted>>

\* The cards with their Approve and Reject buttons, all of them disabled
\* while one decision is on its way.
TrustCards ==
    IF isLoading \/ decisions["page"] # None THEN {}
    ELSE IF activeTab # "trust" THEN {}
    ELSE {[recipe |-> changesListed[i].recipe, shown |-> changesListed[i].diff, approved |-> ok] :
            i \in DOMAIN changesListed, ok \in BOOLEAN}
ImportCards ==
    IF isLoading \/ importCall # None THEN {}
    ELSE IF activeTab # "imports" THEN {}
    ELSE {[id |-> x, approved |-> ok] : x \in importsListed, ok \in BOOLEAN}

trustApproveMutation ==
    /\ \E card \in TrustCards :
          decisions' = [decisions EXCEPT !["page"] =
              [recipe |-> card.recipe, shown |-> card.shown, approved |-> card.approved,
               loaded |-> None, chosen |-> 0]]
    /\ Event /\ UNCHANGED <<ancestors, trust, requests, checks, imports, page, accepted>>
approveMutation ==
    /\ importCall' \in ImportCards
    /\ Event /\ UNCHANGED <<server, changesListed, importsListed, approvalStale, approvalTab,
                            accepted>>

ImportDecided ==
    /\ importCall # None
    /\ imports' = imports \ {importCall.id}
    /\ importCall' = None /\ approvalStale' = approvalStale \cup {"pending-approvals"}
    /\ UNCHANGED <<ancestors, trust, requests, checks, decisions, changesListed, importsListed,
                   approvalTab>> /\ Quiet
ImportRefused ==
    /\ importCall # None /\ importCall' = None
    /\ UNCHANGED <<server, changesListed, importsListed, approvalStale, approvalTab>>
    /\ Quiet

-----------------------------------------------------------------------------
Init ==
    /\ ancestors = [r \in TrustRecipes |-> 0]
    /\ trust = [r \in TrustRecipes |-> [trust_info |-> 0, trust_status |-> "verified"]]
    /\ requests = <<>> /\ checks = [h \in 1..MaxChecks |-> None] /\ imports = Results
    /\ decisions = [who \in {"page", "other"} |-> None]
    /\ changesListed = None /\ importsListed = None /\ approvalStale = {} /\ approvalTab = None
    /\ importCall = None /\ accepted = None /\ approvalEvents = 0

Next ==
    \/ \E r \in TrustRecipes :
          \/ AncestorsChange(r) \/ verify_recipe_trust(r) \/ update_recipe_trust(r)
          \/ OtherDecides(r)
    \/ \E rs \in SUBSET TrustRecipes \ {{}} :
          verify_trust_live_for_recipes(rs) \/ update_repos_and_verify_trust(rs)
    \/ \E h \in {g \in DOMAIN checks : checks[g] # None} :
          \/ \E r \in checks[h].todo : verify_trust(h, r) \/ WalkFails(h, r) \/ Refetch(h, r)
          \/ FileRequest(h) \/ RequestFails(h) \/ CheckCommits(h)
    \/ \E who \in DOMAIN decisions :
          LoadRecipe(who) \/ SelectRequest(who) \/ Decide(who) \/ Refused(who)
    \/ LoadChanges \/ LoadImports \/ ListsExpire
    \/ \E t \in Tabs : setTab(t)
    \/ trustApproveMutation \/ approveMutation
    \/ ImportDecided \/ ImportRefused

Spec == Init /\ [][Next]_vars

-----------------------------------------------------------------------------
ApprovalsTypeOK ==
    /\ trust \in [TrustRecipes -> AutoPkgRecipe]
    /\ requests \in Seq(TrustChangeRequestRead)
    /\ approvalStale \subseteq Queries /\ approvalTab \in Tabs \cup {None}
    /\ imports \subseteq Results

Blocked(r) == trust[r].trust_status = "pending_approval" /\ PendingOf(r) = {}

\* The check of all recipes, after the second walk for r was refused.
BlocksOnly(c, r) ==
    /\ c # None /\ c.kind = "bulk" /\ r \in DOMAIN c.new
    /\ c.new[r].trust_status = "pending_approval"
    /\ \A i \in DOMAIN c.filed : c.filed[i].recipe # r

\* A decision that loaded the recipe before it was blocked.
LoadedBefore(d, r) ==
    /\ d # None /\ d.recipe = r
    /\ d.loaded # None /\ d.loaded.trust_status # "pending_approval"

\* One of these two commits.
Excused(r) ==
    \/ \E h \in DOMAIN checks : checks'[h] = None /\ BlocksOnly(checks[h], r)
    \/ \E who \in DOMAIN decisions : decisions'[who] = None /\ LoadedBefore(decisions[who], r)

(* A recipe that is blocked because a change awaits approval has a change   *)
(* request that can be approved.  Checks, re-fetches and decisions of the   *)
(* same recipe overlap in any order, and only two of them leave a recipe    *)
(* blocked without a request: the check of all recipes, which sets the      *)
(* status before the call that may raise and commits all the same; and a    *)
(* decision that takes the request of a check that ran between its load and *)
(* its SELECT, so that the status it sets is no change to flush.            *)
BlockedCanBeApproved ==
    [][\A r \in TrustRecipes : ~Blocked(r) /\ Blocked(r)' => Excused(r)]_vars

(* What an approval installs is what the card that was clicked showed: the  *)
(* guide for runners promises that "any change in any ancestor is visible   *)
(* in the diff and requires explicit approval".                             *)
ApprovedWasInTheDiff == accepted # None => accepted.shown = accepted.installed
=============================================================================
