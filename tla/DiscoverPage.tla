----------------------------- MODULE DiscoverPage -----------------------------
(***************************************************************************)
(* The discover page (app/autopkg/discover) over the cache of AutoPkg      *)
(* repositories: repositories of the autopkg organisation and others added *)
(* by hand, the index of their recipes, and overrides added from it.  The  *)
(* dialog of a repository holds the row it was opened with.                *)
(*                                                                         *)
(* Every repository holds one recipe.  The index guesses its identifier    *)
(* from the repository and its name; the override gets another one, made   *)
(* from the name alone.                                                    *)
(***************************************************************************)
EXTENDS Naturals, FiniteSets, TLC

CONSTANTS
    Repos,
    None,
    MaxDiscoverEvents   \* bound: clicks and changes elsewhere

CachedGitHubRepo == [is_custom : BOOLEAN, cached : BOOLEAN]

DiscoverAssumption ==
    None \notin Repos \cup CachedGitHubRepo /\ MaxDiscoverEvents \in Nat

VARIABLES
    organisation,   \* GitHub: the repositories of the autopkg organisation
    repos,          \* server: repository -> [is_custom, cached], None when not cached
    discovered,     \* server: identifiers of the recipe overrides
    reposShown,     \* query cache of the repositories, None while loading
    recipesShown,   \* query cache of the identifiers, None while loading
    discoverStale,  \* which of the two are marked invalid
    searching,      \* whether the search box holds a search
    selectedRepo,   \* the dialog's repository, as listed, or None
    addRepo,        \* the dialog to add a repository: what is typed, or None
    discoverCalls,  \* mutations of the page on their way
    dialogCalls,    \* mutations of the repository dialog on their way
    byHand,         \* history: added by hand and in no synchronised list since
    discoverEvents

server == <<organisation, repos, discovered, byHand>>
cached == <<reposShown, recipesShown, discoverStale>>
dialogs == <<selectedRepo, addRepo>>
calls == <<discoverCalls, dialogCalls>>
vars == <<server, cached, searching, dialogs, calls, discoverEvents>>

-----------------------------------------------------------------------------
Row(r) == [id |-> r, is_custom |-> repos[r].is_custom, cached |-> repos[r].cached]

identifier_guess(r) == <<"com.github", r>>
override_identifier(r) == <<"local.munki", r>>
existingIdentifiers == IF recipesShown = None THEN {} ELSE recipesShown
alreadyAdded(r) == identifier_guess(r) \in existingIdentifiers

Quiet == UNCHANGED discoverEvents
Event == discoverEvents < MaxDiscoverEvents /\ discoverEvents' = discoverEvents + 1
Kinds(set) == {c.what : c \in set}

LoadRepos ==
    /\ reposShown = None \/ "discover-repos" \in discoverStale
    /\ reposShown' = {Row(r) : r \in {x \in Repos : repos[x] # None}}
    /\ discoverStale' = discoverStale \ {"discover-repos"}
    /\ Quiet /\ UNCHANGED <<server, recipesShown, searching, dialogs, calls>>
LoadRecipes ==
    /\ recipesShown = None \/ "autopkg-recipes" \in discoverStale
    /\ recipesShown' = discovered
    /\ discoverStale' = discoverStale \ {"autopkg-recipes"}
    /\ Quiet /\ UNCHANGED <<server, reposShown, searching, dialogs, calls>>

NoDialog == selectedRepo = None /\ addRepo = None
isMutatingRepos == Kinds(discoverCalls) \cap {"sync repos", "sync recipes", "add repo", "remove"} # {}

\* The search box: with a search, only the matching cards list recipes.
Search ==
    /\ NoDialog
    /\ searching' = ~searching
    /\ Event /\ UNCHANGED <<server, cached, dialogs, calls>>

\* Buttons of the page: the two synchronisations, the dialog to add a
\* repository, and on each card its removal, its recipes and their +.
HeaderButtons ==
    IF isMutatingRepos \/ ~NoDialog THEN {}
    ELSE {"sync repos", "add repo"}
         \cup (IF reposShown \in {None, {}} THEN {} ELSE {"sync recipes"})
RepoCards ==
    IF reposShown = None \/ ~NoDialog THEN {}
    ELSE {[what |-> "open", repo |-> row] : row \in reposShown}
         \cup (IF "remove" \in Kinds(discoverCalls) THEN {}
               ELSE {[what |-> "remove", repo |-> row] : row \in {x \in reposShown : x.is_custom}})
RecipeCards ==
    IF reposShown = None \/ ~NoDialog \/ ~searching \/ "add" \in Kinds(discoverCalls) THEN {}
    ELSE {[what |-> "add", repo |-> row] :
            row \in {x \in reposShown : x.cached /\ ~alreadyAdded(x.id)}}

PressHeader(button) ==
    /\ button \in HeaderButtons
    /\ IF button = "add repo"
       THEN (\E r \in Repos : addRepo' = r) /\ UNCHANGED discoverCalls
       ELSE discoverCalls' = discoverCalls \cup {[what |-> button]} /\ UNCHANGED addRepo
    /\ Event /\ UNCHANGED <<server, cached, searching, selectedRepo, dialogCalls>>
PressCard(card) ==
    /\ card \in RepoCards \cup RecipeCards
    /\ IF card.what = "open"
       THEN selectedRepo' = card.repo /\ UNCHANGED discoverCalls
       ELSE /\ discoverCalls' = discoverCalls \cup {[what |-> card.what, repo |-> card.repo.id]}
            /\ UNCHANGED selectedRepo
    /\ Event /\ UNCHANGED <<server, cached, searching, addRepo, dialogCalls>>

\* The dialog to add a repository (owner/repo is typed).
ConfirmAddRepo ==
    /\ addRepo # None /\ "add repo" \notin Kinds(discoverCalls)
    /\ discoverCalls' = discoverCalls \cup {[what |-> "add repo", repo |-> addRepo]}
    /\ Event /\ UNCHANGED <<server, cached, searching, dialogs, dialogCalls>>
\* The mutations of the repository dialog are its own: closing forgets them.
CloseDialogs ==
    /\ ~NoDialog
    /\ selectedRepo' = None /\ addRepo' = None
    /\ dialogCalls' = {[c EXCEPT !.open = FALSE] : c \in dialogCalls}
    /\ Quiet /\ UNCHANGED <<server, cached, searching, discoverCalls>>

\* RepoRecipesDialog: the recipes of the row, or of a fetch when the row has
\* none, each with its +, and Sync.
RepoRecipesDialog ==
    IF selectedRepo = None THEN {}
    ELSE {b \in {"sync", "add"} :
            /\ \A c \in dialogCalls : c.open => c.what # b
            /\ b = "add" => ~alreadyAdded(selectedRepo.id)}
PressInDialog(button) ==
    /\ button \in RepoRecipesDialog
    /\ dialogCalls' = dialogCalls \cup {[what |-> button, repo |-> selectedRepo.id, open |-> TRUE]}
    /\ Event /\ UNCHANGED <<server, cached, searching, dialogs, discoverCalls>>

-----------------------------------------------------------------------------
\* Mutant: what was added by hand is pruned too.
Pruned_All(listed) == {r \in Repos : repos[r] # None /\ r \notin listed}

\* sync_repos_to_cache: listed repositories are added or become ordinary
\* entries, the others go unless they are custom.
Pruned(listed) == {r \in Repos : repos[r] # None /\ r \notin listed /\ ~repos[r].is_custom}
ReposSynced ==
    /\ organisation # {}
    /\ repos' = [r \in Repos |->
          CASE r \in organisation -> [is_custom |-> FALSE, cached |-> repos[r] # None /\ repos[r].cached]
            [] r \in Pruned(organisation) -> None
            [] OTHER -> repos[r]]
    /\ byHand' = byHand \ organisation
    /\ discoverStale' = discoverStale \cup {"discover-repos"}
    /\ UNCHANGED <<organisation, discovered, dialogs>>
RecipesSynced ==
    /\ repos' = [r \in Repos |-> IF repos[r] = None THEN None ELSE [repos[r] EXCEPT !.cached = TRUE]]
    /\ discoverStale' = discoverStale \cup {"discover-repos"}
    /\ UNCHANGED <<organisation, discovered, byHand, dialogs>>
\* add_custom_repo_to_cache returns an entry that is there as it is.
RepoAdded(r) ==
    /\ repos' = [repos EXCEPT ![r] = IF @ # None THEN @ ELSE [is_custom |-> TRUE, cached |-> FALSE]]
    /\ byHand' = IF repos[r] = None THEN byHand \cup {r} ELSE byHand
    /\ addRepo' = None
    /\ discoverStale' = discoverStale \cup {"discover-repos"}
    /\ UNCHANGED <<organisation, discovered, selectedRepo>>

\* Mutant: the dialog is compared with the repository shown at the click,
\* when none was.
Unselect_AtClick(r) == UNCHANGED selectedRepo

Unselect(r) ==
    selectedRepo' = IF selectedRepo # None /\ selectedRepo.id = r THEN None ELSE selectedRepo

RepoRemoved(r) ==
    /\ repos[r] # None
    /\ repos' = [repos EXCEPT ![r] = None]
    /\ byHand' = byHand \ {r}
    /\ Unselect(r)
    /\ discoverStale' = discoverStale \cup {"discover-repos"}
    /\ UNCHANGED <<organisation, discovered, addRepo>>
\* add_recipe_override refuses an identifier that is there (409).
OverrideAdded(r) ==
    /\ override_identifier(r) \notin discovered
    /\ discovered' = discovered \cup {override_identifier(r)}
    /\ discoverStale' = discoverStale \cup {"autopkg-recipes"}
    /\ UNCHANGED <<organisation, repos, byHand, dialogs>>
CallFails == UNCHANGED <<server, dialogs, discoverStale>>

Answered(c) ==
    /\ discoverCalls' = discoverCalls \ {c}
    /\ \/ c.what = "sync repos" /\ ReposSynced
       \/ c.what = "sync recipes" /\ RecipesSynced
       \/ c.what = "add repo" /\ RepoAdded(c.repo)
       \/ c.what = "remove" /\ RepoRemoved(c.repo)
       \/ c.what = "add" /\ OverrideAdded(c.repo)
       \/ CallFails
    /\ Quiet /\ UNCHANGED <<reposShown, recipesShown, searching, dialogCalls>>
\* Sync of the dialog indexes the repository again; the row shown stays.
DialogAnswered(c) ==
    /\ dialogCalls' = dialogCalls \ {c}
    /\ \/ /\ c.what = "sync" /\ repos[c.repo] # None
          /\ repos' = [repos EXCEPT ![c.repo].cached = TRUE]
          /\ discoverStale' = discoverStale \cup {"discover-repos"}
          /\ UNCHANGED <<organisation, discovered, byHand, dialogs>>
       \/ c.what = "add" /\ OverrideAdded(c.repo)
       \/ CallFails
    /\ Quiet /\ UNCHANGED <<reposShown, recipesShown, searching, discoverCalls>>

\* The organisation's list changes on GitHub.
OrganisationChanges(r) ==
    /\ organisation' = (organisation \ {r}) \cup ({r} \ organisation)
    /\ Event /\ UNCHANGED <<repos, discovered, byHand, cached, searching, dialogs, calls>>

-----------------------------------------------------------------------------
Init ==
    /\ organisation \in SUBSET Repos
    /\ repos = [r \in Repos |-> IF r \in organisation THEN [is_custom |-> FALSE, cached |-> TRUE] ELSE None]
    /\ discovered = {} /\ reposShown = None /\ recipesShown = None /\ discoverStale = {}
    /\ searching = FALSE /\ selectedRepo = None /\ addRepo = None
    /\ discoverCalls = {} /\ dialogCalls = {} /\ byHand = {} /\ discoverEvents = 0

Next ==
    \/ LoadRepos \/ LoadRecipes \/ Search
    \/ \E b \in HeaderButtons : PressHeader(b)
    \/ \E card \in RepoCards \cup RecipeCards : PressCard(card)
    \/ ConfirmAddRepo \/ CloseDialogs
    \/ \E b \in RepoRecipesDialog : PressInDialog(b)
    \/ \E c \in discoverCalls : Answered(c)
    \/ \E c \in dialogCalls : DialogAnswered(c)
    \/ \E r \in Repos : OrganisationChanges(r)

Spec == Init /\ [][Next]_vars

-----------------------------------------------------------------------------
DiscoverTypeOK ==
    /\ \A r \in Repos : repos[r] # None => repos[r] \in CachedGitHubRepo
    /\ discovered \subseteq {override_identifier(r) : r \in Repos}
    /\ addRepo \in Repos \cup {None}

(* A repository added by hand stays in the cache until it is removed by     *)
(* hand, whatever the organisation's list holds at each synchronisation;    *)
(* one that has been in a synchronised list goes when it leaves that list.  *)
AddedByHandStays == [][\A r \in byHand' : repos'[r] # None]_<<byHand, repos>>

(* When the removal of a repository succeeds its dialog is closed, also     *)
(* when the dialog was opened while the removal was on its way.             *)
RemovedRepoIsClosed ==
    [][\A c \in discoverCalls \ discoverCalls' :
          c.what = "remove" /\ repos[c.repo] # None /\ repos'[c.repo] = None =>
             selectedRepo' = None \/ (selectedRepo' # None /\ selectedRepo'.id # c.repo)]_vars

=============================================================================
