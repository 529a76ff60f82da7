-------------------------- MODULE WebAdministration --------------------------
(***************************************************************************)
(* The pages of the web interface for AutoPkg, accounts, enrollment and    *)
(* insights, for TLC.  As in WebLibrary, a browser tab has one of them     *)
(* open and what the others hold is at rest.                               *)
(***************************************************************************)
EXTENDS Integers, FiniteSets, Sequences, TLC

CONSTANTS
    None,
    \* recipes and their overrides, the recipe lists, the import dialog
    Recipes, MaxRecipeEdits, MaxRecipeEvents,
    Overrides, MaxListEvents,
    Files, MaxChoices,
    \* trust requests and imports, schedules, repositories
    TrustRecipes, Results, MaxContent, MaxRequests, MaxChecks, MaxApprovalEvents,
    Schedules, Labels, MaxScheduleEvents,
    Repos, MaxDiscoverEvents,
    \* accounts and roles, enrollment, insights, the tab's session
    Accounts, Roles, Superusers, SystemRoles, Me, MaxAccessEvents,
    Tokens, Macs, MaxEnrollEvents,
    Questions, MaxStored, MaxChatEvents,
    Users, Readers, AppPages, MaxSteps, MaxWaiting

VARIABLES
    tab,
    recipes, recipeCache, recipeStale, recipeAnswer, recipePage, canEditRecipes,
    recipeEditing, overrideForm, recipeCalls, recipeEdits, recipeEvents,
    overrides, upstream, filter, listed, listStale, selection, quickRun, verifying,
    trustIssue, runPost, startedRuns, rowCalls, listEvents,
    triggerOpen, picked, pickSearch, enabledRows, enabledStale, meantAll,
    imported, importOpen, importContent, importItems, importBatch, importSingle, acked,
    choices,
    ancestors, trust, requests, checks, decisions, imports, changesListed, importsListed,
    approvalStale, approvalTab, importCall, accepted, approvalEvents,
    schedules, recipeState, restricted, schedulesShown, schedulesStale, runnableShown,
    scheduleDialog, scheduleForm, recipeSearch, saving, removing, scheduleEvents,
    organisation, repos, discovered, reposShown, recipesShown, discoverStale, searching,
    selectedRepo, addRepo, discoverCalls, dialogCalls, byHand, discoverEvents,
    memberships, permissions, users, roles, loads, editUser, selected, deleteUserTarget,
    permissionsDialogRoleId, levels, touched, addRoleOpen, deleteTarget, accessCalls,
    accessEvents,
    tokens, tokenList, tokenListStale, tokenForm, creation, justCreated, revocation,
    enrollPage, redemption, profiles, brokenOff, enrollEvents,
    chat, streams, chatStatus, chatError, abortRef, onPage, mount, chatEvents,
    token, lapsed, place, next, leaving, me, authMode, refreshes, apiCalls, cached,
    signing, chunkKey, broken, reloads, steps

-----------------------------------------------------------------------------
(* The pages.  Names that two modules use for different things have one    *)
(* here for each.                                                          *)

OE == INSTANCE OverrideEditor
RU == INSTANCE RunsPage
OI == INSTANCE OverrideImport
AP == INSTANCE ApprovalsPage
SC == INSTANCE ScheduleEditor WITH recipesShown <- runnableShown
DI == INSTANCE DiscoverPage
AA == INSTANCE AccessAdmin WITH Users <- Accounts
EN == INSTANCE Enrollment
IC == INSTANCE InsightsChat
SS == INSTANCE Session WITH requests <- apiCalls

ASSUME InstanceAssumptions ==
    /\ OE!RecipeAssumption /\ RU!ListAssumption /\ OI!ImportAssumption
    /\ AP!ApprovalsAssumption /\ SC!ScheduleEditorAssumption /\ DI!DiscoverAssumption
    /\ AA!AccessAssumption /\ EN!EnrollmentAssumption /\ IC!ChatAssumption
    /\ SS!SessionAssumption

-----------------------------------------------------------------------------
recipeVars ==
    <<recipes, recipeCache, recipeStale, recipeAnswer, recipePage, canEditRecipes,
      recipeEditing, overrideForm, recipeCalls, recipeEdits, recipeEvents>>
listVars ==
    <<overrides, upstream, filter, listed, listStale, selection, quickRun, verifying,
      trustIssue, runPost, startedRuns, rowCalls, listEvents>>
triggerVars ==
    <<triggerOpen, picked, pickSearch, enabledRows, enabledStale, meantAll>>
importVars ==
    <<imported, importOpen, importContent, importItems, importBatch, importSingle,
      acked, choices>>
approvalVars ==
    <<ancestors, trust, requests, checks, decisions, imports, changesListed,
      importsListed, approvalStale, approvalTab, importCall, accepted, approvalEvents>>
scheduleVars ==
    <<schedules, recipeState, restricted, schedulesShown, schedulesStale,
      runnableShown, scheduleDialog, scheduleForm, recipeSearch, saving, removing,
      scheduleEvents>>
discoverVars ==
    <<organisation, repos, discovered, reposShown, recipesShown, discoverStale,
      searching, selectedRepo, addRepo, discoverCalls, dialogCalls, byHand,
      discoverEvents>>
accessVars ==
    <<memberships, permissions, users, roles, loads, editUser, selected,
      deleteUserTarget, permissionsDialogRoleId, levels, touched, addRoleOpen,
      deleteTarget, accessCalls, accessEvents>>
enrollVars ==
    <<tokens, tokenList, tokenListStale, tokenForm, creation, justCreated, revocation,
      enrollPage, redemption, profiles, brokenOff, enrollEvents>>
chatVars ==
    <<chat, streams, chatStatus, chatError, abortRef, onPage, mount, chatEvents>>
sessionVars ==
    <<token, lapsed, place, next, leaving, me, authMode, refreshes, apiCalls, cached,
      signing, chunkKey, broken, reloads, steps>>

Tabs ==
    {"recipe", "recipes", "runs", "import", "approvals", "schedules", "discover",
     "access", "enrollment", "insights", "session"}

vars ==
    <<tab, recipeVars, listVars, triggerVars, importVars, approvalVars, scheduleVars,
      discoverVars, accessVars, enrollVars, chatVars, sessionVars>>

\* A page at rest is in one initial state: some recipe is open in its page, and
\* some schedule exists, and which does not matter.
Init ==
    /\ tab \in Tabs
    /\ OE!Init /\ RU!RunsInit /\ OI!Init /\ AP!Init /\ SC!Init /\ DI!Init /\ AA!Init
    /\ EN!Init /\ IC!Init /\ SS!Init
    /\ recipePage \in IF tab = "recipe" THEN {None, CHOOSE r \in Recipes : TRUE} ELSE {None}
    /\ tab # "schedules" => restricted = {} /\ schedules[CHOOSE s \in Schedules : TRUE] # None
    /\ tab # "discover" => organisation = {}
    /\ tab # "session" => token = None /\ place = "login"

\* Only the tab's page takes steps; the runs page has the list of recipes too.
Shows(t) ==
    /\ tab = t /\ UNCHANGED tab
    /\ IF t = "recipe" THEN OE!Next ELSE UNCHANGED recipeVars
    /\ CASE t = "recipes" -> RU!Next /\ UNCHANGED triggerVars
         [] t = "runs" -> RU!RunsNext
         [] OTHER -> UNCHANGED <<listVars, triggerVars>>
    /\ IF t = "import" THEN OI!Next ELSE UNCHANGED importVars
    /\ IF t = "approvals" THEN AP!Next ELSE UNCHANGED approvalVars
    /\ IF t = "schedules" THEN SC!Next ELSE UNCHANGED scheduleVars
    /\ IF t = "discover" THEN DI!Next ELSE UNCHANGED discoverVars
    /\ IF t = "access" THEN AA!Next ELSE UNCHANGED accessVars
    /\ IF t = "enrollment" THEN EN!Next ELSE UNCHANGED enrollVars
    /\ IF t = "insights" THEN IC!Next ELSE UNCHANGED chatVars
    /\ IF t = "session" THEN SS!Next ELSE UNCHANGED sessionVars

Next ==
    \/ Shows("recipe") \/ Shows("recipes") \/ Shows("runs") \/ Shows("import")
    \/ Shows("approvals") \/ Shows("schedules") \/ Shows("discover") \/ Shows("access")
    \/ Shows("enrollment") \/ Shows("insights") \/ Shows("session")

Spec == Init /\ [][Next]_vars

-----------------------------------------------------------------------------
(* Each page has its types.                                                *)
TypeOK ==
    CASE tab = "recipe" -> OE!RecipeTypeOK
      [] tab \in {"recipes", "runs"} -> RU!RunsTypeOK
      [] tab = "import" -> OI!ImportTypeOK
      [] tab = "approvals" -> AP!ApprovalsTypeOK
      [] tab = "schedules" -> SC!ScheduleEditorTypeOK
      [] tab = "discover" -> DI!DiscoverTypeOK
      [] tab = "access" -> AA!AccessTypeOK
      [] tab = "enrollment" -> EN!EnrollmentTypeOK
      [] tab = "insights" -> IC!ChatTypeOK
      [] tab = "session" -> SS!SessionTypeOK

(* What nobody touched is not sent in an older version than was received:  *)
(* neither the fields of a recipe, whose save is addressed to it, nor the  *)
(* levels of a role.                                                       *)
UntouchedIsAsReceived ==
    OE!RecipeWritesItsOwn /\ OE!UntouchedAsReceived /\ AA!UntouchedLevelsAreListed

(* A recipe whose check failed is in no run that the check led to, and all *)
(* recipes run only when none was picked.                                  *)
RunsAreMeant == RU!FailedCheckNeverRuns /\ RU!RunAllWasMeant

(* After a batch that failed in part only the failures are sent again.     *)
RetrySendsOnlyFailures == OI!RetrySendsOnlyFailures

(* A recipe blocked for approval has a change that can be approved.        *)
BlockedCanBeApproved == AP!BlockedCanBeApproved

(* A schedule kept to specific recipes does not come to run all.           *)
RestrictedStaysRestricted == SC!RestrictedStaysRestricted

(* A repository added by hand stays, and one that is removed is closed.    *)
RepositoriesAsAsked == DI!AddedByHandStays /\ DI!RemovedRepoIsClosed

(* A redeemed token no longer carries the repository's password.           *)
SecretsAreWiped == EN!SecretsAreWiped

(* An answer stands under its question and holds what was streamed for it. *)
AnswersUnderTheirQuestion == IC!AnswersUnderTheirQuestion

(* A tab that is signed out shows nobody's data, and a missing script does *)
(* not keep a tab reloading.                                               *)
SessionEndsOnce == SS!SignedOutSeesNothing /\ SS!ReloadsOnce
=============================================================================
