------------------------------ MODULE RunsPage ------------------------------
(***************************************************************************)
(* The "Trigger run" dialog of the runs page (app/autopkg/runs), over the  *)
(* server, trust check and run requests of RecipesPage: the page holds its *)
(* own copy of that flow.  The dialog picks names from the cached list of  *)
(* enabled recipes; the server reads an empty list as "every recipe".      *)
(***************************************************************************)
EXTENDS RecipesPage

VARIABLES
    triggerOpen,
    picked,        \* names ticked in the dialog; kept when it is cancelled
    pickSearch,    \* the recipes the search text matches
    enabledRows,   \* cached rows of ['autopkg-recipes-enabled'], or None
    enabledStale,
    meantAll       \* history: nothing was ticked when Run was pressed

triggerVars == <<triggerOpen, picked, pickSearch, enabledRows, enabledStale, meantAll>>
listPageVars == <<listVars, quickRun, rowCalls>>
runsVars == <<vars, triggerVars>>

-----------------------------------------------------------------------------
filteredRows == IF enabledRows = None THEN {} ELSE {row \in enabledRows : row.id \in pickSearch}
runnableInFilter == {row.id : row \in {x \in filteredRows : canTriggerRunRecipe(x)}}

\* Read when the dialog opens or a run was posted, and again as it likes.
FetchEnabled ==
    /\ triggerOpen
    /\ enabledRows' = {row \in Listing("") : row.enabled}
    /\ enabledStale \/ enabledRows' # enabledRows
    /\ enabledStale' = FALSE
    /\ Silent /\ UNCHANGED <<overrides, upstream, listPageVars, verifying, trustIssue, runPost,
                             startedRuns, triggerOpen, picked, pickSearch, meantAll>>

\* The trigger button and Cancel; neither touches the ticks.
ShowDialog ==
    /\ trustIssue = None
    /\ triggerOpen' = ~triggerOpen
    /\ IF triggerOpen THEN Silent ELSE Note
    /\ UNCHANGED <<overrides, upstream, listPageVars, verifying, trustIssue, runPost, startedRuns,
                   picked, pickSearch, enabledRows, enabledStale, meantAll>>

SearchRecipes(matches) ==
    /\ triggerOpen /\ matches # pickSearch
    /\ pickSearch' = matches
    /\ Note /\ UNCHANGED <<overrides, upstream, listPageVars, verifying, trustIssue, runPost,
                           startedRuns, triggerOpen, picked, enabledRows, enabledStale, meantAll>>

Pick(names) ==
    /\ triggerOpen
    /\ picked' = names
    /\ Note /\ UNCHANGED <<overrides, upstream, listPageVars, verifying, trustIssue, runPost,
                           startedRuns, triggerOpen, pickSearch, enabledRows, enabledStale, meantAll>>

toggleRecipe(name) ==
    /\ name \in runnableInFilter
    /\ Pick((picked \cup {name}) \ (picked \cap {name}))

\* The search narrows what "all" means, and what is ticked outside it is lost.
toggleAll ==
    /\ runnableInFilter # {}
    /\ Pick(IF runnableInFilter \subseteq picked THEN {} ELSE runnableInFilter)

-----------------------------------------------------------------------------
\* What is ticked and still listed as runnable.
runnableNames ==
    {row.id : row \in {x \in (IF enabledRows = None THEN {} ELSE enabledRows) :
                           x.id \in picked /\ canTriggerRunRecipe(x)}}

\* Mutant: ticks that cannot run any more are dropped without a word.
MayTrigger_Always == TRUE

MayTrigger == picked # {} => runnableNames # {}

handleTrigger ==
    /\ triggerOpen /\ ~runActionPending
    /\ MayTrigger
    /\ verifying' = [names |-> runnableNames]
    /\ meantAll' = (picked = {})
    /\ Note /\ UNCHANGED <<overrides, upstream, listPageVars, trustIssue, runPost, startedRuns,
                           triggerOpen, picked, pickSearch, enabledRows, enabledStale>>

CloseAfterCheck ==
    /\ triggerOpen' = FALSE /\ picked' = {} /\ pickSearch' = Overrides
    /\ UNCHANGED <<enabledRows, meantAll>>

\* onTriggerRunWithTrust, then the rest of handleTrigger.
onTriggerRunWithTrust ==
    /\ onQuickRunConfirm
    /\ enabledStale' = TRUE
    /\ CloseAfterCheck

TriggerCheckFails ==
    /\ VerifyFails
    /\ UNCHANGED enabledStale
    /\ CloseAfterCheck

TriggerPosted ==
    /\ RunPosted
    /\ enabledStale' = TRUE
    /\ UNCHANGED <<triggerOpen, picked, pickSearch, enabledRows, meantAll>>

\* The other steps of the flow and of the world leave the dialog alone.
Elsewhere ==
    /\ \/ onTrustDialogStop \/ onTrustDialogContinue \/ RunRefused \/ verifyAll
       \/ \E r \in Overrides : UpstreamChanges(r) \/ OtherApproves(r)
    /\ UNCHANGED triggerVars

-----------------------------------------------------------------------------
RunsInit ==
    /\ Init
    /\ triggerOpen = FALSE /\ picked = {} /\ pickSearch = Overrides
    /\ enabledRows = None /\ enabledStale = FALSE /\ meantAll = TRUE

RunsNext ==
    \/ FetchEnabled \/ ShowDialog
    \/ \E matches \in SUBSET Overrides : SearchRecipes(matches)
    \/ \E name \in Overrides : toggleRecipe(name)
    \/ toggleAll \/ handleTrigger
    \/ onTriggerRunWithTrust \/ TriggerCheckFails \/ TriggerPosted
    \/ Elsewhere

RunsSpec == RunsInit /\ [][RunsNext]_runsVars

-----------------------------------------------------------------------------
RunsTypeOK ==
    /\ ListTypeOK
    /\ picked \cup pickSearch \subseteq Overrides
    /\ {triggerOpen, enabledStale, meantAll} \subseteq BOOLEAN

(* A run of every recipe is started only by an operator who ticked none: a *)
(* selection that shrinks to nothing, because its recipes were disabled or *)
(* lost their trust, because the search hid them, or because none passed   *)
(* the check, is not sent as the empty list that means all.                *)
RunAllWasMeant == runPost # None /\ runPost.names = All => meantAll
=============================================================================
