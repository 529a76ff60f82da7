----------------------------- MODULE RecipesPage -----------------------------
(***************************************************************************)
(* The recipe list (app/autopkg/recipes) with its quick run: the operator  *)
(* picks recipes from cached rows, the trust of each is compared with      *)
(* GitHub, what failed is shown, and a run is posted with the rest.  Other *)
(* operators, GitHub and the server's own rows move meanwhile.             *)
(***************************************************************************)
EXTENDS Naturals, FiniteSets, TLC

CONSTANTS
    Overrides,      \* the recipes
    None,
    MaxListEvents   \* bound: clicks, changes elsewhere and on GitHub

ListAssumption == None \notin Overrides /\ MaxListEvents \in Nat

VARIABLES
    overrides,     \* server: recipe -> [trust, enabled], None once deleted
    upstream,      \* the recipes whose parents on GitHub are as trusted
    filter,        \* the trust filter of the list, "" for all
    listed,        \* query cache: filter -> rows, None while never loaded
    listStale,     \* filters whose rows are marked invalid
    selection,     \* ids of the ticked rows
    quickRun,      \* the quick-run dialog: its mode and rows, or None
    verifying,     \* the names being verified, or None; {} is every enabled one
    trustIssue,    \* the dialog of failed checks: their results, or None
    runPost,       \* POST /runs on its way: names and results, or None
    startedRuns,   \* runs registered
    rowCalls,      \* row mutations on their way
    listEvents

listVars == <<filter, listed, listStale, selection>>
runVars == <<quickRun, verifying, trustIssue, runPost, startedRuns>>
vars == <<overrides, upstream, listVars, runVars, rowCalls, listEvents>>

-----------------------------------------------------------------------------
TrustStatus == {"verified", "failed", "pending_approval", "unknown"}
Filters == {"", "pending_approval"}

\* Names null stands for every enabled recipe.
All == {}

canTriggerRunRecipe(row) == row.trust \notin {"failed", "pending_approval"}

Listing(f) ==
    {[id |-> r, trust |-> overrides[r].trust, enabled |-> overrides[r].enabled] :
        r \in {r \in Overrides : overrides[r] # None /\ f \in {"", overrides[r].trust}}}

rowsShown == IF listed[filter] = None THEN {} ELSE listed[filter]
selectedRecipes == {row \in rowsShown : row.id \in selection}
runActionPending == runPost # None \/ verifying # None
dialogOpen == quickRun # None \/ trustIssue # None

Note == listEvents < MaxListEvents /\ listEvents' = listEvents + 1
Silent == UNCHANGED listEvents

-----------------------------------------------------------------------------
LoadList ==
    /\ listed[filter] = None \/ filter \in listStale
    /\ listed' = [listed EXCEPT ![filter] = Listing(filter)]
    /\ listStale' = listStale \ {filter}
    /\ Silent /\ UNCHANGED <<overrides, upstream, filter, selection, runVars, rowCalls>>

Invalidated == {f \in Filters : listed[f] # None}

\* Every filter control of the sheet, the badges of the rows and the search
\* box drop the ticks and go back to the first page.
applyListFilter(f) ==
    /\ f # filter /\ ~dialogOpen
    /\ filter' = f /\ selection' = {}
    /\ Note /\ UNCHANGED <<overrides, upstream, listed, listStale, runVars, rowCalls>>

\* ?trust_status= in the address sets the filter and keeps the ticks.
FilterFromAddress(f) ==
    /\ f # filter /\ f # ""
    /\ filter' = f
    /\ Note /\ UNCHANGED <<overrides, upstream, listed, listStale, selection, runVars, rowCalls>>

Tick(id) ==
    /\ \E row \in rowsShown : row.id = id
    /\ ~dialogOpen
    /\ selection' = (selection \ {id}) \cup ({id} \ selection)
    /\ Note /\ UNCHANGED <<overrides, upstream, filter, listed, listStale, runVars, rowCalls>>

\* Another page of the table, or another page size, or "Clear selection".
TurnPage ==
    /\ selection # {} /\ ~dialogOpen
    /\ selection' = {}
    /\ Note /\ UNCHANGED <<overrides, upstream, filter, listed, listStale, runVars, rowCalls>>

-----------------------------------------------------------------------------
\* The run buttons: of the header, and of each row.
HeaderRuns ==
    IF runActionPending \/ dialogOpen THEN {}
    ELSE {IF selectedRecipes # {} THEN [mode |-> "selected", rows |-> selectedRecipes]
          ELSE [mode |-> "all", rows |-> {}]}
RowRuns ==
    IF runActionPending \/ dialogOpen THEN {}
    ELSE {[mode |-> "single", rows |-> {row}] : row \in {x \in rowsShown : canTriggerRunRecipe(x)}}

OpenQuickRun ==
    /\ quickRun' \in HeaderRuns \cup RowRuns
    /\ Note /\ UNCHANGED <<overrides, upstream, listVars, verifying, trustIssue, runPost,
                           startedRuns, rowCalls>>

\* The dialog can be closed at any time, also while it verifies.
CloseQuickRun ==
    /\ quickRun # None
    /\ quickRun' = None
    /\ Silent /\ UNCHANGED <<overrides, upstream, listVars, verifying, trustIssue, runPost,
                             startedRuns, rowCalls>>

handleRun ==
    /\ quickRun # None /\ ~runActionPending
    /\ \A row \in quickRun.rows : canTriggerRunRecipe(row)
    /\ verifying' = [names |-> {row.id : row \in quickRun.rows}]
    /\ Note /\ UNCHANGED <<overrides, upstream, listVars, quickRun, trustIssue, runPost,
                           startedRuns, rowCalls>>

-----------------------------------------------------------------------------
Runnable(r) ==
    /\ overrides[r] # None
    /\ overrides[r].enabled /\ overrides[r].trust \notin {"failed", "pending_approval"}
Candidates(names) == {r \in Overrides : Runnable(r) /\ (names = All \/ r \in names)}

\* The live check of the candidates, cut short where GitHub refuses: the
\* recipe it stopped at is in error, those after it are not in the answer.
Checks(names) ==
    {[ok |-> Candidates(names) \cap upstream, failed |-> Candidates(names) \ upstream,
      error |-> {}]}
    \cup {[ok |-> p[1] \cap upstream, failed |-> p[1] \ upstream, error |-> {p[2]}] :
            p \in {q \in (SUBSET Candidates(names)) \X Candidates(names) : q[2] \notin q[1]}}

\* persist_verify_trust_result
Persist(check) ==
    overrides' = [r \in Overrides |->
        CASE r \in check.ok -> [overrides[r] EXCEPT !.trust = "verified"]
          [] r \in check.failed -> [overrides[r] EXCEPT !.trust = "pending_approval"]
          [] r \in check.error -> [overrides[r] EXCEPT !.trust = "unknown"]
          [] OTHER -> overrides[r]]

\* onQuickRunConfirm: nothing failed, or the operator is asked.
onQuickRunConfirm ==
    /\ verifying # None
    /\ \E check \in Checks(verifying.names) :
        /\ Persist(check)
        /\ IF check.failed \cup check.error = {}
           THEN runPost' = [names |-> verifying.names, check |-> check] /\ UNCHANGED trustIssue
           ELSE trustIssue' = check /\ UNCHANGED runPost
    /\ listStale' = Invalidated
    /\ verifying' = None
    /\ quickRun' = None
    /\ Silent /\ UNCHANGED <<upstream, filter, listed, selection, startedRuns, rowCalls>>

\* Rate limited with nothing checked, or no answer.
VerifyFails ==
    /\ verifying # None
    /\ verifying' = None /\ quickRun' = None
    /\ Silent /\ UNCHANGED <<overrides, upstream, listVars, trustIssue, runPost, startedRuns, rowCalls>>

onTrustDialogStop ==
    /\ trustIssue # None
    /\ trustIssue' = None
    /\ Silent /\ UNCHANGED <<overrides, upstream, listVars, quickRun, verifying, runPost,
                             startedRuns, rowCalls>>

\* Mutant: the run goes on with every recipe that was checked.
NamesLeft_All(check) == check.ok \cup check.failed \cup check.error

NamesLeft(check) == check.ok

onTrustDialogContinue ==
    /\ trustIssue # None /\ runPost = None
    /\ NamesLeft(trustIssue) # {}
    /\ runPost' = [names |-> NamesLeft(trustIssue), check |-> trustIssue]
    /\ Silent /\ UNCHANGED <<overrides, upstream, listVars, quickRun, verifying, trustIssue,
                             startedRuns, rowCalls>>

\* ensure_recipe_names_runnable refuses unknown names and blocked trust, for
\* explicit names only; is_enabled is not looked at.
Accepted(names) ==
    \A r \in names : overrides[r] # None /\ overrides[r].trust \notin {"failed", "pending_approval"}

RunPosted ==
    /\ runPost # None /\ Accepted(runPost.names)
    /\ startedRuns' = startedRuns \cup
          {[names |-> runPost.names, check |-> runPost.check]}
    /\ selection' = {} /\ listStale' = Invalidated
    /\ runPost' = None /\ trustIssue' = None
    /\ Silent /\ UNCHANGED <<overrides, upstream, filter, listed, quickRun, verifying, rowCalls>>

RunRefused ==
    /\ runPost # None
    /\ runPost' = None /\ trustIssue' = None
    /\ Silent /\ UNCHANGED <<overrides, upstream, listVars, quickRun, verifying, startedRuns, rowCalls>>

-----------------------------------------------------------------------------
\* The switches and buttons of a row: enable, verify, delete.
RowActions == {"toggle", "verify", "delete"}
RowCall(row, what) ==
    /\ row \in rowsShown /\ what \in RowActions /\ ~dialogOpen
    /\ what = "delete" => \A c \in rowCalls : c.what # what
    /\ rowCalls' = rowCalls \cup {[what |-> what, row |-> row]}
    /\ Note /\ UNCHANGED <<overrides, upstream, listVars, runVars>>

RowDone(c) ==
    /\ overrides[c.row.id] # None
    /\ CASE c.what = "toggle" ->
              overrides' = [overrides EXCEPT ![c.row.id].enabled = ~c.row.enabled]
         [] c.what = "delete" -> overrides' = [overrides EXCEPT ![c.row.id] = None]
         [] c.what = "verify" ->
              overrides' = [overrides EXCEPT ![c.row.id].trust =
                                IF c.row.id \in upstream THEN "verified" ELSE "pending_approval"]
    /\ rowCalls' = rowCalls \ {c}
    /\ listStale' = Invalidated
    /\ Silent /\ UNCHANGED <<upstream, filter, listed, selection, runVars>>

RowFails(c) ==
    /\ rowCalls' = rowCalls \ {c}
    /\ Silent /\ UNCHANGED <<overrides, upstream, listVars, runVars>>

\* "Verify All" of the header, by any operator.
verifyAll ==
    /\ overrides' = [r \in Overrides |->
          IF overrides[r] = None THEN None
          ELSE [overrides[r] EXCEPT !.trust = IF r \in upstream THEN "verified" ELSE "pending_approval"]]
    /\ listStale' = Invalidated
    /\ Note /\ UNCHANGED <<upstream, filter, listed, selection, runVars, rowCalls>>

UpstreamChanges(r) ==
    /\ r \in upstream
    /\ upstream' = upstream \ {r}
    /\ Note /\ UNCHANGED <<overrides, listVars, runVars, rowCalls>>

\* A pending change is approved: the new hashes are trusted.
OtherApproves(r) ==
    /\ overrides[r] # None /\ overrides[r].trust = "pending_approval"
    /\ overrides' = [overrides EXCEPT ![r].trust = "verified"]
    /\ upstream' = upstream \cup {r}
    /\ Note /\ UNCHANGED <<listVars, runVars, rowCalls>>

-----------------------------------------------------------------------------
Init ==
    /\ overrides = [r \in Overrides |-> [trust |-> "verified", enabled |-> TRUE]]
    /\ upstream = Overrides
    /\ filter = "" /\ listed = [f \in Filters |-> None] /\ listStale = {} /\ selection = {}
    /\ quickRun = None /\ verifying = None /\ trustIssue = None /\ runPost = None
    /\ startedRuns = {} /\ rowCalls = {} /\ listEvents = 0

Next ==
    \/ LoadList \/ TurnPage
    \/ \E f \in Filters : applyListFilter(f) \/ FilterFromAddress(f)
    \/ \E r \in Overrides : Tick(r) \/ UpstreamChanges(r) \/ OtherApproves(r)
    \/ OpenQuickRun \/ CloseQuickRun \/ handleRun
    \/ onQuickRunConfirm \/ VerifyFails \/ onTrustDialogStop \/ onTrustDialogContinue
    \/ RunPosted \/ RunRefused
    \/ \E row \in rowsShown, what \in RowActions : RowCall(row, what)
    \/ \E c \in rowCalls : RowDone(c) \/ RowFails(c)
    \/ verifyAll

Spec == Init /\ [][Next]_vars

-----------------------------------------------------------------------------
ListTypeOK ==
    /\ \A r \in Overrides : overrides[r] = None
          \/ overrides[r] \in [trust : TrustStatus, enabled : BOOLEAN]
    /\ upstream \cup selection \subseteq Overrides
    /\ filter \in Filters /\ listStale \subseteq Filters
    /\ \A run \in startedRuns : run.names \subseteq Overrides

(* A recipe whose check failed when the operator confirmed is in no run    *)
(* that the confirmation started, neither by name nor as one of all, also  *)
(* when the operator went on without the failed ones.                      *)
FailedCheckNeverRuns ==
    \A run \in startedRuns :
        LET bad == run.check.failed \cup run.check.error IN
        /\ bad # {} => run.names # All
        /\ run.names \cap bad = {}

=============================================================================
