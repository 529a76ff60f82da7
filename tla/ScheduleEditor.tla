---------------------------- MODULE ScheduleEditor ----------------------------
(***************************************************************************)
(* The schedules page (app/autopkg/schedules) and its dialog              *)
(* (components/autopkg/schedule-editor-dialog.tsx) over the schedule       *)
(* routes of api/routes/autopkg.py.  A schedule runs the recipes it names, *)
(* and every enabled recipe when it names none.  The dialog edits a copy   *)
(* of the row clicked, and sends the ticked recipes that the cached list   *)
(* of enabled recipes still shows as runnable.                             *)
(***************************************************************************)
EXTENDS Naturals, FiniteSets

CONSTANTS
    Schedules,
    Recipes,
    Labels,              \* what the name, cron, zone and runner fields may hold
    None,
    MaxScheduleEvents    \* bound: clicks and requests of others

ScheduleRead == [label : Labels, recipes : SUBSET Recipes, enabled : BOOLEAN]

ScheduleEditorAssumption ==
    None \notin Schedules \cup ScheduleRead /\ MaxScheduleEvents \in Nat

VARIABLES
    schedules,         \* server: schedule -> ScheduleRead, None where there is none
    recipeState,       \* server: recipe -> RecipeState
    restricted,        \* history: schedules last saved with "only specific recipes"
    schedulesShown,    \* the query of the page, None while loading
    schedulesStale,
    recipesShown,      \* the query of the dialog: names to RecipeState, or None
    scheduleDialog,    \* None when closed, else [editing : a row or None]
    scheduleForm,
    recipeSearch,      \* the recipes the search text matches
    saving,            \* the save on its way, or None
    removing,          \* deletions on their way
    scheduleEvents

server == <<schedules, recipeState, restricted>>
queries == <<schedulesShown, schedulesStale, recipesShown>>
dialog == <<scheduleDialog, scheduleForm, recipeSearch>>
scheduleVars == <<server, queries, dialog, saving, removing, scheduleEvents>>

-----------------------------------------------------------------------------
RecipeState == {"runnable", "blocked", "disabled"}
\* No names, null and the empty list alike: every enabled recipe.
All == {}

emptyScheduleForm == [label |-> None, subset |-> FALSE, selected |-> {}, enabled |-> TRUE]
scheduleToForm(row) ==
    [label |-> row.fields.label, subset |-> row.fields.recipes # All,
     selected |-> row.fields.recipes, enabled |-> row.fields.enabled]

Quiet == UNCHANGED scheduleEvents
Event == scheduleEvents < MaxScheduleEvents /\ scheduleEvents' = scheduleEvents + 1

-----------------------------------------------------------------------------
LoadSchedules ==
    /\ schedulesShown = None \/ schedulesStale
    /\ schedulesShown' = {[id |-> s, fields |-> schedules[s]] :
                            s \in {s \in Schedules : schedules[s] # None}}
    /\ schedulesStale' = FALSE
    /\ Quiet /\ UNCHANGED <<server, recipesShown, dialog, saving, removing>>

\* Enabled recipes only, read when the dialog opens and again as it likes.
LoadRecipes ==
    /\ scheduleDialog # None
    /\ recipesShown' = [r \in {r \in Recipes : recipeState[r] # "disabled"} |-> recipeState[r]]
    /\ recipesShown' # recipesShown
    /\ Quiet /\ UNCHANGED <<server, schedulesShown, schedulesStale, dialog, saving, removing>>

\* The effect on [open, editing].
OpenDialog(row) ==
    /\ scheduleDialog = None
    /\ scheduleDialog' = [editing |-> row]
    /\ scheduleForm' = IF row = None THEN emptyScheduleForm ELSE scheduleToForm(row)
    /\ recipeSearch' = Recipes
    /\ Event /\ UNCHANGED <<server, queries, saving, removing>>
openCreate == OpenDialog(None)
\* The rows of the table.
ScheduleRows == IF schedulesShown = None THEN {} ELSE schedulesShown
openEdit(row) == row \in ScheduleRows /\ OpenDialog(row)

\* window.confirm stops everything else until it is answered.
Remove(row) ==
    /\ row \in ScheduleRows /\ scheduleDialog = None
    /\ removing' = removing \cup {row.id}
    /\ Event /\ UNCHANGED <<server, queries, dialog, saving>>

CloseDialog ==
    /\ scheduleDialog # None
    /\ scheduleDialog' = None
    /\ Quiet /\ UNCHANGED <<server, queries, scheduleForm, recipeSearch, saving, removing>>

-----------------------------------------------------------------------------
canTriggerRunRecipe(r) ==
    recipesShown # None /\ r \in DOMAIN recipesShown /\ recipesShown[r] = "runnable"
runnableInFilter == {r \in recipeSearch : canTriggerRunRecipe(r)}

Fill(form) ==
    /\ scheduleDialog # None /\ scheduleForm' = form
    /\ Event /\ UNCHANGED <<server, queries, scheduleDialog, recipeSearch, saving, removing>>
\* Name, cron, zone and runner, enabled, "Run only specific recipes".
TypeField ==
    \/ \E l \in Labels : Fill([scheduleForm EXCEPT !.label = l])
    \/ Fill([scheduleForm EXCEPT !.enabled = ~@])
    \/ Fill([scheduleForm EXCEPT !.subset = ~@])
\* ScheduleRecipeRow
TickRecipe(r) ==
    /\ scheduleForm.subset /\ r \in recipeSearch /\ canTriggerRunRecipe(r)
    /\ Fill([scheduleForm EXCEPT !.selected = (@ \cup {r}) \ (@ \cap {r})])
\* "Select all runnable": what the search hides is dropped.
SelectAll ==
    /\ scheduleForm.subset /\ runnableInFilter # {}
    /\ Fill([scheduleForm EXCEPT !.selected =
                IF runnableInFilter \subseteq @ THEN {} ELSE runnableInFilter])
SearchRecipes(matches) ==
    /\ scheduleDialog # None /\ scheduleForm.subset /\ matches # recipeSearch
    /\ recipeSearch' = matches
    /\ Event /\ UNCHANGED <<server, queries, scheduleDialog, scheduleForm, saving, removing>>

\* What is sent of the ticks.
runnable == {r \in scheduleForm.selected : canTriggerRunRecipe(r)}

\* Mutant: nothing runnable among the ticks is sent as an empty list.
MaySave_Always == TRUE

MaySave == scheduleForm.subset => runnable # {}

\* Save or Create.
Save ==
    /\ scheduleDialog # None /\ saving = None /\ scheduleForm.label # None
    /\ MaySave
    /\ saving' = [id |-> IF scheduleDialog.editing = None THEN None ELSE scheduleDialog.editing.id,
                  subset |-> scheduleForm.subset,
                  fields |-> [label |-> scheduleForm.label, enabled |-> scheduleForm.enabled,
                              recipes |-> IF scheduleForm.subset THEN runnable ELSE All]]
    /\ Event /\ UNCHANGED <<server, queries, dialog, removing>>

\* create_schedule and update_schedule look at recipes that are named: known
\* and not blocked by trust; a disabled one passes.
Accepted(names) == \A r \in names : recipeState[r] # "blocked"

Free == {s \in Schedules : schedules[s] = None}
\* Every field is sent.  The answer closes the dialog that is open by then.
Saved ==
    /\ saving # None /\ Accepted(saving.fields.recipes)
    /\ \E s \in IF saving.id = None THEN Free ELSE {saving.id} \ Free :
          /\ schedules' = [schedules EXCEPT ![s] = saving.fields]
          /\ restricted' = IF saving.subset THEN restricted \cup {s} ELSE restricted \ {s}
    /\ schedulesStale' = TRUE /\ scheduleDialog' = None /\ saving' = None
    /\ Quiet /\ UNCHANGED <<recipeState, schedulesShown, recipesShown, scheduleForm, recipeSearch, removing>>
\* Refused, or no answer: the dialog stays.
SaveFails ==
    /\ saving # None /\ saving' = None
    /\ Quiet /\ UNCHANGED <<server, queries, dialog, removing>>
Removed(s) ==
    /\ s \in removing /\ removing' = removing \ {s}
    /\ IF s \in Free THEN UNCHANGED <<schedules, restricted, schedulesStale>>
       ELSE /\ schedules' = [schedules EXCEPT ![s] = None]
            /\ restricted' = restricted \ {s} /\ schedulesStale' = TRUE
    /\ Quiet /\ UNCHANGED <<recipeState, schedulesShown, recipesShown, dialog, saving>>

-----------------------------------------------------------------------------
\* A check of trust, an approval, or another operator's switch.
RecipeChanges(r, state) ==
    /\ state # recipeState[r]
    /\ recipeState' = [recipeState EXCEPT ![r] = state]
    /\ Event /\ UNCHANGED <<schedules, restricted, queries, dialog, saving, removing>>
\* Another operator narrows a schedule to some recipes.
OtherNarrows(s, names) ==
    /\ s \notin Free /\ names # {} /\ Accepted(names)
    /\ schedules' = [schedules EXCEPT ![s].recipes = names]
    /\ restricted' = restricted \cup {s}
    /\ Event /\ UNCHANGED <<recipeState, queries, dialog, saving, removing>>

-----------------------------------------------------------------------------
Init ==
    /\ \E s \in Schedules, l \in Labels, names \in SUBSET Recipes :
          /\ schedules = [x \in Schedules |->
                IF x = s THEN [label |-> l, recipes |-> names, enabled |-> TRUE] ELSE None]
          /\ restricted = IF names = All THEN {} ELSE {s}
    /\ recipeState = [r \in Recipes |-> "runnable"]
    /\ schedulesShown = None /\ schedulesStale = FALSE /\ recipesShown = None
    /\ scheduleDialog = None /\ scheduleForm = emptyScheduleForm /\ recipeSearch = Recipes
    /\ saving = None /\ removing = {} /\ scheduleEvents = 0

Next ==
    \/ LoadSchedules \/ LoadRecipes
    \/ openCreate \/ CloseDialog \/ TypeField \/ SelectAll
    \/ \E row \in ScheduleRows : openEdit(row) \/ Remove(row)
    \/ \E r \in Recipes : TickRecipe(r) \/ \E state \in RecipeState : RecipeChanges(r, state)
    \/ \E names \in SUBSET Recipes :
          SearchRecipes(names) \/ \E s \in Schedules : OtherNarrows(s, names)
    \/ Save \/ Saved \/ SaveFails
    \/ \E s \in Schedules : Removed(s)

Spec == Init /\ [][Next]_scheduleVars

-----------------------------------------------------------------------------
ScheduleEditorTypeOK ==
    /\ \A s \in Schedules \ Free : schedules[s] \in ScheduleRead
    /\ scheduleForm.selected \subseteq Recipes /\ restricted \subseteq Schedules \ Free

(* A schedule whose operator kept "Run only specific recipes" names some:   *)
(* when trust, switches and stale lists have taken every ticked recipe      *)
(* away, it is not stored with the empty list that runs all of them.        *)
RestrictedStaysRestricted == \A s \in restricted : schedules[s].recipes # All

=============================================================================
