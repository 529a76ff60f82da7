--------------------------- MODULE OverrideEditor ---------------------------
(***************************************************************************)
(* The AutoPkg recipe page of the web interface: app/autopkg/recipes/[id]  *)
(* and the RecipeOverrideEditor it mounts once the recipe is loaded.  The  *)
(* editor reloads its whole form whenever the recipe object changes, and a *)
(* pending mutation follows the editor from one recipe to the next: the    *)
(* query library gives it the callbacks of the last render.                *)
(*                                                                         *)
(* A recipe is its id, its general fields ("" stands for a blank name or   *)
(* identifier), one input variable, its pkginfo dictionary and its trust.  *)
(***************************************************************************)
EXTENDS Naturals, FiniteSets, TLC

CONSTANTS
    Recipes,
    None,          \* not cached, no page, no form, no answer on its way
    MaxRecipeEdits,  \* bound: edits of the form
    MaxRecipeEvents  \* bound: navigations, changes elsewhere, trust updates, saves

\* An input value as stored, and as the text the table shows: a string that
\* reads like a JSON literal and the literal look alike, and so do a number
\* and its digits.
Stored == {"string", "string like a literal", "number", "json"}
Texts == {"words", "literal", "digits"}
\* A field of the dictionary that is cleared stays as a key with no value.
PkginfoForms == {"no keys", "cleared", "set"}

Recipe == [id : Recipes, general : {"", "a", "b"}, input : Stored,
           pkginfo : PkginfoForms, trust : BOOLEAN]

RecipeAssumption ==
    None \notin Recipes \cup Recipe /\ {MaxRecipeEdits, MaxRecipeEvents} \subseteq Nat

VARIABLES
    recipes,       \* server: id -> recipe, None once deleted
    recipeCache,   \* query cache under ['autopkg-recipe', id]
    recipeStale,   \* keys marked invalid
    recipeAnswer,  \* an answer on its way: its key and what the server read
    recipePage,    \* the id in the URL, None on another page
    canEditRecipes, recipeEditing,
    overrideForm,  \* the editor's fields, None while it is not mounted
    recipeCalls,   \* mutations on their way
    recipeEdits, recipeEvents

serverState == <<recipes, recipeAnswer>>
pageState == <<recipePage, canEditRecipes, recipeEditing>>
boundState == <<recipeEdits, recipeEvents>>
vars == <<serverState, recipeCache, recipeStale, pageState, overrideForm, recipeCalls, boundState>>

-----------------------------------------------------------------------------
kvFromDict(value) == CASE value = "string" -> "words"
                       [] value = "number" -> "digits"
                       [] OTHER -> "literal"
kvToDict(text) == IF text = "literal" THEN "json" ELSE "string"

extractPkginfo(dict) == IF dict = "set" THEN "set" ELSE "no keys"

Loaded(recipe) ==
    IF recipe = None THEN None
    ELSE [general |-> recipe.general, input |-> kvFromDict(recipe.input),
          pkginfo |-> extractPkginfo(recipe.pkginfo), edited |-> {}]

\* JSON.stringify of the payload on both sides.
baselineSnapshot(recipe) ==
    [general |-> recipe.general, input |-> recipe.input, pkginfo |-> extractPkginfo(recipe.pkginfo)]
currentSnapshot ==
    [general |-> overrideForm.general, input |-> kvToDict(overrideForm.input),
     pkginfo |-> overrideForm.pkginfo]

shownRecipe == IF recipePage = None THEN None ELSE recipeCache[recipePage]
effectiveEditing == recipeEditing /\ canEditRecipes
isDirty == currentSnapshot # baselineSnapshot(shownRecipe)

Pending(kind) == \E c \in recipeCalls : c.kind = kind /\ c.attached

\* Mutant: the fields start over only when another recipe is shown.
Reload_ById(next) ==
    overrideForm' = IF next # None /\ shownRecipe # None /\ overrideForm # None
                       /\ next.id = shownRecipe.id
                    THEN overrideForm ELSE Loaded(next)

\* The effect on [recipe]: every field and the baseline start over.
Reload(next) ==
    overrideForm' = IF next = shownRecipe /\ overrideForm # None THEN overrideForm ELSE Loaded(next)

\* A pending mutation takes the callbacks of the recipe now rendered, or
\* keeps its last ones when the editor is gone.
Rerender(calls, next) ==
    {IF ~c.attached THEN c
     ELSE IF next = None THEN [c EXCEPT !.attached = FALSE]
     ELSE [c EXCEPT !.key = next.id] : c \in calls}

Within == recipeEvents < MaxRecipeEvents /\ recipeEvents' = recipeEvents + 1 /\ UNCHANGED recipeEdits
Free == UNCHANGED boundState

-----------------------------------------------------------------------------
RequestRecipe ==
    /\ recipeAnswer = None /\ recipePage # None /\ recipes[recipePage] # None
    /\ recipeCache[recipePage] = None \/ recipePage \in recipeStale
    /\ recipeAnswer' = [key |-> recipePage, recipe |-> recipes[recipePage]]
    /\ Free /\ UNCHANGED <<recipes, recipeCache, recipeStale, pageState, overrideForm, recipeCalls>>

\* What is cached under a key changes, whatever the page shows by then.
Cache(key, recipe) ==
    /\ recipeCache' = [recipeCache EXCEPT ![key] = recipe]
    /\ IF key = recipePage THEN Reload(recipe) ELSE UNCHANGED overrideForm

AnswerRecipe ==
    /\ recipeAnswer # None
    /\ Cache(recipeAnswer.key, recipeAnswer.recipe)
    /\ recipeCalls' = IF recipeAnswer.key = recipePage
                      THEN Rerender(recipeCalls, recipeAnswer.recipe) ELSE recipeCalls
    /\ recipeStale' = recipeStale \ {recipeAnswer.key}
    /\ recipeAnswer' = None
    /\ Free /\ UNCHANGED <<recipes, pageState>>

\* The recipe page is mounted, changes its id, or makes way for another page.
Navigate(to) ==
    /\ to # recipePage
    /\ recipePage' = to
    /\ LET next == IF to = None THEN None ELSE recipeCache[to] IN
       /\ IF recipePage = None \/ to = None THEN recipeEditing' = FALSE
          ELSE UNCHANGED recipeEditing
       /\ Reload(next)
       /\ recipeCalls' = Rerender(recipeCalls, next)
    /\ Within
    /\ UNCHANGED <<serverState, recipeCache, recipeStale, canEditRecipes>>

LoseEdit ==
    /\ canEditRecipes
    /\ canEditRecipes' = FALSE /\ recipeEditing' = FALSE
    /\ Within
    /\ UNCHANGED <<serverState, recipeCache, recipeStale, recipePage, overrideForm, recipeCalls>>

StaleTime(key) ==
    /\ recipeCache[key] # None /\ key \notin recipeStale
    /\ recipeStale' = recipeStale \cup {key}
    /\ Free /\ UNCHANGED <<serverState, recipeCache, pageState, overrideForm, recipeCalls>>

-----------------------------------------------------------------------------
\* The buttons of the header for the state of the page.
HeaderButtons ==
    IF overrideForm = None \/ ~canEditRecipes THEN {}
    ELSE IF effectiveEditing
         THEN IF Pending("save") THEN {} ELSE {"Save", "Cancel"}
         ELSE {"Edit", "Delete"}

ClickEdit ==
    /\ "Edit" \in HeaderButtons
    /\ recipeEditing' = TRUE
    /\ Free /\ UNCHANGED <<serverState, recipeCache, recipeStale, recipePage, canEditRecipes,
                           overrideForm, recipeCalls>>

\* A new editorKey mounts a new editor, and its mutations are detached.
handleCancelEdit ==
    /\ "Cancel" \in HeaderButtons
    /\ recipeEditing' = FALSE
    /\ overrideForm' = Loaded(shownRecipe)
    /\ recipeCalls' = Rerender(recipeCalls, None)
    /\ Free /\ UNCHANGED <<serverState, recipeCache, recipeStale, recipePage, canEditRecipes>>

ChangeField(field, value) ==
    /\ overrideForm # None /\ effectiveEditing
    /\ overrideForm' = [overrideForm EXCEPT ![field] = value, !.edited = @ \cup {field}]
    /\ recipeEdits < MaxRecipeEdits /\ recipeEdits' = recipeEdits + 1
    /\ UNCHANGED <<serverState, recipeCache, recipeStale, pageState, recipeCalls, recipeEvents>>

GeneralTab == \E x \in {"", "a", "b"} : ChangeField("general", x)
InputTab == \E text \in Texts : ChangeField("input", text)
PkginfoTab == \E x \in {"cleared", "set"} : ChangeField("pkginfo", x)

-----------------------------------------------------------------------------
\* Mutant: the request is addressed to the id in the URL.
Call_ToUrl(kind, body) ==
    /\ ~Pending(kind)
    /\ recipeCalls' = recipeCalls \cup
          {[kind |-> kind, id |-> recipePage, key |-> shownRecipe.id, attached |-> TRUE,
            body |-> body, received |-> shownRecipe, edited |-> overrideForm.edited]}
    /\ Within
    /\ UNCHANGED <<serverState, recipeCache, recipeStale, pageState, overrideForm>>

Call(kind, body) ==
    /\ ~Pending(kind)
    /\ recipeCalls' = recipeCalls \cup
          {[kind |-> kind, id |-> shownRecipe.id, key |-> shownRecipe.id, attached |-> TRUE,
            body |-> body, received |-> shownRecipe, edited |-> overrideForm.edited]}
    /\ Within
    /\ UNCHANGED <<serverState, recipeCache, recipeStale, pageState, overrideForm>>

handleSave ==
    /\ "Save" \in HeaderButtons
    /\ isDirty /\ overrideForm.general # ""
    /\ Call("save", currentSnapshot)

updateTrust ==
    /\ overrideForm # None /\ effectiveEditing
    /\ Call("trust", None)

confirmDeleteOverride ==
    /\ "Delete" \in HeaderButtons
    /\ Call("delete", None)

Done(c) == recipeCalls' = recipeCalls \ {c}

\* onSuccess: the answer is cached under the key of the last render.
SaveDone(c) ==
    LET saved == [recipes[c.id] EXCEPT !.general = c.body.general, !.input = c.body.input,
                                       !.pkginfo = c.body.pkginfo] IN
    /\ c.kind = "save" /\ recipes[c.id] # None
    /\ recipes' = [recipes EXCEPT ![c.id] = saved]
    /\ Cache(c.key, saved)
    /\ recipeStale' = recipeStale \ {c.key}
    /\ recipeEditing' = FALSE
    /\ recipeCalls' = IF c.key = recipePage THEN Rerender(recipeCalls \ {c}, saved)
                      ELSE recipeCalls \ {c}
    /\ Free /\ UNCHANGED <<recipeAnswer, recipePage, canEditRecipes>>

TrustDone(c) ==
    /\ c.kind = "trust" /\ recipes[c.id] # None
    /\ recipes' = [recipes EXCEPT ![c.id].trust = TRUE]
    /\ recipeStale' = recipeStale \cup ({c.key} \cap {k \in Recipes : recipeCache[k] # None})
    /\ Done(c)
    /\ Free /\ UNCHANGED <<recipeAnswer, recipeCache, pageState, overrideForm>>

\* onDeleted leaves the page, also when another recipe is shown by then.
DeleteDone(c) ==
    /\ c.kind = "delete" /\ recipes[c.id] # None
    /\ recipes' = [recipes EXCEPT ![c.id] = None]
    /\ recipeCache' = [recipeCache EXCEPT ![c.key] = None]
    /\ recipeStale' = recipeStale \ {c.key}
    /\ recipePage' = None /\ recipeEditing' = FALSE /\ overrideForm' = None
    /\ recipeCalls' = Rerender(recipeCalls \ {c}, None)
    /\ Free /\ UNCHANGED <<recipeAnswer, canEditRecipes>>

\* onError shows a message; a write may have reached the server all the same.
CallFails(c) ==
    /\ Done(c)
    /\ Free /\ UNCHANGED <<serverState, recipeCache, recipeStale, pageState, overrideForm>>

\* Somebody else's save: other general fields, and any input.
OtherEdits(id) ==
    /\ recipes[id] # None
    /\ \E v \in Stored : recipes' = [recipes EXCEPT ![id].general = "b", ![id].input = v]
    /\ recipes' # recipes
    /\ Within
    /\ UNCHANGED <<recipeAnswer, recipeCache, recipeStale, pageState, overrideForm, recipeCalls>>

-----------------------------------------------------------------------------
\* A tab that was just loaded, or one that has visited every recipe.
Init ==
    /\ recipes = [id \in Recipes |-> [id |-> id, general |-> "a", input |-> "string",
                                      pkginfo |-> "no keys", trust |-> FALSE]]
    /\ \/ recipePage = None /\ recipeCache = [id \in Recipes |-> None] /\ overrideForm = None
       \/ /\ recipePage \in Recipes /\ recipeCache = recipes
          /\ overrideForm = Loaded(recipes[recipePage])
    /\ recipeStale = {} /\ recipeAnswer = None
    /\ canEditRecipes = TRUE /\ recipeEditing = FALSE /\ recipeCalls = {}
    /\ recipeEdits = 0 /\ recipeEvents = 0

Next ==
    \/ RequestRecipe \/ AnswerRecipe \/ LoseEdit
    \/ \E id \in Recipes \cup {None} : Navigate(id)
    \/ \E id \in Recipes : StaleTime(id) \/ OtherEdits(id)
    \/ ClickEdit \/ handleCancelEdit \/ GeneralTab \/ InputTab \/ PkginfoTab
    \/ handleSave \/ updateTrust \/ confirmDeleteOverride
    \/ \E c \in recipeCalls : SaveDone(c) \/ TrustDone(c) \/ DeleteDone(c) \/ CallFails(c)

Spec == Init /\ [][Next]_vars

-----------------------------------------------------------------------------
RecipeTypeOK ==
    /\ \A id \in Recipes : {recipes[id], recipeCache[id]} \subseteq Recipe \cup {None}
    /\ recipePage \in Recipes \cup {None} /\ recipeStale \subseteq Recipes
    /\ overrideForm # None => currentSnapshot \in [general : {"", "a", "b"}, input : {"string", "json"},
                                                   pkginfo : PkginfoForms]

(* A save is addressed to the recipe its form was loaded from, although a  *)
(* pending save can put one recipe's answer under another recipe's key.    *)
RecipeWritesItsOwn ==
    \A c \in recipeCalls : c.id = c.received.id

(* The editor never sends a field the operator left alone in an older      *)
(* version than the page received: a change by somebody else that has      *)
(* arrived before the save survives it.  (The input table may turn a       *)
(* number into its digits, and a string that reads like a literal into the *)
(* literal, without being touched.)                                        *)
UntouchedAsReceived ==
    \A c \in recipeCalls : c.kind = "save" =>
        /\ "general" \notin c.edited => c.body.general = c.received.general
        /\ "input" \notin c.edited => c.body.input = kvToDict(kvFromDict(c.received.input))
        /\ "pkginfo" \notin c.edited => c.body.pkginfo = extractPkginfo(c.received.pkginfo)

=============================================================================
