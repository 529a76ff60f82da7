--------------------------- MODULE SoftwareEditor ---------------------------
(***************************************************************************)
(* The software detail page of the web interface (app/software/[id]): one  *)
(* item with several versions, each a pkginfo row.  The component keeps    *)
(* its state while the route parameter changes from one version to         *)
(* another, and loses it when another page is shown.  Queries and          *)
(* mutations go through the query cache, which outlives the page.          *)
(*                                                                         *)
(* A row is a function of its fields: Shared ones, VersionSpecific ones    *)
(* and the catalog list.  The conversion of pkgToEditable (null to '')     *)
(* and its inverse in buildUpdatePayload lose nothing a property tells     *)
(* apart: Unset stands for both.                                           *)
(***************************************************************************)
EXTENDS Naturals, Sequences, FiniteSets, Functions

CONSTANTS
    Ids,             \* the pkginfo rows of the item, one per version
    Shared,          \* editable fields all versions may share
    VersionSpecific, \* editable fields of one installer
    Values,          \* values of a field
    Unset,           \* null, shown as an empty input; [] for the catalogs
    None,            \* no form, no dialog content, no cached answer, no page
    MaxSaves,        \* bound: saves sent
    MaxEdits,        \* bound: fields edited
    MaxEvents        \* bound: navigations, changes by others

EditorAssumption ==
    /\ Shared \cap VersionSpecific = {}
    /\ "catalogs" \notin Shared \cup VersionSpecific
    /\ Unset \in Values
    /\ None \notin Ids
    /\ {MaxSaves, MaxEdits, MaxEvents} \subseteq Nat

VARIABLES
    rows,       \* server: id -> row, or None once deleted
    cached,     \* query cache: id -> the row last fetched, or None
    stale,      \* cached answers marked invalid
    page,       \* the id in the URL, or None on another page
    canWrite,   \* canWrite(PAGE_KEYS.munkiSoftware)
    editing, dirty, form, catalogNames,
    review,     \* what the review dialog was opened with, or None
    saveDialogOpen,
    running,    \* save mutations not settled; .here while their page is mounted
    puts,       \* PUT requests on their way
    deleting,   \* the id whose removal is pending, or None
    reported,   \* history: the mutation last reported as saved
    saves, edits, events

counters == <<saves, edits, events>>
cacheVars == <<cached, stale>>
formVars == <<editing, dirty, form, catalogNames>>
reviewVars == <<review, saveDialogOpen>>
requests == <<running, puts, deleting, reported>>
vars == <<rows, cacheVars, page, canWrite, formVars, reviewVars, requests, counters>>

-----------------------------------------------------------------------------
EditableFields == Shared \cup VersionSpecific
Row == [EditableFields \cup {"catalogs"} -> Values]
Patch == UNION {[F -> Values] : F \in SUBSET (EditableFields \cup {"catalogs"})}
NoPatch == [f \in {} |-> Unset]

\* The row after a PUT: the patch's fields are replaced.
Patched(pkg, patch) ==
    [f \in DOMAIN pkg |-> IF f \in DOMAIN patch THEN patch[f] ELSE pkg[f]]

pkgToEditable(pkg) == Restrict(pkg, EditableFields)

buildUpdatePayload(original, edited) ==
    Restrict(edited, {f \in EditableFields : original[f] # edited[f]})

\* Mutant: the siblings are sent every field.
filterSharedPayload_Everything(payload) == payload

filterSharedPayload(payload) == Restrict(payload, DOMAIN payload \ VersionSpecific)
versionSpecificPayload(payload) == Restrict(payload, DOMAIN payload \cap VersionSpecific)

\* None when nothing changed: the page leaves edit mode without a dialog.
buildChangeSnapshots(pkg, edited, names) ==
    LET payload == buildUpdatePayload(pkgToEditable(pkg), edited)
        catalogChanged == pkg["catalogs"] # names
    IN  IF DOMAIN payload = {} /\ ~catalogChanged THEN None
        ELSE [payload |-> payload, catalogChanged |-> catalogChanged,
              after |-> [f \in DOMAIN payload \cup (IF catalogChanged THEN {"catalogs"} ELSE {})
                            |-> IF f = "catalogs" THEN names ELSE payload[f]]]

canApplyToAllVersions ==
    review # None /\ (DOMAIN filterSharedPayload(review.payload) # {} \/ review.catalogChanged)

pkg_ == IF page = None THEN None ELSE cached[page]
effectiveEditing == editing /\ canWrite
isPending == \E s \in running : s.here

Event == events < MaxEvents /\ events' = events + 1 /\ UNCHANGED <<saves, edits>>

-----------------------------------------------------------------------------
(* The query ['pkginfo', id].  An answer that differs from the cached one  *)
(* is a new object and runs the load effect, which fills a form that is    *)
(* not set; an equal answer keeps the old object and runs nothing.         *)
Fetch ==
    /\ UNCHANGED counters
    /\ page # None
    /\ rows[page] # None
    /\ cached[page] = None \/ page \in stale
    /\ cached' = [cached EXCEPT ![page] = rows[page]]
    /\ stale' = stale \ {page}
    /\ IF form = None /\ cached[page] # rows[page]
       THEN /\ form' = pkgToEditable(rows[page])
            /\ catalogNames' = rows[page]["catalogs"]
       ELSE UNCHANGED <<form, catalogNames>>
    /\ UNCHANGED <<rows, page, canWrite, editing, dirty, reviewVars, requests>>

\* staleTime has passed, or another component's mutation invalidated the key.
Expire(v) ==
    /\ UNCHANGED counters
    /\ cached[v] # None /\ v \notin stale
    /\ stale' = stale \cup {v}
    /\ UNCHANGED <<rows, cached, page, canWrite, formVars, reviewVars, requests>>

\* gcTime has passed for an answer no page shows.
Collect(v) ==
    /\ UNCHANGED counters
    /\ cached[v] # None /\ page # v
    /\ cached' = [cached EXCEPT ![v] = None]
    /\ stale' = stale \ {v}
    /\ UNCHANGED <<rows, page, canWrite, formVars, reviewVars, requests>>

-----------------------------------------------------------------------------
\* The page is mounted: the load effect runs before the reset effect, so an
\* answer that is already cached is loaded and then dropped.
Open(v) ==
    /\ UNCHANGED counters
    /\ page = None
    /\ page' = v
    /\ editing' = FALSE /\ dirty' = FALSE /\ form' = None /\ catalogNames' = Unset
    /\ review' = None /\ saveDialogOpen' = FALSE
    /\ UNCHANGED <<rows, cacheVars, canWrite, requests>>

\* Another page is shown: in-app links ask nothing, whatever is unsaved.
Leave ==
    /\ Event
    /\ page # None
    /\ page' = None
    /\ editing' = FALSE /\ dirty' = FALSE /\ form' = None /\ catalogNames' = Unset
    /\ review' = None /\ saveDialogOpen' = FALSE
    /\ running' = {[s EXCEPT !.here = FALSE] : s \in running}
    /\ UNCHANGED <<rows, cacheVars, canWrite, puts, deleting, reported>>

\* The route parameter changes under the mounted component.  The load effect
\* runs for the other version's object when no form is set.
ShowVersion(v) ==
    /\ page' = v
    /\ IF form = None /\ cached[v] # None
       THEN form' = pkgToEditable(cached[v]) /\ catalogNames' = cached[v]["catalogs"]
       ELSE UNCHANGED <<form, catalogNames>>
    /\ UNCHANGED <<rows, cacheVars, canWrite, editing, dirty, reviewVars, requests>>

\* The version menu is behind the dialog while it is open; a dirty form asks
\* first, and the operator may agree.
handleVersionChange(v) ==
    /\ Event
    /\ page # None /\ pkg_ # None /\ v # page
    /\ ~saveDialogOpen /\ deleting = None
    /\ ShowVersion(v)

\* Shown when the item has several versions.
VersionMenu == Cardinality(Ids) > 1 /\ \E v \in Ids : handleVersionChange(v)

\* The browser's Back and Forward, or a link of the command palette.
GoBack(v) ==
    /\ Event
    /\ page # None /\ v # page
    /\ ShowVersion(v)

\* /auth/me now denies writing: the effect leaves edit mode.
LoseWrite ==
    /\ Event
    /\ canWrite
    /\ canWrite' = FALSE
    /\ editing' = FALSE
    /\ UNCHANGED <<rows, cacheVars, page, dirty, form, catalogNames, reviewVars, requests>>

-----------------------------------------------------------------------------
Interactive == page # None /\ pkg_ # None /\ ~saveDialogOpen /\ deleting = None

Edit ==
    /\ UNCHANGED counters
    /\ Interactive
    /\ editing' = TRUE
    /\ UNCHANGED <<rows, cacheVars, page, canWrite, dirty, form, catalogNames,
                   reviewVars, requests>>

updateField(f, x) ==
    /\ edits < MaxEdits /\ edits' = edits + 1 /\ UNCHANGED <<saves, events>>
    /\ Interactive /\ effectiveEditing
    /\ form' = IF form = None THEN None ELSE [form EXCEPT ![f] = x]
    /\ dirty' = TRUE
    /\ UNCHANGED <<rows, cacheVars, page, canWrite, editing, catalogNames,
                   reviewVars, requests>>

\* The inputs of the cards of the Details tab, then of the other tabs: receipts
\* (Detection) and the installer's location, hash and size (Install Info) are
\* the version-specific ones.
EditGeneral == \E f \in Shared, x \in Values : updateField(f, x)
EditConfiguration == \E f \in Shared, x \in Values : updateField(f, x)
EditRelationships == \E f \in Shared, x \in Values : updateField(f, x)
EditDetection == \E f \in EditableFields, x \in Values : updateField(f, x)
EditInstall == \E f \in EditableFields, x \in Values : updateField(f, x)
EditScripts == \E f \in Shared, x \in Values : updateField(f, x)

updateCatalogNames(names) ==
    /\ edits < MaxEdits /\ edits' = edits + 1 /\ UNCHANGED <<saves, events>>
    /\ Interactive /\ effectiveEditing
    /\ catalogNames' = names
    /\ dirty' = TRUE
    /\ UNCHANGED <<rows, cacheVars, page, canWrite, editing, form, reviewVars, requests>>

handleCancel ==
    /\ UNCHANGED counters
    /\ Interactive
    /\ form' = pkgToEditable(pkg_)
    /\ catalogNames' = pkg_["catalogs"]
    /\ editing' = FALSE /\ dirty' = FALSE
    /\ UNCHANGED <<rows, cacheVars, page, canWrite, reviewVars, requests>>

handleSave ==
    /\ UNCHANGED counters
    /\ Interactive /\ ~isPending
    /\ form # None
    /\ LET snapshots == buildChangeSnapshots(pkg_, form, catalogNames) IN
       IF snapshots = None
       THEN /\ editing' = FALSE /\ dirty' = FALSE
            /\ UNCHANGED reviewVars
       ELSE /\ review' = snapshots /\ saveDialogOpen' = TRUE
            /\ UNCHANGED <<editing, dirty>>
    /\ UNCHANGED <<rows, cacheVars, page, canWrite, form, catalogNames, requests>>

\* The dialog's Cancel keeps the pending snapshots, Escape clears them; no
\* handler outside the dialog reads them.
CloseReview ==
    /\ UNCHANGED counters
    /\ saveDialogOpen /\ pkg_ # None
    /\ saveDialogOpen' = FALSE
    /\ \/ ~isPending /\ UNCHANGED review
       \/ review' = None
    /\ UNCHANGED <<rows, cacheVars, page, canWrite, formVars, requests>>

-----------------------------------------------------------------------------
(* The save mutation: three batches of PUTs, each sent when every one of   *)
(* the batch before it succeeded.  One failure rejects the mutation while  *)
(* the others of its batch are still on their way.                         *)
Put(v, patch) ==
    [vid |-> v, patch |-> patch, m |-> saves + 1, for |-> page, reviewed |-> review.after]

Batch(payload, targets) ==
    IF DOMAIN payload = {} THEN <<>> ELSE << {Put(v, payload) : v \in targets} >>

Batches(payload, targets, specific) ==
    Batch(payload, targets) \o Batch(specific, {page})
        \o IF review.catalogChanged THEN Batch([f \in {"catalogs"} |-> catalogNames], targets) ELSE <<>>

StartSave(batches) ==
    /\ saveDialogOpen /\ pkg_ # None /\ ~isPending
    /\ saves < MaxSaves
    /\ saves' = saves + 1 /\ UNCHANGED <<edits, events>>
    /\ running' = running \cup
          {[m |-> saves + 1, rest |-> Tail(batches), plan |-> UNION Range(batches), acked |-> {}, here |-> TRUE]}
    /\ puts' = puts \cup Head(batches)
    /\ UNCHANGED <<rows, cacheVars, page, canWrite, formVars, reviewVars, deleting, reported>>

\* Mutant: the payload is computed again at the click.
handleSaveThisVersion_Rebuilt ==
    /\ pkg_ # None /\ form # None
    /\ buildUpdatePayload(pkgToEditable(pkg_), form) # NoPatch
    /\ StartSave(Batches(buildUpdatePayload(pkgToEditable(pkg_), form), {page}, NoPatch))

handleSaveThisVersion == StartSave(Batches(review.payload, {page}, NoPatch))

handleSaveAllVersions ==
    /\ canApplyToAllVersions
    /\ Cardinality(Ids) > 1
    /\ StartSave(Batches(filterSharedPayload(review.payload), Ids,
                         versionSpecificPayload(review.payload)))

Applied(p, ok) ==
    IF ok /\ rows[p.vid] # None THEN rows' = [rows EXCEPT ![p.vid] = Patched(@, p.patch)]
    ELSE UNCHANGED rows

\* onSuccess: every pkginfo key is invalidated and the page, when it is still
\* the one that saved, leaves edit mode.
SaveSucceeds(s, p) ==
    /\ running' = running \ {s}
    /\ reported' = {[plan |-> s.plan, acked |-> s.acked \cup {p}]}
    /\ stale' = {v \in Ids : cached[v] # None}
    /\ IF s.here
       THEN /\ editing' = FALSE /\ dirty' = FALSE
            /\ review' = None /\ saveDialogOpen' = FALSE
       ELSE UNCHANGED <<editing, dirty, reviewVars>>

BatchSucceeds(s, p) ==
    /\ running' = (running \ {s}) \cup {[s EXCEPT !.rest = Tail(@), !.acked = @ \cup {p}]}
    /\ UNCHANGED <<reported, stale, editing, dirty, reviewVars>>

\* Mutant: the first answer of a batch settles it.
LastOfBatch_Any(p) == TRUE

LastOfBatch(p) == {q \in puts : q.m = p.m} = {p}

\* A PUT of a pending save is answered with success; the last one of its
\* batch sends the next batch, or settles the mutation.
PutSucceeds(p, s) ==
    LET last == LastOfBatch(p) IN
    /\ UNCHANGED counters
    /\ p.m = s.m
    /\ rows[p.vid] # None /\ Applied(p, TRUE)
    /\ puts' = (puts \ {p}) \cup IF last /\ s.rest # <<>> THEN Head(s.rest) ELSE {}
    /\ CASE ~last -> /\ running' = (running \ {s}) \cup {[s EXCEPT !.acked = @ \cup {p}]}
                  /\ UNCHANGED <<reported, stale, editing, dirty, reviewVars>>
         [] last /\ s.rest # <<>> -> BatchSucceeds(s, p)
         [] OTHER -> SaveSucceeds(s, p)
    /\ UNCHANGED <<cached, page, canWrite, form, catalogNames, deleting>>

\* The answer is an error, or is lost after the row was written: onError shows
\* a message and the dialog stays open for another try.
PutFails(p, s) ==
    /\ UNCHANGED counters
    /\ p.m = s.m
    /\ puts' = puts \ {p}
    /\ running' = running \ {s}
    /\ \E ok \in BOOLEAN : Applied(p, ok)
    /\ UNCHANGED <<cacheVars, page, canWrite, formVars, reviewVars, deleting, reported>>

\* A PUT whose mutation was already rejected reaches the server all the same.
LatePut(p) ==
    /\ UNCHANGED counters
    /\ \A s \in running : s.m # p.m
    /\ puts' = puts \ {p}
    /\ \E ok \in BOOLEAN : Applied(p, ok)
    /\ UNCHANGED <<cacheVars, page, canWrite, formVars, reviewVars, running, deleting, reported>>

-----------------------------------------------------------------------------
\* The Delete button and its confirmation; the dialog is modal.
ConfirmDelete ==
    /\ UNCHANGED counters
    /\ Interactive
    /\ deleting' = page
    /\ UNCHANGED <<rows, cacheVars, page, canWrite, formVars, reviewVars,
                   running, puts, reported>>

DeleteSucceeds ==
    /\ UNCHANGED counters
    /\ deleting # None
    /\ rows' = [rows EXCEPT ![deleting] = None]
    /\ cached' = [cached EXCEPT ![deleting] = None]
    /\ stale' = {v \in Ids \ {deleting} : cached[v] # None}
    /\ deleting' = None
    /\ page' = None
    /\ editing' = FALSE /\ dirty' = FALSE /\ form' = None /\ catalogNames' = Unset
    /\ review' = None /\ saveDialogOpen' = FALSE
    /\ UNCHANGED <<canWrite, running, puts, reported>>

DeleteFails ==
    /\ UNCHANGED counters
    /\ deleting # None
    /\ deleting' = None
    /\ UNCHANGED <<rows, cacheVars, page, canWrite, formVars, reviewVars,
                   running, puts, reported>>

\* Another operator, an import, or the rollout and promotion cards of this page.
OtherChange(v, f, x) ==
    /\ Event
    /\ rows[v] # None /\ rows[v][f] # x
    /\ rows' = [rows EXCEPT ![v][f] = x]
    /\ UNCHANGED <<cacheVars, page, canWrite, formVars, reviewVars, requests>>

-----------------------------------------------------------------------------
Init ==
    /\ rows = [v \in Ids |-> [f \in EditableFields \cup {"catalogs"} |-> Unset]]
    /\ cached = [v \in Ids |-> None] /\ stale = {}
    /\ page = None /\ canWrite = TRUE
    /\ editing = FALSE /\ dirty = FALSE /\ form = None /\ catalogNames = Unset
    /\ review = None /\ saveDialogOpen = FALSE
    /\ running = {} /\ puts = {} /\ deleting = None /\ reported = {}
    /\ saves = 0 /\ edits = 0 /\ events = 0

Navigation ==
    \/ Leave \/ LoseWrite \/ Fetch
    \/ VersionMenu
    \/ \E v \in Ids : Open(v) \/ GoBack(v) \/ Expire(v) \/ Collect(v)
\* Save and Cancel while editing, Edit and Delete otherwise, for writers only.
HeaderButtons ==
    \/ effectiveEditing /\ (handleSave \/ handleCancel)
    \/ canWrite /\ ~effectiveEditing /\ (Edit \/ ConfirmDelete)
Editing ==
    \/ HeaderButtons \/ CloseReview
    \/ EditGeneral \/ EditConfiguration \/ EditRelationships \/ EditDetection \/ EditInstall \/ EditScripts
    \/ \E names \in Values : updateCatalogNames(names)
Saving ==
    \/ saveDialogOpen /\ review # None /\ (handleSaveThisVersion \/ handleSaveAllVersions)
    \/ \E p \in puts, s \in running : PutSucceeds(p, s) \/ PutFails(p, s)
    \/ \E p \in puts : LatePut(p)
    \/ DeleteSucceeds \/ DeleteFails
Next ==
    \/ Navigation \/ Editing \/ Saving
    \/ \E v \in Ids, f \in EditableFields \cup {"catalogs"}, x \in Values : OtherChange(v, f, x)

Spec == Init /\ [][Next]_vars

-----------------------------------------------------------------------------
TypeOK ==
    /\ rows \in [Ids -> Row \cup {None}] /\ cached \in [Ids -> Row \cup {None}]
    /\ stale \subseteq {v \in Ids : cached[v] # None}
    /\ page \in Ids \cup {None} /\ deleting \in Ids \cup {None}
    /\ {canWrite, editing, dirty, saveDialogOpen} \subseteq BOOLEAN
    /\ form \in [EditableFields -> Values] \cup {None} /\ catalogNames \in Values
    /\ \A p \in puts : p.vid \in Ids /\ p.patch \in Patch

(* "All versions" never writes what belongs to one installer into another  *)
(* version: no PUT to a version other than the one shown when the operator *)
(* confirmed carries a version-specific field, however the page moves on   *)
(* while the batches are sent.                                             *)
SiblingsKeepInstallerFields ==
    \A p \in puts : p.vid # p.for => DOMAIN p.patch \cap VersionSpecific = {}

(* What reaches the server is what the review dialog showed: a refetch that*)
(* lands between opening the dialog and confirming it adds nothing.        *)
WrittenWasReviewed ==
    \A p \in puts : \A f \in DOMAIN p.patch :
        f \in DOMAIN p.reviewed /\ p.reviewed[f] = p.patch[f]

(* "Changes saved" is only reported when the server acknowledged every PUT *)
(* of every batch, for every version that was to be changed.               *)
ReportedMeansWritten == \A s \in reported : s.plan \subseteq s.acked

(* "Reset editor state when navigating between versions of the same item": *)
(* the step that shows another version leaves the form empty or fills it   *)
(* with that version, as the last answer for it had it.                    *)
FormFollowsVersion ==
    [][page' # page /\ page # None /\ page' # None /\ form' # None
         => cached[page'] # None /\ form' = pkgToEditable(cached[page'])]_vars
=============================================================================
