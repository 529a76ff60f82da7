----------------------------- MODULE WebLibrary -----------------------------
(***************************************************************************)
(* The pages of the web interface that edit the software library.  A       *)
(* browser tab has one of them open; what the others hold is at rest.      *)
(* Each page comes with its own part of the server and with the requests   *)
(* of other operators, so a tab is chosen once and the state space is the  *)
(* sum of those of the pages.                                              *)
(***************************************************************************)
EXTENDS Integers, FiniteSets, Sequences, TLC

CONSTANTS
    None,
    Custom,  \* an installable_condition of another form
    \* the editor of an item's versions, the list, the rollout card
    Ids, Shared, VersionSpecific, Values, Unset, MaxSaves, MaxFieldEdits, MaxEditorEvents,
    Software, Category, Catalog, Older, Matching, UsedFilters, PageSizes, MaxListEvents,
    Pins, Prefs, MaxDay, MaxForeign,
    \* channels, catalogs, uploads, manifests
    Channels, StepCatalogs, MaxSteps, MaxDays, MaxWorkflowEvents,
    Catalogs, Occupied, MaxCatalogEvents,
    InstallerFiles, TypedNames, CatalogNames, Subdirs, MaxUploadEvents,
    Manifests, ManifestItems, ItemVersions, Pinned, MaxListEdits, MaxManifestEvents

VARIABLES
    tab,
    rows, cached, stale, page, canWrite, editing, dirty, form, catalogNames, review,
    saveDialogOpen, running, puts, deleting, reported, saves, edits, events,
    pkginfos, listState, listings, fetches, rowSelection, bulkDialog, bulkForm, bulkCall,
    deleteCalls, deletePending, canEditSoftware, pagedUnder, foreign, listEvents,
    row, inProduction, day, st, stStale, overrideEnabled, overrideValue, request,
    pinHistory, cardForeign, changed,
    workflow, channels, prefsCached, channelsCached, workflowStale, shardDays,
    editChannel, stepDrafts, draftsOf, newChannel, prefsCall, stepsCall, removeCall,
    createCalls, workflowEvents,
    catalogs, catalogsShown, catalogsStale, createForm, deleteCatalog, viewCatalog, edit,
    typed, creating, updating, deletingCatalog, overlapped, deletedNames, catalogEvents,
    uploadOpen, uploadForm, upload, blobs, uploadedRows, place, uploadEvents,
    stored, cache, old, shown, hydrated, lists, isDirty, metaDraft, pendingSave,
    pendingMeta, pendingDelete, adrift, base, reloaded, nEdits, nEvents

-----------------------------------------------------------------------------
(* The pages.  Names that two modules use for different things have one    *)
(* here for each.                                                          *)

SW == INSTANCE SoftwareEditor WITH MaxEdits <- MaxFieldEdits, MaxEvents <- MaxEditorEvents
SL == INSTANCE SoftwareList WITH Items <- Software
RC == INSTANCE RolloutCard WITH foreign <- cardForeign
WF == INSTANCE WorkflowPanel
CA == INSTANCE CatalogsPage WITH deleting <- deletingCatalog
UD == INSTANCE UploadDialog WITH Catalogs <- CatalogNames, form <- uploadForm
ME == INSTANCE ManifestEditor WITH
        Items <- ManifestItems, Versions <- ItemVersions, MaxEdits <- MaxListEdits, MaxEvents <- MaxManifestEvents

ASSUME InstanceAssumptions ==
    /\ None \notin Int /\ Custom \notin Int /\ None # Custom
    /\ SW!EditorAssumption /\ SL!SoftwareListAssumption /\ RC!CardAssumption
    /\ WF!WorkflowAssumption /\ CA!CatalogsAssumption /\ UD!UploadAssumption
    /\ ME!ManifestAssumption

-----------------------------------------------------------------------------
softwareVars ==
    <<rows, cached, stale, page, canWrite, editing, dirty, form, catalogNames, review,
      saveDialogOpen, running, puts, deleting, reported, saves, edits, events>>
listVars ==
    <<pkginfos, listState, listings, fetches, rowSelection, bulkDialog, bulkForm, bulkCall,
      deleteCalls, deletePending, canEditSoftware, pagedUnder, foreign, listEvents>>
cardVars ==
    <<row, inProduction, day, st, stStale, overrideEnabled, overrideValue, request,
      pinHistory, cardForeign, changed>>
workflowVars ==
    <<workflow, channels, prefsCached, channelsCached, workflowStale, shardDays,
      editChannel, stepDrafts, draftsOf, newChannel, prefsCall, stepsCall, removeCall,
      createCalls, workflowEvents>>
catalogVars ==
    <<catalogs, catalogsShown, catalogsStale, createForm, deleteCatalog, viewCatalog,
      edit, typed, creating, updating, deletingCatalog, overlapped, deletedNames, catalogEvents>>
dialogVars ==
    <<uploadOpen, uploadForm, upload, blobs, uploadedRows, place, uploadEvents>>
manifestVars ==
    <<stored, cache, old, shown, hydrated, lists, isDirty, metaDraft, pendingSave,
      pendingMeta, pendingDelete, adrift, base, reloaded, nEdits, nEvents>>
\* The conditional blocks of a manifest are MCWebLibrary's: these pages rest.
Tabs == {"software", "list", "rollout", "workflow", "catalogs", "upload", "manifest", "blocks"}

vars ==
    <<tab, softwareVars, listVars, cardVars, workflowVars, catalogVars, dialogVars, manifestVars>>

\* A page at rest is in one of its initial states.
Init ==
    /\ tab \in Tabs
    /\ SW!Init /\ SL!Init /\ RC!Init /\ WF!Init /\ CA!Init /\ UD!Init /\ ME!Init
    /\ tab # "workflow" => \A c \in DOMAIN channels : channels[c] # None

\* Only the tab's page takes steps.
Shows(t) ==
    /\ tab = t /\ UNCHANGED tab
    /\ IF t = "software" THEN SW!Next ELSE UNCHANGED softwareVars
    /\ IF t = "list" THEN SL!Next ELSE UNCHANGED listVars
    /\ IF t = "rollout" THEN RC!Next ELSE UNCHANGED cardVars
    /\ IF t = "workflow" THEN WF!Next ELSE UNCHANGED workflowVars
    /\ IF t = "catalogs" THEN CA!Next ELSE UNCHANGED catalogVars
    /\ IF t = "upload" THEN UD!Next ELSE UNCHANGED dialogVars
    /\ IF t = "manifest" THEN ME!Next ELSE UNCHANGED manifestVars

Next ==
    \/ Shows("software") \/ Shows("list") \/ Shows("rollout") \/ Shows("workflow")
    \/ Shows("catalogs") \/ Shows("upload") \/ Shows("manifest")

Spec == Init /\ [][Next]_vars

-----------------------------------------------------------------------------
(* Each page has its types, the ones at rest too.                          *)
TypeOK ==
    /\ SW!TypeOK /\ SL!ListTypeOK /\ RC!CardTypeOK /\ WF!WorkflowTypeOK
    /\ CA!CatalogsTypeOK /\ UD!UploadTypeOK /\ ME!ManifestTypeOK

(* What a save of the software editor writes is what its dialog showed,    *)
(* only shared fields reach other versions, and "Changes saved" means that *)
(* all of it was acknowledged.                                             *)
SavesAreAsReviewed ==
    SW!WrittenWasReviewed /\ SW!SiblingsKeepInstallerFields /\ SW!ReportedMeansWritten

(* The list is what the server would answer, on a page of these filters.   *)
ListIsTrue == SL!FreshListingsAreTrue /\ SL!PageIsOfTheseFilters

(* The rollout card shows the pin, but for a request that was not taken    *)
(* and changes by others after a click.                                    *)
CardIsTrue == RC!PinIsShown

(* The steps written to a channel were loaded from it, and a preference is *)
(* changed only by its own control.                                        *)
WorkflowWritesItsOwn == WF!StepsAreItsOwn /\ WF!PatchLeavesOtherFields

(* One quarantine, but for catalogs created at once; a form nobody typed   *)
(* in shows its catalog.                                                   *)
CatalogFlagsAreTheirs == CA!OneQuarantine /\ CA!UntouchedFormIsTheCatalogs

(* A name derived for an upload resolves, and is the one that was shown.   *)
UploadedNamesResolve == UD!DerivedNamesAreWhole /\ UD!PreviewIsTheName

(* A manifest is saved from its own lists, its catalogs are saved when it  *)
(* says so, and a section holds each software once, as it is read.         *)
ManifestIsItsOwn == ME!SavedIntoItsOwn /\ ME!CleanIsSaved /\ ME!OneRefPerSoftware
=============================================================================
