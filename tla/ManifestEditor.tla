--------------------------- MODULE ManifestEditor ---------------------------
(***************************************************************************)
(* The manifest page of the web interface (app/manifests/[id]).  Links to  *)
(* nested manifests and the browser's history change the id under the      *)
(* mounted component.  The lists are loaded once per manifest shown        *)
(* (hydratedManifestId) and Save writes all of them back at once.          *)
(*                                                                         *)
(* A manifest is the record of one item list (the sections behave alike),  *)
(* its catalogs, its included manifests, its conditional blocks and its    *)
(* details; what the conditional blocks hold is ConditionalBlocks' matter. *)
(* The operator may write manifests.  An item of a section is a string,    *)
(* the name of a software with or without a version, and what it refers to *)
(* is what Munki's rule for dashes makes of it.                            *)
(***************************************************************************)
EXTENDS Naturals, Sequences, FiniteSets, Functions, SequencesExt

CONSTANTS
    Manifests,
    Items,        \* names of software; a name is the sequence of its characters
    Versions,     \* versions in the library, of any of them
    Pinned,       \* the software the manifests hold at first, pinned
    None,         \* nothing loaded, no page, no request
    MaxEdits,     \* bound: edits of the lists and details, openings of their dialog
    MaxEvents     \* bound: navigations, answers grown stale, changes by other operators

-----------------------------------------------------------------------------
(* References, the strings of a section (lib/manifest-item-ref.ts).        *)

Digits == {"0", "1", "2", "3", "4", "5", "6", "7", "8", "9"}
DashesBefore(raw, next) == {i \in 1 .. Len(raw) - 1 : raw[i] = "-" /\ raw[i + 1] \in next}

\* parseManifestItemRef: an explicit "--" wins, else the first dash before a digit.
baseName(raw) ==
    LET cuts == IF DashesBefore(raw, {"-"}) # {} THEN DashesBefore(raw, {"-"})
                ELSE DashesBefore(raw, Digits)
    IN  IF cuts = {} THEN raw
        ELSE SubSeq(raw, 1, (CHOOSE i \in cuts : \A j \in cuts : i <= j) - 1)

formatManifestItemRef(name, version) ==
    IF "-" \in Range(version) \/ DashesBefore(name, Digits) # {} THEN name \o <<"-", "-">> \o version
    ELSE name \o <<"-">> \o version

Refs == Items \cup {baseName(x) : x \in Items}
              \cup {formatManifestItemRef(x, v) : x \in Items, v \in Versions}

\* The bases of names that are read as another name with a version.
Misread == {baseName(x) : x \in {y \in Items : baseName(y) # y}}

\* A pinned reference is read back, which asks for versions that begin with a digit or
\* hold a dash, and for names that neither end in a dash nor hold two in a row; a base
\* has no version.
RefsAreReadBack ==
    /\ \A x \in Items, v \in Versions : baseName(formatManifestItemRef(x, v)) = x
    /\ \A x \in Items : baseName(baseName(x)) = baseName(x)

ManifestAssumption ==
    /\ None \notin Manifests /\ Pinned \in Items /\ Versions # {} /\ RefsAreReadBack
    /\ {MaxEdits, MaxEvents} \subseteq Nat

VARIABLES
    stored,      \* server: manifest -> record, None once deleted
    cache, old,  \* query cache: manifest -> record or None; the keys marked invalid
    shown,       \* the id in the URL, or None on another page
    hydrated,    \* hydratedManifestId.current
    lists,       \* the four edited lists, or None before the first answer
    isDirty,
    metaDraft,   \* the details dialog: its draft, or None when closed
    pendingSave, pendingMeta, pendingDelete,  \* the page's mutations on their way, or None
    adrift,      \* writes on their way whose page is gone
    base,        \* history: the lists last loaded or acknowledged
    reloaded,    \* history: lists were loaded since the last save was sent
    nEdits, nEvents

caches == <<cache, old>>
draft == <<lists, isDirty, base, reloaded>>
mutations == <<pendingSave, pendingMeta, pendingDelete, adrift>>
bounds == <<nEdits, nEvents>>
vars == <<stored, caches, shown, hydrated, draft, metaDraft, mutations, bounds>>

-----------------------------------------------------------------------------
Conditionals == {"none", "valid", "other lists", "blank"}
Lists == [sections : Seq(Refs), catalogs : BOOLEAN,
          included : SUBSET Manifests, conditional : Conditionals]
OnePinned == [sections |-> <<formatManifestItemRef(Pinned, CHOOSE v \in Versions : TRUE)>>,
              catalogs |-> FALSE, included |-> {}, conditional |-> "none"]
Details == {0, 1}
Manifest == [lists : Lists, meta : Details]

manifest == IF shown = None THEN None ELSE cache[shown]
NoEvent == UNCHANGED bounds
Happens == nEvents < MaxEvents /\ nEvents' = nEvents + 1 /\ UNCHANGED nEdits

\* Mutant: the lists are loaded once for the tab.
Hydrate_Once(id, m) ==
    IF m = None \/ hydrated # None THEN UNCHANGED <<hydrated, lists, base, reloaded>>
    ELSE /\ hydrated' = id
         /\ lists' = m.lists
         /\ base' = m.lists /\ reloaded' = TRUE

\* The effect on [manifest]: the lists are loaded once for the id shown.
Hydrate(id, m) ==
    IF m = None \/ hydrated = id THEN UNCHANGED <<hydrated, lists, base, reloaded>>
    ELSE /\ hydrated' = id
         /\ lists' = m.lists
         /\ base' = m.lists /\ reloaded' = TRUE

Load ==
    /\ shown # None /\ stored[shown] # None
    /\ cache[shown] = None \/ shown \in old
    /\ cache' = [cache EXCEPT ![shown] = stored[shown]]
    /\ old' = old \ {shown}
    /\ Hydrate(shown, stored[shown])
    /\ NoEvent /\ UNCHANGED <<stored, shown, isDirty, metaDraft, mutations>>

Expire(m) ==
    /\ cache[m] # None /\ m \notin old
    /\ old' = old \cup {m}
    /\ Happens /\ UNCHANGED <<stored, cache, shown, hydrated, draft, metaDraft, mutations>>

Open(m) ==
    /\ shown = None
    /\ shown' = m
    /\ Hydrate(m, cache[m])
    /\ NoEvent /\ UNCHANGED <<stored, caches, isDirty, metaDraft, mutations>>

\* The component is unmounted; its requests go on by themselves, besides those of
\* earlier pages.  A deletion has no patch.
Unmount(earlier) ==
    /\ shown' = None /\ hydrated' = None /\ lists' = None /\ base' = None
    /\ isDirty' = FALSE /\ metaDraft' = None /\ reloaded' = FALSE
    /\ pendingSave' = None /\ pendingMeta' = None /\ pendingDelete' = None
    /\ adrift' = earlier \cup {[id |-> p.id, patch |-> [lists |-> p.lists], key |-> shown] :
                                p \in {pendingSave} \ {None}}
                         \cup {[id |-> p.id, patch |-> [meta |-> p.meta], key |-> shown] :
                                p \in {pendingMeta} \ {None}}
                         \cup {[id |-> p, patch |-> None, key |-> shown] :
                                p \in {pendingDelete} \ {None}}
Leave ==
    /\ shown # None /\ Unmount(adrift)
    /\ Happens /\ UNCHANGED <<stored, caches>>

\* Neither dirty nor an open dialog is reset.
FollowLink(m) ==
    /\ shown # None /\ m # shown
    /\ shown' = m
    /\ Hydrate(m, cache[m])
    /\ Happens /\ UNCHANGED <<stored, caches, isDirty, metaDraft, mutations>>

-----------------------------------------------------------------------------
Usable == manifest # None /\ lists # None /\ metaDraft = None /\ pendingDelete = None

Change(field, value) ==
    /\ Usable
    /\ lists' = [lists EXCEPT ![field] = value]
    /\ isDirty' = TRUE
    /\ nEdits < MaxEdits /\ nEdits' = nEdits + 1
    /\ UNCHANGED <<stored, caches, shown, hydrated, base, reloaded, metaDraft, mutations, nEvents>>

\* Mutant: the tabs are not disabled during a save.
SaveIdle_Always == TRUE

\* The `disabled` of the tabs.  Of a section's list only the button that adds
\* heeds it, and the panel of included manifests is not given it.
SaveIdle == pendingSave = None

\* Mutant: the list is not searched for the string.
addItem_Twice(x) == Change("sections", Append(lists.sections, x))

addItem(x) ==
    Change("sections", IF x \in Range(lists.sections) THEN lists.sections
                       ELSE Append(lists.sections, x))
\* prev[section].filter((n) => n !== name)
Without(items, x) ==
    LET kept == {i \in DOMAIN items : items[i] # x}
        place(i) == Cardinality({j \in kept : j <= i})
    IN  [k \in 1 .. Cardinality(kept) |-> items[CHOOSE i \in kept : place(i) = k]]
removeItem(x) == Change("sections", Without(lists.sections, x))
reorderItems(from, to) ==
    Change("sections", InsertAt(RemoveAt(lists.sections, from), to, lists.sections[from]))
replaceSectionItem(from, x) ==
    /\ lists.sections[from] # x
    /\ Change("sections", IF x \in Range(lists.sections) THEN lists.sections
                          ELSE [lists.sections EXCEPT ![from] = x])

manifestItemBaseNamesInUse(items) == {baseName(x) : x \in Range(items)}

\* The name is added as it is.
AddSoftwareButton ==
    /\ SaveIdle
    /\ \E x \in Items \ manifestItemBaseNamesInUse(lists.sections) : addItem(x)
\* What is offered for a base: to clear the pin, and the versions of the software of
\* that name.
Picks(name) ==
    {name} \cup IF name \in Items THEN {formatManifestItemRef(name, v) : v \in Versions} ELSE {}
PinVersionButton ==
    \E i \in DOMAIN lists.sections :
        \E x \in Picks(baseName(lists.sections[i])) : replaceSectionItem(i, x)
SortableItem == PinVersionButton \/ \E x \in Range(lists.sections) : removeItem(x)
handleDragEnd == \E i, j \in DOMAIN lists.sections : i # j /\ reorderItems(i, j)
ManifestSortableStringList ==
    lists # None /\ (AddSoftwareButton \/ SortableItem \/ handleDragEnd)

addCatalog == ~lists.catalogs /\ Change("catalogs", TRUE)
removeCatalog == lists.catalogs /\ Change("catalogs", FALSE)
ManifestCatalogRow == lists # None /\ SaveIdle /\ (addCatalog \/ removeCatalog)

changeConditional(c) == SaveIdle /\ Usable /\ Change("conditional", c)
\* The lists inside a block.
changeConditionalLists ==
    /\ Usable /\ lists.conditional \in {"valid", "other lists"}
    /\ \E c \in {"valid", "other lists"} \ {lists.conditional} : Change("conditional", c)

addIncludedManifest(m) == m \notin lists.included /\ Change("included", lists.included \cup {m})
removeIncludedManifest(m) == m \in lists.included /\ Change("included", lists.included \ {m})
AddManifestButton == \E m \in Manifests \ {shown} : addIncludedManifest(m)
\* Only the roots of the tree, the direct includes, can be removed.
InclusionTreeBranch == \E m \in Manifests : removeIncludedManifest(m)
IncludedManifestsPanel == lists # None /\ (AddManifestButton \/ InclusionTreeBranch)

-----------------------------------------------------------------------------
handleSave ==
    /\ Usable /\ isDirty /\ SaveIdle
    /\ lists.conditional # "blank"
    /\ pendingSave' = [id |-> shown, lists |-> lists, of |-> hydrated]
    /\ reloaded' = FALSE
    /\ NoEvent /\ UNCHANGED <<stored, caches, shown, hydrated, lists, isDirty, base, metaDraft,
                              pendingMeta, pendingDelete, adrift>>

Patched(m, patch) == [f \in DOMAIN m |-> IF f \in DOMAIN patch THEN patch[f] ELSE m[f]]
Write(id, patch) ==
    IF stored[id] = None THEN UNCHANGED stored
    ELSE stored' = [stored EXCEPT ![id] = Patched(@, patch)]

\* onSuccess runs with the options of the last render: it invalidates the
\* manifest that is shown by then.
SaveSucceeds ==
    /\ pendingSave # None /\ stored[pendingSave.id] # None
    /\ Write(pendingSave.id, [lists |-> pendingSave.lists])
    /\ old' = old \cup {m \in {shown} : cache[m] # None}
    /\ pendingSave' = None
    /\ isDirty' = FALSE
    /\ base' = IF reloaded THEN base ELSE pendingSave.lists
    /\ NoEvent /\ UNCHANGED <<reloaded, cache, shown, hydrated, lists, metaDraft, pendingMeta, pendingDelete, adrift>>

SaveFails ==
    /\ pendingSave # None
    /\ \E ok \in BOOLEAN : IF ok THEN Write(pendingSave.id, [lists |-> pendingSave.lists])
                                 ELSE UNCHANGED stored
    /\ pendingSave' = None
    /\ NoEvent /\ UNCHANGED <<caches, shown, hydrated, draft, metaDraft, pendingMeta, pendingDelete, adrift>>

-----------------------------------------------------------------------------
openMetaDialog ==
    /\ Usable /\ SaveIdle /\ pendingMeta = None
    /\ metaDraft' = manifest.meta
    /\ nEdits < MaxEdits /\ nEdits' = nEdits + 1
    /\ UNCHANGED <<stored, caches, shown, hydrated, draft, mutations, nEvents>>
editMeta ==
    /\ metaDraft # None /\ metaDraft' \in Details \ {metaDraft}
    /\ nEdits < MaxEdits /\ nEdits' = nEdits + 1
    /\ UNCHANGED <<stored, caches, shown, hydrated, draft, mutations, nEvents>>
closeMetaDialog ==
    /\ metaDraft # None /\ metaDraft' = None
    /\ NoEvent /\ UNCHANGED <<stored, caches, shown, hydrated, draft, mutations>>
handleMetaSave ==
    /\ metaDraft # None /\ manifest # None /\ pendingMeta = None
    /\ pendingMeta' = [id |-> shown, meta |-> metaDraft]
    /\ NoEvent /\ UNCHANGED <<stored, caches, shown, hydrated, draft, metaDraft,
                              pendingSave, pendingDelete, adrift>>
MetaSettles ==
    /\ pendingMeta # None
    /\ pendingMeta' = None
    /\ \/ /\ Write(pendingMeta.id, [meta |-> pendingMeta.meta])
          /\ old' = old \cup {m \in {shown} : cache[m] # None}
          /\ metaDraft' = None
       \/ UNCHANGED <<stored, old, metaDraft>>
    /\ NoEvent /\ UNCHANGED <<cache, shown, hydrated, draft, pendingSave, pendingDelete, adrift>>

ConfirmDelete ==
    /\ Usable /\ SaveIdle
    /\ pendingDelete' = shown
    /\ NoEvent /\ UNCHANGED <<stored, caches, shown, hydrated, draft, metaDraft,
                              pendingSave, pendingMeta, adrift>>
DeleteSucceeds ==
    /\ pendingDelete # None
    /\ stored' = [stored EXCEPT ![pendingDelete] = None]
    /\ cache' = [cache EXCEPT ![shown] = None] /\ old' = old \ {shown}
    /\ Unmount(adrift)
    /\ NoEvent
DeleteFails ==
    /\ pendingDelete # None /\ pendingDelete' = None
    /\ NoEvent /\ UNCHANGED <<stored, caches, shown, hydrated, draft, metaDraft,
                              pendingSave, pendingMeta, adrift>>

\* A write of a page that is gone lands, or does not.
AdriftSettles(w) ==
    /\ w.patch # None /\ adrift' = adrift \ {w}
    /\ \/ /\ Write(w.id, w.patch)
          /\ old' = old \cup {m \in {w.key} : cache[m] # None}
       \/ UNCHANGED <<stored, old>>
    /\ NoEvent /\ UNCHANGED <<cache, shown, hydrated, draft, metaDraft,
                              pendingSave, pendingMeta, pendingDelete>>
\* So does a deletion, which then leaves whatever page is open for /manifests.
AdriftDeletes(w) ==
    /\ w.patch = None
    /\ \/ /\ stored' = [stored EXCEPT ![w.id] = None]
          /\ cache' = [cache EXCEPT ![w.key] = None] /\ old' = old \ {w.key}
          /\ Unmount(adrift \ {w})
       \/ /\ adrift' = adrift \ {w}
          /\ UNCHANGED <<stored, caches, shown, hydrated, draft, metaDraft,
                         pendingSave, pendingMeta, pendingDelete>>
    /\ NoEvent

\* Another operator saves the same manifest.
OtherSaves(m) ==
    /\ stored[m] # None
    /\ stored' = [stored EXCEPT ![m].lists.catalogs = ~@]
    /\ Happens /\ UNCHANGED <<caches, shown, hydrated, draft, metaDraft, mutations>>

-----------------------------------------------------------------------------
Init ==
    /\ stored = [m \in Manifests |-> [lists |-> OnePinned, meta |-> 0]]
    /\ cache = [m \in Manifests |-> None] /\ old = {}
    /\ shown = None /\ hydrated = None
    /\ lists = None /\ isDirty = FALSE /\ base = None /\ reloaded = FALSE /\ metaDraft = None
    /\ pendingSave = None /\ pendingMeta = None /\ pendingDelete = None /\ adrift = {}
    /\ nEdits = 0 /\ nEvents = 0

\* The tabs of the page, its buttons, and the dialog of the details.
ManifestTabs ==
    \/ ManifestSortableStringList \/ ManifestCatalogRow \/ IncludedManifestsPanel
    \/ changeConditionalLists
    \/ \E c \in {"none", "valid", "blank"} : changeConditional(c)
ManifestHeader == openMetaDialog \/ handleSave \/ ConfirmDelete
MetaDialog == editMeta \/ closeMetaDialog \/ handleMetaSave

Next ==
    \/ Load \/ Leave
    \/ \E m \in Manifests : Open(m) \/ Expire(m) \/ FollowLink(m) \/ OtherSaves(m)
    \/ ManifestTabs \/ ManifestHeader \/ MetaDialog
    \/ SaveSucceeds \/ SaveFails \/ MetaSettles \/ DeleteSucceeds \/ DeleteFails
    \/ \E w \in adrift : AdriftSettles(w) \/ AdriftDeletes(w)

Spec == Init /\ [][Next]_vars

-----------------------------------------------------------------------------
ManifestTypeOK ==
    /\ \A m \in Manifests : {stored[m], cache[m]} \subseteq Manifest \cup {None}
    /\ {shown, hydrated, pendingDelete} \subseteq Manifests \cup {None}
    /\ {lists, base} \subseteq Lists \cup {None} /\ {isDirty, reloaded} \subseteq BOOLEAN
    /\ metaDraft \in Details \cup {None}

(* Save writes into a manifest what was loaded from that manifest, however *)
(* the operator moved between manifests: the page's own guard for what the *)
(* software page gets wrong.                                               *)
SavedIntoItsOwn == pendingSave # None => pendingSave.of = pendingSave.id

(* The catalogs of a page that does not ask before it is closed are as     *)
(* last loaded or acknowledged, also after a save whose answer came late.  *)
(* (The sections, the lists of a block and the included manifests need not *)
(* be: they can be changed while a save is on its way, and the answer      *)
(* clears the flag.)                                                       *)
CleanIsSaved == ~isDirty /\ lists # None => lists.catalogs = base.catalogs

(* A section holds no string twice, however it is added, pinned, released,  *)
(* moved and removed, and no two that Munki reads as the same software, but *)
(* where a name itself reads as another one with a version: "Python-3" is   *)
(* offered next to "Python", and both are read as Python.                   *)
OneRefPerSoftware ==
    lists # None => \A i, j \in DOMAIN lists.sections :
        i # j => /\ lists.sections[i] # lists.sections[j]
                 /\ baseName(lists.sections[i]) = baseName(lists.sections[j])
                        => baseName(lists.sections[i]) \in Misread

=============================================================================
