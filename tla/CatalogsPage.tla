----------------------------- MODULE CatalogsPage -----------------------------
(***************************************************************************)
(* The catalogs page (app/catalogs) over api/routes/catalogs.py: cards or  *)
(* rows of a cached list, a dialog to create a catalog, one that shows a   *)
(* catalog with a form over its fields, one to delete it.  The detail      *)
(* dialog holds the row it was opened with; the answer of a save puts the  *)
(* saved catalog there, also when the dialog was closed or another catalog *)
(* was opened in the meantime.  A creation and a save are two steps each   *)
(* of the server, a request of others may come between them: a creation    *)
(* clears the flag of the catalogs it saw when its UPDATE began, a save    *)
(* writes the columns in which it differs from the row it loaded.          *)
(***************************************************************************)
EXTENDS Naturals

CONSTANTS
    Catalogs,
    Occupied,           \* the catalogs with assigned items
    None,
    MaxCatalogEvents    \* bound: clicks and requests of others

CatalogsAssumption == None \notin Catalogs /\ MaxCatalogEvents \in Nat

VARIABLES
    catalogs,        \* server: catalog -> CatalogRead, None where there is none
    catalogsShown,   \* the query cache, None while loading
    catalogsStale,
    createForm,      \* the create dialog: name and flags typed, or None when closed
    deleteCatalog,   \* the delete dialog: id, or None
    viewCatalog,     \* the detail dialog: the catalog it shows, or None
    edit,            \* its form
    typed,           \* history: the form was typed in since it was loaded
    creating,        \* creations on their way, and the catalogs their UPDATE saw
    updating,        \* saves on their way and the fields they loaded; at most one of
                     \* them is the open dialog's
    deleting,        \* the deletion on its way, or None
    overlapped,      \* history: pairs of catalogs, of which the later flagged one was
                     \* created without seeing the other
    deletedNames,    \* bound: names of deleted catalogs, which are not used again
    catalogEvents

lists == <<catalogsShown, catalogsStale>>
detail == <<viewCatalog, edit, typed>>
requests == <<creating, updating, deleting>>
marks == <<overlapped, deletedNames>>
vars == <<catalogs, lists, createForm, deleteCatalog, detail, requests, marks, catalogEvents>>

-----------------------------------------------------------------------------
\* description "" is none.
CatalogFields == [description : {"", "text"}, is_production : BOOLEAN, is_quarantine : BOOLEAN]
Plain == [description |-> "", is_production |-> FALSE, is_quarantine |-> FALSE]

Existing == {c \in Catalogs : catalogs[c] # None}
CatalogRead(c) == [id |-> c, fields |-> catalogs[c]]
Quiet == UNCHANGED catalogEvents
Event == catalogEvents < MaxCatalogEvents /\ catalogEvents' = catalogEvents + 1

\* Mutant: the flag of the other catalogs stays.
ClearFlags_Kept(all, seen) == all

\* _clear_other_quarantine_flags, on the rows its UPDATE sees
ClearFlags(all, seen) ==
    [c \in Catalogs |-> IF c \in seen /\ all[c] # None THEN [all[c] EXCEPT !.is_quarantine = FALSE]
                       ELSE all[c]]

\* A save with the flag sees all the others.
SavedCatalog(c, fields, flagged) ==
    LET all == [catalogs EXCEPT ![c] = fields]
    IN  IF flagged THEN catalogs' = ClearFlags(all, Catalogs \ {c}) /\ overlapped' = {}
        ELSE catalogs' = all /\ UNCHANGED overlapped

-----------------------------------------------------------------------------
LoadCatalogs ==
    /\ catalogsShown = None \/ catalogsStale
    /\ catalogsShown' = {CatalogRead(c) : c \in Existing}
    /\ catalogsStale' = FALSE
    /\ Quiet /\ UNCHANGED <<catalogs, createForm, deleteCatalog, detail, requests, marks>>

NoDialog == createForm = None /\ deleteCatalog = None /\ viewCatalog = None

\* The cards, or the rows of tableColumns: a catalog opens its details, the
\* bin its deletion.
CatalogCards ==
    IF catalogsShown = None \/ ~NoDialog THEN {}
    ELSE {[button |-> b, row |-> r] : b \in {"open", "delete"}, r \in catalogsShown}

\* The effect on the catalog's four fields reloads the form only when one of
\* them differs from the catalog shown before; a dialog that mounts loads it.

\* Mutant: the form is loaded when the dialog is opened and not after.
ShowDetail_Once(catalog) ==
    /\ viewCatalog' = catalog
    /\ IF catalog # None /\ viewCatalog = None
       THEN edit' = catalog.fields /\ typed' = FALSE
       ELSE UNCHANGED <<edit, typed>>

ShowDetail(catalog) ==
    /\ viewCatalog' = catalog
    /\ IF catalog = None THEN UNCHANGED <<edit, typed>>
       ELSE IF viewCatalog # None /\ viewCatalog.fields = catalog.fields
       THEN UNCHANGED <<edit, typed>>
       ELSE edit' = catalog.fields /\ typed' = FALSE

PressCard(b) ==
    /\ b \in CatalogCards
    /\ IF b.button = "open" THEN ShowDetail(b.row) /\ UNCHANGED deleteCatalog
       ELSE deleteCatalog' = b.row.id /\ UNCHANGED detail
    /\ Event /\ UNCHANGED <<catalogs, lists, createForm, requests, marks>>

CloseDialogs ==
    /\ ~NoDialog
    /\ createForm' = None /\ deleteCatalog' = None /\ ShowDetail(None)
    /\ updating' = {[u EXCEPT !.open = FALSE] : u \in updating}
    /\ Quiet /\ UNCHANGED <<catalogs, lists, creating, deleting, marks>>

-----------------------------------------------------------------------------
\* New Catalog: the form, and handleCreate, which Enter calls also while a
\* creation is on its way.
OpenCreate ==
    /\ NoDialog /\ catalogsShown # None
    /\ \E c \in Catalogs \ deletedNames, f \in CatalogFields : createForm' = [id |-> c, fields |-> f]
    /\ Event /\ UNCHANGED <<catalogs, lists, deleteCatalog, detail, requests, marks>>
handleCreate ==
    /\ createForm # None
    /\ creating' = creating \cup {[id |-> createForm.id, fields |-> createForm.fields, saw |-> None]}
    /\ Event
    /\ UNCHANGED <<catalogs, lists, createForm, deleteCatalog, detail, updating, deleting, marks>>

\* The INSERT waits for one of the same name, and is refused when there is a catalog of
\* that name; the UPDATE of the others sees the catalogs that are committed.
CreateFlushes(new) ==
    /\ new.saw = None /\ ~\E n \in creating : n.id = new.id /\ n.saw # None
    /\ creating' = (creating \ {new})
                       \cup IF catalogs[new.id] # None THEN {} ELSE {[new EXCEPT !.saw = Existing]}
    /\ Quiet
    /\ UNCHANGED <<catalogs, lists, createForm, deleteCatalog, detail, updating, deleting, marks>>
CreateCommits(new) ==
    /\ new.saw # None /\ creating' = creating \ {new}
    /\ LET all == [catalogs EXCEPT ![new.id] = new.fields]
       IN  IF new.fields.is_quarantine
           THEN /\ catalogs' = ClearFlags(all, new.saw)
                /\ overlapped' = {p \in overlapped : p \cap new.saw = {}}
                                     \cup {{new.id, c} : c \in Existing \ new.saw}
           ELSE catalogs' = all /\ UNCHANGED overlapped
    \* The answer may be lost.
    /\ \/ catalogsStale' = TRUE /\ createForm' = None
       \/ UNCHANGED <<catalogsStale, createForm>>
    /\ Quiet
    /\ UNCHANGED <<catalogsShown, deleteCatalog, detail, updating, deleting, deletedNames>>
\* Two that clear the same flags may end in a deadlock, of which one is the victim.
CreateFails(new) ==
    /\ creating' = creating \ {new}
    /\ Quiet
    /\ UNCHANGED <<catalogs, lists, createForm, deleteCatalog, detail, updating, deleting, marks>>

\* The delete dialog.
ConfirmDelete ==
    /\ deleteCatalog # None /\ deleting = None
    /\ deleting' = deleteCatalog
    /\ Event /\ UNCHANGED <<catalogs, lists, createForm, deleteCatalog, detail, creating, updating, marks>>
\* A catalog with items is refused.
Deleted ==
    /\ deleting # None /\ deleting' = None
    /\ IF catalogs[deleting] = None \/ deleting \in Occupied
       THEN UNCHANGED <<catalogs, catalogsStale, deleteCatalog, marks>>
       ELSE /\ catalogs' = [catalogs EXCEPT ![deleting] = None]
            /\ catalogsStale' = TRUE /\ deleteCatalog' = None
            /\ deletedNames' = deletedNames \cup {deleting} /\ UNCHANGED overlapped
    /\ Quiet /\ UNCHANGED <<catalogsShown, createForm, detail, creating, updating>>

-----------------------------------------------------------------------------
\* CatalogDetailDialog
isDirty == edit # viewCatalog.fields
EditCatalog(f) ==
    /\ viewCatalog # None /\ f # edit
    /\ edit' = f /\ typed' = TRUE
    /\ Event /\ UNCHANGED <<catalogs, lists, createForm, deleteCatalog, viewCatalog, requests, marks>>
\* All the fields are sent; an empty description is left out.  Closing the
\* dialog forgets that its save is on its way.
handleSave ==
    /\ viewCatalog # None /\ isDirty /\ \A u \in updating : ~u.open
    /\ updating' = updating \cup {[id |-> viewCatalog.id, fields |-> edit, loaded |-> None, open |-> TRUE]}
    /\ Event
    /\ UNCHANGED <<catalogs, lists, createForm, deleteCatalog, detail, creating, deleting, marks>>

UpdateLoads(u) ==
    /\ u.loaded = None /\ catalogs[u.id] # None
    /\ updating' = (updating \ {u}) \cup {[u EXCEPT !.loaded = catalogs[u.id]]}
    /\ Quiet
    /\ UNCHANGED <<catalogs, lists, createForm, deleteCatalog, detail, creating, deleting, marks>>

\* What is answered, and the row: only the columns that differ from what was loaded are
\* written.  A row deleted meanwhile fails the write.
Sent(u) == [u.fields EXCEPT !.description = IF @ = "" THEN u.loaded.description ELSE @]
Flushed(u) ==
    LET column(k) == IF Sent(u)[k] = u.loaded[k] THEN catalogs[u.id][k] ELSE Sent(u)[k]
    IN  [description |-> column("description"), is_production |-> column("is_production"),
         is_quarantine |-> column("is_quarantine")]
UpdateCommits(u) ==
    /\ u.loaded # None /\ catalogs[u.id] # None
    /\ updating' = updating \ {u}
    /\ SavedCatalog(u.id, Flushed(u), Sent(u).is_quarantine)
    \* The answer may be lost.
    /\ \/ catalogsStale' = TRUE /\ ShowDetail([id |-> u.id, fields |-> Sent(u)])
       \/ UNCHANGED <<catalogsStale, detail>>
    /\ Quiet /\ UNCHANGED <<catalogsShown, createForm, deleteCatalog, creating, deleting, deletedNames>>
UpdateFails(u) ==
    /\ updating' = updating \ {u}
    /\ Quiet
    /\ UNCHANGED <<catalogs, lists, createForm, deleteCatalog, detail, creating, deleting, marks>>

\* Another operator saves the flags of a catalog.
OtherCatalogs(c) ==
    /\ catalogs[c] # None
    /\ \E f \in CatalogFields : SavedCatalog(c, f, f.is_quarantine)
    /\ Event /\ UNCHANGED <<lists, createForm, deleteCatalog, detail, requests, deletedNames>>

-----------------------------------------------------------------------------
Init ==
    /\ catalogs = [c \in Catalogs |-> IF c \in Occupied THEN Plain ELSE None]
    /\ catalogsShown = None /\ catalogsStale = FALSE
    /\ createForm = None /\ deleteCatalog = None /\ viewCatalog = None
    /\ edit = Plain /\ typed = FALSE
    /\ creating = {} /\ updating = {} /\ deleting = None 
    /\ overlapped = {} /\ deletedNames = {} /\ catalogEvents = 0

Next ==
    \/ LoadCatalogs
    \/ \E b \in CatalogCards : PressCard(b)
    \/ CloseDialogs \/ OpenCreate \/ handleCreate
    \/ \E new \in creating : CreateFlushes(new) \/ CreateCommits(new) \/ CreateFails(new)
    \/ ConfirmDelete \/ Deleted
    \/ \E f \in CatalogFields : EditCatalog(f)
    \/ handleSave
    \/ \E u \in updating : UpdateLoads(u) \/ UpdateCommits(u) \/ UpdateFails(u)
    \/ \E c \in Catalogs : OtherCatalogs(c)

Spec == Init /\ [][Next]_vars

-----------------------------------------------------------------------------
CatalogsTypeOK ==
    /\ \A c \in Catalogs : catalogs[c] # None => catalogs[c] \in CatalogFields
    /\ viewCatalog # None => viewCatalog \in [id : Catalogs, fields : CatalogFields]
    /\ edit \in CatalogFields

(* At most one catalog is the quarantine, however creations and saves of    *)
(* several operators' forms follow one another and overlap: the forms send  *)
(* the flag of the catalog as it was when they were opened.  Two keep it    *)
(* only when one of them was created, with the flag, while the other was    *)
(* being created: each clears the flags it sees, until the next save of a   *)
(* flagged form.                                                            *)
OneQuarantine ==
    \A c, d \in Existing :
        catalogs[c].is_quarantine /\ catalogs[d].is_quarantine => c = d \/ {c, d} \in overlapped

(* A form nobody has typed in shows the catalog above it, also when the     *)
(* late answer of another catalog's save has put that catalog there.        *)
UntouchedFormIsTheCatalogs == viewCatalog # None /\ ~typed => edit = viewCatalog.fields

=============================================================================
