---------------------------- MODULE SoftwareList ----------------------------
(***************************************************************************)
(* The software catalog page (app/software/page.tsx) with the table all    *)
(* the lists share (components/data-table.tsx), over the list, bulk-update *)
(* and delete routes of api/routes/pkginfo.py.  The listing is paged and   *)
(* sorted by the server and cached under the filters, the page and the     *)
(* order that gave it; rows are ticked by id and stay ticked when the      *)
(* listing changes; a bulk update is one request, a bulk removal one       *)
(* request for each item.  Search, version and deployment filters match    *)
(* items by what does not change here (Matching, Older); category and      *)
(* catalog match what the bulk updates write.  Labels and the choice of    *)
(* columns are left out.                                                   *)
(***************************************************************************)
EXTENDS Naturals, FiniteSets

CONSTANTS
    Items,            \* pkginfo rows; numbers, in the order of their names
    Category,         \* the category written and filtered by
    Catalog,          \* the catalog written and filtered by
    Older,            \* items that are not the latest version
    Matching,         \* the items a search, deployment or queue filter keeps
    UsedFilters,      \* bound: the filters the operator changes
    PageSizes,        \* PAGE_SIZE_OPTIONS
    None,
    MaxListEvents     \* bound: clicks and requests of others

\* BulkUpdate, and whether it is committed.
BulkUpdates ==
    [ids : SUBSET Items, field : {"category"}, value : {None, Category}, done : BOOLEAN]
    \cup [ids : SUBSET Items, field : {"catalogs"}, value : SUBSET {Catalog}, done : BOOLEAN]

SoftwareListAssumption ==
    /\ Items \subseteq Nat /\ IsFiniteSet(Items) /\ Matching \subseteq Items /\ Older \subseteq Items
    /\ PageSizes \subseteq Nat \ {0} /\ PageSizes # {}
    /\ None \notin {Category, Catalog} /\ None \notin BulkUpdates /\ MaxListEvents \in Nat

VARIABLES
    pkginfos,        \* server: item -> [category, catalogs, is_deleted]
    listState,       \* softwarePageListAtom, kept in the browser's storage
    listings,        \* the query cache: listings by the list state they answer
    fetches,         \* requests for them, with the answer once the server has computed it
    rowSelection,    \* ids ticked
    bulkDialog,      \* None, "category", "catalogs" or "delete"
    bulkForm,        \* what is chosen in it
    bulkCall,        \* the bulk update on its way, or None
    deleteCalls,     \* removals on their way
    deletePending,   \* ids of the removal the dialog waits for, or None
    canEditSoftware,
    pagedUnder,      \* history: the filters the page was last turned under
    foreign,         \* history: others wrote, or a removal failed
    listEvents

cacheVars == <<listings, fetches>>
tableVars == <<listState, cacheVars, rowSelection, pagedUnder>>
bulkVars == <<bulkDialog, bulkForm, bulkCall, deleteCalls, deletePending>>
vars == <<pkginfos, tableVars, bulkVars, canEditSoftware, foreign, listEvents>>

-----------------------------------------------------------------------------
FilterFields == {"search", "category", "catalog", "deploymentStatus", "allVersions", "rolloutQueue"}
\* Each filter is off or at its one interesting value.
NoFilters == [f \in FilterFields |-> FALSE]
Filters == [FilterFields -> BOOLEAN]
SoftwarePageListState ==
    [filters : Filters, page : Nat \ {0}, pageSize : PageSizes, sorting : {"asc", "desc"}]
\* One of the sizes is the default.
DefaultPageSize == CHOOSE n \in PageSizes : TRUE

Quiet == UNCHANGED listEvents
Event == listEvents < MaxListEvents /\ listEvents' = listEvents + 1

-----------------------------------------------------------------------------
\* list_pkginfo
Matches(i, filters) ==
    /\ ~pkginfos[i].is_deleted
    /\ filters["category"] => pkginfos[i].category = Category
    /\ filters["catalog"] => Catalog \in pkginfos[i].catalogs
    /\ ~filters["allVersions"] => i \notin Older
    /\ (\E f \in {"search", "deploymentStatus", "rolloutQueue"} : filters[f]) => i \in Matching

\* Offset and limit over the rows in their order, in which place(i) is the
\* number of row i.
PaginatedResponse(s) ==
    LET found == {i \in Items : Matches(i, s.filters)}
        total == Cardinality(found)
        place(i) == Cardinality({x \in found : IF s.sorting = "asc" THEN x <= i ELSE x >= i})
        first == (s.page - 1) * s.pageSize
    IN  [rows  |-> {i \in found : first < place(i) /\ place(i) <= first + s.pageSize},
         total |-> total,
         pages |-> (total + s.pageSize - 1) \div s.pageSize]

Cached(s) == \E l \in listings : l.key = s
Listing(s) == CHOOSE l \in listings : l.key = s
Shown == IF Cached(listState) THEN Listing(listState).data.rows ELSE {}

\* A listing without data, or not fresh, is requested when it is shown, unless a request
\* for it is on its way.
FetchList ==
    /\ ~\E l \in listings : l.key = listState /\ l.fresh
    /\ ~\E f \in fetches : f.key = listState
    /\ fetches' = fetches \cup {[key |-> listState, data |-> None, overtaken |-> FALSE]}
    /\ Quiet /\ UNCHANGED <<pkginfos, listState, listings, rowSelection, pagedUnder, bulkVars, canEditSoftware, foreign>>

ServerAnswers(f) ==
    /\ f \in fetches /\ f.data = None
    /\ fetches' = (fetches \ {f}) \cup {[f EXCEPT !.data = PaginatedResponse(f.key)]}
    /\ Quiet /\ UNCHANGED <<pkginfos, listState, listings, rowSelection, pagedUnder, bulkVars, canEditSoftware, foreign>>

\* Whatever arrives counts as fresh, also for a listing that is shown no more.
FetchArrives(f) ==
    /\ f \in fetches /\ f.data # None
    /\ fetches' = fetches \ {f}
    /\ listings' = {l \in listings : l.key # f.key}
                       \cup {[key |-> f.key, data |-> f.data, fresh |-> TRUE, overtaken |-> f.overtaken]}
    /\ Quiet /\ UNCHANGED <<pkginfos, listState, rowSelection, pagedUnder, bulkVars, canEditSoftware, foreign>>

FetchFails(f) ==
    /\ f \in fetches /\ fetches' = fetches \ {f}
    /\ Quiet /\ UNCHANGED <<pkginfos, listState, listings, rowSelection, pagedUnder, bulkVars, canEditSoftware, foreign>>

\* Mutant: only the listing on the screen.
Invalidated_Shown == {[l EXCEPT !.fresh = @ /\ l.key # listState] : l \in listings}

\* invalidateQueries on ['pkginfo']
Invalidated == {[l EXCEPT !.fresh = FALSE] : l \in listings}

\* It sends the request of a listing on the screen anew; one for a listing that has no
\* data yet, or is not on the screen, goes on.  An answer that was computed by then
\* arrives after the invalidation, and is overtaken (history).
Refetched ==
    {IF f.key = listState /\ Cached(listState)
     THEN [key |-> f.key, data |-> None, overtaken |-> FALSE]
     ELSE [f EXCEPT !.overtaken = @ \/ f.data # None] : f \in fetches}

-----------------------------------------------------------------------------
\* Filters, all of which go back to the first page.
NoDialog == bulkDialog = None

SearchBox == {[listState.filters EXCEPT !["search"] = b] : b \in BOOLEAN}
FilterSheet ==
    {[listState.filters EXCEPT ![f] = b] :
        f \in {"category", "catalog", "deploymentStatus", "allVersions"}, b \in BOOLEAN}
activeFilters == {[listState.filters EXCEPT ![f] = FALSE] : f \in FilterFields}
\* The search text is kept.
ClearFilters == [NoFilters EXCEPT !["search"] = listState.filters["search"]]
\* A badge in a row sets the filter to the row's value.
makeSoftwareListColumns ==
    {[listState.filters EXCEPT !["category"] = TRUE] : i \in {x \in Shown : pkginfos[x].category = Category}}
    \cup {[listState.filters EXCEPT !["catalog"] = TRUE] : i \in {x \in Shown : Catalog \in pkginfos[x].catalogs}}
    \cup {[listState.filters EXCEPT !["deploymentStatus"] = TRUE] : i \in Shown \cap Matching}

\* Mutant: the page is kept.
FirstPage_Kept(s) == s

FirstPage(s) == [s EXCEPT !.page = 1]

ChangeFilters(filters) ==
    /\ NoDialog /\ filters # listState.filters
    /\ \A f \in FilterFields \ UsedFilters : filters[f] => listState.filters[f]
    /\ filters \in SearchBox \cup FilterSheet \cup activeFilters
                       \cup {ClearFilters} \cup makeSoftwareListColumns
    /\ listState' = FirstPage([listState EXCEPT !.filters = filters])
    /\ Event /\ UNCHANGED <<pkginfos, cacheVars, rowSelection, pagedUnder, bulkVars, canEditSoftware, foreign>>

\* The footer of DataTable: Previous and Next, shown when the listing has
\* more than one page, and the number of rows.
PageButtons ==
    LET pages == IF Cached(listState) THEN Listing(listState).data.pages ELSE 1
    IN  IF pages <= 1 THEN {}
        ELSE {p \in {listState.page - 1, listState.page + 1} :
                 /\ p < listState.page => listState.page > 1
                 /\ p > listState.page => listState.page < pages}

TurnPage(p) ==
    /\ NoDialog /\ p \in PageButtons
    /\ listState' = [listState EXCEPT !.page = p]
    /\ pagedUnder' = listState.filters
    /\ Event /\ UNCHANGED <<pkginfos, cacheVars, rowSelection, bulkVars, canEditSoftware, foreign>>
SetPageSize(n) ==
    /\ NoDialog /\ n # listState.pageSize
    /\ listState' = FirstPage([listState EXCEPT !.pageSize = n])
    /\ Event /\ UNCHANGED <<pkginfos, cacheVars, rowSelection, pagedUnder, bulkVars, canEditSoftware, foreign>>
SortBy(order) ==
    /\ NoDialog /\ order # listState.sorting
    /\ listState' = FirstPage([listState EXCEPT !.sorting = order])
    /\ Event /\ UNCHANGED <<pkginfos, cacheVars, rowSelection, pagedUnder, bulkVars, canEditSoftware, foreign>>

-----------------------------------------------------------------------------
\* selectColumnDef: the box of a row, and the box of the header, which adds
\* or takes away the rows of this page.
toggleSelected(i) == (rowSelection \ {i}) \cup ({i} \ rowSelection)
toggleAllPageRowsSelected ==
    IF Shown # {} /\ Shown \subseteq rowSelection THEN rowSelection \ Shown
    ELSE rowSelection \cup Shown

TickRows ==
    /\ NoDialog /\ canEditSoftware
    /\ \E ticked \in {toggleAllPageRowsSelected} \cup {toggleSelected(i) : i \in Shown} :
           ticked # rowSelection /\ rowSelection' = ticked
    /\ Event /\ UNCHANGED <<pkginfos, listState, cacheVars, pagedUnder, bulkVars, canEditSoftware, foreign>>

\* The bar above a selection: it clears it, or opens a dialog.
SelectionBar == IF rowSelection = {} \/ ~NoDialog THEN {} ELSE {"category", "catalogs", "delete", "clear"}
BulkForm == [category : {None, Category}, catalogs : SUBSET {Catalog}]
EmptyForm == [category |-> None, catalogs |-> {}]

PressBar(b) ==
    /\ b \in SelectionBar
    /\ IF b = "clear" THEN rowSelection' = {} /\ UNCHANGED <<bulkDialog, bulkForm>>
       ELSE bulkDialog' = b /\ bulkForm' = EmptyForm /\ UNCHANGED rowSelection
    /\ Event
    /\ UNCHANGED <<pkginfos, listState, cacheVars, pagedUnder, bulkCall, deleteCalls, deletePending,
                   canEditSoftware, foreign>>
FillBulkForm(form) ==
    /\ bulkDialog \in {"category", "catalogs"} /\ form # bulkForm
    /\ bulkDialog = "category" => form.catalogs = bulkForm.catalogs
    /\ bulkDialog = "catalogs" => form.category = bulkForm.category
    /\ bulkForm' = form
    /\ Event
    /\ UNCHANGED <<pkginfos, tableVars, bulkDialog, bulkCall, deleteCalls, deletePending, canEditSoftware, foreign>>
\* Cancel, Escape or a click beside the dialog, also while its request is on
\* its way.
CloseDialog ==
    /\ ~NoDialog /\ bulkDialog' = None
    /\ Quiet
    /\ UNCHANGED <<pkginfos, tableVars, bulkForm, bulkCall, deleteCalls, deletePending, canEditSoftware, foreign>>

\* The buttons of the two dialogs: the category typed or none, the catalogs
\* ticked.
ApplyBulk ==
    /\ bulkDialog \in {"category", "catalogs"} /\ bulkCall = None
    /\ \/ /\ bulkDialog = "category"
          /\ \E c \in {None, bulkForm.category} :
                bulkCall' = [ids |-> rowSelection, field |-> "category", value |-> c, done |-> FALSE]
       \/ /\ bulkDialog = "catalogs"
          /\ bulkCall' = [ids |-> rowSelection, field |-> "catalogs", value |-> bulkForm.catalogs, done |-> FALSE]
    /\ Event
    /\ UNCHANGED <<pkginfos, tableVars, bulkDialog, bulkForm, deleteCalls, deletePending, canEditSoftware, foreign>>

bulk_update_pkginfo(ids, field, value) ==
    [i \in Items |-> IF i \notin ids \/ pkginfos[i].is_deleted THEN pkginfos[i]
                     ELSE IF field = "category" THEN [pkginfos[i] EXCEPT !.category = value]
                     ELSE [pkginfos[i] EXCEPT !.catalogs = value]]

\* Without ids, or without the permission, the server refuses it.
BulkCommits ==
    /\ bulkCall # None /\ ~bulkCall.done /\ bulkCall.ids # {} /\ canEditSoftware
    /\ pkginfos' = bulk_update_pkginfo(bulkCall.ids, bulkCall.field, bulkCall.value)
    /\ bulkCall' = [bulkCall EXCEPT !.done = TRUE]
    /\ Quiet
    /\ UNCHANGED <<tableVars, bulkDialog, bulkForm, deleteCalls, deletePending, canEditSoftware, foreign>>
BulkSucceeds ==
    /\ bulkCall # None /\ bulkCall.done
    /\ bulkCall' = None /\ listings' = Invalidated /\ fetches' = Refetched /\ rowSelection' = {}
    /\ bulkDialog' = IF bulkDialog = "delete" THEN "delete" ELSE None
    /\ bulkForm' = EmptyForm
    /\ Quiet /\ UNCHANGED <<pkginfos, listState, pagedUnder, deleteCalls, deletePending, canEditSoftware, foreign>>
\* Refused, or the answer was lost, after which nothing is requested again.
BulkFails ==
    /\ bulkCall # None /\ bulkCall' = None
    /\ foreign' = (foreign \/ bulkCall.done)
    /\ Quiet /\ UNCHANGED <<pkginfos, tableVars, bulkDialog, bulkForm, deleteCalls, deletePending, canEditSoftware>>

-----------------------------------------------------------------------------
\* A removal sends one request for each ticked item and waits for all.
ConfirmDelete ==
    /\ bulkDialog = "delete" /\ deletePending = None
    /\ deletePending' = rowSelection /\ deleteCalls' = deleteCalls \cup rowSelection
    /\ Event
    /\ UNCHANGED <<pkginfos, tableVars, bulkDialog, bulkForm, bulkCall, canEditSoftware, foreign>>

AllDeleted ==
    /\ deletePending' = None /\ listings' = Invalidated /\ fetches' = Refetched /\ rowSelection' = {}
    /\ bulkDialog' = IF bulkDialog = "delete" THEN None ELSE bulkDialog
DeleteSucceeds(i) ==
    /\ i \in deleteCalls /\ canEditSoftware
    /\ deleteCalls' = deleteCalls \ {i}
    /\ pkginfos' = [pkginfos EXCEPT ![i].is_deleted = TRUE]
    /\ IF deletePending # None /\ deletePending \cap (deleteCalls \ {i}) = {} THEN AllDeleted
       ELSE UNCHANGED <<deletePending, cacheVars, rowSelection, bulkDialog>>
    /\ foreign' = (foreign \/ deletePending = None)
    /\ Quiet /\ UNCHANGED <<listState, pagedUnder, bulkForm, bulkCall, canEditSoftware>>
\* The first failure is what the page hears; the other requests go on.
DeleteFails(i) ==
    /\ i \in deleteCalls
    /\ deleteCalls' = deleteCalls \ {i} /\ foreign' = TRUE
    /\ deletePending' = IF deletePending # None /\ i \in deletePending THEN None ELSE deletePending
    /\ Quiet /\ UNCHANGED <<pkginfos, tableVars, bulkDialog, bulkForm, bulkCall, canEditSoftware>>
\* Nothing is sent once the selection is gone, which settles at once.
DeleteNothing ==
    /\ deletePending = {} /\ AllDeleted
    /\ Quiet /\ UNCHANGED <<pkginfos, listState, pagedUnder, bulkForm, bulkCall, deleteCalls, canEditSoftware, foreign>>

-----------------------------------------------------------------------------
\* The page is left and opened again: ticks and dialogs are gone, the list
\* state is read from storage and a deployment filter may come in the address.
OpenPage(filtered) ==
    /\ listState' = IF filtered = listState.filters["deploymentStatus"] \/ ~filtered THEN listState
                    ELSE FirstPage([listState EXCEPT !.filters["deploymentStatus"] = TRUE])
    /\ rowSelection' = {} /\ bulkDialog' = None /\ bulkForm' = EmptyForm
    /\ deletePending' = None /\ foreign' = (foreign \/ deleteCalls # {} \/ bulkCall # None)
    /\ bulkCall' = None /\ deleteCalls' = {}
    /\ Event /\ UNCHANGED <<pkginfos, cacheVars, pagedUnder, canEditSoftware>>

LoseWrite ==
    /\ canEditSoftware /\ canEditSoftware' = FALSE /\ rowSelection' = {}
    /\ Event /\ UNCHANGED <<pkginfos, listState, cacheVars, pagedUnder, bulkVars, foreign>>

OtherDeletes(i) ==
    /\ ~pkginfos[i].is_deleted /\ pkginfos' = [pkginfos EXCEPT ![i].is_deleted = TRUE]
    /\ foreign' = TRUE
    /\ Event /\ UNCHANGED <<tableVars, bulkVars, canEditSoftware>>

-----------------------------------------------------------------------------
Init ==
    /\ pkginfos = [i \in Items |-> [category |-> Category, catalogs |-> {Catalog}, is_deleted |-> FALSE]]
    /\ listState = [filters |-> NoFilters, page |-> 1, pageSize |-> DefaultPageSize, sorting |-> "asc"]
    /\ listings = {} /\ fetches = {} /\ rowSelection = {} /\ bulkDialog = None /\ bulkForm = EmptyForm
    /\ bulkCall = None /\ deleteCalls = {} /\ deletePending = None /\ canEditSoftware = TRUE
    /\ pagedUnder = NoFilters /\ foreign = FALSE /\ listEvents = 0

Next ==
    \/ FetchList \/ \E f \in fetches : ServerAnswers(f) \/ FetchArrives(f) \/ FetchFails(f)
    \/ \E filters \in SearchBox \cup FilterSheet \cup activeFilters
                          \cup {ClearFilters} \cup makeSoftwareListColumns : ChangeFilters(filters)
    \/ \E p \in PageButtons : TurnPage(p)
    \/ \E n \in PageSizes : SetPageSize(n)
    \/ \E order \in {"asc", "desc"} : SortBy(order)
    \/ TickRows
    \/ \E b \in SelectionBar : PressBar(b)
    \/ \E form \in BulkForm : FillBulkForm(form)
    \/ CloseDialog \/ ApplyBulk \/ BulkCommits \/ BulkSucceeds \/ BulkFails
    \/ ConfirmDelete \/ DeleteNothing
    \/ \E i \in deleteCalls : DeleteSucceeds(i) \/ DeleteFails(i)
    \/ \E filtered \in BOOLEAN : OpenPage(filtered)
    \/ LoseWrite
    \/ \E i \in Items : OtherDeletes(i)

Spec == Init /\ [][Next]_vars

-----------------------------------------------------------------------------
ListTypeOK ==
    /\ pkginfos \in [Items -> [category : {None, Category}, catalogs : SUBSET {Catalog}, is_deleted : BOOLEAN]]
    /\ listState \in SoftwarePageListState
    /\ rowSelection \subseteq Items /\ deleteCalls \subseteq Items
    /\ bulkForm \in BulkForm /\ bulkDialog \in {None, "category", "catalogs", "delete"}

(* A later page is only ever shown of the listing it was turned to in:      *)
(* every way to change the filters, of the box, the sheet, the badges and   *)
(* the rows, starts the new listing at its first page.                      *)
PageIsOfTheseFilters == listState.page > 1 => pagedUnder = listState.filters

(* A cached listing that counts as fresh is what the server would answer,   *)
(* under whatever filters it was cached, as long as only this page wrote    *)
(* and all its requests were answered well: the bulk writes of one listing  *)
(* also change the others.  What they do not reach is an answer computed    *)
(* before the write and still on its way when invalidateQueries runs, for a *)
(* listing without data or off the screen: it counts as fresh for 30 s.     *)
FreshListingsAreTrue ==
    ~foreign /\ deleteCalls = {} /\ (bulkCall = None \/ ~bulkCall.done)
        => \A l \in listings : l.fresh /\ ~l.overtaken => l.data = PaginatedResponse(l.key)
=============================================================================
