\* The pages of the software library, one at a time.  Two versions of an item,
\* one shared field and one of the installer; two items on pages of one or two,
\* a rollout of two days; two channels of one or two steps; three catalogs of
\* which one has items; two manifests, with a name that reads as a version of the
\* other one; two blocks and a nested one.
SPECIFICATION LibrarySpec
CONSTANTS
    None = None
    Custom = Custom
    Ids = {v1, v2}
    Shared = {name}
    VersionSpecific = {hash}
    Values = {0, 1}
    Unset = 0
    MaxSaves = 1
    MaxFieldEdits = 1
    MaxEditorEvents = 1
    Software = {1, 2}
    Category = productivity
    Catalog = testing
    Older = {}
    Matching = {2}
    UsedFilters = {"category"}
    PageSizes = {1, 2}
    MaxListEvents = 4
    Pins = {30, 100}
    Prefs <- WaitingPrefs
    MaxDay = 1
    MaxForeign = 1
    Channels = {c1, c2}
    StepCatalogs = {k1}
    MaxSteps = 2
    MaxDays = 2
    MaxWorkflowEvents = 4
    Catalogs = {k1, k2, k3}
    Occupied = {k1}
    MaxCatalogEvents = 4
    InstallerFiles <- FilesLikeVersions
    TypedNames <- NamesLikeVersions
    CatalogNames = {"testing", "production"}
    Subdirs = {"", "apps"}
    MaxUploadEvents = 5
    Manifests = {m1, m2}
    ManifestItems <- ItemsLikeVersions
    ItemVersions <- OneVersion
    Pinned <- PinnedAtFirst
    MaxListEdits = 2
    MaxManifestEvents = 1
    MaxMade = 2
    MaxBlockDepth = 2
    MaxBlockEdits = 2
INVARIANTS TypeOK SavesAreAsReviewed  CardIsTrue CatalogFlagsAreTheirs UploadedNamesResolve ManifestIsItsOwn
PROPERTIES WorkflowWritesItsOwn BlocksAreKept
\* Clicks are bounded: the instance comes to rest.
CHECK_DEADLOCK FALSE
