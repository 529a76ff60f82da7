\* The form on the page is that of the version shown.
SPECIFICATION Spec
CONSTANTS
    None = None
    Ids = {v1, v2}
    Shared = {"name"}
    VersionSpecific = {"hash"}
    Values = {0, 1}
    Unset = 0
    MaxSaves = 1
    MaxEdits = 1
    MaxEvents = 2
PROPERTIES FormFollowsVersion
\* Clicks and changes are bounded: the instance comes to rest.
CHECK_DEADLOCK FALSE
