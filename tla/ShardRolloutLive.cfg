\* Two overlapping tickers (scheduler loop and run-due webhook) and one operator,
\* two versions of a title; the days of a rollout may be changed halfway.
SPECIFICATION FairSpec
CONSTANTS
    None = None
    Custom = Custom
    Firefox = Firefox
    Pkg = {v1, v2}
    Title = {Firefox}
    name <- MCname
    Tickers = {loop, webhook}
    Operators = {op}
    DaysChoices = {1, 2, 3}
    PolicyChoices = {"immediate_full", "same_as_upgrades"}
    EnabledChoices = {TRUE, FALSE}
    OverrideChoices = {30, 100}
    ConditionChoices = {None, Custom}
    MaxDay = 1
    MaxRequests = 3
INVARIANTS TypeOK ActiveHasStart
PROPERTIES EventuallyOnSchedule
\* Requests and days are bounded: the instance comes to rest.
CHECK_DEADLOCK FALSE
