\* A version that lands in a production catalog is rolled out by shard.
SPECIFICATION Spec
CONSTANTS
    None = None
    Custom = Custom
    Firefox = Firefox
    Pkg = {v1}
    Title = {Firefox}
    name <- MCname
    Tickers = {loop}
    Operators = {op}
    DaysChoices = {2}
    PolicyChoices = {"skip_until_approved", "same_as_upgrades"}
    EnabledChoices = {TRUE}
    OverrideChoices = {30}
    ConditionChoices = {Custom}
    MaxDay = 2
    MaxRequests = 4
INVARIANTS ProductionIsSharded
\* Requests and days are bounded: the instance comes to rest.
CHECK_DEADLOCK FALSE
