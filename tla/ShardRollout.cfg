\* Two operators and a scheduler loop on one version: percentages 50, 100.
SPECIFICATION Spec
CONSTANTS
    None = None
    Custom = Custom
    Firefox = Firefox
    Pkg = {v1}
    Title = {Firefox}
    name <- MCname
    Tickers = {loop}
    Operators = {op1, op2}
    DaysChoices = {2}
    PolicyChoices = {"skip_until_approved", "same_as_upgrades"}
    EnabledChoices = {TRUE, FALSE}
    OverrideChoices = {30}
    ConditionChoices = {Custom}
    MaxDay = 1
    MaxRequests = 5
SYMMETRY Symmetry
PROPERTIES TickKeepsOperatorColumns StartLostToOverlapOnly
\* Requests and days are bounded: the instance comes to rest.
CHECK_DEADLOCK FALSE
