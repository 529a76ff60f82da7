\* One ticker and one operator: requests that race a tick, a crash, a deletion.
SPECIFICATION Spec
CONSTANTS
    None = None
    dev = dev
    test = test
    prod = prod
    Pkg = {v1}
    Catalog = {dev, test, prod}
    Channel = {slow}
    Order <- MCOrder
    PlanChoices <- TwoPlans
    Tickers = {loop}
    Operators = {admin}
    MaxDay = 2
    MaxRequests = 2
    MaxCrashes = 1
INVARIANT TypeOK
PROPERTY DwellRespected
\* Days and requests are bounded: the instance comes to rest.
CHECK_DEADLOCK FALSE
