\* Two overlapping ticks and no operator: stalls, a crash, deadlocks, midnight.
SPECIFICATION FairSpec
CONSTANTS
    None = None
    dev = dev
    test = test
    prod = prod
    Pkg = {v1, v2}
    Catalog = {dev, test, prod}
    Channel = {slow}
    Order <- MCOrder
    PlanChoices <- TwoPlans
    Tickers = {loop, webhook}
    Operators = {}
    MaxDay = 1
    MaxRequests = 0
    MaxCrashes = 1
PROPERTIES OneStepPerTick NeverStranded EventuallyPromoted
\* Days are bounded: the instance comes to rest.
CHECK_DEADLOCK FALSE
