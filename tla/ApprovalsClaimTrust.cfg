\* What an approval of trust installs is what the diff showed.
SPECIFICATION Spec
CONSTANTS
    None = None
    TrustRecipes = {r1}
    Results = {i1}
    MaxContent = 2
    MaxRequests = 3
    MaxChecks = 2
    MaxApprovalEvents = 5
INVARIANTS ApprovedWasInTheDiff
\* Clicks and changes are bounded: the instance comes to rest.
CHECK_DEADLOCK FALSE
