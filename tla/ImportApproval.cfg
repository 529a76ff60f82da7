\* Two imports, of one title twice or of two titles, and two operator sessions.
SPECIFICATION Spec
CONSTANTS
    None = None
    firefox = firefox
    chrome = chrome
    ff = ff
    gc = gc
    v1 = v1
    production = production
    Pkg = {ff, gc}
    Recipe = {firefox, chrome}
    Version = {v1}
    recipe <- MCrecipe
    version <- MCversion
    keyed = {firefox}
    Import = {i1, i2}
    Operators = {op1, op2}
    Catalog = {quarantine, production}
    Quarantine = quarantine
    IntendedChoices <- MCIntended
    AssignChoices <- MCAssign
    NamingChoices = {"identifier", "name"}
    MaxRequests = 2
    MaxAborts = 1
SYMMETRY Symmetry
INVARIANTS TypeOK NothingLeftHeld
PROPERTIES HeldUntilDecided DeletionIsFinal
\* Requests and imports are bounded: the instance comes to rest.
CHECK_DEADLOCK FALSE
