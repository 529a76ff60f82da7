\* The pages for AutoPkg, accounts, enrollment and insights, one at a time.
\* Two of most things, one of the system's; three files and three questions; three
\* versions of the parents of one trusted recipe.
SPECIFICATION Spec
CONSTANTS
    None = None
    Recipes = {r1, r2}
    MaxRecipeEdits = 1
    MaxRecipeEvents = 3
    Overrides = {o1, o2}
    MaxListEvents = 5
    Files = {f1, f2, f3}
    MaxChoices = 3
    TrustRecipes = {r1}
    Results = {i1}
    MaxContent = 2
    MaxRequests = 2
    MaxChecks = 2
    MaxApprovalEvents = 3
    Schedules = {sA, sB}
    Labels = {nightly}
    MaxScheduleEvents = 4
    Repos = {g1, g2}
    MaxDiscoverEvents = 5
    Accounts = {me, other}
    Roles = {admins, editors}
    Superusers = {me}
    SystemRoles = {admins}
    Me = me
    MaxAccessEvents = 4
    Tokens = {t1, t2}
    Macs = {mac1, mac2}
    MaxEnrollEvents = 7
    Questions = {q1, q2, q3}
    MaxStored = 2
    MaxChatEvents = 5
    Users = {u1, u2}
    Readers = {u2}
    AppPages = {home, list}
    MaxSteps = 4
    MaxWaiting = 2
INVARIANTS TypeOK UntouchedIsAsReceived RunsAreMeant RestrictedStaysRestricted SecretsAreWiped AnswersUnderTheirQuestion SessionEndsOnce
PROPERTIES RetrySendsOnlyFailures BlockedCanBeApproved RepositoriesAsAsked
\* Clicks are bounded: the instance comes to rest.
CHECK_DEADLOCK FALSE
