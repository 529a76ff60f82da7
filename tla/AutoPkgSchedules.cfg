\* The loop, the webhook and a user create runs; a polling machine takes them.
SPECIFICATION FairSpec
CONSTANTS
    None = None
    MaxRuns = 2
    Creator = {user, loop, webhook}
    User = {user}
    Job = {}
    Poller = {p}
    Script = {}
    MaxReports = 0
    MaxAborts = 1
    Firer = {loop, webhook}
    Schedule = {s}
    hourly = hourly
    bihourly = bihourly
    Cron = {hourly, bihourly}
    period <- MCperiod
    MaxTime = 2
    MaxEdits = 2
INVARIANTS ScheduleTypeOK DisabledIsNotFired
PROPERTIES DueIsServed
\* Runs and time are bounded: the instance comes to rest.
CHECK_DEADLOCK FALSE
