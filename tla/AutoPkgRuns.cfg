\* Two runs: GitHub jobs, two pollers and a script that is started by hand.
SPECIFICATION RunFairSpec
CONSTANTS
    None = None
    MaxRuns = 2
    Creator = {u1, u2}
    User = {u1, u2}
    Job = {j1, j2}
    Poller = {m1, m2}
    Script = {script}
    MaxReports = 1
    MaxAborts = 1
INVARIANTS TypeOK OneExecution
PROPERTIES HistoryKept PendingIsClaimed
\* Runs are bounded: the instance comes to rest.
CHECK_DEADLOCK FALSE
