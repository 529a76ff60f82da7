----------------------------- MODULE AutoPkgRuns -----------------------------
(***************************************************************************)
(* AutoPkg runs: services/autopkg_runs.py creates them and hands them to   *)
(* GitHub Actions or leaves them to the Macs; api/routes/autopkg.py is     *)
(* what jobs and Macs call while they work on them.                        *)
(*                                                                         *)
(* The workflow is dispatched before the run is committed.  A claim locks  *)
(* the row it selects (FOR UPDATE SKIP LOCKED); /complete and /fail load   *)
(* the run, compute and commit without a lock.                             *)
(*                                                                         *)
(* AutoPkgSchedules adds the schedules that create runs.                   *)
(***************************************************************************)
EXTENDS Naturals, FiniteSetsExt

CONSTANTS
    None,        \* absent
    MaxRuns,     \* bound: runs ever created; they are numbered as created
    Creator,     \* sessions that create runs: UI triggers and schedule firings
    User,        \* those of UI triggers
    Job,         \* GitHub Actions jobs, one for each dispatch
    Poller,      \* Macs that run poll_local_autopkg.sh
    Script,      \* run_local_autopkg.sh started by hand, once each
    MaxReports,  \* bound: reports of one execution
    MaxAborts    \* bound: lost calls, crashes and machines in one behaviour

VARIABLES
    created,  \* run ids given out so far
    runs,     \* autopkg_run: the committed rows
    results,  \* autopkg_run_result: how many, and how many lack their package
    making,   \* the row that each creator has flushed and not committed
    workers,  \* what jobs and Macs are doing
    aborts    \* crashes so far (a bound, not in the code)

runVars == <<created, runs, results, making, workers, aborts>>

Run == 1 .. MaxRuns
Mac == Poller \cup Script
Worker == Job \cup Mac

RunStatus == {"pending", "running", "completed", "failed"}

Row == [ status        : RunStatus,
         runner_type   : {"github", "local"},
         started       : BOOLEAN,                      \* started_at is set
         total_recipes : Nat \cup {None},
         github_run_id : BOOLEAN ]                     \* github_run_id is set

ASSUME RunAssumption ==
    /\ MaxRuns \in Nat /\ MaxReports \in Nat /\ MaxAborts \in Nat
    /\ User \subseteq Creator
    /\ Job \cap Mac = {}
    /\ Poller \cap Script = {}
    /\ None \notin Nat /\ None \notin Row

\* Mutant: the answer to the dispatch is not looked at.
NewRow_AlwaysPending(status, runner) ==
    [status |-> "pending", runner_type |-> runner, started |-> FALSE,
     total_recipes |-> None, github_run_id |-> FALSE]

NewRow(status, runner) ==
    [status |-> status, runner_type |-> runner, started |-> status = "running",
     total_recipes |-> None, github_run_id |-> FALSE]

Results == [posted : Nat, refused : Nat]

WorkerState ==
    [ phase   : {"idle", "claiming", "queued", "building", "reporting", "completing",
                 "failing", "marking", "done"},
      run     : Run \cup {None},
      failed  : BOOLEAN,            \* a step of the job has failed
      reports : 0 .. MaxReports,    \* report files still to post
      base    : Row \cup {None},    \* the row that /complete or /fail has loaded
      seen    : Nat ]               \* the results it has loaded

Resting(phase) == [phase |-> phase, run |-> None, failed |-> FALSE, reports |-> 0,
                   base |-> None, seen |-> 0]

\* The types; only rows of local runs wait, and no result is without its row.
TypeOK ==
    /\ created \in 0 .. MaxRuns
    /\ runs \in [Run -> Row \cup {None}]
    /\ results \in [Run -> Results]
    /\ making \in [Creator -> [run : Run, row : Row] \cup {None}]
    /\ workers \in [Worker -> WorkerState]
    /\ \A r \in Run :
          IF runs[r] = None THEN results[r].posted = 0
          ELSE runs[r].status = "pending" => runs[r].runner_type = "local"

RunInit ==
    /\ created = 0
    /\ runs = [r \in Run |-> None]
    /\ results = [r \in Run |-> [posted |-> 0, refused |-> 0]]
    /\ making = [c \in Creator |-> None]
    /\ workers = [w \in Worker |-> Resting("idle")]
    /\ aborts = 0

Abort ==
    /\ aborts < MaxAborts
    /\ aborts' = aborts + 1

-----------------------------------------------------------------------------
(* create_and_dispatch_autopkg_run.                                        *)

\* dispatch_autopkg_workflow was answered 204: a job will start.
Dispatched(r) ==
    \E j \in Job :
        /\ workers[j].phase = "idle"
        /\ workers' = [workers EXCEPT ![j].phase = "queued", ![j].run = r]

\* The run is flushed and dispatched; nobody else sees its row yet.
Create(c) ==
    /\ making[c] = None
    /\ created < MaxRuns
    /\ created' = created + 1
    /\ \/ /\ making' = [making EXCEPT ![c] = [run |-> created', row |-> NewRow("pending", "local")]]
          /\ UNCHANGED workers
       \/ /\ making' = [making EXCEPT ![c] = [run |-> created', row |-> NewRow("failed", "github")]]
          /\ UNCHANGED workers
       \/ /\ making' = [making EXCEPT ![c] = [run |-> created', row |-> NewRow("running", "github")]]
          /\ Dispatched(created')
    /\ UNCHANGED <<runs, results, aborts>>

CommitRun(c) ==
    /\ making[c] # None
    /\ runs' = [runs EXCEPT ![making[c].run] = making[c].row]
    /\ making' = [making EXCEPT ![c] = None]
    /\ UNCHANGED <<created, results, workers, aborts>>

\* The dispatch times out after GitHub has accepted it, or the API process dies.
RollbackRun(c) ==
    /\ making[c] # None
    /\ Abort
    /\ making' = [making EXCEPT ![c] = None]
    /\ UNCHANGED <<created, runs, results, workers>>

-----------------------------------------------------------------------------
(* Claims: claim_next_local_run.                                           *)

Exists(r) == runs[r] # None

Locked(r) == \E w \in Poller : workers[w].phase = "claiming" /\ workers[w].run = r

\* Mutant: the SELECT takes no lock.
Claimable_Unlocked(r) == Exists(r) /\ runs[r].runner_type = "local" /\ runs[r].status = "pending"

\* Mutant: a run that is under way elsewhere holds up the others.
Claimable_OneAtATime(r) ==
    /\ Exists(r) /\ runs[r].runner_type = "local" /\ runs[r].status = "pending" /\ ~Locked(r)
    /\ \A q \in Run : Exists(q) => runs[q].status # "running"

Claimable(r) ==
    Exists(r) /\ runs[r].runner_type = "local" /\ runs[r].status = "pending" /\ ~Locked(r)

\* The oldest row is selected and locked.
Claim(w) ==
    LET claimable == {r \in Run : Claimable(r)}
    IN  /\ w \in Poller
        /\ workers[w].phase = "idle"
        /\ claimable # {}
        /\ workers' = [workers EXCEPT ![w].phase = "claiming", ![w].run = Min(claimable)]
        /\ UNCHANGED <<created, runs, results, making, aborts>>

\* The run is committed as running.
Taken(w) ==
    /\ workers[w].phase = "claiming"
    /\ runs' = [runs EXCEPT ![workers[w].run].status = "running",
                            ![workers[w].run].started = TRUE]

Claimed(w) ==
    /\ Taken(w)
    /\ workers' = [workers EXCEPT ![w].phase = "building"]
    /\ UNCHANGED <<created, results, making, aborts>>

\* The claim is rolled back and answered with an error: the Mac polls again.
ClaimRefused(w) ==
    /\ workers[w].phase = "claiming"
    /\ Abort
    /\ workers' = [workers EXCEPT ![w] = Resting("idle")]
    /\ UNCHANGED <<created, runs, results, making>>

\* No answer, or one that is cut off, reaches the Mac, whether the claim was committed
\* or not: curl or the parser fails, and the poll script ends (set -e).
ClaimLost(w) ==
    /\ w \in Poller
    /\ workers[w].phase \in {"idle", "claiming"}
    /\ Abort
    /\ Taken(w) \/ UNCHANGED runs
    /\ workers' = [workers EXCEPT ![w] = Resting("done")]
    /\ UNCHANGED <<created, results, making>>

\* launchd (KeepAlive) or somebody starts the poll script again.
Restart(w) ==
    /\ w \in Poller
    /\ workers[w].phase = "done"
    /\ workers' = [workers EXCEPT ![w] = Resting("idle")]
    /\ UNCHANGED <<created, runs, results, making, aborts>>

-----------------------------------------------------------------------------
(* Executions: autopkg_cloud_runner.yml and run_local_autopkg.sh.          *)

\* However the script it has called ends, a poller goes on to its next claim (set +e).
Rest(w) == IF w \in Poller THEN Resting("idle") ELSE Resting("done")

\* After its reporting step, a job of which a step has failed calls /fail.
AfterReporting(w, failed) ==
    IF w \in Job /\ failed THEN [workers[w] EXCEPT !.phase = "failing", !.failed = TRUE,
                                        !.reports = 0, !.base = None, !.seen = 0]
    ELSE Rest(w)

\* An operator starts the script for a local run: no claim is made.
StartScript(w, r) ==
    /\ w \in Script
    /\ workers[w].phase = "idle"
    /\ Exists(r) /\ runs[r].runner_type = "local"
    /\ workers' = [workers EXCEPT ![w].phase = "building", ![w].run = r]
    /\ UNCHANGED <<created, runs, results, making, aborts>>

\* post_github_run_context; 404 for a run that is not committed fails the job,
\* whose reporting steps run always().
Register(j) ==
    /\ workers[j].phase = "queued"
    /\ IF Exists(workers[j].run)
       THEN /\ runs' = [runs EXCEPT ![workers[j].run].github_run_id = TRUE]
            /\ workers' = [workers EXCEPT ![j].phase = "building"]
       ELSE /\ workers' = [workers EXCEPT ![j].phase = "reporting", ![j].failed = TRUE]
            /\ UNCHANGED runs
    /\ UNCHANGED <<created, results, making, aborts>>

\* AutoPkg leaves some reports; a failed step does not keep a job from reporting.
Build(w) ==
    /\ workers[w].phase = "building"
    /\ \E n \in 0 .. MaxReports, failed \in BOOLEAN :
          /\ failed => w \in Job
          /\ workers' = [workers EXCEPT ![w].phase = "reporting", ![w].reports = n,
                                        ![w].failed = failed]
    /\ UNCHANGED <<created, runs, results, making, aborts>>

\* The script exits (set -e): nothing is reported.
GiveUp(w) ==
    /\ w \in Mac
    /\ workers[w].phase = "building"
    /\ workers' = [workers EXCEPT ![w] = Rest(w)]
    /\ UNCHANGED <<created, runs, results, making, aborts>>

\* upload_run_pkg: 409 once the run has ended.
AcceptsPackages(r) == runs[r].status \in {"running", "pending"}

\* One report: its package is uploaded, its result posted (post_run_result).
Report(w) ==
    LET r == workers[w].run IN
    /\ workers[w].phase = "reporting" /\ workers[w].reports > 0
    /\ results' = [results EXCEPT ![r].posted = @ + 1,
                                  ![r].refused = IF AcceptsPackages(r) THEN @ ELSE @ + 1]
    /\ workers' = [workers EXCEPT ![w].reports = @ - 1]
    /\ UNCHANGED <<created, runs, making, aborts>>

\* post_json gives up on the result.
ReportLost(w) ==
    /\ workers[w].phase = "reporting" /\ workers[w].reports > 0
    /\ Abort
    /\ workers' = [workers EXCEPT ![w].reports = @ - 1]
    /\ UNCHANGED <<created, runs, results, making>>

\* report_results.py raises: the step ends there.
ReportBreaks(w) ==
    /\ workers[w].phase = "reporting" /\ workers[w].reports > 0
    /\ workers' = [workers EXCEPT ![w] = AfterReporting(w, TRUE)]
    /\ UNCHANGED <<created, runs, results, making, aborts>>

ReadyToComplete(w) == workers[w].phase = "reporting" /\ workers[w].reports = 0

\* complete_run loads the run and its results; 404 fails the step.
LoadForComplete(w) ==
    LET r == workers[w].run IN
    /\ ReadyToComplete(w)
    /\ workers' = [workers EXCEPT ![w] =
                     IF Exists(r) THEN [@ EXCEPT !.phase = "completing", !.base = runs[r],
                                                 !.seen = results[r].posted]
                     ELSE AfterReporting(w, TRUE)]
    /\ UNCHANGED <<created, runs, results, making, aborts>>

\* The columns of `row` that differ from `base` are written over `current`.
FlushChanged(current, base, row) ==
    [c \in DOMAIN current |-> IF row[c] # base[c] THEN row[c] ELSE current[c]]

\* The commit waits for a claim that holds the row.
CommitComplete(w) ==
    LET r    == workers[w].run
        base == workers[w].base
    IN  /\ workers[w].phase = "completing"
        /\ ~Locked(r)
        /\ runs' = [runs EXCEPT ![r] = FlushChanged(@, base,
                      [base EXCEPT !.status = "completed", !.total_recipes = workers[w].seen])]
        /\ workers' = [workers EXCEPT ![w] = AfterReporting(w, workers[w].failed)]
        /\ UNCHANGED <<created, results, making, aborts>>

\* The call fails before its commit.
CompleteLost(w) ==
    /\ workers[w].phase = "completing"
    /\ Abort
    /\ workers' = [workers EXCEPT ![w] = AfterReporting(w, TRUE)]
    /\ UNCHANGED <<created, runs, results, making>>

\* Mutant: fail_run does not look for results.
KeepsOutcome_FailedOnly(r) == runs[r].status = "failed"

\* fail_run changes no status: the run has failed, or is completed with results.
KeepsOutcome(r) ==
    \/ runs[r].status = "failed"
    \/ /\ runs[r].status = "completed"
       /\ results[r].posted > 0 \/ runs[r].total_recipes \notin {None, 0}

LoadForFail(j) ==
    LET r == workers[j].run IN
    /\ workers[j].phase = "failing"
    /\ workers' = [workers EXCEPT ![j] =
                     IF Exists(r) /\ ~KeepsOutcome(r)
                     THEN [@ EXCEPT !.phase = "marking", !.base = runs[r]]
                     ELSE Resting("done")]
    /\ UNCHANGED <<created, runs, results, making, aborts>>

CommitFail(j) ==
    LET r    == workers[j].run
        base == workers[j].base
    IN  /\ workers[j].phase = "marking"
        /\ runs' = [runs EXCEPT ![r] = FlushChanged(@, base, [base EXCEPT !.status = "failed"])]
        /\ workers' = [workers EXCEPT ![j] = Resting("done")]
        /\ UNCHANGED <<created, results, making, aborts>>

\* The job times out, or its machine or the Mac is lost.
Lost(w) ==
    /\ workers[w].phase \notin {"idle", "done", "claiming"}
    /\ Abort
    /\ workers' = [workers EXCEPT ![w] = Resting("done")]
    /\ UNCHANGED <<created, runs, results, making>>

\* What a worker does while nothing is lost.
Proceed(w) ==
    \/ Claim(w) \/ Claimed(w) \/ Register(w) \/ Build(w) \/ GiveUp(w) \/ Report(w)
    \/ ReportBreaks(w) \/ LoadForComplete(w) \/ CommitComplete(w) \/ LoadForFail(w) \/ CommitFail(w)

Work ==
    \/ \E w \in Worker : \/ Proceed(w) \/ ClaimRefused(w) \/ ClaimLost(w) \/ Restart(w)
                        \/ ReportLost(w) \/ CompleteLost(w) \/ Lost(w)
    \/ \E w \in Script, r \in Run : StartScript(w, r)

\* trigger_run
Trigger == \E c \in User : Create(c) \/ CommitRun(c) \/ RollbackRun(c)

RunNext == Trigger \/ Work

RunSpec == RunInit /\ [][RunNext]_runVars

\* While the poll script runs it polls (poll_local_autopkg.sh:111), and the script it
\* calls ends, with a code or with its calls answered.  Nothing is assumed of Restart:
\* a poll script that has ended may stay so.
PollersPoll == \A w \in Poller : WF_runVars(Proceed(w))

RunFairSpec == RunSpec /\ PollersPoll

-----------------------------------------------------------------------------
(* Properties.                                                             *)

\* What the run history shows is the promise of RunLifecycle, whatever claims,
\* completions and failures overlap, and whatever scripts are started by hand.
History == INSTANCE RunLifecycle WITH
    status   <- [r \in Run |-> IF Exists(r) THEN runs[r].status ELSE "absent"],
    reported <- {r \in Run : results[r].posted > 0}

HistoryKept == History!Spec

Executes(w, r) == workers[w].run = r /\ workers[w].phase # "claiming"

\* api-reference.md:157: a claim is atomic.  A run that nobody starts by hand is
\* executed by one job or Mac at a time; once it is completed, its count is that of
\* its results, and none has been posted without its package.
OneExecution ==
    \A r \in Run :
        (\A w \in Script : workers[w].phase = "idle") =>
            /\ \A v, w \in Worker : Executes(v, r) /\ Executes(w, r) => v = w
            /\ Exists(r) /\ runs[r].status = "completed" =>
                  runs[r].total_recipes = results[r].posted
            /\ results[r].refused = 0

Waiting(r) == Exists(r) /\ runs[r].status = "pending"

\* No local run waits for ever (poll_local_autopkg.sh), whatever becomes of the runs
\* before it and of the Macs that took them, provided that not every poll script ends
\* for good: one whose claim is not answered ends, and only a restart brings it back.
PendingIsClaimed ==
    ([]<>(\E w \in Poller : workers[w].phase # "done")) =>
        \A r \in Run : Waiting(r) ~> ~Waiting(r)
=============================================================================
