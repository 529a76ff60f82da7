-------------------------- MODULE AutoPkgRunsProofs --------------------------
(***************************************************************************)
(* Theorems about AutoPkgRuns, for any jobs, Macs, sessions and bounds:    *)
(* its types, the claim that a run has one execution, and that it          *)
(* implements RunLifecycle.                                                *)
(*                                                                         *)
(* The lemmas are about Step, in which any session may create runs, so     *)
(* that they also hold of AutoPkgSchedules.                                *)
(***************************************************************************)
EXTENDS AutoPkgRuns, WellFoundedInduction, TLAPS

Step ==
    \/ \E c \in Creator : Create(c) \/ CommitRun(c) \/ RollbackRun(c)
    \/ Work

-----------------------------------------------------------------------------
(* The inductive invariant.                                                *)

Busy(w) == workers[w].phase \notin {"idle", "done"}

RunOf(w) == workers[w].run

\* Ids are given out once, and a row is made or committed, never both.
Ids ==
    /\ \A r \in Run : r > created => runs[r] = None
    /\ \A c \in Creator : making[c] # None =>
          /\ making[c].run \in 1 .. created
          /\ runs[making[c].run] = None
    /\ \A c, d \in Creator :
          making[c] # None /\ making[d] # None /\ making[c].run = making[d].run => c = d

\* A row that is made is pending if it is local; GitHub took the run or refused it.
Made ==
    \A c \in Creator : making[c] # None =>
        /\ making[c].row.runner_type = "local" <=> making[c].row.status = "pending"
        /\ making[c].row.status # "completed"

\* A worker that does nothing has nothing, a busy one has a run that was given out.
Workers ==
    \A w \in Worker : IF Busy(w) THEN RunOf(w) \in 1 .. created
                      ELSE RunOf(w) = None /\ workers[w].reports = 0

\* A job has its run to itself, and nothing else touches a run of GitHub's.
JobInv(j) ==
    /\ workers[j].phase # "claiming"
    /\ workers[j].phase = "queued" => workers[j].reports = 0
    /\ \/ workers[j].phase \in {"building", "completing", "marking"}
       \/ workers[j].phase = "reporting" /\ workers[j].reports > 0
       => Exists(RunOf(j))
    /\ Exists(RunOf(j)) => runs[RunOf(j)].runner_type = "github"
    /\ \A c \in Creator : making[c] # None /\ making[c].run = RunOf(j) =>
          making[c].row.status = "running"
    /\ Exists(RunOf(j)) /\ workers[j].phase \in {"queued", "building", "reporting", "completing"} =>
          runs[RunOf(j)].status = "running"
    /\ workers[j].phase \in {"completing", "marking"} => workers[j].base = runs[RunOf(j)]
    /\ workers[j].phase = "completing" => workers[j].seen = results[RunOf(j)].posted
    /\ workers[j].phase = "marking" => ~KeepsOutcome(RunOf(j))

\* A Mac works on a local run; a claim holds a row that is pending, and a run
\* that was claimed is pending no more.
MacInv(m) ==
    /\ workers[m].phase \in {"claiming", "building", "reporting", "completing"}
    /\ Exists(RunOf(m)) /\ runs[RunOf(m)].runner_type = "local"
    /\ workers[m].phase = "claiming" => m \in Poller /\ runs[RunOf(m)].status = "pending"
    /\ workers[m].phase # "claiming" /\ m \in Poller => runs[RunOf(m)].status # "pending"
    /\ workers[m].phase = "completing" => workers[m].base # None

Jobs == \A j \in Job : Busy(j) => JobInv(j)
Macs == \A m \in Mac : Busy(m) => MacInv(m)

\* No two jobs, and no two pollers, have the same run.
Apart ==
    /\ \A j, k \in Job : Busy(j) /\ Busy(k) /\ RunOf(j) = RunOf(k) => j = k
    /\ \A m, n \in Poller : Busy(m) /\ Busy(n) /\ RunOf(m) = RunOf(n) => m = n

NoScripts == \A w \in Script : workers[w].phase = "idle"

\* Until a script is started by hand, a run that is under way is running, and what
\* a poller has loaded to complete it is still so.
PollerInv(m) ==
    /\ runs[RunOf(m)].status = "running"
    /\ workers[m].phase = "completing" => /\ workers[m].base = runs[RunOf(m)]
                                          /\ workers[m].seen = results[RunOf(m)].posted

CountInv(r) ==
    /\ Exists(r) /\ runs[r].status = "completed" => runs[r].total_recipes = results[r].posted
    /\ results[r].refused = 0

Polled == \A m \in Poller : Busy(m) /\ workers[m].phase # "claiming" => PollerInv(m)
Counted == \A r \in Run : CountInv(r)

IInv ==
    /\ TypeOK
    /\ Ids /\ Made /\ Workers /\ Jobs /\ Macs /\ Apart
    /\ NoScripts => Polled /\ Counted

-----------------------------------------------------------------------------
LEMMA InitIInv == RunInit => IInv
<1> SUFFICES ASSUME RunInit PROVE IInv
  OBVIOUS
<1>1. TypeOK
  BY RunAssumption DEF RunInit, TypeOK, Results, WorkerState, Resting
<1>2. Ids /\ Made /\ Workers /\ Jobs /\ Macs /\ Apart
  BY RunAssumption DEF RunInit, Ids, Made, Workers, Jobs, Macs, Apart, Busy, RunOf, Resting, Worker, Mac
<1>3. Polled /\ Counted
  BY RunAssumption DEF RunInit, Polled, PollerInv, Counted, CountInv, Busy, Resting, Worker, Mac, Exists
<1> QED
  BY <1>1, <1>2, <1>3 DEF IInv

\* A job that a dispatch has started.
Queue(j, r) == [workers[j] EXCEPT !.phase = "queued", !.run = r]

LEMMA CreateKeeps ==
    ASSUME IInv, NEW c \in Creator, Create(c)
    PROVE  IInv'
<1> DEFINE r == created + 1
<1>1. r \in Run /\ created' = r /\ making[c] = None /\ UNCHANGED <<runs, results, aborts>>
  BY RunAssumption DEF IInv, TypeOK, Create, Run
<1>2. PICK row \in Row :
        /\ making' = [making EXCEPT ![c] = [run |-> r, row |-> row]]
        /\ row.runner_type = "local" <=> row.status = "pending"
        /\ row.status # "completed"
        /\ UNCHANGED workers \/ (row.status = "running" /\ Dispatched(r))
  <2>1. /\ NewRow("pending", "local") \in Row
        /\ NewRow("failed", "github") \in Row
        /\ NewRow("running", "github") \in Row
    BY DEF NewRow, Row, RunStatus
  <2> QED
    BY <1>1, <2>1 DEF Create, NewRow
<1>3. ASSUME NEW d \in Creator
      PROVE  making'[d] = IF d = c THEN [run |-> r, row |-> row] ELSE making[d]
  BY <1>2 DEF IInv, TypeOK
<1>4. TypeOK /\ created \in Nat /\ r > created /\ runs[r] = None
  BY <1>1 DEF IInv, TypeOK, Ids
<1> HIDE DEF r
<1>5. Ids' /\ Made'
  BY <1>1, <1>2, <1>3, <1>4 DEF IInv, Ids, Made, TypeOK, Run
<1>6. making' \in [Creator -> [run : Run, row : Row] \cup {None}]
  BY <1>1, <1>2, <1>4 DEF TypeOK
<1>7. CASE UNCHANGED workers
  <2>1. TypeOK' /\ Workers'
    BY <1>1, <1>4, <1>6, <1>7 DEF IInv, TypeOK, Workers, Busy, RunOf, Run
  <2>2. Jobs' 
    BY <1>1, <1>3, <1>4, <1>7 DEF IInv, Jobs, JobInv, Busy, RunOf, Exists, KeepsOutcome, Workers, Worker
  <2>3. Macs' /\ Apart'
    BY <1>1, <1>7 DEF IInv, Macs, MacInv, Apart, Busy, RunOf, Exists
  <2>4. NoScripts' => Polled' /\ Counted'
    BY <1>1, <1>7 DEF IInv, NoScripts, Polled, PollerInv, Counted, CountInv, Busy, RunOf, Exists
  <2> QED
    BY <1>5, <2>1, <2>2, <2>3, <2>4 DEF IInv
<1>8. ASSUME row.status = "running", Dispatched(r) PROVE IInv'
  <2>1. PICK j \in Job : /\ workers[j].phase = "idle"
                         /\ workers' = [workers EXCEPT ![j] = Queue(j, r)]
    BY <1>1, <1>4, <1>8 DEF Dispatched, Queue, TypeOK, WorkerState, Worker
  <2>2. /\ workers[j] \in WorkerState /\ Queue(j, r) \in WorkerState
        /\ Queue(j, r).phase = "queued" /\ Queue(j, r).run = r
        /\ Queue(j, r).reports = workers[j].reports
    BY <1>1, <1>4 DEF Queue, TypeOK, WorkerState, Worker
  <2> HIDE DEF Queue
  <2>3. \A w \in Worker : workers'[w] = IF w = j THEN Queue(j, r) ELSE workers[w]
    BY <1>4, <2>1 DEF TypeOK
  <2>4. j \in Worker /\ j \notin Mac
    BY RunAssumption DEF Worker
  <2>5. TypeOK'
    <3>1. workers' \in [Worker -> WorkerState]
      BY <1>4, <2>1, <2>2 DEF TypeOK
    <3>2. created' \in 0 .. MaxRuns
      BY <1>1, RunAssumption DEF Run
    <3> QED
      BY <1>1, <1>4, <1>6, <3>1, <3>2 DEF TypeOK
  <2>6. Workers'
    BY <1>1, <1>4, <2>2, <2>3 DEF IInv, TypeOK, Workers, Busy, RunOf, Run
  <2>7. Jobs'
    <3>1. ASSUME NEW k \in Job, Busy(k)', k # j PROVE JobInv(k)'
      <4>1. Busy(k) /\ workers'[k] = workers[k] /\ JobInv(k) /\ RunOf(k) \in 1 .. created
        BY <2>3, <3>1 DEF IInv, Jobs, Busy, Workers, Worker
      <4> QED
        BY <1>1, <1>3, <1>4, <4>1 DEF JobInv, RunOf, Exists, KeepsOutcome
    <3>2. workers[j].reports = 0
      BY <2>1, <2>4 DEF IInv, Workers, Busy
    <3>3. JobInv(j)'
      BY <1>1, <1>3, <1>4, <1>8, <2>2, <2>3, <2>4, <3>2 DEF IInv, Ids, JobInv, RunOf, Exists
    <3> QED
      BY <3>1, <3>3 DEF Jobs
  <2>8. Macs'
    BY <1>1, <2>3, <2>4 DEF IInv, Macs, MacInv, Busy, RunOf, Exists, Worker
  <2>9. Apart'
    BY <1>4, <2>2, <2>3, <2>4 DEF IInv, Apart, Workers, Busy, RunOf, Worker, Mac
  <2>10. NoScripts' => Polled' /\ Counted'
    BY <1>1, <2>3, <2>4 DEF IInv, NoScripts, Polled, PollerInv, Counted, CountInv, Busy, RunOf, Exists, Worker, Mac
  <2> QED
    BY <1>5, <2>5, <2>6, <2>7, <2>8, <2>9, <2>10 DEF IInv
<1> QED
  BY <1>2, <1>7, <1>8

LEMMA CommitKeeps ==
    ASSUME IInv, NEW c \in Creator, CommitRun(c)
    PROVE  IInv'
<1> USE DEF IInv, CommitRun
<1>1. TypeOK'
  BY RunAssumption DEF TypeOK, Run, Row, Made
<1>2. Ids'
  BY DEF Ids, TypeOK, Workers, Run
<1>3. Made'
  BY DEF Made, TypeOK
<1>4. Workers'
  BY RunAssumption DEF Workers, TypeOK, Busy, RunOf
<1>5. ASSUME NEW j \in Job, Busy(j)' PROVE JobInv(j)'
  <2>1. JobInv(j) /\ Busy(j) /\ RunOf(j) \in Run /\ UNCHANGED <<RunOf(j), workers[j], results>>
    BY <1>5, RunAssumption DEF Jobs, Workers, Busy, RunOf, Worker, TypeOK, Run
  <2>2. CASE RunOf(j) = making[c].run
    <3>1. runs[RunOf(j)] = None /\ runs'[RunOf(j)] = making[c].row /\ making[c].row \in Row
      BY <2>1, <2>2 DEF Ids, TypeOK
    <3>2. making[c].row.status = "running" /\ making[c].row.runner_type = "github"
      BY <2>1, <2>2, <3>1 DEF JobInv, Made, Row
    <3> QED
      BY <2>1, <2>2, <3>1, <3>2 DEF JobInv, Ids, TypeOK, Exists, RunOf
  <2>3. CASE RunOf(j) # making[c].run
    <3>1. runs'[RunOf(j)] = runs[RunOf(j)]
      BY <2>1, <2>3 DEF TypeOK
    <3> QED
      BY <2>1, <3>1 DEF JobInv, TypeOK, Exists, RunOf, KeepsOutcome
  <2> QED
    BY <2>2, <2>3
<1>6. Macs'
  BY RunAssumption DEF Macs, MacInv, TypeOK, Busy, RunOf, Exists, Ids
<1>7. Apart'
  BY RunAssumption DEF Apart, TypeOK, Busy, RunOf
<1>8. NoScripts' => Polled' /\ Counted'
  BY RunAssumption DEF NoScripts, Polled, PollerInv, Counted, CountInv, TypeOK, Busy, RunOf, Exists, Ids, Made, Macs, MacInv, Mac
<1> QED
  BY <1>1, <1>2, <1>3, <1>4, <1>5, <1>6, <1>7, <1>8 DEF Jobs

LEMMA RollbackKeeps ==
    ASSUME IInv, NEW c \in Creator, RollbackRun(c)
    PROVE  IInv'
<1> USE DEF IInv, RollbackRun
<1>1. TypeOK'
  BY RunAssumption DEF TypeOK
<1>2. Ids' /\ Made'
  BY DEF Ids, Made, TypeOK
<1>3. Workers' /\ Jobs'
  BY DEF Workers, Jobs, JobInv, TypeOK, Busy, RunOf, Exists, KeepsOutcome
<1>4. Macs' /\ Apart'
  BY DEF Macs, MacInv, Apart, Busy, RunOf, Exists
<1>5. NoScripts' => Polled' /\ Counted'
  BY DEF NoScripts, Polled, PollerInv, Counted, CountInv, Busy, RunOf, Exists
<1> QED
  BY <1>1, <1>2, <1>3, <1>4, <1>5

\* What an action of worker w on its run r has to show.
LEMMA WorkerKeeps ==
    ASSUME IInv, NEW w \in Worker, Busy(w), NEW r \in Run, r = RunOf(w), NEW x \in WorkerState,
           workers' = [workers EXCEPT ![w] = x], UNCHANGED <<created, making>>,
           runs' \in [Run -> Row \cup {None}], results' \in [Run -> Results],
           \A q \in Run \ {r} : runs'[q] = runs[q] /\ results'[q] = results[q],
           IF Exists(r) THEN /\ runs'[r] # None
                             /\ runs'[r].runner_type = runs[r].runner_type
                             /\ runs'[r].status = "pending" => runs[r].status = "pending"
                        ELSE UNCHANGED <<runs, results>>,
           Locked(r) => workers[w].phase = "claiming" \/ runs'[r].status = runs[r].status,
           x.run = IF x.phase \in {"idle", "done"} THEN None ELSE r,
           x.phase \in {"idle", "done"} => x.reports = 0,
           w \in Script => x.phase # "idle",
           w \in Job /\ Busy(w)' => JobInv(w)',
           w \in Mac /\ Busy(w)' => MacInv(w)',
           NoScripts' => /\ w \in Poller /\ Busy(w)' /\ x.phase # "claiming" => PollerInv(w)'
                         /\ CountInv(r)'
    PROVE  IInv'
<1>1. TypeOK /\ r \in 1 .. created /\ created \in Nat
  BY RunAssumption DEF IInv, Workers, TypeOK
<1>2. \A v \in Worker : workers'[v] = IF v = w THEN x ELSE workers[v]
  BY <1>1 DEF TypeOK
<1>3. w \in Job => w \notin Mac
  BY RunAssumption
<1>4. TypeOK'
  <2>1. workers' \in [Worker -> WorkerState]
    BY <1>1 DEF TypeOK
  <2>2. ASSUME NEW q \in Run
        PROVE  IF runs'[q] = None THEN results'[q].posted = 0
               ELSE runs'[q].status = "pending" => runs'[q].runner_type = "local"
    BY <1>1 DEF TypeOK, Exists
  <2> QED
    BY <1>1, <2>1, <2>2 DEF TypeOK
<1>5. Ids' /\ Made'
  <2>1. \A q \in Run : runs'[q] = None <=> runs[q] = None
    BY DEF Exists
  <2>2. \A c \in Creator : making[c] # None => making[c].run \in Run
    BY <1>1 DEF TypeOK
  <2> QED
    BY <1>1, <2>1, <2>2 DEF IInv, Ids, Made
<1>6. Workers'
  BY <1>1, <1>2 DEF IInv, Workers, Busy, RunOf
<1>7. ASSUME NEW j \in Job, Busy(j)' PROVE JobInv(j)'
  <2>1. CASE j # w
    <3>1. workers'[j] = workers[j] /\ Busy(j) /\ JobInv(j)
      BY <1>2, <1>7, <2>1 DEF IInv, Jobs, Busy, Worker
    <3>2. RunOf(j) \in Run
      BY <3>1, RunAssumption DEF IInv, Workers, TypeOK, Worker, Run
    <3>3. Exists(RunOf(j)) => RunOf(j) # r
      BY <2>1, <3>1, <1>3 DEF IInv, Apart, Macs, MacInv, JobInv, Worker
    <3>4. runs'[RunOf(j)] = runs[RunOf(j)] /\ results'[RunOf(j)] = results[RunOf(j)]
      BY <3>2, <3>3
    <3> QED
      BY <3>1, <3>4 DEF JobInv, RunOf, Exists, KeepsOutcome
  <2> QED
    BY <1>7, <2>1
<1>8. ASSUME NEW m \in Mac, Busy(m)' PROVE MacInv(m)'
  <2>1. CASE m # w
    <3>1. workers'[m] = workers[m] /\ Busy(m) /\ MacInv(m)
      BY <1>2, <1>8, <2>1 DEF IInv, Macs, Busy, Worker
    <3>2. RunOf(m) \in Run
      BY <3>1, RunAssumption DEF IInv, Workers, TypeOK, Worker, Run
    <3>3. CASE RunOf(m) # r
      BY <3>1, <3>2, <3>3 DEF MacInv, RunOf, Exists
    <3>4. CASE RunOf(m) = r
      <4>1. workers[m].phase = "claiming" => Locked(r) /\ workers[w].phase # "claiming"
        <5>1. workers[m].phase = "claiming" => m \in Poller /\ Locked(r)
          BY <3>1, <3>4 DEF MacInv, Locked, RunOf
        <5>2. workers[w].phase = "claiming" => w \in Poller
          BY <1>3 DEF IInv, Jobs, JobInv, Macs, MacInv, Worker
        <5> QED
          BY <2>1, <3>1, <3>4, <5>1, <5>2 DEF IInv, Apart
      <4> QED
        BY <3>1, <3>4, <4>1 DEF MacInv, RunOf, Exists
    <3> QED
      BY <3>3, <3>4
  <2> QED
    BY <1>8, <2>1
<1>9. Apart'
  BY <1>2 DEF IInv, Apart, Busy, RunOf, Worker, Mac
<1>10. ASSUME NoScripts' PROVE Polled' /\ Counted'
  <2>1. NoScripts /\ w \notin Script
    BY <1>2, <1>10 DEF NoScripts, Worker, Mac
  <2>2. Polled /\ Counted
    BY <2>1 DEF IInv
  <2>3. ASSUME NEW m \in Poller, Busy(m)', workers'[m].phase # "claiming" PROVE PollerInv(m)'
    <3>1. CASE m # w
      <4>1. workers'[m] = workers[m] /\ Busy(m) /\ PollerInv(m)
        BY <1>2, <2>2, <2>3, <3>1 DEF Polled, Busy, Worker, Mac
      <4>2. RunOf(m) \in Run /\ Exists(RunOf(m)) /\ runs[RunOf(m)].runner_type = "local"
        BY <4>1, RunAssumption DEF IInv, Workers, Macs, MacInv, TypeOK, Worker, Mac, Run
      <4>3. RunOf(m) # r
        BY <2>1, <3>1, <4>1, <4>2 DEF IInv, Apart, Jobs, JobInv, Worker, Mac
      <4> QED
        BY <4>1, <4>2, <4>3 DEF PollerInv, RunOf
    <3> QED
      BY <1>2, <1>10, <2>3, <3>1
  <2>4. ASSUME NEW q \in Run PROVE CountInv(q)'
    <3>1. CASE q # r
      BY <2>2, <3>1 DEF Counted, CountInv, Exists
    <3> QED
      BY <1>10, <3>1
  <2> QED
    BY <2>3, <2>4 DEF Polled, Counted
<1> QED
  BY <1>4, <1>5, <1>6, <1>7, <1>8, <1>9, <1>10 DEF IInv, Jobs, Macs

\* What is known of a busy worker.
LEMMA BusyWorker ==
    ASSUME IInv, NEW w \in Worker, Busy(w)
    PROVE  /\ TypeOK /\ RunOf(w) \in Run /\ workers[w] \in WorkerState
           /\ (w \in Job /\ w \notin Mac /\ JobInv(w)) \/ (w \in Mac /\ w \notin Job /\ MacInv(w))
           /\ NoScripts => /\ w \in Poller /\ workers[w].phase # "claiming" => PollerInv(w)
                           /\ CountInv(RunOf(w))
<1>1. TypeOK /\ workers[w] \in WorkerState
  BY DEF IInv, TypeOK
<1>2. RunOf(w) \in Run
  BY RunAssumption DEF IInv, TypeOK, Workers, Run
<1>3. (w \in Job /\ w \notin Mac /\ JobInv(w)) \/ (w \in Mac /\ w \notin Job /\ MacInv(w))
  <2>1. (w \in Job /\ w \notin Mac) \/ (w \in Mac /\ w \notin Job)
    BY RunAssumption DEF Worker
  <2>2. (w \in Job => JobInv(w)) /\ (w \in Mac => MacInv(w))
    BY DEF IInv, Jobs, Macs
  <2> QED
    BY <2>1, <2>2
<1> QED
  BY <1>1, <1>2, <1>3 DEF IInv, Polled, Counted

\* An action of worker w that writes no row.
LEMMA WorkerMoves ==
    ASSUME IInv, NEW w \in Worker, Busy(w), NEW x \in WorkerState,
           workers' = [workers EXCEPT ![w] = x], UNCHANGED <<created, runs, results, making>>,
           x.run = IF x.phase \in {"idle", "done"} THEN None ELSE RunOf(w),
           x.phase \in {"idle", "done"} => x.reports = 0,
           w \in Script => x.phase # "idle",
           w \in Job /\ Busy(w)' => JobInv(w)',
           w \in Mac /\ Busy(w)' => MacInv(w)',
           NoScripts /\ w \in Poller /\ Busy(w)' /\ x.phase # "claiming" => PollerInv(w)'
    PROVE  IInv'
<1>1. TypeOK /\ RunOf(w) \in Run /\ (NoScripts => CountInv(RunOf(w)))
  BY BusyWorker
<1>2. NoScripts' => NoScripts
  BY <1>1 DEF NoScripts, TypeOK, Worker, Mac
<1>3. CountInv(RunOf(w)) => (runs' = runs /\ results' = results =>
         /\ Exists(RunOf(w)) /\ runs'[RunOf(w)].status = "completed" =>
               runs'[RunOf(w)].total_recipes = results'[RunOf(w)].posted
         /\ results'[RunOf(w)].refused = 0)
  BY DEF CountInv
<1> DEFINE r == RunOf(w)
<1>4. r \in Run /\ r = RunOf(w)
  BY <1>1
<1>5. ASSUME NEW q \in Run, CountInv(q) PROVE CountInv(q)'
  BY <1>5 DEF CountInv, Exists
<1> HIDE DEF r
<1> QED
  BY <1>1, <1>2, <1>4, <1>5, WorkerKeeps DEF TypeOK, Exists

LEMMA AfterReportingType ==
    ASSUME NEW w \in Worker, workers[w] \in WorkerState, Busy(w), NEW failed \in BOOLEAN
    PROVE  LET after == AfterReporting(w, failed) IN
           /\ Rest(w) \in WorkerState /\ Rest(w).run = None /\ Rest(w).reports = 0
           /\ Rest(w).phase = IF w \in Poller THEN "idle" ELSE "done"
           /\ after \in WorkerState
           /\ after.phase = IF w \in Job /\ failed THEN "failing"
                            ELSE IF w \in Poller THEN "idle" ELSE "done"
           /\ after.run = IF after.phase = "failing" THEN RunOf(w) ELSE None
           /\ after.reports = 0
<1>1. Rest(w) \in WorkerState /\ Rest(w).run = None /\ Rest(w).reports = 0
      /\ Rest(w).phase = IF w \in Poller THEN "idle" ELSE "done"
  BY RunAssumption DEF Rest, Resting, WorkerState
<1> DEFINE failing == [workers[w] EXCEPT !.phase = "failing", !.failed = TRUE,
                                         !.reports = 0, !.base = None, !.seen = 0]
<1>2. failing \in WorkerState /\ failing.phase = "failing" /\ failing.run = RunOf(w)
      /\ failing.reports = 0
  <2>1. 0 \in 0 .. MaxReports
    BY RunAssumption
  <2> QED
    BY <2>1 DEF WorkerState, RunOf
<1> HIDE DEF failing
<1>3. AfterReporting(w, failed) = IF w \in Job /\ failed THEN failing ELSE Rest(w)
  BY DEF AfterReporting, failing
<1> QED
  BY <1>1, <1>2, <1>3

\* A worker that ends its execution, or a job that goes on to its failure.
LEMMA EndKeeps ==
    ASSUME IInv, NEW w \in Worker, Busy(w), workers[w].phase # "claiming" \/ w \in Poller,
           UNCHANGED <<created, runs, results, making>>,
           NEW failed \in BOOLEAN,
           \/ workers' = [workers EXCEPT ![w] = Rest(w)]
           \/ workers' = [workers EXCEPT ![w] = AfterReporting(w, failed)]
    PROVE  IInv'
<1>1. TypeOK /\ workers[w] \in WorkerState /\ (w \in Job => w \notin Mac /\ JobInv(w))
  BY BusyWorker
<1> DEFINE after == AfterReporting(w, failed)
<1>2. /\ Rest(w) \in WorkerState /\ Rest(w).run = None /\ Rest(w).reports = 0 /\ after.reports = 0
      /\ Rest(w).phase = IF w \in Poller THEN "idle" ELSE "done"
      /\ after \in WorkerState
      /\ after.phase = IF w \in Job /\ failed THEN "failing"
                       ELSE IF w \in Poller THEN "idle" ELSE "done"
      /\ after.run = IF after.phase = "failing" THEN RunOf(w) ELSE None
  BY <1>1, AfterReportingType
<1> HIDE DEF after
<1>3. PICK x \in {Rest(w), after} : workers' = [workers EXCEPT ![w] = x]
  BY DEF after
<1>4. workers'[w] = x
  BY <1>1, <1>3 DEF TypeOK
<1>5. w \in Script => w \notin Poller /\ w \notin Job
  BY RunAssumption DEF Mac
<1>6. w \in Job /\ Busy(w)' => JobInv(w)'
  BY <1>1, <1>2, <1>3, <1>4 DEF Busy, JobInv, RunOf, Exists
<1>7. w \in Mac => ~Busy(w)'
  BY RunAssumption, <1>2, <1>3, <1>4 DEF Busy, Mac
<1>8. /\ x \in WorkerState /\ x.reports = 0
      /\ x.run = IF x.phase \in {"idle", "done"} THEN None ELSE RunOf(w)
  BY <1>2, <1>3
<1>9. w \in Script => x.phase # "idle"
  BY <1>2, <1>3, <1>5
<1> HIDE DEF after
<1> QED
  BY <1>3, <1>6, <1>7, <1>8, <1>9, WorkerMoves DEF Mac

\* A poller that goes on polling, ends or is started again.
LEMMA PollerRests ==
    ASSUME IInv, NEW w \in Poller, NEW phase \in {"idle", "done"},
           workers' = [workers EXCEPT ![w] = Resting(phase)],
           UNCHANGED <<created, runs, results, making>>
    PROVE  IInv'
<1> DEFINE x == Resting(phase)
<1>1. w \in Worker /\ w \in Mac /\ w \notin Job /\ w \notin Script /\ TypeOK
  BY RunAssumption DEF Worker, Mac, IInv
<1>2. x \in WorkerState /\ x.phase = phase /\ x.run = None /\ x.reports = 0
  BY RunAssumption DEF Resting, WorkerState
<1>3. workers' = [workers EXCEPT ![w] = x] /\ \A v \in Worker : workers'[v] = IF v = w THEN x ELSE workers[v]
  BY <1>1 DEF TypeOK
<1> HIDE DEF x
<1>4. ~Busy(w)'
  BY <1>1, <1>2, <1>3 DEF Busy
<1>5. CASE Busy(w)
  BY <1>1, <1>2, <1>3, <1>4, <1>5, WorkerMoves
<1>6. CASE ~Busy(w)
  <2>1. TypeOK'
    BY <1>1, <1>2, <1>3 DEF TypeOK
  <2>2. \A v \in Worker : /\ Busy(v)' => v # w /\ Busy(v)
                          /\ v # w => workers'[v] = workers[v] /\ (Busy(v)' <=> Busy(v))
    BY <1>3, <1>4 DEF Busy
  <2>3. Ids' /\ Made'
    BY DEF IInv, Ids, Made
  <2>4. Workers'
    BY <1>2, <1>3, <1>4, <2>2 DEF IInv, Workers, RunOf
  <2>5. ASSUME NEW v \in Job, Busy(v)' PROVE JobInv(v)'
    <3>1. workers'[v] = workers[v] /\ JobInv(v)
      BY <2>2, <2>5 DEF IInv, Jobs, Worker
    <3> QED
      BY <3>1 DEF JobInv, RunOf, Exists, KeepsOutcome
  <2>6. ASSUME NEW v \in Mac, Busy(v)' PROVE MacInv(v)'
    <3>1. workers'[v] = workers[v] /\ MacInv(v)
      BY <2>2, <2>6 DEF IInv, Macs, Worker
    <3> QED
      BY <3>1 DEF MacInv, RunOf, Exists
  <2>7. Apart'
    BY <2>2 DEF IInv, Apart, RunOf, Worker, Mac
  <2>8. NoScripts' => Polled' /\ Counted'
    <3>1. NoScripts' => NoScripts
      BY <1>1, <2>2 DEF NoScripts, Worker, Mac
    <3>2. ASSUME Polled, NEW v \in Poller, Busy(v)', workers'[v].phase # "claiming" PROVE PollerInv(v)'
      <4>1. workers'[v] = workers[v] /\ PollerInv(v)
        BY <2>2, <3>2 DEF Polled, Worker, Mac
      <4> QED
        BY <4>1 DEF PollerInv, RunOf
    <3>3. Counted => Counted'
      BY DEF Counted, CountInv, Exists
    <3> QED
      BY <3>1, <3>2, <3>3 DEF IInv, Polled
  <2> QED
    BY <2>1, <2>3, <2>4, <2>5, <2>6, <2>7, <2>8 DEF IInv, Jobs, Macs
<1> QED
  BY <1>5, <1>6

LEMMA GiveUpKeeps ==
    ASSUME IInv, NEW w \in Worker,
           GiveUp(w) \/ ReportBreaks(w) \/ CompleteLost(w) \/ Lost(w)
    PROVE  IInv'
<1>1. Busy(w) /\ workers[w].phase # "claiming"
  BY DEF GiveUp, ReportBreaks, CompleteLost, Lost, Busy
<1>2. CASE GiveUp(w) \/ ReportBreaks(w) \/ CompleteLost(w)
  <2>1. /\ UNCHANGED <<created, runs, results, making>>
        /\ \/ workers' = [workers EXCEPT ![w] = Rest(w)]
           \/ workers' = [workers EXCEPT ![w] = AfterReporting(w, TRUE)]
    BY <1>2 DEF GiveUp, ReportBreaks, CompleteLost
  <2> QED
    BY <1>1, <2>1, EndKeeps
<1>3. CASE Lost(w)
  <2>1. workers' = [workers EXCEPT ![w] = Resting("done")] /\ UNCHANGED <<created, runs, results, making>>
    BY <1>3 DEF Lost
  <2>2. CASE w \in Poller
    BY <2>1, <2>2, PollerRests
  <2>3. CASE w \notin Poller
    BY <1>1, <2>1, <2>3, EndKeeps DEF Rest
  <2> QED
    BY <2>2, <2>3
<1> QED
  BY <1>2, <1>3

LEMMA BuildKeeps ==
    ASSUME IInv, NEW w \in Worker, Build(w)
    PROVE  IInv'
<1>1. Busy(w) /\ workers[w].phase = "building"
  BY DEF Build, Busy
<1>2. /\ TypeOK /\ RunOf(w) \in Run /\ workers[w] \in WorkerState
      /\ (w \in Job /\ w \notin Mac /\ JobInv(w)) \/ (w \in Mac /\ w \notin Job /\ MacInv(w))
      /\ NoScripts => (w \in Poller => PollerInv(w))
  BY <1>1, BusyWorker
<1>3. PICK n \in 0 .. MaxReports, failed \in BOOLEAN :
        workers' = [workers EXCEPT ![w] = [@ EXCEPT !.phase = "reporting", !.reports = n, !.failed = failed]]
  <2>1. PICK n \in 0 .. MaxReports, failed \in BOOLEAN :
          workers' = [workers EXCEPT ![w].phase = "reporting", ![w].reports = n, ![w].failed = failed]
    BY DEF Build
  <2> QED
    BY <1>2, <2>1 DEF TypeOK, WorkerState
<1> DEFINE x == [workers[w] EXCEPT !.phase = "reporting", !.reports = n, !.failed = failed]
<1>4. x \in WorkerState /\ x.phase = "reporting" /\ x.run = RunOf(w)
  BY <1>2 DEF WorkerState, RunOf
<1>5. workers' = [workers EXCEPT ![w] = x] /\ workers'[w] = x
  BY <1>2, <1>3 DEF TypeOK
<1> HIDE DEF x
<1>6. UNCHANGED <<created, runs, results, making>>
  BY DEF Build
<1>7. w \in Job => JobInv(w)'
  BY <1>1, <1>2, <1>4, <1>5, <1>6 DEF JobInv, RunOf, Exists
<1>8. w \in Mac => MacInv(w)'
  BY <1>1, <1>2, <1>4, <1>5, <1>6 DEF MacInv, RunOf, Exists
<1>9. NoScripts /\ w \in Poller => PollerInv(w)'
  BY <1>1, <1>2, <1>4, <1>5, <1>6 DEF PollerInv, RunOf
<1> QED
  BY <1>1, <1>4, <1>5, <1>6, <1>7, <1>8, <1>9, WorkerMoves

LEMMA ReportLostKeeps ==
    ASSUME IInv, NEW w \in Worker, ReportLost(w)
    PROVE  IInv'
<1>1. Busy(w) /\ workers[w].phase = "reporting" /\ workers[w].reports > 0
  BY DEF ReportLost, Busy
<1>2. /\ TypeOK /\ RunOf(w) \in Run /\ workers[w] \in WorkerState
      /\ (w \in Job /\ w \notin Mac /\ JobInv(w)) \/ (w \in Mac /\ w \notin Job /\ MacInv(w))
      /\ NoScripts => (w \in Poller => PollerInv(w))
  BY <1>1, BusyWorker
<1> DEFINE x == [workers[w] EXCEPT !.reports = @ - 1]
<1>3. x \in WorkerState /\ x.phase = "reporting" /\ x.run = RunOf(w)
  <2>1. workers[w].reports - 1 \in 0 .. MaxReports
    BY <1>1, <1>2, RunAssumption DEF WorkerState
  <2> QED
    BY <1>1, <1>2, <2>1 DEF WorkerState, RunOf
<1>4. workers' = [workers EXCEPT ![w] = x] /\ workers'[w] = x
  BY <1>2 DEF ReportLost, TypeOK, WorkerState
<1> HIDE DEF x
<1>5. UNCHANGED <<created, runs, results, making>>
  BY DEF ReportLost
<1>6. w \in Job => JobInv(w)'
  BY <1>1, <1>2, <1>3, <1>4, <1>5 DEF JobInv, RunOf, Exists
<1>7. w \in Mac => MacInv(w)'
  BY <1>1, <1>2, <1>3, <1>4, <1>5 DEF MacInv, RunOf, Exists
<1>8. NoScripts /\ w \in Poller => PollerInv(w)'
  BY <1>1, <1>2, <1>3, <1>4, <1>5 DEF PollerInv, RunOf
<1> QED
  BY <1>1, <1>3, <1>4, <1>5, <1>6, <1>7, <1>8, WorkerMoves

LEMMA LoadForCompleteKeeps ==
    ASSUME IInv, NEW w \in Worker, LoadForComplete(w)
    PROVE  IInv'
<1> DEFINE r == workers[w].run
<1>1. Busy(w) /\ workers[w].phase = "reporting" /\ UNCHANGED <<created, runs, results, making>>
  BY DEF LoadForComplete, ReadyToComplete, Busy
<1>2. /\ TypeOK /\ r \in Run /\ workers[w] \in WorkerState
      /\ (w \in Job /\ w \notin Mac /\ JobInv(w)) \/ (w \in Mac /\ w \notin Job /\ MacInv(w))
      /\ NoScripts => (w \in Poller => PollerInv(w))
  BY <1>1, BusyWorker DEF RunOf
<1>3. CASE ~Exists(r)
  <2>1. workers' = [workers EXCEPT ![w] = AfterReporting(w, TRUE)]
    BY <1>2, <1>3 DEF LoadForComplete, TypeOK
  <2> QED
    BY <1>1, <2>1, EndKeeps
<1>4. CASE Exists(r)
  <2> DEFINE x == [workers[w] EXCEPT !.phase = "completing", !.base = runs[r],
                                     !.seen = results[r].posted]
  <2>1. runs[r] \in Row /\ runs[r] # None /\ results[r].posted \in Nat
    BY <1>2, <1>4 DEF TypeOK, Results, Exists
  <2>2. /\ x \in WorkerState /\ x.phase = "completing" /\ x.run = r
        /\ x.base = runs[r] /\ x.seen = results[r].posted
    BY <1>2, <2>1 DEF WorkerState
  <2>3. workers' = [workers EXCEPT ![w] = x] /\ workers'[w] = x
    BY <1>2, <1>4 DEF LoadForComplete, TypeOK
  <2> HIDE DEF x
  <2>4. w \in Job => JobInv(w)'
    BY <1>1, <1>2, <1>4, <2>2, <2>3 DEF JobInv, RunOf, Exists
  <2>5. w \in Mac => MacInv(w)'
    BY <1>1, <1>2, <1>4, <2>1, <2>2, <2>3 DEF MacInv, RunOf, Exists
  <2>6. NoScripts /\ w \in Poller => PollerInv(w)'
    BY <1>1, <1>2, <2>2, <2>3 DEF PollerInv, RunOf
  <2> QED
    BY <1>1, <2>2, <2>3, <2>4, <2>5, <2>6, WorkerMoves DEF RunOf
<1> QED
  BY <1>3, <1>4

LEMMA LoadForFailKeeps ==
    ASSUME IInv, NEW w \in Worker, LoadForFail(w)
    PROVE  IInv'
<1> DEFINE r == workers[w].run
           x == [workers[w] EXCEPT !.phase = "marking", !.base = runs[r]]
<1>1. Busy(w) /\ workers[w].phase = "failing" /\ UNCHANGED <<created, runs, results, making>>
  BY DEF LoadForFail, Busy
<1>2. TypeOK /\ r \in Run /\ workers[w] \in WorkerState /\ w \in Job /\ w \notin Mac /\ JobInv(w)
  BY <1>1, BusyWorker DEF RunOf, MacInv
<1>3. CASE Exists(r) /\ ~KeepsOutcome(r)
  <2>1. x \in WorkerState /\ x.phase = "marking" /\ x.run = r /\ x.base = runs[r]
    BY <1>2, <1>3 DEF WorkerState, TypeOK, Exists
  <2>2. workers' = [workers EXCEPT ![w] = x] /\ workers'[w] = x
    BY <1>2, <1>3 DEF LoadForFail, TypeOK
  <2> HIDE DEF x
  <2>3. JobInv(w)'
    BY <1>1, <1>2, <1>3, <2>1, <2>2 DEF JobInv, RunOf, Exists, KeepsOutcome
  <2> QED
    BY <1>1, <1>2, <2>1, <2>2, <2>3, WorkerMoves DEF RunOf, Mac
<1>4. CASE ~(Exists(r) /\ ~KeepsOutcome(r))
  <2>1. workers' = [workers EXCEPT ![w] = Rest(w)]
    BY <1>2, <1>4 DEF LoadForFail, TypeOK, Rest, Mac
  <2> QED
    BY <1>1, <2>1, EndKeeps
<1> QED
  BY <1>3, <1>4

\* A claim makes a pending local run running.
LEMMA TakenRow ==
    ASSUME IInv, NEW w \in Worker, Taken(w)
    PROVE  /\ w \in Poller /\ w \notin Job /\ Exists(RunOf(w))
           /\ runs[RunOf(w)].status = "pending" /\ runs[RunOf(w)].runner_type = "local"
           /\ \E row \in Row : /\ runs' = [runs EXCEPT ![RunOf(w)] = row]
                               /\ row.status = "running" /\ row.runner_type = "local"
<1> DEFINE r == RunOf(w)
           row == [runs[r] EXCEPT !.status = "running", !.started = TRUE]
<1>1. Busy(w) /\ workers[w].phase = "claiming"
  BY DEF Taken, Busy
<1>2. /\ TypeOK /\ r \in Run /\ w \in Mac /\ w \notin Job /\ MacInv(w)
  BY <1>1, BusyWorker DEF JobInv
<1>3. runs[r] \in Row
  BY <1>2 DEF TypeOK, MacInv, Exists
<1>4. row \in Row /\ row.status = "running" /\ row.runner_type = runs[r].runner_type
  BY <1>3 DEF Row, RunStatus
<1>5. runs' = [runs EXCEPT ![r] = row]
  BY <1>2, <1>3 DEF Taken, TypeOK, Row, RunOf
<1> HIDE DEF row
<1> QED
  BY <1>1, <1>2, <1>4, <1>5 DEF MacInv

LEMMA ClaimedKeeps ==
    ASSUME IInv, NEW w \in Worker, Claimed(w)
    PROVE  IInv'
<1> DEFINE x == [workers[w] EXCEPT !.phase = "building"]
<1>1. Busy(w) /\ workers[w].phase = "claiming" /\ Taken(w) /\ UNCHANGED <<created, results, making>>
  BY DEF Claimed, Taken, Busy
<1>2. PICK r \in Run : r = RunOf(w)
  BY <1>1, BusyWorker
<1>3. TypeOK /\ workers[w] \in WorkerState /\ (NoScripts => CountInv(r))
  BY <1>1, <1>2, BusyWorker
<1>4. PICK row \in Row : /\ runs' = [runs EXCEPT ![r] = row]
                         /\ row.status = "running" /\ row.runner_type = "local"
  BY <1>1, <1>2, TakenRow
<1>5. w \in Poller /\ w \notin Job /\ w \notin Script /\ Exists(r) /\ runs[r].runner_type = "local"
  BY <1>1, <1>2, TakenRow, RunAssumption
<1>6. x \in WorkerState /\ x.phase = "building" /\ x.run = r
  BY <1>2, <1>3 DEF WorkerState, RunOf
<1>7. workers' = [workers EXCEPT ![w] = x] /\ workers'[w] = x
  BY <1>3 DEF Claimed, TypeOK, WorkerState
<1> HIDE DEF x
<1>8. runs' \in [Run -> Row \cup {None}] /\ runs'[r] = row /\ row # None
      /\ results' \in [Run -> Results]
      /\ \A q \in Run \ {r} : runs'[q] = runs[q] /\ results'[q] = results[q]
  BY <1>1, <1>3, <1>4, RunAssumption DEF TypeOK
<1>9. MacInv(w)'
  BY <1>4, <1>5, <1>6, <1>7, <1>8 DEF MacInv, RunOf, Exists
<1>10. NoScripts' => PollerInv(w)' /\ CountInv(r)'
  <2>1. NoScripts' => NoScripts
    BY <1>3, <1>5, <1>7 DEF NoScripts, TypeOK, Worker, Mac
  <2> QED
    BY <1>1, <1>3, <1>4, <1>6, <1>7, <1>8, <2>1 DEF PollerInv, CountInv, RunOf, Exists
<1> QED
  BY <1>1, <1>2, <1>4, <1>5, <1>6, <1>7, <1>8, <1>9, <1>10, WorkerKeeps

LEMMA ClaimRefusedKeeps ==
    ASSUME IInv, NEW w \in Worker, ClaimRefused(w) \/ Restart(w)
    PROVE  IInv'
<1>1. w \in Poller
  <2>1. CASE ClaimRefused(w)
    BY <2>1, BusyWorker DEF ClaimRefused, Busy, JobInv, MacInv
  <2> QED
    BY <2>1 DEF Restart
<1> QED
  BY <1>1, PollerRests DEF ClaimRefused, Restart

LEMMA ClaimLostKeeps ==
    ASSUME IInv, NEW w \in Worker, ClaimLost(w)
    PROVE  IInv'
<1> DEFINE x == Resting("done")
<1>1. w \in Poller /\ UNCHANGED <<created, results, making>>
      /\ workers' = [workers EXCEPT ![w] = Resting("done")]
  BY DEF ClaimLost
<1>2. CASE UNCHANGED runs
  BY <1>1, <1>2, PollerRests
<1>3. CASE Taken(w)
  <2>1. Busy(w) /\ workers[w].phase = "claiming"
    BY <1>3 DEF Taken, Busy
  <2>2. PICK r \in Run : r = RunOf(w)
    BY <2>1, BusyWorker
  <2>3. /\ TypeOK /\ w \in Mac /\ w \notin Job /\ w \notin Script /\ MacInv(w)
        /\ NoScripts => CountInv(r)
    BY <1>1, <2>1, <2>2, BusyWorker, RunAssumption DEF Mac
  <2>4. workers' = [workers EXCEPT ![w] = x] /\ workers'[w] = x
    BY <1>1, <2>3 DEF TypeOK
  <2>5. PICK row \in Row : /\ runs' = [runs EXCEPT ![r] = row]
                           /\ row.status = "running" /\ row.runner_type = "local"
    BY <1>3, <2>2, TakenRow
  <2>6. Exists(r) /\ runs[r].runner_type = "local"
    BY <1>3, <2>2, TakenRow
  <2>7. x \in WorkerState /\ x.phase = "done" /\ x.run = None /\ x.reports = 0
    BY RunAssumption DEF Resting, WorkerState
  <2> HIDE DEF x
  <2>8. runs' \in [Run -> Row \cup {None}] /\ runs'[r] = row /\ row # None
        /\ results' \in [Run -> Results]
        /\ \A q \in Run \ {r} : runs'[q] = runs[q] /\ results'[q] = results[q]
    BY <1>1, <2>3, <2>5, RunAssumption DEF TypeOK
  <2>9. ~Busy(w)'
    BY <2>4, <2>7 DEF Busy
  <2>10. NoScripts' => CountInv(r)'
    <3>1. NoScripts' => NoScripts
      BY <2>3, <2>4 DEF NoScripts, TypeOK, Worker, Mac
    <3> QED
      BY <1>1, <2>3, <2>5, <2>8, <3>1 DEF CountInv, Exists
  <2>11. UNCHANGED <<created, making>>
    BY <1>1
  <2>12. /\ runs'[r] # None /\ runs'[r].runner_type = runs[r].runner_type
         /\ runs'[r].status = "running"
    BY <2>5, <2>6, <2>8
  <2> QED
    BY <2>1, <2>2, <2>3, <2>4, <2>6, <2>7, <2>8, <2>9, <2>10, <2>11, <2>12, WorkerKeeps
<1> QED
  BY <1>2, <1>3 DEF ClaimLost

LEMMA RegisterKeeps ==
    ASSUME IInv, NEW w \in Worker, Register(w)
    PROVE  IInv'
<1>1. Busy(w) /\ workers[w].phase = "queued" /\ UNCHANGED <<created, results, making>>
  BY DEF Register, Busy
<1>2. PICK r \in Run : r = RunOf(w)
  BY <1>1, BusyWorker
<1>3. /\ TypeOK /\ workers[w] \in WorkerState
      /\ w \in Job /\ w \notin Mac /\ JobInv(w)
      /\ NoScripts => CountInv(r)
  BY <1>1, <1>2, BusyWorker DEF MacInv
<1>4. CASE ~Exists(r)
  <2> DEFINE x == [workers[w] EXCEPT !.phase = "reporting", !.failed = TRUE]
  <2>1. x \in WorkerState /\ x.phase = "reporting" /\ x.run = r /\ x.reports = 0
    BY <1>1, <1>2, <1>3 DEF WorkerState, RunOf, JobInv
  <2>2. workers' = [workers EXCEPT ![w] = x] /\ workers'[w] = x /\ UNCHANGED runs
    BY <1>2, <1>3, <1>4 DEF Register, TypeOK, WorkerState, RunOf
  <2> HIDE DEF x
  <2>3. JobInv(w)'
    BY <1>1, <1>2, <1>3, <1>4, <2>1, <2>2 DEF JobInv, RunOf, Exists
  <2> QED
    BY <1>1, <1>2, <1>3, <2>1, <2>2, <2>3, WorkerMoves DEF Mac
<1>5. CASE Exists(r)
  <2> DEFINE x == [workers[w] EXCEPT !.phase = "building"]
             row == [runs[r] EXCEPT !.github_run_id = TRUE]
  <2>1. x \in WorkerState /\ x.phase = "building" /\ x.run = r
    BY <1>2, <1>3 DEF WorkerState, RunOf
  <2>2. runs[r] \in Row
    BY <1>3, <1>5 DEF TypeOK, Exists
  <2>3. /\ row \in Row /\ row.status = runs[r].status /\ row.runner_type = runs[r].runner_type
        /\ row.total_recipes = runs[r].total_recipes
    BY <2>2 DEF Row
  <2>4. workers' = [workers EXCEPT ![w] = x] /\ workers'[w] = x
    BY <1>2, <1>3, <1>5 DEF Register, TypeOK, WorkerState, RunOf
  <2>5. runs' = [runs EXCEPT ![r] = row]
    BY <1>2, <1>3, <1>5, <2>2 DEF Register, TypeOK, Row, RunOf
  <2>6. PICK line \in Row : line = row
    BY <2>3
  <2> HIDE DEF x, row
  <2>7. runs' \in [Run -> Row \cup {None}] /\ runs'[r] = line /\ line # None
        /\ results' \in [Run -> Results]
        /\ \A q \in Run \ {r} : runs'[q] = runs[q] /\ results'[q] = results[q]
    BY <1>1, <1>3, <2>5, <2>6, RunAssumption DEF TypeOK
  <2>8. JobInv(w)'
    BY <1>1, <1>2, <1>3, <1>5, <2>1, <2>3, <2>4, <2>6, <2>7 DEF JobInv, RunOf, Exists
  <2>9. NoScripts' => CountInv(r)'
    <3>1. NoScripts' => NoScripts
      BY <1>3, <2>4 DEF NoScripts, TypeOK, Worker, Mac
    <3> QED
      BY <1>1, <1>3, <1>5, <2>3, <2>6, <2>7, <3>1 DEF CountInv, Exists
  <2>10. runs'[r].status = runs[r].status /\ runs'[r].runner_type = runs[r].runner_type
    BY <2>3, <2>6, <2>7
  <2>11. w \notin Script /\ w \notin Poller
    BY <1>3 DEF Mac
  <2> QED
    BY <1>1, <1>2, <1>3, <1>5, <2>1, <2>4, <2>7, <2>8, <2>9, <2>10, <2>11, WorkerKeeps
<1> QED
  BY <1>4, <1>5

\* A report is posted with its package: jobs' runs, and claimed ones, are running.
LEMMA ReportKeeps ==
    ASSUME IInv, NEW w \in Worker, Report(w)
    PROVE  IInv'
<1> DEFINE x == [workers[w] EXCEPT !.reports = @ - 1]
<1>1. /\ Busy(w) /\ workers[w].phase = "reporting" /\ workers[w].reports > 0
      /\ UNCHANGED <<created, runs, making>>
  BY DEF Report, Busy
<1>2. PICK r \in Run : r = RunOf(w)
  BY <1>1, BusyWorker
<1>3. /\ TypeOK /\ workers[w] \in WorkerState
      /\ (w \in Job /\ w \notin Mac /\ JobInv(w)) \/ (w \in Mac /\ w \notin Job /\ MacInv(w))
      /\ NoScripts => /\ w \in Poller => PollerInv(w)
                      /\ CountInv(r)
  BY <1>1, <1>2, BusyWorker
<1>4. x \in WorkerState /\ x.phase = "reporting" /\ x.run = r
  <2>1. workers[w].reports - 1 \in 0 .. MaxReports
    BY <1>1, <1>3, RunAssumption DEF WorkerState
  <2> QED
    BY <1>1, <1>2, <1>3, <2>1 DEF WorkerState, RunOf
<1>5. workers' = [workers EXCEPT ![w] = x] /\ workers'[w] = x
  BY <1>3 DEF Report, TypeOK, WorkerState
<1> HIDE DEF x
<1>6. Exists(r) /\ (w \in Job => runs[r].status = "running")
  BY <1>1, <1>2, <1>3 DEF JobInv, MacInv
<1>7. PICK n \in Results :
        /\ results' = [results EXCEPT ![r] = n]
        /\ runs[r].status = "running" => n.refused = results[r].refused
  <2>1. results[r] \in Results
    BY <1>3 DEF TypeOK
  <2> DEFINE m == [results[r] EXCEPT !.posted = @ + 1,
                                     !.refused = IF AcceptsPackages(r) THEN @ ELSE @ + 1]
  <2>2. m \in Results /\ (AcceptsPackages(r) => m.refused = results[r].refused)
    <3>1. \A p, q \in Nat : [results[r] EXCEPT !.posted = p, !.refused = q] \in Results
      BY <2>1 DEF Results
    <3>2. m.refused = IF AcceptsPackages(r) THEN results[r].refused ELSE results[r].refused + 1
      BY <2>1 DEF Results
    <3>3. results[r].posted \in Nat /\ results[r].refused \in Nat
      BY <2>1 DEF Results
    <3> DEFINE p == results[r].posted + 1
               q == IF AcceptsPackages(r) THEN results[r].refused ELSE results[r].refused + 1
    <3>4. m = [results[r] EXCEPT !.posted = p, !.refused = q]
      BY <2>1, Zenon DEF Results
    <3>5. p \in Nat /\ q \in Nat
      BY <3>3
    <3> HIDE DEF m, p, q
    <3>6. m \in Results
      BY <3>1, <3>4, <3>5
    <3> QED
      BY <3>2, <3>6 DEF m
  <2>3. results' = [results EXCEPT ![r] = m]
    BY <1>2, <1>3, <2>1 DEF Report, TypeOK, Results, RunOf
  <2> QED
    BY <2>2, <2>3 DEF AcceptsPackages
<1>8. /\ results' \in [Run -> Results] /\ results'[r] = n
      /\ runs' \in [Run -> Row \cup {None}]
      /\ \A q \in Run \ {r} : runs'[q] = runs[q] /\ results'[q] = results[q]
  BY <1>1, <1>3, <1>7 DEF TypeOK
<1>9. w \in Job => JobInv(w)'
  BY <1>1, <1>2, <1>3, <1>4, <1>5, <1>6 DEF JobInv, RunOf, Exists
<1>10. w \in Mac => MacInv(w)'
  BY <1>1, <1>2, <1>3, <1>4, <1>5, <1>6 DEF MacInv, RunOf, Exists
<1>11. NoScripts' => /\ w \in Poller => PollerInv(w)'
                     /\ CountInv(r)'
  <2>1. NoScripts' => NoScripts /\ w \notin Script
    BY <1>3, <1>4, <1>5 DEF NoScripts, TypeOK, Worker, Mac
  <2>2. NoScripts' => runs[r].status = "running"
    BY <1>2, <1>3, <1>6, <2>1 DEF PollerInv, Worker, Mac
  <2>3. NoScripts' /\ w \in Poller => PollerInv(w)'
    BY <1>1, <1>2, <1>4, <1>5, <2>2 DEF PollerInv, RunOf
  <2> QED
    BY <1>1, <1>3, <1>7, <1>8, <2>1, <2>2, <2>3 DEF CountInv, Exists
<1>12. Busy(w)' /\ x.phase \notin {"idle", "done", "claiming"}
  BY <1>4, <1>5 DEF Busy
<1> QED
  BY <1>1, <1>2, <1>4, <1>5, <1>6, <1>8, <1>9, <1>10, <1>11, <1>12, WorkerKeeps DEF Exists

\* What the commits of /complete and /fail write.
LEMMA FlushedRow ==
    ASSUME NEW current \in Row, NEW base \in Row, NEW row \in Row
    PROVE  /\ FlushChanged(current, base, row) \in Row
           /\ FlushChanged(current, base, row).status =
                 IF row.status # base.status THEN row.status ELSE current.status
           /\ FlushChanged(current, base, row).runner_type =
                 IF row.runner_type # base.runner_type THEN row.runner_type ELSE current.runner_type
           /\ FlushChanged(current, base, row).total_recipes =
                 IF row.total_recipes # base.total_recipes THEN row.total_recipes
                 ELSE current.total_recipes
<1>1. DOMAIN current = {"status", "runner_type", "started", "total_recipes", "github_run_id"}
  BY DEF Row
<1> QED
  BY <1>1 DEF FlushChanged, Row

LEMMA CompletedRow ==
    ASSUME IInv, NEW w \in Worker, CommitComplete(w)
    PROVE  /\ Exists(RunOf(w)) /\ workers[w].base \in Row /\ workers[w].seen \in Nat
           /\ \E row \in Row :
                 /\ runs' = [runs EXCEPT ![RunOf(w)] = row]
                 /\ row.status = IF workers[w].base.status # "completed" THEN "completed"
                                 ELSE runs[RunOf(w)].status
                 /\ row.total_recipes = IF workers[w].base.total_recipes # workers[w].seen
                                        THEN workers[w].seen ELSE runs[RunOf(w)].total_recipes
                 /\ row.runner_type = runs[RunOf(w)].runner_type
<1>1. Busy(w) /\ workers[w].phase = "completing"
  BY DEF CommitComplete, Busy
<1>2. PICK r \in Run : r = RunOf(w)
  BY <1>1, BusyWorker
<1>3. TypeOK /\ workers[w] \in WorkerState /\ (JobInv(w) \/ MacInv(w))
  BY <1>1, BusyWorker
<1>4. Exists(r) /\ runs[r] \in Row
  BY <1>1, <1>2, <1>3 DEF JobInv, MacInv, TypeOK, Exists
<1>5. PICK base \in Row : base = workers[w].base
  BY <1>1, <1>2, <1>3, <1>4 DEF JobInv, MacInv, WorkerState
<1>6. PICK seen \in Nat : seen = workers[w].seen
  BY <1>3 DEF WorkerState
<1> DEFINE row == [base EXCEPT !.status = "completed", !.total_recipes = seen]
<1>7. row \in Row /\ row.status = "completed" /\ row.total_recipes = seen
      /\ row.runner_type = base.runner_type
  BY <1>5, <1>6 DEF Row, RunStatus
<1>8. PICK new \in Row : new = row
  BY <1>7
<1>9. PICK line \in Row :
        /\ line = FlushChanged(runs[r], base, new)
        /\ line.status = IF base.status # "completed" THEN "completed" ELSE runs[r].status
        /\ line.total_recipes = IF base.total_recipes # seen THEN seen ELSE runs[r].total_recipes
        /\ line.runner_type = runs[r].runner_type
  <2> HIDE DEF row
  <2> QED
    BY <1>4, <1>7, <1>8, FlushedRow
<1>10. runs' = [runs EXCEPT ![r] = line]
  BY <1>2, <1>3, <1>5, <1>6, <1>8, <1>9 DEF CommitComplete, TypeOK, RunOf
<1> QED
  BY <1>2, <1>4, <1>5, <1>6, <1>9, <1>10

LEMMA CommitCompleteKeeps ==
    ASSUME IInv, NEW w \in Worker, CommitComplete(w)
    PROVE  IInv'
<1>1. Busy(w) /\ workers[w].phase = "completing" /\ UNCHANGED <<created, results, making>>
  BY DEF CommitComplete, Busy
<1>2. PICK r \in Run : r = RunOf(w)
  BY <1>1, BusyWorker
<1>3. /\ TypeOK /\ workers[w] \in WorkerState
      /\ (w \in Job /\ w \notin Mac /\ JobInv(w)) \/ (w \in Mac /\ w \notin Job /\ MacInv(w))
      /\ NoScripts => /\ w \in Poller => PollerInv(w)
                      /\ CountInv(r)
  BY <1>1, <1>2, BusyWorker
<1> DEFINE base == workers[w].base
           seen == workers[w].seen
           x == AfterReporting(w, workers[w].failed)
<1>4. Exists(r) /\ seen \in Nat
  BY <1>2, CompletedRow
<1>5. PICK line \in Row :
        /\ runs' = [runs EXCEPT ![r] = line]
        /\ line.status = IF base.status # "completed" THEN "completed" ELSE runs[r].status
        /\ line.total_recipes = IF base.total_recipes # seen THEN seen ELSE runs[r].total_recipes
        /\ line.runner_type = runs[r].runner_type
  BY <1>2, CompletedRow
<1>6. /\ x \in WorkerState /\ x.reports = 0
      /\ x.phase = IF w \in Job /\ workers[w].failed THEN "failing"
                   ELSE IF w \in Poller THEN "idle" ELSE "done"
      /\ x.run = IF x.phase = "failing" THEN r ELSE None
  <2>1. workers[w].failed \in BOOLEAN
    BY <1>3 DEF WorkerState
  <2> QED
    BY <1>1, <1>2, <1>3, <2>1, AfterReportingType
<1>7. workers' = [workers EXCEPT ![w] = x] /\ workers'[w] = x
  BY <1>3 DEF CommitComplete, TypeOK
<1> HIDE DEF x
<1>8. /\ runs' \in [Run -> Row \cup {None}] /\ runs'[r] = line /\ line # None
      /\ results' \in [Run -> Results]
      /\ \A q \in Run \ {r} : runs'[q] = runs[q] /\ results'[q] = results[q]
  BY <1>1, <1>3, <1>5, RunAssumption DEF TypeOK
<1>9. /\ ~Locked(r)
      /\ runs'[r].runner_type = runs[r].runner_type
      /\ runs'[r].status = "pending" => runs[r].status = "pending"
  BY <1>2, <1>5, <1>8 DEF CommitComplete, RunOf
<1>10. w \in Job /\ Busy(w)' => JobInv(w)'
  BY <1>1, <1>2, <1>3, <1>4, <1>6, <1>7, <1>8, <1>9 DEF JobInv, RunOf, Exists, Busy
<1>11. w \in Mac => ~Busy(w)'
  BY <1>3, <1>6, <1>7 DEF Busy
<1>12. NoScripts' => CountInv(r)'
  <2>1. NoScripts' => NoScripts /\ w \notin Script
    BY <1>1, <1>3, <1>6, <1>7, RunAssumption DEF NoScripts, TypeOK, Worker, Mac
  <2>2. NoScripts' => base = runs[r] /\ base.status = "running" /\ seen = results[r].posted
    BY <1>1, <1>2, <1>3, <1>4, <2>1 DEF PollerInv, JobInv, Worker, Mac
  <2> QED
    BY <1>1, <1>3, <1>4, <1>5, <1>8, <2>1, <2>2 DEF CountInv, Exists
<1>13. /\ x.run = IF x.phase \in {"idle", "done"} THEN None ELSE r
       /\ w \in Script => x.phase # "idle"
  BY <1>3, <1>6, RunAssumption DEF Mac
<1>14. w \in Poller => w \in Mac
  BY DEF Mac
<1> QED
  BY <1>1, <1>2, <1>4, <1>6, <1>7, <1>8, <1>9, <1>10, <1>11, <1>12, <1>13, <1>14, WorkerKeeps

LEMMA FailedRow ==
    ASSUME IInv, NEW w \in Worker, CommitFail(w)
    PROVE  /\ w \in Job /\ Exists(RunOf(w)) /\ ~KeepsOutcome(RunOf(w))
           /\ runs[RunOf(w)].runner_type = "github"
           /\ \E row \in Row : /\ runs' = [runs EXCEPT ![RunOf(w)] = row]
                               /\ row.status = "failed" /\ row.runner_type = "github"
<1>1. Busy(w) /\ workers[w].phase = "marking"
  BY DEF CommitFail, Busy
<1>2. PICK r \in Run : r = RunOf(w)
  BY <1>1, BusyWorker
<1>3. TypeOK /\ w \in Job /\ JobInv(w)
  BY <1>1, BusyWorker DEF MacInv
<1>4. /\ Exists(r) /\ runs[r] \in Row /\ workers[w].base = runs[r]
      /\ runs[r].runner_type = "github" /\ ~KeepsOutcome(r)
  BY <1>1, <1>2, <1>3 DEF JobInv, TypeOK, Exists
<1> DEFINE row == [runs[r] EXCEPT !.status = "failed"]
<1>5. row \in Row /\ row.status = "failed" /\ row.runner_type = runs[r].runner_type
  BY <1>4 DEF Row, RunStatus
<1>6. PICK new \in Row : new = row
  BY <1>5
<1>7. PICK line \in Row :
        /\ line = FlushChanged(runs[r], runs[r], new)
        /\ line.status = "failed" /\ line.runner_type = runs[r].runner_type
  <2> HIDE DEF row
  <2> QED
    BY <1>4, <1>5, <1>6, FlushedRow
<1>8. runs' = [runs EXCEPT ![r] = line]
  BY <1>2, <1>3, <1>4, <1>6, <1>7 DEF CommitFail, TypeOK, RunOf
<1> QED
  BY <1>2, <1>3, <1>4, <1>7, <1>8

LEMMA CommitFailKeeps ==
    ASSUME IInv, NEW w \in Worker, CommitFail(w)
    PROVE  IInv'
<1> DEFINE x == Resting("done")
<1>1. Busy(w) /\ workers[w].phase = "marking" /\ UNCHANGED <<created, results, making>>
  BY DEF CommitFail, Busy
<1>2. PICK r \in Run : r = RunOf(w)
  BY <1>1, BusyWorker
<1>3. TypeOK /\ w \notin Mac /\ (NoScripts => CountInv(r))
  BY <1>1, <1>2, BusyWorker DEF MacInv
<1>4. w \in Job /\ Exists(r) /\ runs[r].runner_type = "github"
  BY <1>2, FailedRow DEF MacInv
<1>5. PICK line \in Row : /\ runs' = [runs EXCEPT ![r] = line]
                          /\ line.status = "failed" /\ line.runner_type = "github"
  BY <1>2, FailedRow
<1>6. x \in WorkerState /\ x.phase = "done" /\ x.run = None /\ x.reports = 0
  BY RunAssumption DEF Resting, WorkerState
<1>7. workers' = [workers EXCEPT ![w] = x] /\ workers'[w] = x
  BY <1>3 DEF CommitFail, TypeOK
<1> HIDE DEF x
<1>8. /\ runs' \in [Run -> Row \cup {None}] /\ runs'[r] = line /\ line # None
      /\ results' \in [Run -> Results]
      /\ \A q \in Run \ {r} : runs'[q] = runs[q] /\ results'[q] = results[q]
  BY <1>1, <1>3, <1>5, RunAssumption DEF TypeOK
<1>9. ~Busy(w)' /\ w \notin Script /\ w \notin Poller
  BY <1>3, <1>6, <1>7 DEF Busy, Mac
<1>10. NoScripts' => CountInv(r)'
  <2>1. NoScripts' => NoScripts
    BY <1>3, <1>7, <1>9 DEF NoScripts, TypeOK, Worker, Mac
  <2> QED
    BY <1>1, <1>3, <1>5, <1>8, <2>1 DEF CountInv, Exists
<1>11. ~Locked(r)
  BY <1>4 DEF IInv, Locked, Macs, MacInv, Busy, RunOf, Mac
<1>12. runs'[r].runner_type = runs[r].runner_type /\ runs'[r].status # "pending"
  BY <1>4, <1>5, <1>8
<1> QED
  BY <1>1, <1>2, <1>4, <1>6, <1>7, <1>8, <1>9, <1>10, <1>11, <1>12, WorkerKeeps

\* The oldest of the runs that may be claimed is one of them.
LEMMA OldestClaimable ==
    ASSUME NEW S \in SUBSET Nat, S # {}
    PROVE  Min(S) \in S
<1>1. PICK x \in S : \A y \in S : x <= y
  <2>1. IsWellFoundedOn(OpToRel(<, Nat), Nat)
    BY NatLessThanWellFounded
  <2>2. PICK x \in S : \A y \in S : ~(<<y, x>> \in OpToRel(<, Nat))
    BY <2>1, WFMin
  <2>3. ASSUME NEW y \in S, y < x PROVE FALSE
    <3>1. <<y, x>> \in Nat \X Nat
      OBVIOUS
    <3>2. <<y, x>> \in OpToRel(<, Nat)
      BY <2>3, <3>1 DEF OpToRel
    <3> QED
      BY <2>2, <3>2
  <2> QED
    BY <2>3
<1> QED
  BY <1>1 DEF Min

LEMMA ClaimKeeps ==
    ASSUME IInv, NEW w \in Worker, Claim(w)
    PROVE  IInv'
<1> DEFINE claimable == {q \in Run : Claimable(q)}
<1>1. PICK r \in claimable : workers' = [workers EXCEPT ![w].phase = "claiming", ![w].run = r]
  <2>1. claimable \in SUBSET Nat /\ claimable # {}
    BY RunAssumption DEF Claim, Run
  <2>2. Min(claimable) \in claimable
    BY <2>1, OldestClaimable
  <2> QED
    BY <2>2 DEF Claim
<1>2. /\ r \in Run /\ Exists(r) /\ runs[r].runner_type = "local" /\ runs[r].status = "pending"
      /\ ~Locked(r)
  BY <1>1 DEF Claimable
<1>3. /\ TypeOK /\ w \in Poller /\ w \in Mac /\ w \notin Job /\ w \notin Script
      /\ workers[w] \in WorkerState /\ ~Busy(w) /\ workers[w].phase = "idle"
      /\ UNCHANGED <<created, runs, results, making>>
  BY RunAssumption DEF IInv, TypeOK, Claim, Busy, Mac
<1>4. r \in 1 .. created
  BY <1>2, <1>3, RunAssumption DEF IInv, Ids, TypeOK, Exists, Run
<1> DEFINE x == [workers[w] EXCEPT !.phase = "claiming", !.run = r]
<1>5. x \in WorkerState /\ x.phase = "claiming" /\ x.run = r
  BY <1>2, <1>3 DEF WorkerState
<1>6. workers' = [workers EXCEPT ![w] = x]
  BY <1>1, <1>3 DEF TypeOK, WorkerState
<1> HIDE DEF x, claimable
<1>7. \A v \in Worker : workers'[v] = IF v = w THEN x ELSE workers[v]
  BY <1>3, <1>6 DEF TypeOK
<1>8. TypeOK'
  BY <1>3, <1>5, <1>6 DEF TypeOK
<1>9. Ids' /\ Made' /\ Workers'
  BY <1>3, <1>4, <1>5, <1>7 DEF IInv, Ids, Made, Workers, Busy, RunOf
<1>10. Jobs'
  BY <1>3, <1>7 DEF IInv, Jobs, JobInv, Busy, RunOf, Exists, KeepsOutcome, Worker
<1>11. Macs'
  BY <1>2, <1>3, <1>5, <1>7 DEF IInv, Macs, MacInv, Busy, RunOf, Exists, Worker
<1>12. Apart'
  <2>1. ASSUME NEW m \in Poller, Busy(m), RunOf(m) = r PROVE FALSE
    BY <1>2, <2>1 DEF IInv, Macs, MacInv, Locked, Mac, RunOf
  <2> QED
    BY <1>3, <1>5, <1>7, <2>1 DEF IInv, Apart, Busy, RunOf, Worker, Mac
<1>13. NoScripts' => Polled' /\ Counted'
  BY <1>3, <1>5, <1>7 DEF IInv, NoScripts, Polled, PollerInv, Counted, CountInv, Busy, RunOf, Exists, Worker, Mac
<1> QED
  BY <1>8, <1>9, <1>10, <1>11, <1>12, <1>13 DEF IInv

LEMMA StartScriptKeeps ==
    ASSUME IInv, NEW w \in Script, NEW r \in Run, StartScript(w, r)
    PROVE  IInv'
<1> DEFINE x == [workers[w] EXCEPT !.phase = "building", !.run = r]
<1>1. /\ TypeOK /\ w \in Worker /\ w \in Mac /\ w \notin Job /\ w \notin Poller
      /\ workers[w] \in WorkerState /\ ~Busy(w)
      /\ UNCHANGED <<created, runs, results, making>>
      /\ Exists(r) /\ runs[r].runner_type = "local"
  BY RunAssumption DEF IInv, TypeOK, StartScript, Busy, Mac, Worker
<1>2. r \in 1 .. created
  BY <1>1, RunAssumption DEF IInv, Ids, TypeOK, Exists, Run
<1>3. x \in WorkerState /\ x.phase = "building" /\ x.run = r
  BY <1>1 DEF WorkerState
<1>4. workers' = [workers EXCEPT ![w] = x]
  BY <1>1 DEF StartScript, TypeOK, WorkerState
<1> HIDE DEF x
<1>5. \A v \in Worker : workers'[v] = IF v = w THEN x ELSE workers[v]
  BY <1>1, <1>4 DEF TypeOK
<1>6. TypeOK'
  BY <1>1, <1>3, <1>4 DEF TypeOK
<1>7. Ids' /\ Made' /\ Workers'
  BY <1>1, <1>2, <1>3, <1>5 DEF IInv, Ids, Made, Workers, Busy, RunOf
<1>8. Jobs'
  BY <1>1, <1>5 DEF IInv, Jobs, JobInv, Busy, RunOf, Exists, KeepsOutcome, Worker
<1>9. Macs'
  BY <1>1, <1>3, <1>5 DEF IInv, Macs, MacInv, Busy, RunOf, Exists, Worker
<1>10. Apart'
  BY <1>1, <1>5 DEF IInv, Apart, Busy, RunOf, Worker, Mac
<1>11. ~NoScripts'
  BY <1>1, <1>3, <1>5 DEF NoScripts
<1> QED
  BY <1>6, <1>7, <1>8, <1>9, <1>10, <1>11 DEF IInv

LEMMA StepIInv ==
    ASSUME IInv, [Step]_runVars
    PROVE  IInv'
<1>1. CASE UNCHANGED runVars
  BY <1>1 DEF runVars, IInv, TypeOK, Ids, Made, Workers, Jobs, JobInv, Macs, MacInv, Apart, NoScripts,
       Polled, PollerInv, Counted, CountInv, Busy, RunOf, Exists, KeepsOutcome
<1>2. ASSUME NEW c \in Creator, Create(c) \/ CommitRun(c) \/ RollbackRun(c) PROVE IInv'
  BY <1>2, CreateKeeps, CommitKeeps, RollbackKeeps
<1>3. ASSUME NEW w \in Worker, Proceed(w) PROVE IInv'
  <2>1. CASE GiveUp(w) \/ ReportBreaks(w)
    BY <2>1, GiveUpKeeps
  <2> QED
    BY <1>3, <2>1, ClaimKeeps, ClaimedKeeps, RegisterKeeps, BuildKeeps, ReportKeeps,
       LoadForCompleteKeeps, CommitCompleteKeeps, LoadForFailKeeps, CommitFailKeeps DEF Proceed
<1>4. ASSUME NEW w \in Worker,
             \/ ClaimRefused(w) \/ ClaimLost(w) \/ Restart(w)
             \/ ReportLost(w) \/ CompleteLost(w) \/ Lost(w)
      PROVE  IInv'
  BY <1>4, ClaimRefusedKeeps, ClaimLostKeeps, ReportLostKeeps, GiveUpKeeps
<1>5. ASSUME NEW w \in Script, NEW r \in Run, StartScript(w, r) PROVE IInv'
  BY <1>5, StartScriptKeeps
<1> QED
  BY <1>1, <1>2, <1>3, <1>4, <1>5 DEF Step, Work

LEMMA RunNextIsStep == RunNext => Step
  BY RunAssumption DEF RunNext, Trigger, Step

LEMMA IInvHolds == RunSpec => []IInv
<1>1. IInv /\ [RunNext]_runVars => IInv'
  BY StepIInv, RunNextIsStep
<1> QED
  BY <1>1, InitIInv, PTL DEF RunSpec

-----------------------------------------------------------------------------
(* The theorems.                                                           *)

\* The tables, the rows that creators have flushed and the workers keep their
\* types: only local runs wait for a claim, and no result is without its run.
THEOREM TypeCorrect == RunSpec => []TypeOK
<1>1. IInv => TypeOK
  BY DEF IInv
<1> QED
  BY <1>1, IInvHolds, PTL

\* What the invariant says of executions.
LEMMA OneExecutes ==
    ASSUME IInv, NoScripts, NEW r \in Run, NEW v \in Worker, NEW w \in Worker,
           Executes(v, r), Executes(w, r)
    PROVE  v = w
<1>1. Busy(v) /\ Busy(w) /\ RunOf(v) = r /\ RunOf(w) = r
  BY RunAssumption DEF IInv, Workers, Executes, RunOf, Run
<1>2. \A u \in Worker : u \in Mac => u \in Poller \/ ~Busy(u)
  BY DEF NoScripts, Busy, Mac
<1>3. CASE v \in Job /\ w \in Job
  BY <1>1, <1>3 DEF IInv, Apart
<1>4. CASE v \in Mac /\ w \in Mac
  BY <1>1, <1>2, <1>4 DEF IInv, Apart
<1>5. \A j \in Job, m \in Mac : ~(Busy(j) /\ Busy(m) /\ RunOf(j) = RunOf(m))
  BY DEF IInv, Jobs, JobInv, Macs, MacInv
<1> QED
  BY <1>1, <1>3, <1>4, <1>5 DEF Worker

LEMMA OneExecutionInv == IInv => OneExecution
<1> SUFFICES ASSUME IInv, NoScripts, NEW r \in Run
             PROVE  /\ \A v, w \in Worker : Executes(v, r) /\ Executes(w, r) => v = w
                    /\ CountInv(r)
  BY DEF OneExecution, NoScripts, CountInv
<1> QED
  BY OneExecutes DEF IInv, Counted

\* Claims are atomic (api-reference.md:157): as long as nobody starts the script by
\* hand, a run is executed by one job or Mac at a time, whatever creations, claims,
\* losses and late calls overlap; its count is then that of its results, each of
\* which was posted with its package.
THEOREM RunHasOneExecution == RunSpec => []OneExecution
<1> QED
  BY OneExecutionInv, IInvHolds, PTL

-----------------------------------------------------------------------------
(* The refinement of RunLifecycle.                                         *)

\* What the run history says of run r.
Shown(r) == IF Exists(r) THEN runs[r].status ELSE "absent"

Reported == {r \in Run : results[r].posted > 0}

LEMMA HistoryIs == /\ History!vars = <<[r \in Run |-> Shown(r)], Reported>>
                   /\ History!vars' = <<[r \in Run |-> Shown(r)]', Reported'>>
BY DEF History!vars, Shown, Reported

\* A step that changes what the history says of run r, and no result.
LEMMA ShownChanges ==
    ASSUME NEW r \in Run, NEW row \in Row, TypeOK, runs' = [runs EXCEPT ![r] = row],
           UNCHANGED results
    PROVE  /\ [q \in Run |-> Shown(q)]' = [[q \in Run |-> Shown(q)] EXCEPT ![r] = row.status]
           /\ Reported' = Reported
<1>1. Shown(r)' = row.status
  BY RunAssumption DEF TypeOK, Shown, Exists
<1>2. \A q \in Run \ {r} : Shown(q)' = Shown(q)
  BY DEF TypeOK, Shown, Exists
<1> QED
  BY <1>1, <1>2 DEF Reported

\* Unless the status of that run changes, the history says the same.
LEMMA ShownStays ==
    ASSUME NEW r \in Run, NEW row \in Row, TypeOK, runs' = [runs EXCEPT ![r] = row],
           UNCHANGED results, Exists(r), row.status = runs[r].status
    PROVE  UNCHANGED History!vars
<1>1. runs'[r].status = runs[r].status /\ Exists(r)'
  BY RunAssumption DEF TypeOK, Exists
<1>2. \A q \in Run \ {r} : runs'[q] = runs[q]
  BY DEF TypeOK
<1>3. \A q \in Run : Shown(q)' = Shown(q)
  BY <1>1, <1>2 DEF Shown, Exists
<1> QED
  BY <1>3, HistoryIs DEF Reported

LEMMA StepInHistory ==
    ASSUME IInv, [Step]_runVars
    PROVE  [History!Next]_(History!vars)
<1> DEFINE S == [r \in Run |-> Shown(r)]
<1>1. ASSUME UNCHANGED <<runs, results>> PROVE UNCHANGED History!vars
  BY <1>1, HistoryIs DEF Shown, Reported, Exists
<1>2. TypeOK
  BY DEF IInv
<1>3. ASSUME NEW c \in Creator, CommitRun(c) PROVE History!Next
  <2>1. PICK r \in Run, row \in Row : making[c] = [run |-> r, row |-> row]
    BY <1>2, <1>3 DEF CommitRun, TypeOK
  <2>2. runs' = [runs EXCEPT ![r] = row] /\ UNCHANGED results
    BY <1>3, <2>1 DEF CommitRun
  <2>3. Shown(r) = "absent" /\ row.status \in {"pending", "running", "failed"}
    BY <1>3, <2>1 DEF CommitRun, IInv, Ids, Made, Shown, Exists, Row, RunStatus
  <2>4. History!Appear(r)
    BY <1>2, <2>2, <2>3, ShownChanges DEF History!Appear, Shown, Reported
  <2> QED
    BY <2>4 DEF History!Next
<1>4. ASSUME NEW w \in Worker, Taken(w), UNCHANGED results PROVE History!Next
  <2>1. PICK r \in Run : r = RunOf(w)
    BY <1>4, BusyWorker DEF Taken, Busy
  <2>2. PICK row \in Row : runs' = [runs EXCEPT ![r] = row] /\ row.status = "running"
    BY <1>4, <2>1, TakenRow
  <2>3. Shown(r) = "pending"
    BY <1>4, <2>1, TakenRow DEF Shown
  <2>4. History!Start(r)
    BY <1>2, <1>4, <2>2, <2>3, ShownChanges DEF History!Start, Shown, Reported
  <2> QED
    BY <2>4 DEF History!Next
<1>5. ASSUME NEW w \in Worker, Register(w) PROVE UNCHANGED History!vars
  <2>1. PICK r \in Run : r = RunOf(w)
    BY <1>5, BusyWorker DEF Register, Busy
  <2>2. CASE Exists(r)
    <3> DEFINE row == [runs[r] EXCEPT !.github_run_id = TRUE]
    <3>1. runs[r] \in Row
      BY <1>2, <2>2 DEF TypeOK, Exists
    <3>2. row \in Row /\ row.status = runs[r].status
      BY <3>1 DEF Row
    <3>3. runs' = [runs EXCEPT ![r] = row] /\ UNCHANGED results
      BY <1>2, <1>5, <2>1, <2>2, <3>1 DEF Register, TypeOK, Row, RunOf
    <3>4. PICK line \in Row : line = row
      BY <3>2
    <3> HIDE DEF row
    <3> QED
      BY <1>2, <2>2, <3>2, <3>3, <3>4, ShownStays
  <2> QED
    BY <1>1, <1>5, <2>1, <2>2 DEF Register, RunOf
<1>6. ASSUME NEW w \in Worker, Report(w) PROVE History!Next
  <2>1. Busy(w) /\ workers[w].phase = "reporting" /\ workers[w].reports > 0 /\ UNCHANGED runs
    BY <1>6 DEF Report, Busy
  <2>2. PICK r \in Run : r = RunOf(w)
    BY <2>1, BusyWorker
  <2>3. Exists(r)
    BY <2>1, <2>2, BusyWorker DEF JobInv, MacInv
  <2>4. /\ results[r].posted \in Nat
        /\ results'[r].posted = results[r].posted + 1
        /\ \A q \in Run \ {r} : results'[q] = results[q]
    BY <1>2, <1>6, <2>2 DEF Report, TypeOK, Results, RunOf
  <2>5. Reported' = Reported \cup {r}
    BY <2>4 DEF Reported
  <2>6. Shown(r) # "absent" /\ S' = S
    BY <1>2, <2>1, <2>3 DEF Shown, Exists, TypeOK, Row, RunStatus
  <2>7. History!Report(r)
    BY <2>5, <2>6 DEF History!Report, Shown, Reported
  <2> QED
    BY <2>7 DEF History!Next
<1>7. ASSUME NEW w \in Worker, CommitComplete(w) PROVE [History!Next]_(History!vars)
  <2>1. UNCHANGED results
    BY <1>7 DEF CommitComplete
  <2>2. PICK r \in Run : r = RunOf(w)
    BY <1>7, BusyWorker DEF CommitComplete, Busy
  <2>3. Exists(r)
    BY <1>7, <2>2, CompletedRow
  <2>4. PICK row \in Row : /\ runs' = [runs EXCEPT ![r] = row]
                           /\ row.status = "completed" \/ row.status = runs[r].status
    BY <1>7, <2>2, CompletedRow
  <2>5. CASE row.status = runs[r].status
    BY <1>2, <2>1, <2>3, <2>4, <2>5, ShownStays
  <2>6. CASE row.status = "completed"
    <3>1. Shown(r) # "absent"
      BY <1>2, <2>3 DEF Shown, Exists, TypeOK, Row, RunStatus
    <3>2. History!Complete(r)
      BY <1>2, <2>1, <2>4, <2>6, <3>1, ShownChanges DEF History!Complete, Shown, Reported
    <3> QED
      BY <3>2 DEF History!Next
  <2> QED
    BY <2>4, <2>5, <2>6
<1>8. ASSUME NEW w \in Worker, CommitFail(w) PROVE History!Next
  <2>1. UNCHANGED results
    BY <1>8 DEF CommitFail
  <2>2. PICK r \in Run : r = RunOf(w)
    BY <1>8, BusyWorker DEF CommitFail, Busy
  <2>3. PICK row \in Row : runs' = [runs EXCEPT ![r] = row] /\ row.status = "failed"
    BY <1>8, <2>2, FailedRow
  <2>4. Exists(r) /\ runs[r].runner_type = "github" /\ ~KeepsOutcome(r)
    BY <1>8, <2>2, FailedRow
  <2>5. runs[r].status \in {"running", "completed"}
    BY <1>2, <2>4 DEF TypeOK, Exists, KeepsOutcome, Row, RunStatus
  <2>6. Shown(r) \in {"running", "completed"} /\ (Shown(r) = "completed" => r \notin Reported)
    BY <2>4, <2>5 DEF Shown, KeepsOutcome, Reported
  <2>7. History!Fail(r)
    BY <1>2, <2>1, <2>3, <2>6, ShownChanges DEF History!Fail, Shown, Reported
  <2> QED
    BY <2>7 DEF History!Next
<1>9. ASSUME NEW w \in Worker, Proceed(w) PROVE [History!Next]_(History!vars)
  <2>1. CASE Claim(w) \/ Build(w) \/ GiveUp(w) \/ ReportBreaks(w) \/ LoadForComplete(w) \/ LoadForFail(w)
    BY <1>1, <2>1 DEF Claim, Build, GiveUp, ReportBreaks, LoadForComplete, LoadForFail
  <2>2. CASE Claimed(w)
    BY <1>4, <2>2 DEF Claimed
  <2> QED
    BY <1>5, <1>6, <1>7, <1>8, <1>9, <2>1, <2>2 DEF Proceed
<1>10. ASSUME NEW w \in Worker,
              \/ ClaimRefused(w) \/ ClaimLost(w) \/ Restart(w)
              \/ ReportLost(w) \/ CompleteLost(w) \/ Lost(w)
       PROVE  [History!Next]_(History!vars)
  BY <1>1, <1>4, <1>10 DEF ClaimRefused, ClaimLost, Restart, ReportLost, CompleteLost, Lost
<1>11. CASE Work
  BY <1>1, <1>9, <1>10, <1>11 DEF Work, StartScript
<1>12. ASSUME NEW c \in Creator, Create(c) \/ RollbackRun(c) PROVE UNCHANGED History!vars
  BY <1>1, <1>12 DEF Create, RollbackRun
<1> QED
  BY <1>1, <1>3, <1>11, <1>12 DEF Step, runVars

\* The run history keeps the promise of RunLifecycle (a run starts once, what has
\* ended does not start again, no failure replaces an outcome with results): /complete
\* and /fail write what they computed from a row they loaded earlier, and no claim,
\* script or late call in between makes that a broken promise.
THEOREM HistoryIsKept == RunSpec => HistoryKept
<1>1. RunInit => History!Init
  BY DEF RunInit, History!Init, Exists
<1>2. IInv /\ [RunNext]_runVars => [History!Next]_(History!vars)
  BY StepInHistory, RunNextIsStep
<1> QED
  BY <1>1, <1>2, IInvHolds, PTL DEF RunSpec, HistoryKept, History!Spec
=============================================================================
