----------------------- MODULE AutoPkgSchedulesProofs -----------------------
(***************************************************************************)
(* Theorems about AutoPkgSchedules, for any schedules, cron periods,       *)
(* firers and bounds.  What holds of runs holds as well when schedules     *)
(* create them: the lemmas of AutoPkgRunsProofs are about any creator.     *)
(***************************************************************************)
EXTENDS AutoPkgSchedules, AutoPkgRunsProofs

-----------------------------------------------------------------------------
(* The inductive invariant.                                                *)

\* A schedule that is being fired was enabled when it was loaded.
FiringInv(f) ==
    firers[f].phase = "loaded" => /\ firers[f].sch \in Schedule
                                  /\ firers[f].base \in ScheduleRow
                                  /\ firers[f].base.enabled

\* A run that is flushed refers to its schedule, which a deletion waits for.
Refers(f) ==
    making[f] # None => schedules[firers[f].sch] # None

SInv ==
    /\ IInv
    /\ ScheduleTypeOK
    /\ \A f \in Firer : FiringInv(f) /\ Refers(f)

-----------------------------------------------------------------------------
\* The next occurrence is a time.
LEMMA NextRunType ==
    ASSUME NEW c \in Cron, NEW t \in Nat
    PROVE  compute_next_run_at(c, t) \in Nat
<1>1. PICK p \in Nat \ {0} : p = period[c]
  BY ScheduleAssumption
<1>2. t \div p \in Nat
  BY <1>1
<1>3. \A n, m \in Nat : n * m \in Nat
  OBVIOUS
<1> QED
  BY <1>1, <1>2, <1>3 DEF compute_next_run_at

LEMMA InitSInv == Init => SInv
<1> SUFFICES ASSUME Init PROVE SInv
  OBVIOUS
<1>1. IInv /\ TypeOK
  BY InitIInv DEF Init, IInv
<1>2. schedules \in [Schedule -> ScheduleRow \cup {None}]
  BY NextRunType DEF Init, ScheduleRow
<1>3. firers \in [Firer -> FirerState] /\ \A f \in Firer : firers[f].phase = "idle" /\ making[f] = None
  BY ScheduleAssumption DEF Init, RunInit, IdleFirer, FirerState
<1>4. now \in 0 .. MaxTime
  BY ScheduleAssumption DEF Init
<1>5. \A f \in Firer : FiringInv(f) /\ Refers(f)
  BY <1>3 DEF FiringInv, Refers
<1> QED
  BY <1>1, <1>2, <1>3, <1>4, <1>5 DEF SInv, ScheduleTypeOK

\* A step of users, jobs and Macs leaves what firers have flushed alone.
LEMMA RunStepKeeps ==
    ASSUME SInv, Trigger \/ Work, UNCHANGED scheduleVars
    PROVE  SInv'
<1>1. IInv'
  <2>1. Step
    BY RunAssumption DEF Trigger, Step
  <2> QED
    BY <2>1, StepIInv DEF SInv
<1>2. \A f \in Firer : making'[f] = making[f]
  <2>1. CASE Work
    BY <2>1 DEF Work, Proceed, Claim, Claimed, Register, Build, GiveUp, Report, ReportBreaks,
       LoadForComplete, CommitComplete, LoadForFail, CommitFail, ClaimRefused, ClaimLost, Restart,
       ReportLost, CompleteLost, Lost, StartScript
  <2>2. ASSUME NEW c \in User, Create(c) \/ CommitRun(c) \/ RollbackRun(c), NEW f \in Firer
        PROVE  making'[f] = making[f]
    <3>1. c # f /\ making \in [Creator -> [run : Run, row : Row] \cup {None}] /\ f \in Creator
      BY ScheduleAssumption DEF SInv, ScheduleTypeOK, TypeOK
    <3> QED
      BY <2>2, <3>1 DEF Create, CommitRun, RollbackRun
  <2> QED
    BY <2>1, <2>2 DEF Trigger
<1> QED
  BY <1>1, <1>2 DEF SInv, ScheduleTypeOK, FiringInv, Refers, scheduleVars, IInv

\* A session that is through with a schedule has nothing loaded.
LEMMA ThroughType ==
    ASSUME SInv, NEW f \in Firer, NEW s
    PROVE  Through(f, s) \in FirerState /\ Through(f, s).phase \in {"idle", "listed"}
<1>1. firers[f].due \in SUBSET Schedule
  BY DEF SInv, ScheduleTypeOK, FirerState
<1> QED
  BY <1>1 DEF Through, IdleFirer, FirerState

\* What an action of firer f that leaves the runs to StepIInv has to show.
LEMMA FirerKeeps ==
    ASSUME SInv, NEW f \in Firer, NEW x \in FirerState, firers' = [firers EXCEPT ![f] = x],
           now' = now, schedules' \in [Schedule -> ScheduleRow \cup {None}],
           \A s \in Schedule : schedules[s] # None => schedules'[s] # None,
           [Step]_runVars,
           \A g \in Firer \ {f} : making'[g] = making[g],
           making'[f] # None => x.phase = "loaded" /\ schedules'[x.sch] # None,
           x.phase = "loaded" => x.sch \in Schedule /\ x.base \in ScheduleRow /\ x.base.enabled
    PROVE  SInv'
<1>1. IInv' /\ TypeOK'
  BY StepIInv DEF SInv, IInv
<1>2. \A g \in Firer : firers'[g] = IF g = f THEN x ELSE firers[g]
  BY DEF SInv, ScheduleTypeOK
<1>3. \A g \in Firer \ {f} : making[g] # None => firers[g].sch \in Schedule
  BY DEF SInv, ScheduleTypeOK, FiringInv
<1>4. firers' \in [Firer -> FirerState] /\ now' \in 0 .. MaxTime
  BY DEF SInv, ScheduleTypeOK
<1>5. \A g \in Firer : FiringInv(g)'
  BY <1>2 DEF SInv, FiringInv
<1>6. \A g \in Firer : Refers(g)' /\ (making'[g] # None => firers'[g].phase = "loaded")
  BY <1>2, <1>3 DEF SInv, ScheduleTypeOK, Refers
<1> QED
  BY <1>1, <1>4, <1>5, <1>6 DEF SInv, ScheduleTypeOK

\* The row of a schedule as a firing leaves it.
LEMMA AdvanceType ==
    ASSUME SInv, NEW f \in Firer, firers[f].phase = "loaded", Advance(f)
    PROVE  /\ schedules' \in [Schedule -> ScheduleRow \cup {None}]
           /\ \A s \in Schedule : schedules[s] # None => schedules'[s] # None
<1> DEFINE s == firers[f].sch
           next == compute_next_run_at(firers[f].base.cron, firers[f].at)
<1>1. s \in Schedule /\ schedules[s] \in ScheduleRow
  BY DEF SInv, ScheduleTypeOK, FiringInv, Advance
<1>2. next \in Nat
  <2>1. firers[f].base.cron \in Cron /\ firers[f].at \in Nat
    BY DEF SInv, ScheduleTypeOK, FiringInv, FirerState, ScheduleRow
  <2> QED
    BY <2>1, NextRunType
<1>3. Advanced(f, schedules[s]) = schedules[s] \/
      Advanced(f, schedules[s]) = [schedules[s] EXCEPT !.next_run_at = next]
  BY DEF Advanced
<1> HIDE DEF next
<1>4. Advanced(f, schedules[s]) \in ScheduleRow
  BY <1>1, <1>2, <1>3 DEF ScheduleRow
<1>5. schedules' = [schedules EXCEPT ![s] = Advanced(f, schedules[s])]
  BY DEF Advance
<1> HIDE DEF s
<1> QED
  BY <1>1, <1>4, <1>5, ScheduleAssumption DEF SInv, ScheduleTypeOK

\* The runs of a firing: f is one of the sessions that create runs.
LEMMA FirersCreate ==
    ASSUME SInv, NEW f \in Firer
    PROVE  /\ f \in Creator
           /\ Create(f) \/ CommitRun(f) \/ RollbackRun(f) =>
                 /\ Step
                 /\ \A g \in Firer \ {f} : making'[g] = making[g]
           /\ CommitRun(f) \/ RollbackRun(f) => making[f] # None /\ making'[f] = None
<1>1. f \in Creator /\ \A g \in Firer : g \in Creator
  BY ScheduleAssumption
<1>2. making \in [Creator -> [run : Run, row : Row] \cup {None}]
  BY DEF SInv, ScheduleTypeOK, TypeOK
<1>3. Create(f) \/ CommitRun(f) \/ RollbackRun(f) => \A g \in Firer \ {f} : making'[g] = making[g]
  BY <1>1, <1>2 DEF Create, CommitRun, RollbackRun
<1>4. CommitRun(f) \/ RollbackRun(f) => making[f] # None /\ making'[f] = None
  BY <1>1, <1>2 DEF CommitRun, RollbackRun
<1> QED
  BY <1>1, <1>3, <1>4 DEF Step

LEMMA FiringKeeps ==
    ASSUME SInv, NEW f \in Firer, Firing(f) \/ RollbackFire(f)
    PROVE  SInv'
<1>1. /\ firers[f] \in FirerState /\ now \in Nat
      /\ schedules \in [Schedule -> ScheduleRow \cup {None}]
      /\ making[f] # None => firers[f].phase = "loaded"
  BY ScheduleAssumption DEF SInv, ScheduleTypeOK
<1>2. CASE ListDue(f)
  <2> DEFINE due == {s \in Schedule : Due(s)}
             x == [firers[f] EXCEPT !.phase = "listed", !.due = due]
  <2>1. x \in FirerState /\ x.phase = "listed"
    BY <1>1 DEF FirerState
  <2>2. firers' = [firers EXCEPT ![f] = x]
    BY <1>1, <1>2 DEF ListDue, SInv, ScheduleTypeOK, FirerState
  <2> HIDE DEF x, due
  <2>3. making[f] = None
    BY <1>1, <1>2 DEF ListDue
  <2> QED
    BY <1>1, <1>2, <2>1, <2>2, <2>3, FirerKeeps DEF ListDue, runVars
<1>3. ASSUME NEW s \in Schedule, LoadSchedule(f, s) PROVE SInv'
  <2>1. making[f] = None
    BY <1>1, <1>3 DEF LoadSchedule
  <2>2. CASE MayFire(s)
    <3> DEFINE x == [firers[f] EXCEPT !.phase = "loaded", !.sch = s, !.base = schedules[s], !.at = now]
    <3>1. schedules[s] \in ScheduleRow /\ schedules[s].enabled
      BY <1>1, <2>2 DEF MayFire
    <3>2. x \in FirerState /\ x.sch = s /\ x.base = schedules[s]
      BY <1>1, <3>1 DEF FirerState
    <3>3. firers' = [firers EXCEPT ![f] = x]
      BY <1>3, <2>2 DEF LoadSchedule, SInv, ScheduleTypeOK
    <3> HIDE DEF x
    <3> QED
      BY <1>1, <1>3, <2>1, <3>1, <3>2, <3>3, FirerKeeps DEF LoadSchedule, runVars
  <2>3. CASE ~MayFire(s)
    <3>1. firers' = [firers EXCEPT ![f] = Through(f, s)]
      BY <1>3, <2>3 DEF LoadSchedule
    <3> QED
      BY <1>1, <1>3, <2>1, <3>1, ThroughType, FirerKeeps DEF LoadSchedule, runVars
  <2> QED
    BY <2>2, <2>3
<1>4. CASE Fire(f)
  <2>1. firers' = [firers EXCEPT ![f] = firers[f]]
    BY <1>4 DEF Fire, scheduleVars, SInv, ScheduleTypeOK
  <2>2. Step /\ \A g \in Firer \ {f} : making'[g] = making[g]
    BY <1>4, FirersCreate DEF Fire
  <2>3. FiringInv(f)
    BY DEF SInv
  <2> QED
    BY <1>1, <1>4, <2>1, <2>2, <2>3, FirerKeeps DEF Fire, scheduleVars, FiringInv
<1>5. ASSUME Advance(f), firers[f].phase = "loaded", [Step]_runVars, making'[f] = None,
             \A g \in Firer \ {f} : making'[g] = making[g]
      PROVE  SInv'
  BY <1>5, AdvanceType, ThroughType, FirerKeeps DEF Advance
<1>6. CASE CommitFire(f)
  BY <1>1, <1>5, <1>6, FirersCreate DEF CommitFire
<1>7. CASE FireNothing(f)
  BY <1>5, <1>7 DEF FireNothing, runVars
<1>8. CASE FireGone(f)
  <2>1. making[f] = None
    BY <1>8 DEF FireGone, SInv, Refers
  <2> QED
    BY <1>1, <1>8, <2>1, ThroughType, FirerKeeps DEF FireGone, runVars
<1>9. CASE RollbackFire(f)
  BY <1>1, <1>9, ThroughType, FirersCreate, FirerKeeps DEF RollbackFire
<1> QED
  BY <1>2, <1>3, <1>4, <1>6, <1>7, <1>8, <1>9 DEF Firing

\* A request of an operator writes one row; it does not take a row away from a
\* firing that refers to it.
LEMMA EditKeeps ==
    ASSUME SInv, NEW s \in Schedule, NEW row \in ScheduleRow \cup {None}, Edit(s, row),
           row = None => \A f \in Firer : firers[f].sch = s => making[f] = None
    PROVE  SInv'
<1>1. /\ UNCHANGED <<runVars, now, firers>>
      /\ schedules' = [schedules EXCEPT ![s] = row]
      /\ schedules \in [Schedule -> ScheduleRow \cup {None}]
  BY DEF Edit, SInv, ScheduleTypeOK
<1>2. IInv' /\ TypeOK'
  BY <1>1, StepIInv DEF SInv, IInv
<1>3. schedules' \in [Schedule -> ScheduleRow \cup {None}]
  BY <1>1
<1>4. ASSUME NEW f \in Firer PROVE FiringInv(f)' /\ Refers(f)'
  <2>1. FiringInv(f) /\ Refers(f) /\ making' = making /\ firers' = firers
    BY <1>1 DEF SInv, runVars
  <2>2. making[f] # None => firers[f].sch \in Schedule
    BY <2>1 DEF SInv, ScheduleTypeOK, FiringInv
  <2> QED
    BY <1>1, <2>1, <2>2 DEF FiringInv, Refers
<1> QED
  BY <1>1, <1>2, <1>3, <1>4 DEF SInv, ScheduleTypeOK, runVars

LEMMA OperatorKeeps ==
    ASSUME SInv, Operator
    PROVE  SInv'
<1>1. now \in Nat /\ schedules \in [Schedule -> ScheduleRow \cup {None}]
  BY ScheduleAssumption DEF SInv, ScheduleTypeOK
<1>2. ASSUME NEW s \in Schedule, NEW c \in Cron, CreateSchedule(s, c) PROVE SInv'
  <2>1. [enabled |-> TRUE, cron |-> c, next_run_at |-> compute_next_run_at(c, now)] \in ScheduleRow
    BY <1>1, NextRunType DEF ScheduleRow
  <2> QED
    BY <1>2, <2>1, ScheduleAssumption, EditKeeps DEF CreateSchedule
<1>3. ASSUME NEW s \in Schedule, NEW c \in Cron, SetCron(s, c) PROVE SInv'
  <2>1. schedules[s] \in ScheduleRow /\ compute_next_run_at(c, now) \in Nat
    BY <1>1, <1>3, NextRunType DEF SetCron
  <2>2. /\ [schedules[s] EXCEPT !.cron = c, !.next_run_at = compute_next_run_at(c, now)] \in ScheduleRow
        /\ [schedules[s] EXCEPT !.cron = c] \in ScheduleRow
    BY <2>1 DEF ScheduleRow
  <2> QED
    BY <1>3, <2>2, ScheduleAssumption, EditKeeps DEF SetCron
<1>4. ASSUME NEW s \in Schedule, NEW on \in BOOLEAN, SetEnabled(s, on) PROVE SInv'
  <2>1. schedules[s] \in ScheduleRow /\ schedules[s].cron \in Cron
    BY <1>1, <1>4 DEF SetEnabled, ScheduleRow
  <2>2. compute_next_run_at(schedules[s].cron, now) \in Nat
    BY <1>1, <2>1, NextRunType
  <2>3. /\ [schedules[s] EXCEPT !.enabled = TRUE,
              !.next_run_at = compute_next_run_at(schedules[s].cron, now)] \in ScheduleRow
        /\ [schedules[s] EXCEPT !.enabled = FALSE] \in ScheduleRow
    BY <2>1, <2>2 DEF ScheduleRow
  <2> QED
    BY <1>4, <2>3, ScheduleAssumption, EditKeeps DEF SetEnabled
<1>5. ASSUME NEW s \in Schedule, DeleteSchedule(s) PROVE SInv'
  BY <1>5, EditKeeps DEF DeleteSchedule
<1> QED
  BY <1>2, <1>3, <1>4, <1>5 DEF Operator

LEMMA NextSInv ==
    ASSUME SInv, [Next]_vars
    PROVE  SInv'
<1>1. CASE UNCHANGED <<runVars, now, schedules, firers>>
  <2>1. IInv' /\ TypeOK'
    BY <1>1, StepIInv DEF SInv, IInv
  <2> QED
    BY <1>1, <2>1 DEF SInv, ScheduleTypeOK, FiringInv, Refers, runVars
<1>2. CASE Tick
  <2>1. IInv' /\ TypeOK'
    BY <1>2, StepIInv DEF SInv, IInv, Tick
  <2>2. now' \in 0 .. MaxTime
    BY <1>2, ScheduleAssumption DEF Tick, SInv, ScheduleTypeOK
  <2> QED
    BY <1>2, <2>1, <2>2 DEF SInv, ScheduleTypeOK, FiringInv, Refers, runVars, Tick
<1>3. CASE UNCHANGED vars
  BY <1>1, <1>3 DEF vars, runVars
<1> QED
  BY <1>2, <1>3, RunStepKeeps, FiringKeeps, OperatorKeeps DEF Next

LEMMA SInvHolds == Spec => []SInv
<1> QED
  BY InitSInv, NextSInv, PTL DEF Spec

-----------------------------------------------------------------------------
(* The theorems.                                                           *)

\* The schedules, and what firers have loaded, keep their types; only a firing that
\* has its schedule loaded has a run flushed, also when the schedule is edited or
\* deleted meanwhile.
THEOREM ScheduleTypesHold == Spec => []ScheduleTypeOK
<1>1. SInv => ScheduleTypeOK
  BY DEF SInv
<1> QED
  BY <1>1, SInvHolds, PTL

\* Whatever is edited between the listing of the due schedules and each firing, a run
\* is made for a schedule only if it was enabled when that firing loaded it
\* (autopkg_schedule.py:61).
THEOREM DisabledNotFired == Spec => []DisabledIsNotFired
<1>1. SInv => DisabledIsNotFired
  BY DEF SInv, ScheduleTypeOK, FiringInv, DisabledIsNotFired
<1> QED
  BY <1>1, SInvHolds, PTL

\* The claims on runs also hold when schedules create them: one execution of each, and
\* the history that RunLifecycle promises.
THEOREM ScheduledRunsKeepTheirs == Spec => []OneExecution /\ HistoryKept
<1>1. SInv => IInv
  BY DEF SInv
<1>2. Init => History!Init
  BY DEF Init, RunInit, History!Init, Exists
<1>3. SInv /\ [Next]_vars => [Step]_runVars
  BY RunAssumption, FirersCreate DEF Next, Trigger, Step, Firing, ListDue, LoadSchedule, Fire, CommitFire,
     FireNothing, FireGone, RollbackFire, Operator, CreateSchedule, SetCron, SetEnabled, DeleteSchedule,
     Edit, Tick, vars, runVars
<1>4. SInv /\ [Next]_vars => [History!Next]_(History!vars)
  BY <1>1, <1>3, StepInHistory
<1> QED
  BY <1>1, <1>2, <1>4, OneExecutionInv, SInvHolds, PTL DEF Spec, HistoryKept, History!Spec
=============================================================================
