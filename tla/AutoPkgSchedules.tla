-------------------------- MODULE AutoPkgSchedules --------------------------
(***************************************************************************)
(* Cron schedules of AutoPkg runs, on top of AutoPkgRuns:                  *)
(* services/autopkg_schedule.py and the schedule routes.                   *)
(*                                                                         *)
(* The scheduler loop and the webhook do the same: they list the schedules *)
(* that are due, and fire them one after the other, each in a transaction  *)
(* of its own that loads the schedule, verifies trust, dispatches the run  *)
(* and advances next_run_at.  Operators' requests are taken as atomic.     *)
(***************************************************************************)
EXTENDS AutoPkgRuns

CONSTANTS
    Firer,     \* sessions that fire schedules: the loop of a process, the webhook
    Schedule,  \* schedule rows that may exist
    Cron,      \* cron expressions
    period,    \* each one's period
    MaxTime,   \* bound: time
    MaxEdits   \* bound: requests of operators in one behaviour

VARIABLES
    now,        \* the time
    schedules,  \* autopkg_schedule
    firers,     \* what each session that fires schedules is doing
    edits       \* operators' requests so far (a bound, not in the code)

scheduleVars == <<now, schedules, firers, edits>>
vars == <<created, runs, results, making, workers, aborts, now, schedules, firers, edits>>

\* Mutant: an occurrence that is now counts as the next one.
compute_next_run_at_FromNow(cron, start) ==
    ((start + period[cron] - 1) \div period[cron]) * period[cron]

\* The first occurrence after `start`.
compute_next_run_at(cron, start) == (start \div period[cron] + 1) * period[cron]

ScheduleRow == [enabled : BOOLEAN, cron : Cron, next_run_at : Nat]

ASSUME ScheduleAssumption ==
    /\ Firer \subseteq Creator /\ Firer \cap User = {}
    /\ period \in [Cron -> Nat \ {0}]
    /\ MaxTime \in Nat /\ MaxEdits \in Nat
    /\ None \notin ScheduleRow

FirerState ==
    [ phase : {"idle", "listed", "loaded"},
      due   : SUBSET Schedule,            \* listed and not yet fired
      sch   : Schedule \cup {None},       \* the schedule it fires
      base  : ScheduleRow \cup {None},    \* that row as it was loaded
      at    : Nat ]                       \* when it was loaded

IdleFirer == [phase |-> "idle", due |-> {}, sch |-> None, base |-> None, at |-> 0]

\* The types; a run is made for a schedule only while that is fired.
ScheduleTypeOK ==
    /\ TypeOK
    /\ now \in 0 .. MaxTime
    /\ schedules \in [Schedule -> ScheduleRow \cup {None}]
    /\ firers \in [Firer -> FirerState]
    /\ \A f \in Firer : making[f] # None => firers[f].phase = "loaded"

\* The schedules are enabled and wait for their first occurrence.
Init ==
    /\ RunInit
    /\ now = 0
    /\ \E c \in Cron : schedules = [s \in Schedule |->
          [enabled |-> TRUE, cron |-> c, next_run_at |-> compute_next_run_at(c, 0)]]
    /\ firers = [f \in Firer |-> IdleFirer]
    /\ edits = 0

Tick ==
    /\ now < MaxTime
    /\ now' = now + 1
    /\ UNCHANGED <<runVars, schedules, firers, edits>>

-----------------------------------------------------------------------------
(* fire_due_schedules and fire_schedule_by_id.                             *)

Due(s) == schedules[s] # None /\ schedules[s].enabled /\ schedules[s].next_run_at <= now

ListDue(f) ==
    LET due == {s \in Schedule : Due(s)} IN
    /\ firers[f].phase = "idle"
    /\ due # {}
    /\ firers' = [firers EXCEPT ![f].phase = "listed", ![f].due = due]
    /\ UNCHANGED <<runVars, now, schedules, edits>>

\* The session is through with schedule s.
Through(f, s) ==
    IF firers[f].due \subseteq {s} THEN IdleFirer
    ELSE [IdleFirer EXCEPT !.phase = "listed", !.due = firers[f].due \ {s}]

\* Mutant: the schedule is not looked at again.
MayFire_AsListed(s) == schedules[s] # None

\* Whether it is still due is not asked.
MayFire(s) == schedules[s] # None /\ schedules[s].enabled

\* The schedule is loaded; one that is gone or disabled is left alone.
LoadSchedule(f, s) ==
    /\ firers[f].phase = "listed" /\ s \in firers[f].due
    /\ firers' = [firers EXCEPT ![f] =
                    IF MayFire(s) THEN [@ EXCEPT !.phase = "loaded", !.sch = s,
                                                 !.base = schedules[s], !.at = now]
                    ELSE Through(f, s)]
    /\ UNCHANGED <<runVars, now, schedules, edits>>

\* The trust of a recipe is verified, the run is created and dispatched; a
\* schedule that is gone fails the foreign key.
Fire(f) ==
    /\ firers[f].phase = "loaded"
    /\ schedules[firers[f].sch] # None
    /\ Create(f)
    /\ UNCHANGED scheduleVars

\* The column written at commit, unless it is the one that was loaded.
Advanced(f, row) ==
    LET base == firers[f].base
        next == compute_next_run_at(base.cron, firers[f].at)
    IN  IF next = base.next_run_at THEN row ELSE [row EXCEPT !.next_run_at = next]

Advance(f) ==
    LET s == firers[f].sch IN
    /\ schedules[s] # None
    /\ schedules' = [schedules EXCEPT ![s] = Advanced(f, @)]
    /\ firers' = [firers EXCEPT ![f] = Through(f, s)]
    /\ UNCHANGED <<now, edits>>

CommitFire(f) == CommitRun(f) /\ Advance(f)

\* No recipe may run.
FireNothing(f) ==
    /\ firers[f].phase = "loaded" /\ making[f] = None
    /\ Advance(f)
    /\ UNCHANGED runVars

\* An exception ends the transaction, the other schedules are fired all the same.
RollbackFire(f) ==
    /\ RollbackRun(f)
    /\ firers' = [firers EXCEPT ![f] = Through(f, firers[f].sch)]
    /\ UNCHANGED <<now, schedules, edits>>

\* The schedule has been deleted: no row to update.
FireGone(f) ==
    /\ firers[f].phase = "loaded"
    /\ schedules[firers[f].sch] = None
    /\ firers' = [firers EXCEPT ![f] = Through(f, firers[f].sch)]
    /\ UNCHANGED <<runVars, now, schedules, edits>>

Firing(f) ==
    \/ ListDue(f) \/ \E s \in Schedule : LoadSchedule(f, s)
    \/ Fire(f) \/ CommitFire(f) \/ FireNothing(f) \/ FireGone(f)

-----------------------------------------------------------------------------
(* Operators: the schedule routes.                                         *)

Edit(s, row) ==
    /\ edits < MaxEdits
    /\ edits' = edits + 1
    /\ schedules' = [schedules EXCEPT ![s] = row]
    /\ UNCHANGED <<runVars, now, firers>>

CreateSchedule(s, c) ==
    /\ schedules[s] = None
    /\ Edit(s, [enabled |-> TRUE, cron |-> c, next_run_at |-> compute_next_run_at(c, now)])

\* update_schedule with enabled: next_run_at is set when it is enabled again.
SetEnabled(s, on) ==
    /\ schedules[s] # None
    /\ schedules[s].enabled # on
    /\ Edit(s, IF on THEN [schedules[s] EXCEPT !.enabled = TRUE,
                             !.next_run_at = compute_next_run_at(schedules[s].cron, now)]
               ELSE [schedules[s] EXCEPT !.enabled = FALSE])

\* update_schedule with cron_expression: next_run_at is set of an enabled schedule.
SetCron(s, c) ==
    /\ schedules[s] # None
    /\ Edit(s, IF schedules[s].enabled
               THEN [schedules[s] EXCEPT !.cron = c, !.next_run_at = compute_next_run_at(c, now)]
               ELSE [schedules[s] EXCEPT !.cron = c])

\* delete_schedule waits for a firing that refers to the row.
DeleteSchedule(s) ==
    /\ schedules[s] # None
    /\ \A f \in Firer : firers[f].sch = s => making[f] = None
    /\ Edit(s, None)

Operator ==
    \E s \in Schedule :
        \/ \E c \in Cron : CreateSchedule(s, c) \/ SetCron(s, c)
        \/ \E on \in BOOLEAN : SetEnabled(s, on)
        \/ DeleteSchedule(s)

Next ==
    \/ Trigger /\ UNCHANGED scheduleVars
    \/ Work /\ UNCHANGED scheduleVars
    \/ \E f \in Firer : Firing(f) \/ RollbackFire(f)
    \/ Operator
    \/ Tick

Spec == Init /\ [][Next]_vars

\* The scheduler loop wakes every minute (autopkg_schedule.py:140), time passes.
FairSpec ==
    /\ Spec /\ PollersPoll
    /\ \A f \in Firer : WF_vars(Firing(f))
    /\ WF_vars(Tick)

-----------------------------------------------------------------------------
(* Properties.                                                             *)

\* Firing is not lost: whatever overlaps, fails or is edited, an enabled schedule
\* that is due does not stay due, as long as there are run ids to give out
\* (fire_due_schedules; a firing that fails is tried again).
DueIsServed ==
    \A s \in Schedule : Due(s) ~> ~Due(s) \/ created = MaxRuns

\* A run of a schedule that an operator has disabled is created only by a firing
\* that had loaded the schedule before (autopkg_schedule.py:61).
DisabledIsNotFired ==
    \A f \in Firer : making[f] # None => firers[f].base.enabled

=============================================================================
