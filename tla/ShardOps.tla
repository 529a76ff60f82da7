------------------------------ MODULE ShardOps ------------------------------
(***************************************************************************)
(* The pure part of services/shard_rollout.py: what each service function  *)
(* does to the rollout columns of one munki_pkginfo row.  A row is the     *)
(* record of those columns; the state machines that load and store rows    *)
(* are ShardRollout and Promotion.                                         *)
(*                                                                         *)
(* The condition "shard <= N" is the number N; Custom stands for any other *)
(* installable_condition an operator writes.  Days are whole UTC days, as  *)
(* compute_shard_percent compares dates.                                   *)
(***************************************************************************)
EXTENDS Integers

CONSTANTS
    None,       \* SQL NULL
    Custom      \* an installable_condition that is not of the form shard <= N

ASSUME NullAssumption == None \notin Int /\ Custom \notin Int /\ None # Custom

ShardRolloutStatus ==
    {"none", "pending_approval", "active", "complete", "paused", "skipped"}

NetNewShardPolicy == {"skip_until_approved", "immediate_full", "same_as_upgrades"}

ShardOverride == {"pause", "force_complete"}

Percent == 0 .. 100

Condition == Percent \cup {None, Custom}

Row == [ shard_rollout_status   : ShardRolloutStatus,
         shard_started_at       : Nat \cup {None},
         shard_percent          : Percent \cup {None},
         shard_percent_override : Percent \cup {None},
         shard_override         : ShardOverride \cup {None},
         installable_condition  : Condition,
         is_deleted             : BOOLEAN ]

\* The workflow preferences row (id = 1).  The schema restricts the days.
Preferences == [ enabled : BOOLEAN, days : 1 .. 30, policy : NetNewShardPolicy ]

\* The column defaults of a freshly inserted row.
FreshRow == [ shard_rollout_status   |-> "none",
              shard_started_at       |-> None,
              shard_percent          |-> None,
              shard_percent_override |-> None,
              shard_override         |-> None,
              installable_condition  |-> None,
              is_deleted             |-> FALSE ]

-----------------------------------------------------------------------------

\* Mutant: the clamp to 100 forgotten.
compute_shard_percent_Unclamped(started, days, now) ==
    (100 * (now - started + 1)) \div days

\* int(100.0 / days * day) equals the integer quotient for every days in 1..30
\* and every day up to it; the result is clamped to 0..100.
compute_shard_percent(started, days, now) ==
    LET total == (100 * (now - started + 1)) \div days
    IN  IF total > 100 THEN 100 ELSE IF total < 0 THEN 0 ELSE total

installable_condition_for_percent(percent) == IF percent >= 100 THEN None ELSE percent

ApplyShardFields(row, status, started, percent, condition) ==
    [row EXCEPT !.shard_rollout_status  = status,
                !.shard_started_at      = started,
                !.shard_percent         = percent,
                !.installable_condition = condition]

\* apply_shard_percent_to_pkg: reaching 100 completes and drops both overrides.
ApplyShardPercent(row, percent) ==
    LET applied == [row EXCEPT
                      !.shard_percent         = percent,
                      !.installable_condition = installable_condition_for_percent(percent)]
    IN  IF percent < 100 THEN applied
        ELSE [applied EXCEPT !.shard_rollout_status   = "complete",
                             !.shard_percent_override = None,
                             !.shard_override         = None]

\* The rollout that begins on day `started`, as it stands on day `now`.
ScheduledRow(row, started, days, now) ==
    LET percent == compute_shard_percent(started, days, now)
    IN  ApplyShardFields(row, IF percent >= 100 THEN "complete" ELSE "active",
                         started, percent, installable_condition_for_percent(percent))

-----------------------------------------------------------------------------
(* init_shard_rollout.  inProduction is what the session's loaded          *)
(* collection PkgInfo.catalogs says; entered and netNew are fresh queries. *)

ResetRow(row) ==
    IF row.shard_rollout_status = "paused" THEN row
    ELSE [ApplyShardFields(row, "none", None, None, None) EXCEPT !.shard_override = None]

init_shard_rollout(row, inProduction, entered, netNew, prefs, now) ==
    LET started == IF entered = None THEN now ELSE entered
    IN  CASE ~inProduction -> ResetRow(row)
          [] inProduction /\ ~prefs.enabled ->
               [ApplyShardFields(row, "skipped", None, 100, None)
                  EXCEPT !.shard_override = None]
          [] inProduction /\ prefs.enabled /\ row.shard_override = "force_complete" -> row
          [] OTHER ->
               IF netNew /\ prefs.policy = "skip_until_approved"
               THEN ApplyShardFields(row, "pending_approval", None, None, None)
               ELSE IF netNew /\ prefs.policy = "immediate_full"
               THEN [ApplyShardFields(row, "complete", started, 100, None)
                       EXCEPT !.shard_override = None]
               ELSE LET scheduled == ScheduledRow(row, started, prefs.days, now)
                    IN  IF scheduled.shard_rollout_status = "complete"
                        THEN [scheduled EXCEPT !.shard_override = None]
                        ELSE scheduled

\* maybe_init_shard_after_catalog_change
maybe_init_shard(row, inProduction, entered, netNew, prefs, now) ==
    IF row.is_deleted THEN row
    ELSE init_shard_rollout(row, inProduction, entered, netNew, prefs, now)

-----------------------------------------------------------------------------
(* The operator's requests.                                                *)

\* Mutant: the rollout is started with the start day it had.
start_shard_rollout_KeepsStart(row, prefs, now) ==
    [ScheduledRow(row, now, prefs.days, now) EXCEPT
        !.shard_override = None, !.shard_started_at = row.shard_started_at]

start_shard_rollout(row, prefs, now) ==
    [ScheduledRow(row, now, prefs.days, now) EXCEPT !.shard_override = None]

pause_shard_rollout(row) ==
    [row EXCEPT !.shard_rollout_status = "paused", !.shard_override = "pause"]

complete_shard_rollout(row, now) ==
    [ApplyShardFields(row, "complete",
                      IF row.shard_started_at = None THEN now ELSE row.shard_started_at,
                      100, None)
       EXCEPT !.shard_percent_override = None, !.shard_override = "force_complete"]

\* set_shard_percent_override with shard_percent None
clear_shard_percent_override(row, prefs, now) ==
    LET cleared == [row EXCEPT !.shard_percent_override = None]
    IN  IF row.shard_started_at = None
        THEN [cleared EXCEPT !.shard_percent = None, !.installable_condition = None]
        ELSE LET percent == compute_shard_percent(row.shard_started_at, prefs.days, now)
                 applied == ApplyShardPercent(cleared, percent)
             IN  IF percent < 100 /\ applied.shard_rollout_status = "complete"
                 THEN [applied EXCEPT !.shard_rollout_status = "active"]
                 ELSE applied

\* Mutant: the pin activates a rollout and forgets its start day.
set_shard_percent_override_NoStart(row, percent, now) ==
    LET applied == ApplyShardPercent([row EXCEPT !.shard_percent_override = percent], percent)
    IN  IF percent < 100 /\ applied.shard_rollout_status \in {"none", "pending_approval", "paused"}
        THEN [applied EXCEPT !.shard_rollout_status = "active"]
        ELSE applied

\* set_shard_percent_override with a number
set_shard_percent_override(row, percent, now) ==
    LET applied == ApplyShardPercent([row EXCEPT !.shard_percent_override = percent], percent)
    IN  IF percent < 100 /\ applied.shard_rollout_status \in {"none", "pending_approval", "paused"}
        THEN [applied EXCEPT
                !.shard_rollout_status = "active",
                !.shard_started_at = IF row.shard_started_at = None THEN now
                                     ELSE row.shard_started_at]
        ELSE applied

\* The rollout side of PATCH /pkginfo/{id} with an installable_condition.
edit_installable_condition(row, condition) ==
    [row EXCEPT !.installable_condition = condition,
                !.shard_rollout_status  = "paused",
                !.shard_override        = "pause"]

-----------------------------------------------------------------------------
(* The daily tick.                                                         *)

\* Mutant: the tick does not look at the operator's hold.
Tickable_HoldIgnored(row, inProduction) ==
    /\ row.shard_percent_override = None
    /\ row.shard_rollout_status = "active"
    /\ row.shard_started_at # None
    /\ inProduction

Tickable(row, inProduction) ==
    /\ row.shard_override \notin {"pause", "force_complete"}
    /\ row.shard_percent_override = None
    /\ row.shard_rollout_status = "active"
    /\ row.shard_started_at # None
    /\ inProduction

\* Mutant: the tick moves the percent on and forgets the condition.
tick_one_pkg_PercentOnly(row, inProduction, prefs, now) ==
    IF ~Tickable(row, inProduction) THEN row
    ELSE LET percent == compute_shard_percent(row.shard_started_at, prefs.days, now)
         IN  [row EXCEPT !.shard_percent = percent,
                         !.shard_rollout_status = IF percent >= 100 THEN "complete" ELSE @]

tick_one_pkg(row, inProduction, prefs, now) ==
    IF ~Tickable(row, inProduction) THEN row
    ELSE LET percent == compute_shard_percent(row.shard_started_at, prefs.days, now)
             ticked  == [row EXCEPT
                           !.shard_percent         = percent,
                           !.installable_condition = installable_condition_for_percent(percent)]
         IN  IF percent >= 100
             THEN [ticked EXCEPT !.shard_rollout_status = "complete", !.shard_override = None]
             ELSE ticked

-----------------------------------------------------------------------------
(* What build_shard_status and the repository tell people.                 *)

effective_shard_percent(row, prefs, now) ==
    IF row.shard_percent_override # None THEN row.shard_percent_override
    ELSE IF row.shard_started_at = None THEN None
    ELSE compute_shard_percent(row.shard_started_at, prefs.days, now)

derive_deployment_status(row, inProduction, percent) ==
    IF ~inProduction THEN "not_in_production"
    ELSE CASE row.shard_rollout_status = "paused" -> "paused"
           [] row.shard_rollout_status = "pending_approval" -> "pending_rollout"
           [] row.shard_rollout_status = "active" /\ (percent = None \/ percent < 100) -> "sharding"
           [] OTHER -> "fully_deployed"

\* deployment_status as build_shard_status reports it
ReportedStatus(row, inProduction, prefs, now) ==
    LET effective == effective_shard_percent(row, prefs, now)
    IN  derive_deployment_status(row, inProduction,
                                 IF effective = None THEN row.shard_percent ELSE effective)
=============================================================================
