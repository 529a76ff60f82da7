------------------------- MODULE ShardRolloutProofs -------------------------
(***************************************************************************)
(* Theorems about ShardRollout, for any packages, sessions, days and       *)
(* preferences.                                                            *)
(***************************************************************************)
EXTENDS ShardRollout, TLAPS

-----------------------------------------------------------------------------
(* What the service functions return.                                      *)

LEMMA PercentType ==
    ASSUME NEW started \in Nat, NEW days \in 1 .. 30, NEW now \in Nat
    PROVE  compute_shard_percent(started, days, now) \in Percent
<1> DEFINE total == (100 * (now - started + 1)) \div days
<1>1. total \in Int
  OBVIOUS
<1> HIDE DEF total
<1> QED
  BY <1>1 DEF compute_shard_percent, Percent, total

LEMMA ConditionType ==
    ASSUME NEW percent \in Percent
    PROVE  installable_condition_for_percent(percent) \in Condition
  BY DEF installable_condition_for_percent, Percent, Condition

LEMMA FieldsType ==
    ASSUME NEW row \in Row, NEW status \in ShardRolloutStatus, NEW started \in Nat \cup {None},
           NEW percent \in Percent \cup {None}, NEW condition \in Condition
    PROVE  LET applied == ApplyShardFields(row, status, started, percent, condition)
           IN  /\ applied \in Row
               /\ applied.shard_rollout_status = status
               /\ applied.shard_started_at = started
  BY DEF ApplyShardFields, Row

\* The overrides of a row may be cleared or set.
LEMMA OverrideType ==
    ASSUME NEW row \in Row, NEW hold \in ShardOverride \cup {None},
           NEW pinned \in Percent \cup {None}
    PROVE  /\ [row EXCEPT !.shard_override = hold] \in Row
           /\ [row EXCEPT !.shard_percent_override = pinned] \in Row
           /\ [row EXCEPT !.shard_percent_override = pinned, !.shard_override = hold] \in Row
  BY DEF Row

LEMMA Hundred == 100 \in Percent /\ None \in Condition
  BY DEF Percent, Condition

\* A rollout scheduled from a day on is a row, and active only with that start.
LEMMA ScheduledType ==
    ASSUME NEW row \in Row, NEW started \in Nat, NEW days \in 1 .. 30, NEW now \in Nat
    PROVE  /\ ScheduledRow(row, started, days, now) \in Row
           /\ ScheduledRow(row, started, days, now).shard_started_at = started
<1> DEFINE percent == compute_shard_percent(started, days, now)
<1>1. percent \in Percent
  BY PercentType
<1>2. installable_condition_for_percent(percent) \in Condition
  BY <1>1, ConditionType
<1> DEFINE condition == installable_condition_for_percent(percent)
           status    == IF percent >= 100 THEN "complete" ELSE "active"
<1>3. status \in ShardRolloutStatus
  BY DEF ShardRolloutStatus
<1>4. ScheduledRow(row, started, days, now) = ApplyShardFields(row, status, started, percent, condition)
  BY DEF ScheduledRow
<1> HIDE DEF percent, condition, status
<1> QED
  BY <1>1, <1>2, <1>3, <1>4, FieldsType DEF condition

LEMMA ApplyPercentType ==
    ASSUME NEW row \in Row, NEW percent \in Percent
    PROVE  ApplyShardPercent(row, percent) \in Row
<1> DEFINE condition == installable_condition_for_percent(percent)
           applied == [row EXCEPT !.shard_percent = percent, !.installable_condition = condition]
<1>1. condition \in Condition
  BY ConditionType
<1> HIDE DEF condition
<1>2. applied \in Row
  BY <1>1 DEF Row
<1>3. [applied EXCEPT !.shard_rollout_status   = "complete",
                      !.shard_percent_override = None,
                      !.shard_override         = None] \in Row
  BY <1>2 DEF Row, ShardRolloutStatus
<1> QED
  BY <1>2, <1>3 DEF ApplyShardPercent, condition

LEMMA InitType ==
    ASSUME NEW row \in Row, NEW inProduction \in BOOLEAN, NEW entered \in Nat \cup {None},
           NEW netNew \in BOOLEAN, NEW p \in Preferences, NEW now \in Nat
    PROVE  maybe_init_shard(row, inProduction, entered, netNew, p, now) \in Row
<1> DEFINE started == IF entered = None THEN now ELSE entered
           scheduled == ScheduledRow(row, started, p.days, now)
<1>1. started \in Nat
  OBVIOUS
<1>2. scheduled \in Row
  BY <1>1, ScheduledType DEF Preferences
<1>3. ResetRow(row) \in Row
  <2>1. ApplyShardFields(row, "none", None, None, None) \in Row
    BY FieldsType, Hundred DEF ShardRolloutStatus
  <2> QED
    BY <2>1, OverrideType DEF ResetRow
<1>4. [ApplyShardFields(row, "skipped", None, 100, None) EXCEPT !.shard_override = None] \in Row
  <2>1. ApplyShardFields(row, "skipped", None, 100, None) \in Row
    BY FieldsType, Hundred DEF ShardRolloutStatus
  <2> QED
    BY <2>1, OverrideType
<1>5. ApplyShardFields(row, "pending_approval", None, None, None) \in Row
  BY FieldsType, Hundred DEF ShardRolloutStatus
<1>6. [ApplyShardFields(row, "complete", started, 100, None) EXCEPT !.shard_override = None] \in Row
  <2>1. ApplyShardFields(row, "complete", started, 100, None) \in Row
    BY <1>1, FieldsType, Hundred DEF ShardRolloutStatus
  <2> QED
    BY <2>1, OverrideType
<1>7. [scheduled EXCEPT !.shard_override = None] \in Row
  BY <1>2, OverrideType
<1> HIDE DEF started, scheduled
<1>8. init_shard_rollout(row, inProduction, entered, netNew, p, now) \in Row
  BY <1>2, <1>3, <1>4, <1>5, <1>6, <1>7 DEF init_shard_rollout, started, scheduled
<1> QED
  BY <1>8 DEF maybe_init_shard

LEMMA StartType ==
    ASSUME NEW row \in Row, NEW p \in Preferences, NEW now \in Nat
    PROVE  start_shard_rollout(row, p, now) \in Row
<1>1. ScheduledRow(row, now, p.days, now) \in Row
  BY ScheduledType DEF Preferences
<1> QED
  BY <1>1, OverrideType DEF start_shard_rollout

LEMMA PauseType ==
    ASSUME NEW row \in Row, NEW condition \in Condition
    PROVE  /\ pause_shard_rollout(row) \in Row
           /\ edit_installable_condition(row, condition) \in Row
  BY DEF pause_shard_rollout, edit_installable_condition, Row, ShardRolloutStatus, ShardOverride

LEMMA CompleteType ==
    ASSUME NEW row \in Row, NEW now \in Nat
    PROVE  complete_shard_rollout(row, now) \in Row
<1> DEFINE started == IF row.shard_started_at = None THEN now ELSE row.shard_started_at
<1>1. started \in Nat \cup {None}
  BY DEF Row
<1> HIDE DEF started
<1>2. ApplyShardFields(row, "complete", started, 100, None) \in Row
  BY <1>1, FieldsType, Hundred DEF ShardRolloutStatus
<1> QED
  BY <1>2, OverrideType DEF complete_shard_rollout, started, ShardOverride

LEMMA PinType ==
    ASSUME NEW row \in Row, NEW percent \in Percent, NEW now \in Nat
    PROVE  set_shard_percent_override(row, percent, now) \in Row
<1> DEFINE pinned == [row EXCEPT !.shard_percent_override = percent]
           applied == ApplyShardPercent(pinned, percent)
<1>1. pinned \in Row
  BY DEF Row
<1>2. applied \in Row
  BY <1>1, ApplyPercentType
<1>3. row.shard_started_at \in Nat \cup {None}
  BY DEF Row
<1> DEFINE started == IF row.shard_started_at = None THEN now ELSE row.shard_started_at
<1>4. started \in Nat \cup {None}
  BY <1>3
<1>5. set_shard_percent_override(row, percent, now) \in
        {applied, [applied EXCEPT !.shard_rollout_status = "active", !.shard_started_at = started]}
  BY DEF set_shard_percent_override
<1> HIDE DEF applied, started
<1>6. [applied EXCEPT !.shard_rollout_status = "active", !.shard_started_at = started] \in Row
  BY <1>2, <1>4 DEF Row, ShardRolloutStatus
<1> QED
  BY <1>2, <1>5, <1>6

LEMMA UnpinType ==
    ASSUME NEW row \in Row, NEW p \in Preferences, NEW now \in Nat
    PROVE  clear_shard_percent_override(row, p, now) \in Row
<1> DEFINE cleared == [row EXCEPT !.shard_percent_override = None]
           percent == compute_shard_percent(row.shard_started_at, p.days, now)
           applied == ApplyShardPercent(cleared, percent)
<1>1. cleared \in Row
  BY DEF Row
<1>2. CASE row.shard_started_at = None
  <2>1. [cleared EXCEPT !.shard_percent = None, !.installable_condition = None] \in Row
    BY <1>1, Hundred DEF Row
  <2> QED
    BY <1>2, <2>1 DEF clear_shard_percent_override
<1>3. CASE row.shard_started_at # None
  <2>1. row.shard_started_at \in Nat
    BY <1>3 DEF Row
  <2>2. percent \in Percent
    BY <2>1, PercentType DEF Preferences
  <2>3. applied \in Row
    BY <1>1, <2>2, ApplyPercentType
  <2>4. clear_shard_percent_override(row, p, now) \in
          {applied, [applied EXCEPT !.shard_rollout_status = "active"]}
    BY <1>3 DEF clear_shard_percent_override
  <2> HIDE DEF applied
  <2>5. [applied EXCEPT !.shard_rollout_status = "active"] \in Row
    BY <2>3 DEF Row, ShardRolloutStatus
  <2> QED
    BY <2>3, <2>4, <2>5
<1> QED
  BY <1>2, <1>3

\* A tick computes a row that differs from the loaded one in percent and
\* condition only, or is complete besides.
LEMMA TickRow ==
    ASSUME NEW row \in Row, NEW inProduction \in BOOLEAN, NEW p \in Preferences, NEW now \in Nat
    PROVE  LET ticked == tick_one_pkg(row, inProduction, p, now)
           IN  /\ ticked \in Row
               /\ OperatorColumns(ticked) = OperatorColumns(row)
               /\ ticked.shard_rollout_status \in {row.shard_rollout_status, "complete"}
<1>1. CASE ~Tickable(row, inProduction)
  BY <1>1 DEF tick_one_pkg
<1>2. CASE Tickable(row, inProduction)
  <2> DEFINE percent == compute_shard_percent(row.shard_started_at, p.days, now)
  <2>1. row.shard_started_at \in Nat
    BY <1>2 DEF Tickable, Row
  <2>2. percent \in Percent
    BY <2>1, PercentType DEF Preferences
  <2>3. installable_condition_for_percent(percent) \in Condition
    BY <2>2, ConditionType
  <2>4. row.shard_override = None
    BY <1>2 DEF Tickable, Row, ShardOverride
  <2> DEFINE condition == installable_condition_for_percent(percent)
             ticked    == [row EXCEPT !.shard_percent         = percent,
                                      !.installable_condition = condition]
             finished  == [ticked EXCEPT !.shard_rollout_status = "complete",
                                         !.shard_override       = None]
  <2>5. tick_one_pkg(row, inProduction, p, now) \in {ticked, finished}
    BY <1>2 DEF tick_one_pkg
  <2> HIDE DEF percent, condition
  <2>6. /\ ticked \in Row
        /\ OperatorColumns(ticked) = OperatorColumns(row)
        /\ ticked.shard_rollout_status = row.shard_rollout_status
    BY <2>2, <2>3 DEF Row, OperatorColumns, condition
  <2>7. /\ finished \in Row
        /\ OperatorColumns(finished) = OperatorColumns(row)
        /\ finished.shard_rollout_status = "complete"
    BY <2>2, <2>3, <2>4 DEF Row, ShardRolloutStatus, OperatorColumns, condition
  <2> QED
    BY <2>5, <2>6, <2>7
<1> QED
  BY <1>1, <1>2

\* No service function makes an active row without a start of one that is not.
LEMMA ResetsKeepStart ==
    ASSUME NEW row \in Row, NEW inProduction \in BOOLEAN, NEW entered \in Nat \cup {None},
           NEW netNew \in BOOLEAN, NEW p \in Preferences, NEW now \in Nat,
           Startless(maybe_init_shard(row, inProduction, entered, netNew, p, now))
    PROVE  Startless(row)
<1>1. PICK started \in Nat : started = IF entered = None THEN now ELSE entered
  OBVIOUS
<1> DEFINE scheduled == ScheduledRow(row, started, p.days, now)
<1>2. scheduled \in Row /\ scheduled.shard_started_at = started /\ started # None
  <2>1. p.days \in 1 .. 30
    BY DEF Preferences
  <2>2. started # None
    BY NullAssumption
  <2> QED
    BY <2>1, <2>2, ScheduledType
<1>3. \A status \in ShardRolloutStatus \ {"active"}, from \in Nat \cup {None}, percent \in {100, None} :
        LET applied == ApplyShardFields(row, status, from, percent, None)
        IN  applied \in Row /\ applied.shard_rollout_status # "active"
  BY Hundred DEF ApplyShardFields, Row
<1>4. \A r \in Row : LET cleared == [r EXCEPT !.shard_override = None]
                     IN  /\ cleared.shard_rollout_status = r.shard_rollout_status
                         /\ cleared.shard_started_at = r.shard_started_at
  BY DEF Row
<1>5. ~Startless(scheduled) /\ ~Startless([scheduled EXCEPT !.shard_override = None])
  BY <1>2, <1>4 DEF Startless
<1>6. ResetRow(row) = row \/ ~Startless(ResetRow(row))
  BY <1>3, <1>4 DEF ResetRow, Startless, ShardRolloutStatus
<1>7. ~Startless([ApplyShardFields(row, "skipped", None, 100, None) EXCEPT !.shard_override = None])
  BY <1>3, <1>4 DEF Startless, ShardRolloutStatus
<1>8. ~Startless(ApplyShardFields(row, "pending_approval", None, None, None))
  BY <1>3 DEF Startless, ShardRolloutStatus
<1>9. ~Startless([ApplyShardFields(row, "complete", started, 100, None) EXCEPT !.shard_override = None])
  BY <1>3, <1>4 DEF Startless, ShardRolloutStatus
<1> HIDE DEF scheduled
<1>10. \/ init_shard_rollout(row, inProduction, entered, netNew, p, now) = row
       \/ ~Startless(init_shard_rollout(row, inProduction, entered, netNew, p, now))
  BY <1>1, <1>5, <1>6, <1>7, <1>8, <1>9 DEF init_shard_rollout, scheduled
<1> QED
  BY <1>10 DEF maybe_init_shard

LEMMA StartHasStart ==
    ASSUME NEW row \in Row, NEW p \in Preferences, NEW now \in Nat
    PROVE  ~Startless(start_shard_rollout(row, p, now))
<1>1. /\ ScheduledRow(row, now, p.days, now) \in Row
      /\ ScheduledRow(row, now, p.days, now).shard_started_at = now
  BY ScheduledType DEF Preferences
<1> QED
  BY <1>1, NullAssumption DEF start_shard_rollout, Startless, Row

LEMMA HoldsAreNotActive ==
    ASSUME NEW row \in Row, NEW condition \in Condition, NEW now \in Nat
    PROVE  /\ ~Startless(pause_shard_rollout(row))
           /\ ~Startless(edit_installable_condition(row, condition))
           /\ ~Startless(complete_shard_rollout(row, now))
<1>1. ~Startless(pause_shard_rollout(row)) /\ ~Startless(edit_installable_condition(row, condition))
  BY DEF pause_shard_rollout, edit_installable_condition, Startless, Row
<1>2. PICK started \in Nat \cup {None} :
         started = IF row.shard_started_at = None THEN now ELSE row.shard_started_at
  BY DEF Row
<1> DEFINE applied == ApplyShardFields(row, "complete", started, 100, None)
<1>3. applied \in Row /\ applied.shard_rollout_status = "complete"
  BY Hundred DEF ApplyShardFields, Row, ShardRolloutStatus
<1>4. complete_shard_rollout(row, now) =
        [applied EXCEPT !.shard_percent_override = None, !.shard_override = "force_complete"]
  BY <1>2 DEF complete_shard_rollout
<1> HIDE DEF applied
<1> QED
  BY <1>1, <1>3, <1>4 DEF Startless, Row

\* Applying a percent leaves the start, and the status unless it completes.
LEMMA ApplyPercentKeeps ==
    ASSUME NEW row \in Row, NEW percent \in Percent
    PROVE  LET applied == ApplyShardPercent(row, percent)
           IN  /\ applied.shard_started_at = row.shard_started_at
               /\ applied.shard_rollout_status \in {row.shard_rollout_status, "complete"}
  BY DEF ApplyShardPercent, Row

LEMMA PinKeepsStart ==
    ASSUME NEW row \in Row, NEW percent \in Percent, NEW now \in Nat,
           Startless(set_shard_percent_override(row, percent, now))
    PROVE  Startless(row)
<1> DEFINE pinned == [row EXCEPT !.shard_percent_override = percent]
           applied == ApplyShardPercent(pinned, percent)
           started == IF row.shard_started_at = None THEN now ELSE row.shard_started_at
           restarted == [applied EXCEPT !.shard_rollout_status = "active",
                                        !.shard_started_at = started]
<1>1. /\ pinned \in Row /\ pinned.shard_started_at = row.shard_started_at
      /\ pinned.shard_rollout_status = row.shard_rollout_status
  BY DEF Row
<1>2. /\ applied \in Row /\ applied.shard_started_at = row.shard_started_at
      /\ applied.shard_rollout_status \in {row.shard_rollout_status, "complete"}
  BY <1>1, ApplyPercentType, ApplyPercentKeeps
<1>3. set_shard_percent_override(row, percent, now) \in {applied, restarted}
  BY DEF set_shard_percent_override
<1>4. started # None
  BY NullAssumption
<1> HIDE DEF applied, started
<1>5. restarted.shard_started_at = started
  BY <1>2 DEF Row
<1> QED
  BY <1>2, <1>3, <1>4, <1>5 DEF Startless

LEMMA UnpinKeepsStart ==
    ASSUME NEW row \in Row, NEW p \in Preferences, NEW now \in Nat,
           Startless(clear_shard_percent_override(row, p, now))
    PROVE  Startless(row)
<1> DEFINE cleared == [row EXCEPT !.shard_percent_override = None]
           percent == compute_shard_percent(row.shard_started_at, p.days, now)
           applied == ApplyShardPercent(cleared, percent)
<1>1. /\ cleared \in Row /\ cleared.shard_started_at = row.shard_started_at
      /\ cleared.shard_rollout_status = row.shard_rollout_status
  BY DEF Row
<1>2. CASE row.shard_started_at = None
  <2>1. clear_shard_percent_override(row, p, now) =
          [cleared EXCEPT !.shard_percent = None, !.installable_condition = None]
    BY <1>2 DEF clear_shard_percent_override
  <2> HIDE DEF cleared
  <2> QED
    BY <1>1, <2>1 DEF Startless, Row
<1>3. CASE row.shard_started_at # None
  <2>1. row.shard_started_at \in Nat
    BY <1>3 DEF Row
  <2>2. percent \in Percent
    BY <2>1, PercentType DEF Preferences
  <2>3. applied \in Row /\ applied.shard_started_at = row.shard_started_at
    BY <1>1, <2>2, ApplyPercentType, ApplyPercentKeeps
  <2>4. clear_shard_percent_override(row, p, now) \in
          {applied, [applied EXCEPT !.shard_rollout_status = "active"]}
    BY <1>3 DEF clear_shard_percent_override
  <2> HIDE DEF applied
  <2>5. [applied EXCEPT !.shard_rollout_status = "active"].shard_started_at = row.shard_started_at
    BY <2>3 DEF Row
  <2> QED
    BY <1>3, <2>3, <2>4, <2>5 DEF Startless
<1> QED
  BY <1>2, <1>3

LEMMA DeletionKeepsStart ==
    ASSUME NEW row \in Row, NEW mark \in BOOLEAN, Startless([row EXCEPT !.is_deleted = mark])
    PROVE  Startless(row)
  BY DEF Startless, Row

LEMMA FlushType ==
    ASSUME NEW current \in Row, NEW base \in Row, NEW row \in Row
    PROVE  FlushChanged(current, base, row) \in Row
  BY DEF FlushChanged, Row

LEMMA FreshType == FreshRow \in Row
  BY DEF FreshRow, Row, ShardRolloutStatus, Condition
-----------------------------------------------------------------------------
(* The transactions.                                                       *)

\* A tick in flight leaves the operator's columns as it loaded them.  Without
\* this the flush, which writes what differs from the loaded row, could write
\* any column.
TickShape ==
    \A s \in Sessions :
        txn[s].kind = "tick" =>
            /\ txn[s].link = NoLink
            /\ \A p \in Pkg :
                  /\ OperatorColumns(txn[s].row[p]) = OperatorColumns(txn[s].base[p])
                  /\ txn[s].row[p].shard_rollout_status
                       \in {txn[s].base[p].shard_rollout_status, "complete"}

\* Requests are operators'; no transaction makes an active row without a start of a
\* row that it loaded with one.
RequestShape ==
    \A s \in Sessions :
        /\ txn[s].kind = "request" => s \in Operators
        /\ txn[s].loaded \subseteq present
        /\ \A p \in Pkg : Startless(txn[s].row[p]) => Startless(txn[s].base[p])

IInv == TypeOK /\ TickShape /\ RequestShape

LEMMA IdleType == Idle \in Transaction /\ Idle.kind = "idle" /\ Idle.loaded = {}
                  /\ Idle.row = Idle.base
  BY FreshType DEF Idle, NoRows, NoLink, Transaction, LinkEffect

LEMMA InitIInv == Init => IInv
<1> SUFFICES ASSUME Init PROVE IInv
  OBVIOUS
<1>1. prefs \in Preferences
  BY ConstantsAssumption DEF Init, Preferences
<1>2. TypeOK
  BY <1>1, IdleType, FreshType DEF Init, TypeOK, NoRows
<1>3. TickShape
  BY IdleType DEF Init, TickShape
<1>4. RequestShape
  BY IdleType DEF Init, RequestShape
<1> QED
  BY <1>2, <1>3, <1>4 DEF IInv

\* A request keeps the invariant when it leaves its row a row.
LEMMA BeginIInv ==
    ASSUME IInv, NEW s \in Operators, NEW p \in Pkg, NEW row \in Row, NEW link \in LinkEffect,
           Startless(row) => Startless(pkgs[p]), Begin(s, p, row, link)
    PROVE  IInv'
<1> DEFINE t == [ kind   |-> "request",
                  loaded |-> {p},
                  base   |-> [NoRows EXCEPT ![p] = pkgs[p]],
                  row    |-> [NoRows EXCEPT ![p] = row],
                  link   |-> link ]
<1>1. t \in Transaction
  BY FreshType DEF IInv, TypeOK, NoRows, Transaction
<1>2. txn' = [txn EXCEPT ![s] = t]
  BY DEF Begin
<1>3. t.kind = "request" /\ t.loaded = {p} /\ p \in present
  BY DEF Begin
<1>3a. \A q \in Pkg : Startless(t.row[q]) => Startless(t.base[q])
  BY DEF NoRows
<1> HIDE DEF t
<1>4. txn' \in [Sessions -> Transaction]
  BY <1>1, <1>2 DEF IInv, TypeOK
<1>5. TypeOK'
  BY <1>4 DEF IInv, TypeOK, Begin
<1>6. TickShape'
  <2> SUFFICES ASSUME NEW u \in Sessions, txn'[u].kind = "tick"
               PROVE  txn'[u] = txn[u]
    BY DEF IInv, TickShape
  <2> QED
    BY <1>2, <1>3 DEF IInv, TypeOK
<1>7. RequestShape'
  <2> SUFFICES ASSUME NEW u \in Sessions
               PROVE  /\ txn'[u].kind = "request" => u \in Operators
                      /\ txn'[u].loaded \subseteq present'
                      /\ \A q \in Pkg : Startless(txn'[u].row[q]) => Startless(txn'[u].base[q])
    BY DEF RequestShape, Startless
  <2>1. present' = present
    BY DEF Begin
  <2>2. CASE u = s
    BY <1>2, <1>3, <1>3a, <2>1, <2>2 DEF IInv, TypeOK
  <2>3. CASE u # s
    BY <1>2, <2>1, <2>3 DEF IInv, TypeOK, RequestShape
  <2> QED
    BY <2>2, <2>3
<1> QED
  BY <1>5, <1>6, <1>7 DEF IInv

LEMMA CatalogChangeType ==
    ASSUME IInv, NEW row \in Row, NEW p \in Pkg, NEW entered \in Nat \cup {None}
    PROVE  /\ AfterCatalogChange(row, p, entered) \in Row
           /\ Startless(AfterCatalogChange(row, p, entered)) => Startless(row)
<1>1. LoadedMembership(p) \in BOOLEAN /\ NetNew(p) \in BOOLEAN
  BY DEF LoadedMembership, InProduction, NetNew
<1>2. prefs \in Preferences /\ today \in Nat
  BY DEF IInv, TypeOK
<1> QED
  BY <1>1, <1>2, InitType, ResetsKeepStart DEF AfterCatalogChange

LEMMA RequestIInv ==
    ASSUME IInv, NEW s \in Operators, NEW p \in Pkg, Request(s, p)
    PROVE  IInv'
<1> USE DEF LinkEffect, NoLink
<1>0. pkgs[p] \in Row /\ prefs \in Preferences /\ today \in Nat /\ NoLink \in LinkEffect
  BY DEF IInv, TypeOK
<1>1. CASE Start(s, p)
  BY <1>0, <1>1, StartType, StartHasStart, BeginIInv DEF Start
<1>2. CASE Pause(s, p)
  BY <1>0, <1>2, PauseType, HoldsAreNotActive, Hundred, BeginIInv DEF Pause
<1>3. CASE Complete(s, p)
  BY <1>0, <1>3, CompleteType, HoldsAreNotActive, Hundred, BeginIInv DEF Complete
<1>4. CASE PinPercent(s, p)
  <2>1. PICK percent \in OverrideChoices :
          Begin(s, p, set_shard_percent_override(pkgs[p], percent, today), NoLink)
    BY <1>4 DEF PinPercent
  <2>2. percent \in Percent
    BY ConstantsAssumption
  <2> QED
    BY <1>0, <2>1, <2>2, PinType, PinKeepsStart, BeginIInv
<1>5. CASE UnpinPercent(s, p)
  BY <1>0, <1>5, UnpinType, UnpinKeepsStart, BeginIInv DEF UnpinPercent
<1>6. CASE EditCondition(s, p)
  <2>1. PICK condition \in ConditionChoices :
          Begin(s, p, edit_installable_condition(pkgs[p], condition), NoLink)
    BY <1>6 DEF EditCondition
  <2>2. condition \in Condition
    BY ConstantsAssumption
  <2> QED
    BY <1>0, <2>1, <2>2, PauseType, HoldsAreNotActive, BeginIInv
<1>7. CASE Delete(s, p)
  <2>1. [pkgs[p] EXCEPT !.is_deleted = TRUE] \in Row
    BY <1>0 DEF Row
  <2> QED
    BY <1>0, <1>7, <2>1, DeletionKeepsStart, BeginIInv DEF Delete
<1>8. CASE ReplaceCatalogs(s, p)
  <2>1. PICK entered \in {None, today} :
          Begin(s, p, AfterCatalogChange(pkgs[p], p, entered),
                [removes |-> prodLink[p], adds |-> entered])
    BY <1>8 DEF ReplaceCatalogs
  <2>2. entered \in Nat \cup {None}
    BY <1>0
  <2>3. [removes |-> prodLink[p], adds |-> entered] \in LinkEffect
    BY <2>2 DEF LinkEffect, IInv, TypeOK
  <2> QED
    BY <1>0, <2>1, <2>2, <2>3, CatalogChangeType, BeginIInv
<1>9. CASE Promote(s, p)
  <2>1. CASE Begin(s, p, AfterCatalogChange(pkgs[p], p, today), [removes |-> None, adds |-> today])
    <3>1. [removes |-> None, adds |-> today] \in LinkEffect
      BY <1>0 DEF LinkEffect
    <3> QED
      BY <1>0, <2>1, <3>1, CatalogChangeType, BeginIInv
  <2>2. CASE Begin(s, p, AfterCatalogChange(pkgs[p], p, prodLink[p]), NoLink)
    <3>1. prodLink[p] \in Nat \cup {None}
      BY DEF IInv, TypeOK
    <3> QED
      BY <1>0, <2>2, <3>1, CatalogChangeType, BeginIInv
  <2> QED
    BY <1>9, <2>1, <2>2 DEF Promote
<1>10. CASE Reingest(s, p)
  <2>1. PICK entered \in {None, today} :
          Begin(s, p, AfterCatalogChange([pkgs[p] EXCEPT !.is_deleted = FALSE], p, entered),
                [removes |-> prodLink[p], adds |-> entered])
    BY <1>10 DEF Reingest
  <2>2. entered \in Nat \cup {None}
    BY <1>0
  <2>3. [removes |-> prodLink[p], adds |-> entered] \in LinkEffect
    BY <2>2 DEF LinkEffect, IInv, TypeOK
  <2>4. [pkgs[p] EXCEPT !.is_deleted = FALSE] \in Row
    BY <1>0 DEF Row
  <2> QED
    BY <1>0, <2>1, <2>2, <2>3, <2>4, CatalogChangeType, DeletionKeepsStart, BeginIInv
<1> QED
  BY <1>1, <1>2, <1>3, <1>4, <1>5, <1>6, <1>7, <1>8, <1>9, <1>10 DEF Request

LEMMA IngestIInv ==
    ASSUME IInv, NEW p \in Pkg, IngestNew(p)
    PROVE  IInv'
<1>1. PICK entered \in {None, today} :
          /\ prodLink' = [prodLink EXCEPT ![p] = entered]
          /\ pkgs' = [pkgs EXCEPT ![p] =
                        maybe_init_shard(FreshRow, entered # None, entered, NetNew(p), prefs, today)]
  BY DEF IngestNew
<1>2. entered \in Nat \cup {None} /\ (entered # None) \in BOOLEAN /\ NetNew(p) \in BOOLEAN
  BY DEF IInv, TypeOK, NetNew
<1>3. prefs \in Preferences /\ today \in Nat
  BY DEF IInv, TypeOK
<1>4. maybe_init_shard(FreshRow, entered # None, entered, NetNew(p), prefs, today) \in Row
  BY <1>2, <1>3, FreshType, InitType
<1>5. TypeOK'
  BY <1>1, <1>2, <1>4 DEF IInv, TypeOK, IngestNew
<1>6. TickShape'
  BY DEF IInv, TickShape, IngestNew
<1>7. RequestShape'
  BY DEF IInv, RequestShape, Startless, IngestNew
<1> QED
  BY <1>5, <1>6, <1>7 DEF IInv

LEMMA TickLoadIInv ==
    ASSUME IInv, NEW s \in Tickers, TickLoad(s)
    PROVE  IInv'
<1> DEFINE base == [p \in Pkg |-> IF p \in TickSelection THEN pkgs[p] ELSE FreshRow]
           row  == [p \in Pkg |->
                      IF p \in TickSelection
                      THEN tick_one_pkg(pkgs[p], InProduction(p), prefs, today)
                      ELSE FreshRow]
           t    == [kind |-> "tick", loaded |-> TickSelection, base |-> base, row |-> row,
                    link |-> NoLink]
<1>1. txn' = [txn EXCEPT ![s] = t]
  BY DEF TickLoad
<1>2. prefs \in Preferences /\ today \in Nat /\ \A p \in Pkg : pkgs[p] \in Row
  BY DEF IInv, TypeOK
<1>3. base \in [Pkg -> Row]
  BY <1>2, FreshType
<1>4. ASSUME NEW p \in Pkg
      PROVE  /\ row[p] \in Row
             /\ OperatorColumns(row[p]) = OperatorColumns(base[p])
             /\ row[p].shard_rollout_status \in {base[p].shard_rollout_status, "complete"}
  <2>1. CASE p \in TickSelection
    <3>1. InProduction(p) \in BOOLEAN
      BY DEF InProduction
    <3> QED
      BY <1>2, <2>1, <3>1, TickRow
  <2>2. CASE p \notin TickSelection
    BY <2>2, FreshType
  <2> QED
    BY <2>1, <2>2
<1>5. row \in [Pkg -> Row]
  BY <1>4
<1> HIDE DEF base, row
<1>6. t \in Transaction
  BY <1>3, <1>5 DEF Transaction, LinkEffect, NoLink, TickSelection, IInv, TypeOK
<1>7. t.kind = "tick" /\ t.link = NoLink /\ t.base = base /\ t.row = row
      /\ t.loaded \subseteq present
  BY DEF NoLink, TickSelection
<1> HIDE DEF t
<1>8. TypeOK'
  BY <1>1, <1>6 DEF IInv, TypeOK, TickLoad
<1>9. TickShape'
  <2> SUFFICES ASSUME NEW u \in Sessions, txn'[u].kind = "tick"
               PROVE  /\ txn'[u].link = NoLink
                      /\ \A p \in Pkg :
                            /\ OperatorColumns(txn'[u].row[p]) = OperatorColumns(txn'[u].base[p])
                            /\ txn'[u].row[p].shard_rollout_status
                                 \in {txn'[u].base[p].shard_rollout_status, "complete"}
    BY DEF TickShape
  <2>1. CASE u = s
    <3>1. txn'[u] = t
      BY <1>1, <2>1 DEF IInv, TypeOK
    <3> QED
      BY <1>4, <1>7, <3>1
  <2>2. CASE u # s
    <3>1. txn'[u] = txn[u]
      BY <1>1, <2>2 DEF IInv, TypeOK
    <3> QED
      BY <3>1 DEF IInv, TickShape
  <2> QED
    BY <2>1, <2>2
<1>10. RequestShape'
  <2> SUFFICES ASSUME NEW u \in Sessions
               PROVE  /\ txn'[u].kind = "request" => u \in Operators
                      /\ txn'[u].loaded \subseteq present'
                      /\ \A q \in Pkg : Startless(txn'[u].row[q]) => Startless(txn'[u].base[q])
    BY DEF RequestShape, Startless
  <2>1. present' = present
    BY DEF TickLoad
  <2>2. CASE u = s
    <3>1. \A q \in Pkg : Startless(row[q]) => Startless(base[q])
      BY <1>4 DEF Startless, OperatorColumns
    <3> QED
      BY <1>1, <1>7, <2>1, <2>2, <3>1 DEF IInv, TypeOK
  <2>3. CASE u # s
    BY <1>1, <2>1, <2>3 DEF IInv, TypeOK, RequestShape
  <2> QED
    BY <2>2, <2>3
<1> QED
  BY <1>8, <1>9, <1>10 DEF IInv

\* A transaction that another overtakes keeps its type; a tick, which has no
\* link of its own to lose, is not changed at all.
LEMMA OvertakenType ==
    ASSUME NEW u \in Transaction, NEW t \in Transaction
    PROVE  /\ Overtaken(u, t) \in Transaction
           /\ Overtaken(u, t).kind = u.kind /\ Overtaken(u, t).loaded = u.loaded
           /\ Overtaken(u, t).base = u.base /\ Overtaken(u, t).row = u.row
           /\ u.link = NoLink => Overtaken(u, t) = u
  BY DEF Overtaken, Transaction, LinkEffect, NoLink

\* Rolling back a transaction starts no tick.
LEMMA RollbackIInv ==
    ASSUME IInv, NEW s \in Sessions, Rollback(s)
    PROVE  IInv'
<1>1. txn' \in [Sessions -> Transaction]
  BY IdleType DEF IInv, TypeOK, Rollback
<1>2. TickShape'
  <2> SUFFICES ASSUME NEW u \in Sessions, txn'[u].kind = "tick"
               PROVE  txn'[u] = txn[u]
    BY DEF IInv, TickShape
  <2> QED
    BY IdleType DEF IInv, TypeOK, Rollback
<1>3. RequestShape'
  <2>1. \A u \in Sessions : txn'[u] = IF u = s THEN Idle ELSE txn[u]
    BY DEF IInv, TypeOK, Rollback
  <2> QED
    BY <2>1, IdleType DEF IInv, RequestShape, Rollback, Startless
<1> QED
  BY <1>1, <1>2, <1>3 DEF IInv, TypeOK, Rollback

\* Neither does committing one: a tick that goes on is as it was.
LEMMA CommitKeepsTicks ==
    ASSUME IInv, NEW s \in Sessions, Commit(s), NEW u \in Sessions, txn'[u].kind = "tick"
    PROVE  u # s /\ txn[u].kind = "tick" /\ txn'[u] = txn[u]
<1>1. u # s
  BY IdleType DEF Commit
<1>2. txn'[u] = Overtaken(txn[u], txn[s])
  BY <1>1 DEF Commit
<1>3. txn[u] \in Transaction /\ txn[s] \in Transaction
  BY DEF IInv, TypeOK
<1>4. txn[u].kind = "tick"
  BY <1>2, <1>3, OvertakenType
<1>5. txn[u].link = NoLink
  BY <1>4 DEF IInv, TickShape
<1> QED
  BY <1>1, <1>2, <1>3, <1>4, <1>5, OvertakenType

LEMMA CommitIInv ==
    ASSUME IInv, NEW s \in Sessions, Commit(s)
    PROVE  IInv'
<1>1. txn[s] \in Transaction
  BY DEF IInv, TypeOK
<1>2. pkgs' \in [Pkg -> Row]
  <2>1. pkgs' = [p \in Pkg |-> IF p \in txn[s].loaded
                               THEN FlushChanged(pkgs[p], txn[s].base[p], txn[s].row[p])
                               ELSE pkgs[p]]
    BY DEF Commit
  <2>2. \A p \in Pkg : FlushChanged(pkgs[p], txn[s].base[p], txn[s].row[p]) \in Row
    BY <1>1, FlushType DEF Transaction, IInv, TypeOK
  <2> QED
    BY <2>1, <2>2 DEF IInv, TypeOK
<1>3. prodLink' \in [Pkg -> Nat \cup {None}]
  <2>1. \A p \in Pkg : LinkAfter(prodLink[p], txn[s].link) \in Nat \cup {None}
    BY <1>1 DEF LinkAfter, Transaction, LinkEffect, IInv, TypeOK
  <2> QED
    BY <2>1 DEF Commit, IInv, TypeOK
<1>4. txn' \in [Sessions -> Transaction]
  <2>1. txn' = [u \in Sessions |-> IF u = s THEN Idle ELSE Overtaken(txn[u], txn[s])]
    BY DEF Commit
  <2>2. \A u \in Sessions : Overtaken(txn[u], txn[s]) \in Transaction
    BY <1>1, OvertakenType DEF IInv, TypeOK
  <2> QED
    BY <2>1, <2>2, IdleType
<1>5. TickShape'
  BY CommitKeepsTicks DEF IInv, TickShape
<1>6. RequestShape'
  <2> SUFFICES ASSUME NEW u \in Sessions
               PROVE  /\ txn'[u].kind = "request" => u \in Operators
                      /\ txn'[u].loaded \subseteq present'
                      /\ \A q \in Pkg : Startless(txn'[u].row[q]) => Startless(txn'[u].base[q])
    BY DEF RequestShape, Startless
  <2>1. present' = present /\ txn'[u] = IF u = s THEN Idle ELSE Overtaken(txn[u], txn[s])
    BY DEF Commit
  <2>2. CASE u = s
    BY <2>1, <2>2, IdleType
  <2>3. CASE u # s
    <3>1. txn[u] \in Transaction
      BY DEF IInv, TypeOK
    <3> QED
      BY <1>1, <2>1, <2>3, <3>1, OvertakenType DEF IInv, RequestShape
  <2> QED
    BY <2>2, <2>3
<1> QED
  BY <1>2, <1>3, <1>4, <1>5, <1>6 DEF IInv, TypeOK, Commit

LEMMA NextIInv == IInv /\ [Next]_vars => IInv'
<1> SUFFICES ASSUME IInv, [Next]_vars PROVE IInv'
  OBVIOUS
<1>1. ASSUME NEW s \in Operators, NEW p \in Pkg, Request(s, p) PROVE IInv'
  BY <1>1, RequestIInv
<1>2. ASSUME NEW p \in Pkg, IngestNew(p) PROVE IInv'
  BY <1>2, IngestIInv
<1>3. CASE PatchPreferences
  <2>1. prefs' \in Preferences
    BY <1>3, ConstantsAssumption DEF PatchPreferences, Preferences
  <2> QED
    BY <1>3, <2>1 DEF PatchPreferences, IInv, TypeOK, TickShape, RequestShape, Startless
<1>4. ASSUME NEW s \in Tickers, TickLoad(s) PROVE IInv'
  BY <1>4, TickLoadIInv
<1>5. ASSUME NEW s \in Sessions, Commit(s) PROVE IInv'
  BY <1>5, CommitIInv
<1>6. ASSUME NEW s \in Sessions, Rollback(s) PROVE IInv'
  BY <1>6, RollbackIInv
<1>7. CASE NextDay
  BY <1>7 DEF NextDay, IInv, TypeOK, TickShape, RequestShape, Startless
<1>8. CASE UNCHANGED vars
  BY <1>8 DEF vars, IInv, TypeOK, TickShape, RequestShape, Startless
<1> QED
  BY <1>1, <1>2, <1>3, <1>4, <1>5, <1>6, <1>7, <1>8 DEF Next

\* What the commit of a tick makes of a row, however the row has changed since.
LEMMA TickCommit ==
    ASSUME IInv, NEW s \in Sessions, txn[s].kind = "tick", Commit(s), NEW p \in Pkg
    PROVE  /\ OperatorColumns(pkgs'[p]) = OperatorColumns(pkgs[p])
           /\ pkgs'[p].shard_rollout_status \in {pkgs[p].shard_rollout_status, "complete"}
<1> DEFINE flushed == FlushChanged(pkgs[p], txn[s].base[p], txn[s].row[p])
<1>1. pkgs'[p] \in {flushed, pkgs[p]}
  BY DEF Commit
<1>2. /\ OperatorColumns(txn[s].row[p]) = OperatorColumns(txn[s].base[p])
      /\ txn[s].row[p].shard_rollout_status
           \in {txn[s].base[p].shard_rollout_status, "complete"}
  BY DEF IInv, TickShape
<1>3. OperatorColumns(flushed) = OperatorColumns(pkgs[p])
  BY <1>2 DEF FlushChanged, OperatorColumns
<1>4. flushed.shard_rollout_status \in {pkgs[p].shard_rollout_status, "complete"}
  BY <1>2 DEF FlushChanged
<1> HIDE DEF flushed
<1> QED
  BY <1>1, <1>3, <1>4

\* Rows change by the commit of a transaction, or one is ingested.
LEMMA RowsChange ==
    ASSUME [Next]_vars, pkgs' # pkgs
    PROVE  (\E s \in Sessions : Commit(s)) \/ (\E p \in Pkg : IngestNew(p))
<1>1. ASSUME NEW u \in Operators, NEW q \in Pkg, Request(u, q) PROVE pkgs' = pkgs
  BY <1>1 DEF Request, Start, Pause, Complete, PinPercent, UnpinPercent, EditCondition, Delete,
              ReplaceCatalogs, Promote, Reingest, Begin
<1> QED
  BY <1>1 DEF Next, vars, PatchPreferences, TickLoad, Rollback, NextDay

\* An ingested row has a start if it is active, and is the only one that changes.
LEMMA IngestStarts ==
    ASSUME IInv, NEW p \in Pkg, IngestNew(p)
    PROVE  ~Startless(pkgs'[p]) /\ \A q \in Pkg \ {p} : pkgs'[q] = pkgs[q]
<1>1. PICK entered \in {None, today} :
          pkgs' = [pkgs EXCEPT ![p] =
                        maybe_init_shard(FreshRow, entered # None, entered, NetNew(p), prefs, today)]
  BY DEF IngestNew
<1>2. /\ entered \in Nat \cup {None} /\ (entered # None) \in BOOLEAN /\ NetNew(p) \in BOOLEAN
      /\ prefs \in Preferences /\ today \in Nat
  BY DEF IInv, TypeOK, NetNew
<1>3. ~Startless(FreshRow)
  BY DEF Startless, FreshRow
<1>4. ~Startless(maybe_init_shard(FreshRow, entered # None, entered, NetNew(p), prefs, today))
  BY <1>2, <1>3, FreshType, ResetsKeepStart
<1> QED
  BY <1>1, <1>4 DEF IInv, TypeOK

\* The step in which an active row loses its start.
LEMMA StartLost ==
    ASSUME IInv, [Next]_vars, NEW p \in Pkg, ~Startless(pkgs[p]), Startless(pkgs'[p])
    PROVE  \E s \in Operators :
              /\ p \in txn[s].loaded /\ txn'[s] = Idle
              /\ RequestSince(txn[s].base[p], pkgs[p])
<1>1. PICK s \in Sessions : Commit(s)
  BY RowsChange, IngestStarts
<1>2. p \in txn[s].loaded /\ txn'[s] = Idle
  BY <1>1 DEF Commit
<1>3. txn[s].kind # "tick"
  BY <1>1, TickCommit DEF Startless, OperatorColumns
<1>4. txn[s].kind = "request"
  BY <1>1, <1>3 DEF Commit, IInv, TypeOK, Transaction
<1>5. s \in Operators /\ (Startless(txn[s].row[p]) => Startless(txn[s].base[p]))
  BY <1>4 DEF IInv, RequestShape
<1>6. pkgs'[p] = FlushChanged(pkgs[p], txn[s].base[p], txn[s].row[p])
  BY <1>1, <1>2 DEF Commit
<1>7. RequestSince(txn[s].base[p], pkgs[p])
  BY <1>5, <1>6 DEF FlushChanged, Startless, RequestSince
<1> QED
  BY <1>2, <1>5, <1>7

-----------------------------------------------------------------------------

\* Every reachable row, transaction and preference is of its type, whatever
\* overlaps: the column-wise flush never assembles an ill-typed row.
THEOREM TypeCorrect == Spec => []TypeOK
<1>1. IInv => TypeOK
  BY DEF IInv
<1> QED
  BY InitIInv, NextIInv, <1>1, PTL DEF Spec

\* No tick of any number of tickers, however stale, touches an operator's hold,
\* pin, start day or deletion mark (run_production_shard_tick, _tick_one_pkg).
THEOREM OperatorColumnsKept == Spec => TickKeepsOperatorColumns
<1> DEFINE Kept == \A s \in Sessions :
                     (txn[s].kind = "tick" /\ txn'[s] # txn[s]) =>
                        \A p \in Pkg :
                            /\ OperatorColumns(pkgs'[p]) = OperatorColumns(pkgs[p])
                            /\ pkgs'[p].shard_rollout_status
                                 \in {pkgs[p].shard_rollout_status, "complete"}
<1>1. ASSUME IInv, [Next]_vars, NEW s \in Sessions, txn[s].kind = "tick", txn'[s] # txn[s],
             NEW p \in Pkg
      PROVE  /\ OperatorColumns(pkgs'[p]) = OperatorColumns(pkgs[p])
             /\ pkgs'[p].shard_rollout_status \in {pkgs[p].shard_rollout_status, "complete"}
  <2>1. CASE pkgs' = pkgs
    BY <2>1
  <2>2. CASE Commit(s)
    BY <1>1, <2>2, TickCommit
  <2>3. ASSUME NEW u \in Sessions, u # s, Commit(u) PROVE FALSE
    <3>1. txn'[s] = Overtaken(txn[s], txn[u])
      BY <2>3 DEF Commit
    <3>2. txn[s] \in Transaction /\ txn[u] \in Transaction
      BY <1>1 DEF IInv, TypeOK
    <3>3. txn[s].link = NoLink
      BY <1>1 DEF IInv, TickShape
    <3> QED
      BY <1>1, <3>1, <3>2, <3>3, OvertakenType
  <2>4. ASSUME NEW q \in Pkg, IngestNew(q) PROVE FALSE
    BY <1>1, <2>4 DEF IngestNew
  <2> QED
    BY <1>1, <2>1, <2>2, <2>3, <2>4, RowsChange
<1>2. IInv /\ [Next]_vars => Kept
  BY <1>1
<1>3. IInv /\ [Next]_vars => [Kept]_vars
  BY <1>2
<1> QED
  BY InitIInv, NextIInv, <1>3, PTL DEF Spec, TickKeepsOperatorColumns

\* An active rollout loses its start only to a request that commits over a row which
\* another request has changed since: never to a tick, however stale, and never to a
\* request that had loaded the row as it is (FlushChanged, what SQLAlchemy's flush does).
THEOREM OverlapsOnly == Spec => StartLostToOverlapOnly
<1> DEFINE Lost ==
      \A p \in Pkg :
         ~Startless(pkgs[p]) /\ Startless(pkgs'[p]) =>
            \E s \in Operators :
                /\ p \in txn[s].loaded /\ txn'[s] = Idle
                /\ RequestSince(txn[s].base[p], pkgs[p])
<1>1. IInv /\ [Next]_vars => Lost
  BY StartLost
<1>2. IInv /\ [Next]_vars => [Lost]_vars
  BY <1>1
<1> QED
  BY InitIInv, NextIInv, <1>2, PTL DEF Spec, StartLostToOverlapOnly

-----------------------------------------------------------------------------
(* One operator at a time, and any number of tickers.                      *)

\* What an operator's request has loaded is as no other request has written it since.
OneOperatorInv ==
    /\ \A p \in Pkg : ~Startless(pkgs[p])
    /\ \A s \in Operators : \A p \in txn[s].loaded : ~RequestSince(txn[s].base[p], pkgs[p])

LEMMA InitOneOperator == Init => OneOperatorInv
  BY IdleType DEF Init, OneOperatorInv, NoRows, FreshRow, Startless, Sessions

\* A request loads its row as it is, and changes no other session.
LEMMA RequestLoads ==
    ASSUME IInv, NEW u \in Operators, NEW q \in Pkg, Request(u, q)
    PROVE  /\ pkgs' = pkgs
           /\ txn'[u].loaded = {q} /\ txn'[u].base[q] = pkgs[q]
           /\ \A s \in Sessions : s # u => txn'[s] = txn[s]
<1>1. ASSUME NEW row, NEW link, Begin(u, q, row, link)
      PROVE  /\ pkgs' = pkgs
             /\ txn'[u].loaded = {q} /\ txn'[u].base[q] = pkgs[q]
             /\ \A s \in Sessions : s # u => txn'[s] = txn[s]
  <2> DEFINE t == [ kind   |-> "request",
                    loaded |-> {q},
                    base   |-> [NoRows EXCEPT ![q] = pkgs[q]],
                    row    |-> [NoRows EXCEPT ![q] = row],
                    link   |-> link ]
  <2>1. txn' = [txn EXCEPT ![u] = t] /\ pkgs' = pkgs
    BY <1>1 DEF Begin
  <2>2. t.loaded = {q} /\ t.base[q] = pkgs[q]
    BY DEF NoRows
  <2> HIDE DEF t
  <2> QED
    BY <2>1, <2>2 DEF IInv, TypeOK, Sessions
<1> QED
  BY <1>1 DEF Request, Start, Pause, Complete, PinPercent, UnpinPercent, EditCondition, Delete,
              ReplaceCatalogs, Promote, Reingest

LEMMA NextOneOperator ==
    ASSUME \A s, t \in Operators : s = t, IInv, OneOperatorInv, [Next]_vars
    PROVE  OneOperatorInv'
<1>1. ASSUME NEW p \in Pkg PROVE ~Startless(pkgs'[p])
  BY <1>1, StartLost DEF OneOperatorInv
<1>2. ASSUME NEW s \in Operators, NEW p \in txn'[s].loaded
      PROVE  ~RequestSince(txn'[s].base[p], pkgs'[p])
  <2>1. s \in Sessions /\ s \notin Tickers
    BY ConstantsAssumption DEF Sessions
  <2>2. p \in txn[s].loaded => p \in Pkg /\ p \in present /\ ~RequestSince(txn[s].base[p], pkgs[p])
    BY <2>1 DEF OneOperatorInv, IInv, TypeOK, RequestShape
  <2>3. ASSUME NEW u \in Operators, NEW q \in Pkg, Request(u, q)
        PROVE  ~RequestSince(txn'[s].base[p], pkgs'[p])
    BY <1>2, <2>3, RequestLoads DEF RequestSince
  <2>4. ASSUME NEW q \in Pkg, IngestNew(q) PROVE ~RequestSince(txn'[s].base[p], pkgs'[p])
    <3>1. txn' = txn /\ q \notin present
      BY <2>4 DEF IngestNew
    <3>2. p # q /\ p \in Pkg
      BY <1>2, <2>2, <3>1
    <3>3. pkgs'[p] = pkgs[p]
      BY <2>4, <3>2, IngestStarts
    <3> QED
      BY <1>2, <2>2, <3>1, <3>3
  <2>5. ASSUME NEW u \in Sessions, Commit(u) PROVE ~RequestSince(txn'[s].base[p], pkgs'[p])
    <3>1. CASE u = s
      BY <1>2, <2>5, <3>1, IdleType DEF Commit
    <3>2. CASE u # s
      <4>1. txn[u].kind = "tick"
        BY <2>5, <3>2 DEF Commit, IInv, TypeOK, Transaction, RequestShape
      <4>2. txn[s] \in Transaction /\ txn[u] \in Transaction
        BY <2>1 DEF IInv, TypeOK
      <4>3. txn'[s] = Overtaken(txn[s], txn[u])
        BY <2>1, <2>5, <3>2 DEF Commit
      <4>4. p \in txn[s].loaded /\ txn'[s].base = txn[s].base
        BY <1>2, <4>2, <4>3, OvertakenType
      <4>5. /\ OperatorColumns(pkgs'[p]) = OperatorColumns(pkgs[p])
            /\ pkgs'[p].shard_rollout_status \in {pkgs[p].shard_rollout_status, "complete"}
        BY <2>2, <2>5, <4>1, <4>4, TickCommit
      <4> QED
        BY <2>2, <4>4, <4>5 DEF RequestSince, OperatorColumns
    <3> QED
      BY <3>1, <3>2
  <2>6. ASSUME NEW u \in Tickers, TickLoad(u) PROVE ~RequestSince(txn'[s].base[p], pkgs'[p])
    <3>1. txn'[s] = txn[s] /\ pkgs' = pkgs
      BY <2>1, <2>6 DEF TickLoad, IInv, TypeOK
    <3> QED
      BY <1>2, <2>2, <3>1
  <2>7. ASSUME NEW u \in Sessions, Rollback(u) PROVE ~RequestSince(txn'[s].base[p], pkgs'[p])
    <3>1. pkgs' = pkgs /\ txn'[s] = IF s = u THEN Idle ELSE txn[s]
      BY <2>1, <2>7 DEF Rollback, IInv, TypeOK
    <3> QED
      BY <1>2, <2>2, <3>1, IdleType
  <2>8. CASE PatchPreferences \/ NextDay \/ UNCHANGED vars
    <3>1. pkgs' = pkgs /\ txn' = txn
      BY <2>8 DEF PatchPreferences, NextDay, vars
    <3> QED
      BY <1>2, <2>2, <3>1
  <2> QED
    BY <2>3, <2>4, <2>5, <2>6, <2>7, <2>8 DEF Next
<1> QED
  BY <1>1, <1>2 DEF OneOperatorInv

\* While the requests of operators do not overlap each other, an active rollout has a
\* start whatever ticks they overlap, so that the tick never skips it for want of one
\* (_tick_one_pkg).  With two operators this is false: StartLostToOverlapOnly says how.
THEOREM OneOperatorStarts == (\A s, t \in Operators : s = t) => (Spec => []ActiveHasStart)
<1> SUFFICES ASSUME \A s, t \in Operators : s = t PROVE Spec => []ActiveHasStart
  OBVIOUS
<1> DEFINE Both == IInv /\ OneOperatorInv
<1>1. Init => Both
  BY InitIInv, InitOneOperator
<1>2. Both /\ [Next]_vars => Both'
  BY NextIInv, NextOneOperator
<1>3. Both => ActiveHasStart
  BY DEF OneOperatorInv, ActiveHasStart, IInv, TypeOK
<1> QED
  BY <1>1, <1>2, <1>3, PTL DEF Spec
=============================================================================
