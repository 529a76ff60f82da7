---------------------------- MODULE ShardRollout ----------------------------
(***************************************************************************)
(* The production shard rollout as concurrent database transactions.       *)
(*                                                                         *)
(* Every request and every scheduler tick runs in a SQLAlchemy session of  *)
(* its own at READ COMMITTED: it loads pkginfo rows, computes on the       *)
(* loaded copies and commits.  The flush UPDATEs only the columns that     *)
(* differ from what was loaded, so two overlapping sessions can each       *)
(* overwrite part of the other's work; no row is locked or versioned.      *)
(*                                                                         *)
(* Catalogs are abstracted to the one link that matters here, the one to   *)
(* the production catalog; module Promotion has the catalogs themselves.   *)
(***************************************************************************)
EXTENDS ShardOps

CONSTANTS
    Pkg,              \* pkginfo rows: versions of software titles
    Title,            \* software names
    name,             \* the title of each version
    Tickers,          \* sessions of scheduler loops and of run-due webhooks
    Operators,        \* sessions of request handlers
    DaysChoices,      \* values of production_shard_days
    PolicyChoices,    \* values of net_new_shard_policy
    EnabledChoices,   \* values of production_shard_enabled
    OverrideChoices,  \* percents an operator may pin
    ConditionChoices, \* conditions an operator may type
    MaxDay,           \* bound: the last day of the model
    MaxRequests       \* bound: requests made in one behaviour

ASSUME ConstantsAssumption ==
    /\ name \in [Pkg -> Title]
    /\ Tickers \cap Operators = {}
    /\ DaysChoices \subseteq 1 .. 30
    /\ PolicyChoices \subseteq NetNewShardPolicy
    /\ EnabledChoices \subseteq BOOLEAN
    /\ OverrideChoices \subseteq Percent
    /\ ConditionChoices \subseteq Condition
    /\ MaxDay \in Nat
    /\ MaxRequests \in Nat

VARIABLES
    today,     \* the UTC day
    prefs,     \* app_workflow_preferences, committed
    present,   \* the rows that exist
    pkgs,      \* munki_pkginfo, committed
    prodLink,  \* entered_at of the production link, None when there is none
    txn,       \* the open transaction of each session
    requests   \* requests begun so far (a bound, not in the code)

vars == <<today, prefs, present, pkgs, prodLink, txn, requests>>

Sessions == Tickers \cup Operators
Day == 0 .. MaxDay

NoRows == [p \in Pkg |-> FreshRow]
NoLink == [removes |-> None, adds |-> None]
Idle == [kind |-> "idle", loaded |-> {}, base |-> NoRows, row |-> NoRows, link |-> NoLink]

\* What a transaction does to the production link of the row it loaded: the
\* link (by its entered_at) that its DELETE has removed, the one it inserts.
LinkEffect == [removes : Nat \cup {None}, adds : Nat \cup {None}]

Transaction ==
    [ kind   : {"idle", "tick", "request"},
      loaded : SUBSET Pkg,     \* rows in the session's identity map
      base   : [Pkg -> Row],   \* those rows as they were loaded
      row    : [Pkg -> Row],   \* those rows as the session leaves them
      link   : LinkEffect ]

TypeOK ==
    /\ today \in Nat
    /\ prefs \in Preferences
    /\ present \subseteq Pkg
    /\ pkgs \in [Pkg -> Row]
    /\ prodLink \in [Pkg -> Nat \cup {None}]
    /\ txn \in [Sessions -> Transaction]
    /\ requests \in Nat

Init ==
    /\ today = 0
    /\ prefs \in [enabled : EnabledChoices, days : DaysChoices, policy : PolicyChoices]
    /\ present = {}
    /\ pkgs = NoRows
    /\ prodLink = [p \in Pkg |-> None]
    /\ txn = [s \in Sessions |-> Idle]
    /\ requests = 0

-----------------------------------------------------------------------------

InProduction(p) == prodLink[p] # None

\* is_first_production_deploy
NetNew(p) ==
    \A q \in present \ {p} :
        ~(name[q] = name[p] /\ ~pkgs[q].is_deleted /\ InProduction(q))

\* The columns of `row` that differ from `base` are written over `current`.
FlushChanged(current, base, row) ==
    [ shard_rollout_status |->
        IF row.shard_rollout_status # base.shard_rollout_status
        THEN row.shard_rollout_status ELSE current.shard_rollout_status,
      shard_started_at |->
        IF row.shard_started_at # base.shard_started_at
        THEN row.shard_started_at ELSE current.shard_started_at,
      shard_percent |->
        IF row.shard_percent # base.shard_percent
        THEN row.shard_percent ELSE current.shard_percent,
      shard_percent_override |->
        IF row.shard_percent_override # base.shard_percent_override
        THEN row.shard_percent_override ELSE current.shard_percent_override,
      shard_override |->
        IF row.shard_override # base.shard_override
        THEN row.shard_override ELSE current.shard_override,
      installable_condition |->
        IF row.installable_condition # base.installable_condition
        THEN row.installable_condition ELSE current.installable_condition,
      is_deleted |->
        IF row.is_deleted # base.is_deleted THEN row.is_deleted ELSE current.is_deleted ]

\* A request handler has loaded row p and left it as `row`.
Begin(s, p, row, link) ==
    /\ s \in Operators
    /\ txn[s] = Idle
    /\ requests < MaxRequests
    /\ p \in present
    /\ txn' = [txn EXCEPT ![s] =
                 [ kind   |-> "request",
                   loaded |-> {p},
                   base   |-> [NoRows EXCEPT ![p] = pkgs[p]],
                   row    |-> [NoRows EXCEPT ![p] = row],
                   link   |-> link ]]
    /\ requests' = requests + 1
    /\ UNCHANGED <<today, prefs, present, pkgs, prodLink>>

Live(p) == ~pkgs[p].is_deleted

-----------------------------------------------------------------------------
(* Request handlers.                                                       *)

Start(s, p) ==
    /\ Live(p) /\ InProduction(p)
    /\ Begin(s, p, start_shard_rollout(pkgs[p], prefs, today), NoLink)

Pause(s, p) ==
    /\ Live(p)
    /\ Begin(s, p, pause_shard_rollout(pkgs[p]), NoLink)

Complete(s, p) ==
    /\ Live(p)
    /\ Begin(s, p, complete_shard_rollout(pkgs[p], today), NoLink)

PinPercent(s, p) ==
    /\ Live(p) /\ InProduction(p)
    /\ \E percent \in OverrideChoices :
          Begin(s, p, set_shard_percent_override(pkgs[p], percent, today), NoLink)

UnpinPercent(s, p) ==
    /\ Live(p) /\ InProduction(p)
    /\ Begin(s, p, clear_shard_percent_override(pkgs[p], prefs, today), NoLink)

\* PATCH /pkginfo/{id}: accepts deleted rows too
EditCondition(s, p) ==
    \E condition \in ConditionChoices :
        Begin(s, p, edit_installable_condition(pkgs[p], condition), NoLink)

Delete(s, p) == Begin(s, p, [pkgs[p] EXCEPT !.is_deleted = TRUE], NoLink)

\* The production membership init_shard_rollout sees in a request that has
\* loaded row p and then rewritten its links.  PkgInfo.catalogs is loaded with
\* the row (lazy="selectin"); the association rows are written behind the
\* collection's back and the re-select has no populate_existing, so the loaded
\* collection, from before the change, is what pkg_in_production reads.
LoadedMembership(p) == InProduction(p)

\* Row p after a catalog change that leaves its production link at `entered`.
AfterCatalogChange(row, p, entered) ==
    maybe_init_shard(row, LoadedMembership(p), entered, NetNew(p), prefs, today)

\* PUT /pkginfo/{id}/catalogs and /bulk-update: all links are replaced.
ReplaceCatalogs(s, p) ==
    \E entered \in {None, today} :
        Begin(s, p, AfterCatalogChange(pkgs[p], p, entered),
              [removes |-> prodLink[p], adds |-> entered])

\* promote_pkginfo into production, or into another catalog it is not yet in.
Promote(s, p) ==
    \/ /\ ~InProduction(p)
       /\ Begin(s, p, AfterCatalogChange(pkgs[p], p, today),
                [removes |-> None, adds |-> today])
    \/ Begin(s, p, AfterCatalogChange(pkgs[p], p, prodLink[p]), NoLink)

\* ingest_pkginfo of a name and version that exist: revived, links replaced.
Reingest(s, p) ==
    \E entered \in {None, today} :
        Begin(s, p, AfterCatalogChange([pkgs[p] EXCEPT !.is_deleted = FALSE], p, entered),
              [removes |-> prodLink[p], adds |-> entered])

\* ingest_pkginfo of a new name and version.  Nothing has loaded the new row's
\* collection, so here init_shard_rollout sees the links just written.
IngestNew(p) ==
    /\ p \notin present
    /\ requests < MaxRequests
    /\ \E entered \in {None, today} :
          /\ prodLink' = [prodLink EXCEPT ![p] = entered]
          /\ pkgs' = [pkgs EXCEPT ![p] =
                        maybe_init_shard(FreshRow, entered # None, entered,
                                         NetNew(p), prefs, today)]
    /\ present' = present \cup {p}
    /\ requests' = requests + 1
    /\ UNCHANGED <<today, prefs, txn>>

\* PATCH /workflow/preferences
PatchPreferences ==
    /\ requests < MaxRequests
    /\ prefs' \in [enabled : EnabledChoices, days : DaysChoices, policy : PolicyChoices]
    /\ prefs' # prefs
    /\ requests' = requests + 1
    /\ UNCHANGED <<today, present, pkgs, prodLink, txn>>

Request(s, p) ==
    \/ Start(s, p) \/ Pause(s, p) \/ Complete(s, p)
    \/ PinPercent(s, p) \/ UnpinPercent(s, p)
    \/ EditCondition(s, p) \/ Delete(s, p)
    \/ ReplaceCatalogs(s, p) \/ Promote(s, p) \/ Reingest(s, p)

-----------------------------------------------------------------------------
(* run_production_shard_tick and the end of every transaction.             *)

TickSelection == {p \in present : Live(p) /\ pkgs[p].shard_rollout_status = "active"}

TickLoad(s) ==
    /\ txn[s] = Idle
    /\ prefs.enabled
    /\ TickSelection # {}
    /\ txn' = [txn EXCEPT ![s] =
                 [ kind   |-> "tick",
                   loaded |-> TickSelection,
                   base   |-> [p \in Pkg |-> IF p \in TickSelection THEN pkgs[p] ELSE FreshRow],
                   row    |-> [p \in Pkg |->
                                 IF p \in TickSelection
                                 THEN tick_one_pkg(pkgs[p], InProduction(p), prefs, today)
                                 ELSE FreshRow],
                   link   |-> NoLink ]]
    /\ UNCHANGED <<today, prefs, present, pkgs, prodLink, requests>>

\* The link that stands once `link` is committed over `current`.
LinkAfter(current, link) ==
    IF link.adds # None THEN link.adds
    ELSE IF link.removes # None THEN None
    ELSE current

\* Transaction u when another, t, has committed.  The DELETE of u waits for the
\* link that t has deleted or inserted, and then no longer finds it.
Overtaken(u, t) ==
    IF t.link # NoLink /\ u.loaded \cap t.loaded # {}
    THEN [u EXCEPT !.link.removes = None]
    ELSE u

\* An insert of a link that another session has committed meanwhile violates
\* the primary key: that transaction can only roll back.
Commit(s) ==
    LET t == txn[s] IN
    /\ t.kind # "idle"
    /\ t.link.adds # None /\ t.link.removes = None => \A p \in t.loaded : ~InProduction(p)
    /\ pkgs' = [p \in Pkg |-> IF p \in t.loaded
                              THEN FlushChanged(pkgs[p], t.base[p], t.row[p])
                              ELSE pkgs[p]]
    /\ prodLink' = [p \in Pkg |-> IF p \in t.loaded THEN LinkAfter(prodLink[p], t.link)
                                  ELSE prodLink[p]]
    /\ txn' = [u \in Sessions |-> IF u = s THEN Idle ELSE Overtaken(txn[u], t)]
    /\ UNCHANGED <<today, prefs, present, requests>>

\* A conflict, an exception or a crash before the commit: nothing is written.
Rollback(s) ==
    /\ txn[s].kind # "idle"
    /\ txn' = [txn EXCEPT ![s] = Idle]
    /\ UNCHANGED <<today, prefs, present, pkgs, prodLink, requests>>

NextDay ==
    /\ today < MaxDay
    /\ today' = today + 1
    /\ UNCHANGED <<prefs, present, pkgs, prodLink, txn, requests>>

Next ==
    \/ \E s \in Operators, p \in Pkg : Request(s, p)
    \/ \E p \in Pkg : IngestNew(p)
    \/ PatchPreferences
    \/ \E s \in Tickers : TickLoad(s)
    \/ \E s \in Sessions : Commit(s) \/ Rollback(s)
    \/ NextDay

Spec == Init /\ [][Next]_vars

\* The scheduler wakes every 60 s and retries after a failed tick, so a tick
\* that is due is loaded and, however often it is rolled back, one commits.
\* Days pass.  Nothing obliges an operator's request to begin or to end.
FairSpec ==
    /\ Spec
    /\ \A s \in Tickers : WF_vars(TickLoad(s)) /\ SF_vars(Commit(s))
    /\ WF_vars(NextDay)
-----------------------------------------------------------------------------
(* Properties.                                                             *)

\* An active row that _tick_one_pkg silently skips for ever (shard_rollout.py:505).
Startless(row) == row.shard_rollout_status = "active" /\ row.shard_started_at = None

\* With one operator an active rollout knows the day it started on, whatever stale
\* ticks overlap his requests: the fleet is never left partly served for ever.
ActiveHasStart == \A p \in present : ~Startless(pkgs[p])

\* A request has written the start or the status since the row was `base`: ticks
\* only complete it.
RequestSince(base, current) ==
    \/ current.shard_started_at # base.shard_started_at
    \/ current.shard_rollout_status \notin {base.shard_rollout_status, "complete"}

\* With several operators a rollout may lose its start: a request that reactivates a
\* row, or that resets one, flushes one of the two columns over what another request
\* has made of the row since.  Nothing else does that: no tick, however stale, and
\* no request that had loaded the row as it is.
StartLostToOverlapOnly ==
    [][\A p \in Pkg :
         ~Startless(pkgs[p]) /\ Startless(pkgs'[p]) =>
            \E s \in Operators :
                /\ p \in txn[s].loaded /\ txn'[s] = Idle
                /\ RequestSince(txn[s].base[p], pkgs[p])
      ]_vars

\* A tick writes percent, condition and completion, and nothing else: even when
\* it commits rows it loaded before an operator changed them, the operator's
\* hold, the pinned percent, the start day and the deletion mark survive it.
OperatorColumns(row) ==
    <<row.shard_override, row.shard_percent_override, row.shard_started_at, row.is_deleted>>

TickKeepsOperatorColumns ==
    [][\A s \in Sessions :
         (txn[s].kind = "tick" /\ txn'[s] # txn[s]) =>
            \A p \in Pkg :
                /\ OperatorColumns(pkgs'[p]) = OperatorColumns(pkgs[p])
                /\ pkgs'[p].shard_rollout_status \in {pkgs[p].shard_rollout_status, "complete"}
      ]_vars

\* Row p shows the percent its start day and today call for.
OnSchedule(p) ==
    LET due == compute_shard_percent(pkgs[p].shard_started_at, prefs.days, today)
    IN  /\ pkgs[p].shard_percent = due
        /\ pkgs[p].installable_condition = installable_condition_for_percent(due)

\* Once operators fall silent, every rollout the tick may advance is on its
\* schedule for good: whatever a stale tick or a late request left behind in
\* percent or condition, later ticks repair it (run_production_shard_tick).
EventuallyOnSchedule ==
    <>[](prefs.enabled =>
           \A p \in present :
               Live(p) /\ Tickable(pkgs[p], InProduction(p)) => OnSchedule(p))

-----------------------------------------------------------------------------
(* What the repository says of the rollout, and the code does not do.      *)

\* approvals-workflow-panel.tsx:486: once a version lands in production the
\* scheduler writes its condition, so clients roll out by shard.  A live version
\* that has entered production is therefore in some stage of a rollout.
ProductionIsSharded ==
    \A p \in present :
        Live(p) /\ InProduction(p) /\ prefs.enabled
          => pkgs[p].shard_rollout_status # "none"

=============================================================================
