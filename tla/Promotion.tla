----------------------------- MODULE Promotion -----------------------------
(***************************************************************************)
(* Promotion channels: services/promotion.py moves versions from catalog   *)
(* to catalog after a dwell time, while operators reassign, promote, edit  *)
(* channels and delete catalogs.                                           *)
(*                                                                         *)
(* The tick (scheduler loop or run-due webhook) is one database            *)
(* transaction of many statements at READ COMMITTED: it loads channels and *)
(* packages once, then for each package reads the links of its steps,      *)
(* deletes the source link and inserts the target link, and commits at the *)
(* end.  Requests are transactions of a begin and a commit.  A DELETE      *)
(* waits for rows another transaction has deleted and does not see rows    *)
(* inserted since it started; an INSERT of a key that exists fails.        *)
(*                                                                         *)
(* check_auto_promotions is left out: nothing in the program ever inserts  *)
(* a munki_promotion_rule.  The rollouts that a promotion starts are in    *)
(* ShardRollout.                                                           *)
(***************************************************************************)
EXTENDS Integers

CONSTANTS
    None,          \* SQL NULL
    Pkg,           \* pkginfo rows: versions of software titles
    Catalog,       \* catalogs that may exist
    Channel,       \* promotion channels
    Order,         \* values of step_order
    PlanChoices,   \* the steps a channel may be given, by step_order
    Tickers,       \* sessions of scheduler loops and of run-due webhooks
    Operators,     \* sessions of request handlers
    MaxDay,        \* bound: the last day of the model
    MaxRequests,   \* bound: requests made in one behaviour
    MaxCrashes     \* bound: transactions lost to crashes in one behaviour

Step == [source : Catalog, target : Catalog, dwell : Int]
Plan == [Order -> Step \cup {None}]

VARIABLES
    today,      \* the UTC day
    catalogs,   \* munki_catalog
    links,      \* munki_pkginfo_catalog: entered_at, None where there is no link
    steps,      \* munki_promotion_channel_step of each channel
    automation, \* auto_promote, promotion_channel_id and is_deleted of each version
    txn,        \* the open transaction of each session
    requests,   \* requests begun so far (a bound, not in the code)
    crashes     \* crashes so far (a bound, not in the code)

vars == <<today, catalogs, links, steps, automation, txn, requests, crashes>>

Sessions == Tickers \cup Operators
Link == Pkg \X Catalog
Entered == Nat \cup {None}

Automation == [auto_promote : BOOLEAN, channel : Channel \cup {None}, is_deleted : BOOLEAN]

\* The package and step a tick is working on.
Work == [pkg : Pkg, step : Step, phase : {"picked", "deleted"}]

ASSUME PromotionAssumption ==
    /\ None \notin Int /\ None \notin Step /\ None \notin Channel /\ None \notin Work
    /\ Order \subseteq Nat
    /\ PlanChoices \subseteq Plan
    /\ Tickers \cap Operators = {}
    /\ MaxDay \in Nat
    /\ MaxRequests \in Nat
    /\ MaxCrashes \in Nat

Transaction ==
    [ kind      : {"idle", "tick", "assign", "promote", "drop"},
      now       : Nat,                           \* when a tick has loaded
      plan      : [Channel -> Plan],             \* the channels it has loaded
      assigned  : [Pkg -> Channel \cup {None}],  \* the channel of each loaded package
      loaded    : SUBSET Catalog,                \* catalogs it holds in its identity map
      queue     : SUBSET Pkg,                    \* loaded packages still to process
      work      : Work \cup {None},
      removes   : SUBSET Link,                   \* links its DELETEs have found
      holds     : SUBSET Link,                   \* those of them it has locked
      adds      : [Link -> Entered],             \* links it has inserted
      drops     : SUBSET Catalog,                \* catalogs it is deleting
      restarted : SUBSET Link ]                  \* links written anew since it found them due
                                                 \* (history, not in the code)

NoLinks == [l \in Link |-> None]
NoPlan == [k \in Order |-> None]

Idle ==
    [ kind |-> "idle", now |-> 0, plan |-> [ch \in Channel |-> NoPlan],
      assigned |-> [p \in Pkg |-> None], loaded |-> {}, queue |-> {}, work |-> None,
      removes |-> {}, holds |-> {}, adds |-> NoLinks, drops |-> {},
      restarted |-> {} ]

StepCatalogs(plan) == UNION {{plan[k].source, plan[k].target} : k \in {j \in Order : plan[j] # None}}

\* The types, and the foreign keys: what links and steps name exists.
TypeOK ==
    /\ today \in Nat
    /\ catalogs \subseteq Catalog
    /\ links \in [Link -> Entered]
    /\ \A l \in Link : links[l] # None => l[2] \in catalogs
    /\ steps \in [Channel -> Plan]
    /\ \A ch \in Channel : StepCatalogs(steps[ch]) \subseteq catalogs
    /\ automation \in [Pkg -> Automation]
    /\ txn \in [Sessions -> Transaction]
    /\ requests \in Nat
    /\ crashes \in Nat

\* Versions have been ingested into one catalog each.  A catalog created later is
\* one that has been there, empty; a deleted one never comes back with its id.
Init ==
    /\ today = 0
    /\ catalogs = Catalog
    /\ \E home \in [Pkg -> Catalog] :
          links = [l \in Link |-> IF home[l[1]] = l[2] THEN 0 ELSE None]
    /\ steps \in [Channel -> PlanChoices]
    /\ automation \in [Pkg -> [auto_promote : BOOLEAN, channel : Channel \cup {None},
                               is_deleted : {FALSE}]]
    /\ txn = [s \in Sessions |-> Idle]
    /\ requests = 0
    /\ crashes = 0

-----------------------------------------------------------------------------
(* The tick: run_promotion_channel_tick and _apply_channel_step.           *)

Linked(p, c) == links[<<p, c>>] # None

Candidates ==
    {p \in Pkg : /\ ~automation[p].is_deleted
                 /\ automation[p].auto_promote
                 /\ automation[p].channel # None}

\* The dwell clock of a step starts when the package enters its source.
Dwelt(p, step, now) == step.dwell <= 0 \/ links[<<p, step.source>>] + step.dwell <= now

Due(p, step, now) == Linked(p, step.source) /\ Dwelt(p, step, now)

DueOrders(p, plan, now) == {k \in Order : plan[k] # None /\ Due(p, plan[k], now)}

FirstOf(orders) == CHOOSE k \in orders : \A j \in orders : k <= j

\* Rows that another open transaction has deleted.
LockedByOthers(s) == UNION {txn[u].holds : u \in Sessions \ {s}}

Blocked(s) == txn[s].removes \cap LockedByOthers(s) # {}

TickLoad(s) ==
    /\ txn[s] = Idle
    /\ Candidates # {}
    /\ txn' = [txn EXCEPT ![s] =
                 [Idle EXCEPT !.kind = "tick",
                              !.now = today,
                              !.plan = steps,
                              !.assigned = [p \in Pkg |-> IF p \in Candidates
                                                          THEN automation[p].channel ELSE None],
                              !.loaded = {c \in Catalog : \E p \in Candidates : Linked(p, c)},
                              !.queue = Candidates]]
    /\ UNCHANGED <<today, catalogs, links, steps, automation, requests, crashes>>

\* Mutant: the dwell time is not waited for.
TickPick_NoDwell(s, p) ==
    /\ p \in txn[s].queue
    /\ txn[s].work = None
    /\ LET plan == txn[s].plan[txn[s].assigned[p]]
           held == {k \in Order : plan[k] # None /\ Linked(p, plan[k].source)}
       IN  txn' = [txn EXCEPT ![s].queue = @ \ {p},
                              ![s].work  = IF held = {} THEN None
                                           ELSE [pkg |-> p, step |-> plan[FirstOf(held)],
                                                 phase |-> "picked"]]
    /\ UNCHANGED <<today, catalogs, links, steps, automation, requests, crashes>>

\* Mutant: only the first step whose source holds the package is considered.
TickPick_FirstHeldOnly(s, p) ==
    /\ p \in txn[s].queue
    /\ txn[s].work = None
    /\ LET plan  == txn[s].plan[txn[s].assigned[p]]
           held  == {k \in Order : plan[k] # None /\ Linked(p, plan[k].source)}
           ready == held # {} /\ Due(p, plan[FirstOf(held)], txn[s].now)
       IN  txn' = [txn EXCEPT ![s].queue = @ \ {p},
                              ![s].work  = IF ~ready THEN None
                                           ELSE [pkg |-> p, step |-> plan[FirstOf(held)],
                                                 phase |-> "picked"]]
    /\ UNCHANGED <<today, catalogs, links, steps, automation, requests, crashes>>

\* The first step, in order, whose source holds the package and is due.
TickPick(s, p) ==
    /\ p \in txn[s].queue
    /\ txn[s].work = None
    /\ LET plan == txn[s].plan[txn[s].assigned[p]]
           due  == DueOrders(p, plan, txn[s].now)
       IN  txn' = [txn EXCEPT ![s].queue = @ \ {p},
                              ![s].work  = IF due = {} THEN None
                                           ELSE [pkg |-> p, step |-> plan[FirstOf(due)],
                                                 phase |-> "picked"]]
    /\ UNCHANGED <<today, catalogs, links, steps, automation, requests, crashes>>

\* Mutant: the DELETE lacks the catalog condition.
TickDelete_EveryCatalog(s) ==
    LET w     == txn[s].work
        found == {l \in {w.pkg} \X Catalog : links[l] # None}
    IN  /\ w # None /\ w.phase = "picked"
        /\ txn' = [txn EXCEPT ![s].work.phase = "deleted",
                              ![s].removes = @ \cup found,
                              ![s].holds   = @ \cup (found \ LockedByOthers(s))]
        /\ UNCHANGED <<today, catalogs, links, steps, automation, requests, crashes>>

\* DELETE of the source link.  Whether it found one is not looked at.
TickDelete(s) ==
    LET w     == txn[s].work
        found == {l \in {<<w.pkg, w.step.source>>} : links[l] # None}
    IN  /\ w # None /\ w.phase = "picked"
        /\ txn' = [txn EXCEPT ![s].work.phase = "deleted",
                              ![s].removes = @ \cup found,
                              ![s].holds   = @ \cup (found \ LockedByOthers(s))]
        /\ UNCHANGED <<today, catalogs, links, steps, automation, requests, crashes>>

\* Mutant: the query for an existing link lacks the package condition.
TickPromote_AnyPackage(s) ==
    LET w == txn[s].work
        l == <<w.pkg, w.step.target>>
    IN  /\ w # None /\ w.phase = "deleted"
        /\ ~Blocked(s)
        /\ txn' = [txn EXCEPT
                     ![s].work = None,
                     ![s].adds[l] = IF /\ w.step.target \in catalogs \cup txn[s].loaded
                                       /\ \A p \in Pkg : ~Linked(p, w.step.target)
                                    THEN today ELSE @]
        /\ UNCHANGED <<today, catalogs, links, steps, automation, requests, crashes>>

\* promote_pkginfo: nothing if the target catalog is not found or already linked.
\* A catalog that came with the loaded packages is found even when it is gone.
TickPromote(s) ==
    LET w == txn[s].work
        l == <<w.pkg, w.step.target>>
    IN  /\ w # None /\ w.phase = "deleted"
        /\ ~Blocked(s)
        /\ txn' = [txn EXCEPT
                     ![s].work = None,
                     ![s].adds[l] = IF /\ w.step.target \in catalogs \cup txn[s].loaded
                                       /\ links[l] = None \/ l \in txn[s].removes
                                    THEN today ELSE @]
        /\ UNCHANGED <<today, catalogs, links, steps, automation, requests, crashes>>

-----------------------------------------------------------------------------
(* Requests that are transactions of a begin and a commit.                 *)

Begin(s, kind, removes, adds, drops) ==
    /\ s \in Operators
    /\ txn[s] = Idle
    /\ requests < MaxRequests
    /\ txn' = [txn EXCEPT ![s] =
                 [Idle EXCEPT !.kind    = kind,
                              !.removes = removes,
                              !.holds   = removes \ LockedByOthers(s),
                              !.adds    = adds,
                              !.drops   = drops]]
    /\ requests' = requests + 1
    /\ UNCHANGED <<today, catalogs, links, steps, automation, crashes>>

\* The links of the versions in `pkgs` are deleted and written anew.
Reassign(s, pkgs, names) ==
    Begin(s, "assign", {l \in pkgs \X Catalog : links[l] # None},
                       [l \in Link |-> IF l \in pkgs \X names THEN today ELSE None], {})

\* PUT /pkginfo/{id}/catalogs, of a deleted version too
ReplaceCatalogs(s, p) ==
    \E names \in SUBSET catalogs : Reassign(s, {p}, names)

\* POST /pkginfo/bulk-update, which skips deleted versions
BulkUpdate(s) ==
    \E pkgs \in SUBSET {p \in Pkg : ~automation[p].is_deleted}, names \in SUBSET catalogs :
        Reassign(s, pkgs, names)

\* POST /pkginfo/{id}/promote
Promote(s, p) ==
    \E c \in catalogs :
        /\ ~Linked(p, c)
        /\ Begin(s, "promote", {}, [NoLinks EXCEPT ![<<p, c>>] = today], {})

\* DELETE /catalogs/{id}: refused while links are counted
DeleteCatalog(s, c) ==
    /\ c \in catalogs
    /\ \A p \in Pkg : ~Linked(p, c)
    /\ Begin(s, "drop", {}, NoLinks, {c})

(* Requests whose statements do not interact: one step each.               *)

Request ==
    /\ requests < MaxRequests
    /\ requests' = requests + 1
    /\ UNCHANGED <<today, catalogs, links, txn, crashes>>

\* PUT /pkginfo/{id} with auto_promote or promotion_channel_id
EditAutomation(p) ==
    /\ Request
    /\ \E auto \in BOOLEAN, channel \in Channel \cup {None} :
          automation' = [automation EXCEPT ![p].auto_promote = auto, ![p].channel = channel]
    /\ UNCHANGED steps

\* DELETE /pkginfo/{id}
DeletePkginfo(p) ==
    /\ Request
    /\ automation' = [automation EXCEPT ![p].is_deleted = TRUE]
    /\ UNCHANGED steps

\* PATCH /promotion-channels/{id}: the steps' catalogs must exist
UpdateChannel(ch) ==
    /\ Request
    /\ \E plan \in PlanChoices :
          /\ StepCatalogs(plan) \subseteq catalogs
          /\ steps' = [steps EXCEPT ![ch] = plan]
    /\ UNCHANGED automation

\* DELETE /promotion-channels/{id}: steps cascade, references become NULL
DeleteChannel(ch) ==
    /\ Request
    /\ steps' = [steps EXCEPT ![ch] = NoPlan]
    /\ automation' = [p \in Pkg |-> IF automation[p].channel = ch
                                    THEN [automation[p] EXCEPT !.channel = None]
                                    ELSE automation[p]]

-----------------------------------------------------------------------------
(* The end of a transaction.                                               *)

Finished(s) ==
    /\ txn[s].kind # "idle"
    /\ txn[s].queue = {} /\ txn[s].work = None

Added(s) == {l \in Link : txn[s].adds[l] # None}

\* An inserted link that exists and that this session has not deleted, or whose
\* catalog is gone.
Conflicts(s) ==
    \E l \in Added(s) : (links[l] # None /\ l \notin txn[s].removes) \/ l[2] \notin catalogs

\* Inserted links share-lock their catalog: its deletion waits for them.
DropsWait(s) == \E u \in Sessions \ {s} : \E l \in Added(u) : l[2] \in txn[s].drops

\* Mutant: a step goes with its source catalog only.
Cascaded_SourceOnly(plan, drops) ==
    [k \in Order |-> IF plan[k] # None /\ plan[k].source \in drops THEN None ELSE plan[k]]

\* Steps cascade with the catalogs they name.
Cascaded(plan, drops) ==
    [k \in Order |-> IF plan[k] # None /\ {plan[k].source, plan[k].target} \cap drops # {}
                     THEN None ELSE plan[k]]

\* Session u has found l due, and its DELETE of l is still to come.
About(u, l) ==
    LET w == txn[u].work
    IN  w # None /\ w.phase = "picked" /\ l = <<w.pkg, w.step.source>>

\* Link l once session s has committed; deleting a catalog deletes its links.
CommittedLink(s, l) ==
    IF l[2] \in txn[s].drops THEN None
    ELSE IF txn[s].adds[l] # None THEN txn[s].adds[l]
    ELSE IF l \in txn[s].removes THEN None
    ELSE links[l]

Commit(s) ==
    /\ Finished(s)
    /\ ~Blocked(s) /\ ~Conflicts(s) /\ ~DropsWait(s)
    /\ links' = [l \in Link |-> CommittedLink(s, l)]
    /\ catalogs' = catalogs \ txn[s].drops
    /\ steps' = [ch \in Channel |-> Cascaded(steps[ch], txn[s].drops)]
    /\ txn' = [u \in Sessions |->
                 IF u = s THEN Idle
                 ELSE [txn[u] EXCEPT
                         !.removes = {l \in @ : l \notin txn[s].removes /\ l[2] \notin txn[s].drops},
                         !.holds   = {l \in @ : l[2] \notin txn[s].drops},
                         !.restarted = @ \cup {l \in Added(s) : About(u, l)}]]
    /\ UNCHANGED <<today, automation, requests, crashes>>

\* Sessions that wait for a row session s has deleted.
Waiters(s) == {u \in Sessions \ {s} : txn[u].removes \cap txn[s].holds # {}}

\* Without a commit nothing is written; a waiting session gets the rows.
Rollback(s) ==
    /\ txn[s].kind # "idle"
    /\ \E heir \in IF Waiters(s) = {} THEN {s} ELSE Waiters(s) :
          txn' = [u \in Sessions |->
                    IF u = s THEN Idle
                    ELSE IF u = heir
                    THEN [txn[u] EXCEPT !.holds = @ \cup (txn[u].removes \cap txn[s].holds)]
                    ELSE txn[u]]
    /\ UNCHANGED <<today, catalogs, links, steps, automation, requests>>

Crash(s) ==
    /\ crashes < MaxCrashes
    /\ crashes' = crashes + 1
    /\ Rollback(s)

\* Two sessions wait for rows the other has deleted.
Deadlocked(s) ==
    \E u \in Sessions \ {s} :
        /\ txn[s].removes \cap txn[u].holds # {}
        /\ txn[u].removes \cap txn[s].holds # {}

\* The rollbacks the database forces: a duplicate or missing key, a deadlock victim.
Abort(s) ==
    /\ (Finished(s) /\ Conflicts(s)) \/ Deadlocked(s)
    /\ Rollback(s)
    /\ UNCHANGED crashes

NextDay ==
    /\ today < MaxDay
    /\ today' = today + 1
    /\ UNCHANGED <<catalogs, links, steps, automation, txn, requests, crashes>>

Tick(s) ==
    \/ TickLoad(s)
    \/ \E p \in Pkg : TickPick(s, p)
    \/ TickDelete(s)
    \/ TickPromote(s)

Next ==
    \/ \E s \in Tickers : Tick(s)
    \/ \E s \in Operators :
          \/ \E p \in Pkg : ReplaceCatalogs(s, p) \/ Promote(s, p)
          \/ BulkUpdate(s)
          \/ \E c \in Catalog : DeleteCatalog(s, c)
    \/ \E p \in Pkg : EditAutomation(p) \/ DeletePkginfo(p)
    \/ \E ch \in Channel : UpdateChannel(ch) \/ DeleteChannel(ch)
    \/ \E s \in Sessions : Commit(s) \/ Abort(s) \/ Crash(s)
    \/ NextDay

Spec == Init /\ [][Next]_vars

\* The scheduler wakes every 60 s, and what has begun runs on: a tick from
\* statement to statement, a session to its commit or to the abort the database
\* forces on it.  Strong fairness, because a waiting statement gets the lock when
\* its holder ends, long before the holder's next tick.  Crashes are few
\* (MaxCrashes).
FairSpec ==
    /\ Spec
    /\ \A s \in Tickers : SF_vars(Tick(s))
    /\ \A s \in Sessions : SF_vars(Commit(s)) /\ WF_vars(Abort(s))
    /\ WF_vars(NextDay)

-----------------------------------------------------------------------------
(* Properties.                                                             *)

TickCommits(s) == txn[s].kind = "tick" /\ Commit(s)

\* architecture.md:53: versions move after the dwell time in the source catalog,
\* counted from entered_at.  Whatever requests, other ticks and crashes overlap it, a
\* link that a tick takes away had dwelt long enough, by the tick's clock, for some
\* step of the version's channel, with one exception: another session wrote the link
\* anew between the SELECT that found it due and the DELETE, which names the link and
\* not what was read of it (promotion.py:220).  Such a version moves without dwelling.
DwellRespected ==
    [][\A s \in Tickers : TickCommits(s) =>
         \A p \in Pkg, c \in Catalog : (Linked(p, c) /\ ~Linked(p, c)') =>
            \/ <<p, c>> \in txn[s].restarted
            \/ \E k \in Order :
                  LET step == txn[s].plan[txn[s].assigned[p]][k]
                  IN  step # None /\ step.source = c /\ Dwelt(p, step, txn[s].now)
      ]_vars

\* One tick moves a version along one step at most: what a commit takes away and
\* what it gives are one source and one target of the same step (the break in
\* run_promotion_channel_tick).
OneStepPerTick ==
    [][\A s \in Tickers : TickCommits(s) =>
         \A p \in Pkg, c, d, e \in Catalog :
            /\ (Linked(p, c) /\ ~Linked(p, c)') /\ (Linked(p, d) /\ ~Linked(p, d)') => c = d
            /\ (~Linked(p, c) /\ Linked(p, c)') /\ (~Linked(p, d) /\ Linked(p, d)') => c = d
            /\ (Linked(p, c) /\ ~Linked(p, c)') /\ (~Linked(p, e) /\ Linked(p, e)') =>
                  \E k \in Order :
                     LET step == txn[s].plan[txn[s].assigned[p]][k]
                     IN  step # None /\ step.source = c /\ step.target = e
      ]_vars

\* While operators are silent, and no plan comes back to a catalog, ticks never leave
\* a version without any catalog: whatever they overlap, a link that
\* _apply_channel_step takes away is replaced, or was already followed by another.
NeverStranded ==
    [][\A s \in Tickers : TickCommits(s) =>
         \A p \in Pkg : (\E c \in Catalog : Linked(p, c)) => (\E c \in Catalog : Linked(p, c)')
      ]_vars

\* Once operators fall silent, no version is left behind on a step that is due:
\* rollbacks, conflicts and deadlocks of overlapping ticks only delay it.
EventuallyPromoted ==
    <>[](\A p \in Candidates : DueOrders(p, steps[automation[p].channel], today) = {})
=============================================================================
