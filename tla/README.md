# Munki Manager in TLA+

Munki Manager serves software to a fleet of Macs: a FastAPI backend keeps the
packages, catalogs and manifests of a Munki repository in PostgreSQL, lets AutoPkg
import new versions, and moves each version from quarantine to the whole fleet.
A single-page web interface is how operators do all of it.
This directory holds TLA+ modules of the parts of that path where several actors
work on the same rows and of the pages of the interface, TLC configurations that
check them on small instances, and proofs that TLAPS checks for every instance.

Contents: [the system](#the-system), [components](#components),
[modelling conventions](#modelling-conventions), [modules](#modules),
[runs and bounds](#runs-and-bounds), [fairness](#fairness),
[proofs](#proofs), [disagreements](#disagreements-between-the-code-and-what-is-said-of-it),
[behaviours seen without a run](#behaviours-seen-while-modelling),
[what is not modelled](#what-is-not-modelled), [plan](#plan).

## The system

```
 React SPA ──REST──┐                       ┌── Munki clients (/repo/* plists, packages)
 CI webhook ───────┤   FastAPI processes   ├── postflight agent (reports)
 Mac poller ───────┼──  + scheduler loop ──┤
 GitHub job ───────┘         │             └── GitHub API (workflow dispatch, trust)
                        PostgreSQL 16
```

* Every request runs in a SQLAlchemy session of its own, one transaction at READ
  COMMITTED (PostgreSQL's default: `src/backend/automunki/core/db.py` sets nothing
  else). It loads rows, awaits,
  computes on the loaded copies and commits at the end; the flush UPDATEs only the
  columns that changed. Almost nothing is locked or versioned: only the claim of a
  local AutoPkg run selects `FOR UPDATE SKIP LOCKED`.
* Every API process may run a scheduler loop that wakes each minute
  (`src/backend/automunki/services/autopkg_schedule.py:136-170`); the run-due
  webhook does the same work on request. They fire due AutoPkg schedules, move
  packages along promotion channels and advance shard rollouts, next to operators
  doing the same by hand.
* AutoPkg runs execute outside: as GitHub Actions jobs
  (`src/.github/workflows/autopkg_cloud_runner.yml`) or on Macs that poll
  (`src/AutoPkg/scripts/poll_local_autopkg.sh`). They call back over REST, retry,
  give up, or die between two calls.

* The web interface (`src/frontend/src`) keeps server data in a query cache
  (TanStack Query: an answer counts as fresh for 30 seconds,
  `components/providers.tsx:15-23`, and is shown while it is fetched again), and
  forms in component state. A component stays mounted when only the parameter of its
  route changes, requests outlive the page that sent them, and the callbacks of a
  request still run when the page shows something else.

So the hard behaviours are: transactions that overlap and overwrite or miss each
other's columns and links; ticks that act on rows loaded before an operator's
change; multi-call protocols with a runner that may stop anywhere; work that
must be done in the end in spite of rollbacks, deadlocks and lost answers; and pages
whose forms, caches and late answers belong to different rows, or to another time.

## Components

State, operations, interactions and correctness of every part. The letter says what
is modelled: **M** a module exists (what is left out of it is said under
[Modules](#modules)), **–** left out (reasons under
[What is not modelled](#what-is-not-modelled)).

| | Component | State | Operations | Works with | What makes it correct |
|-|-|-|-|-|-|
| M | Production shard rollout (`services/shard_rollout.py`, `routes/workflow.py`) | the rollout columns of `munki_pkginfo`, workflow preferences | initialise on catalog change, start, pause, complete, pin and unpin a percent, edit the condition, daily tick, status | catalogs (membership), promotion and ingest (initialise it), plist compilation (publishes its condition) | operators' holds survive ticks; active rollouts can advance and get to their schedule; the card shows the pin |
| M | Catalog promotion (`services/promotion.py`, `routes/promotion_channels.py`) | channels and their steps; links of package and catalog with `entered_at` | tick; manual promotion, reassignment, edits of channels and of automation | rollouts, catalogs (cascading deletes) | dwell times are kept; one step at a time; a version is not lost between catalogs; what is due moves in the end; a channel's steps are replaced by its own |
| M | Import staging and approval (`routes/autopkg.py`) | `pending_catalog_names`, quarantine links, `approval_status` of results | ingest, post result, approve, reject, assign, delete | runners, recipes (`auto_promote`), catalogs (`is_quarantine`), rollouts | nothing leaves quarantine undecided; nothing stays there for want of a decision; a rejection stands |
| M | AutoPkg runs (`services/autopkg_runs.py`, `routes/autopkg.py`) | `autopkg_run`, `autopkg_run_result` | create and dispatch, claim, register, result, package upload, complete, fail | schedules, runners, GitHub, trust | a run executes once; its history never goes back; local runs get claimed; no run of all recipes unless meant |
| M | AutoPkg runners (workflow, shell and Python scripts) | the run id and the report files of the job | poll, build, report, complete, fail | runs, import staging | all is reported before completion; a failed job says so |
| M | AutoPkg schedules (`services/autopkg_schedule.py`) | cron, enabled, `next_run_at`, recipes | list due, fire, advance, create, edit, delete | runs, trust, the scheduler loop and webhook | due is served; disabled is not fired; a schedule of some recipes never becomes one of all |
| M | Trust of recipes (`services/trust.py`) | trust status and trusted content of a recipe, change requests | check against GitHub, file a request, approve, reject, re-fetch | GitHub, runs, schedules | a blocked recipe can be approved, with two stated exceptions; what is approved was shown; what failed a check does not run |
| M | Overrides and recipes (`routes/autopkg.py`, `services/autopkg.py`) | overrides, the cache of repositories and their index | list, edit, import plists, discover, synchronise, add, remove | trust, runs, GitHub | a field nobody touched is not sent in an old version; what was added by hand stays |
| M | Software (`routes/pkginfo.py`, `app/software`) | `munki_pkginfo` rows | list, edit one or all versions, bulk update, delete | catalogs, rollouts | what is saved is what was reviewed; the list is what the server would answer |
| M | Manifests (`routes/manifests.py`, `app/manifests`) | manifests as documents | edit, save, details, delete | software, other manifests | saved into itself; one entry per software, as Munki reads it; nothing shown is dropped |
| M | Catalogs (`routes/catalogs.py`, `app/catalogs`) | catalogs with production and quarantine flags | create, update, delete | all of the above | links and steps name existing catalogs; one quarantine, but for two created at once |
| M | Uploads (`routes/munki_upload.py`, `services/munki_import.py`) | stored files, new rows | choose, upload, derive a name | software, catalogs | a derived name resolves and is the one shown |
| M | Enrollment (`services/enrollment.py`, `routes/enroll.py`) | tokens with their embedded password | create, redeem, wipe, revoke | clients | a redeemed token keeps no password |
| M | Accounts and roles (`routes/rbac.py`, `app/admin/access`) | accounts, roles, levels, memberships | list, set, add, delete | every page (`canRead`, `canWrite`) | levels nobody touched are not put back |
| M | Session of a tab (`lib/api.ts`, `lib/auth-redirect.ts`, `auth-provider.tsx`) | token, cache, place | sign in, refresh, lapse, redirect, sign out, reload | every page | signed out keeps nothing but what a late save puts there; reloads end |
| M | Insights (`hooks/use-insights-chat.ts`) | conversation and streams | ask, stream, stop, clear, leave, come back | the agent | an answer stands under its question |
| – | Plist compilation, metadata cache, version comparison, client reports, agent, icons, settings, audit, command line and migrations, deployment | | | | |

## Modelling conventions

* **A session is a record.** A request or a tick that overlaps others is a *begin*
  that reads committed state into `txn[s]`, and a *commit* that writes it back. What
  the code would see anew between the two (a waiting DELETE, a fresh SELECT) is a
  step of its own.
* **A flush writes changed columns.** `FlushChanged(current, base, row)` writes over
  the committed row the columns in which the session's row differs from what it
  loaded. This is SQLAlchemy's unit of work, and the reason why overlapping sessions
  merge rather than overwrite each other.
* **Links are rows.** A `DELETE` of links removes the rows its snapshot saw, waits
  for rows another open session has deleted, and does not find those once that session
  has committed. An `INSERT` of a link that exists violates the primary key and the
  session rolls back. Catalog deletion cascades to links and steps.
* **Time** is a count of UTC days (rollouts and dwell compare dates or
  timestamps a day apart) or of cron instants.
* **Names that end in a suffix after an underscore and have the comment `Mutant:`**
  are forms of a definition with a plausible bug. They are used by nothing: replacing
  the definition by one of them makes a named property fail.
* **A page is its component, its part of the server and the other operators.** A
  request under way is a record in a variable; its answer is an action that runs the
  server's handler and the page's callback together, or only one of them where the
  two can be told apart. The page's callbacks are looked at in the order the code
  has them, and for the closure they run in (the row at the click, or the one shown
  at the answer). A refetch of an invalidated or expired key is an action that is
  enabled, and not obliged, from then on.
* Bounds are constants (`Max...`) that appear in guards only, and are listed with
  each run.

## Modules

### ShardOps: the service functions of the rollout

Pure operators on the record of rollout columns of one row, one for each function of
`services/shard_rollout.py`: `init_shard_rollout`, `start_shard_rollout`,
`pause_shard_rollout`, `complete_shard_rollout`, setting and clearing the pinned
percent, `apply_shard_percent_to_pkg` (`ApplyShardPercent`), `_tick_one_pkg`, and the
reporting side (`derive_deployment_status`, `build_shard_status`). The condition `shard
<= N` is the number N, any other condition is `Custom`. `compute_shard_percent` divides
integers where the code uses `int(100.0 / days * day)`; the two agree for all `days` the
schema admits (1 to 30).

### ShardRollout: the rollout as concurrent transactions (EXTENDS ShardOps)

| State | Code |
|-|-|
| `prefs` | `app_workflow_preferences`, row 1 |
| `present`, `pkgs` | rows of `munki_pkginfo` and their rollout columns |
| `prodLink` | `entered_at` of the link to a production catalog |
| `txn` | sessions of operators (`Operators`) and of ticks (`Tickers`) |
| `today` | the date of `datetime.now(UTC)` |

| Action | Code |
|-|-|
| `Start`, `Pause`, `Complete`, `PinPercent`, `UnpinPercent` | the `/pkginfo/{id}/shard/...` routes |
| `EditCondition`, `Delete` | `PATCH` and `DELETE /pkginfo/{id}` |
| `ReplaceCatalogs`, `Promote`, `Reingest`, `IngestNew` | the ways a row's catalogs change, each with the initialisation of the rollout |
| `PatchPreferences` | `PATCH /workflow/preferences` |
| `TickLoad`, then `Commit` or `Rollback` | `run_production_shard_tick` |

`LoadedMembership` is where the model follows SQLAlchemy rather than intuition: a
request that replaces the links has already loaded `PkgInfo.catalogs`, the select
that follows does not refresh it, so the rollout is initialised with the membership
from *before* the change. Left out: the `is_production` flag of a catalog changing
hands, and bulk requests over several rows at once.

### Promotion: channels, their tick and the operators around it

`links` are the rows of `munki_pkginfo_catalog`, `steps` those of each channel,
`automation` the columns of a version that the tick selects by. The tick is modelled
statement by statement: `TickLoad` (channels and packages and the clock, once), for each
package `TickPick` (its first step that is due at that time), `TickDelete` (the source
link), `TickPromote` (the target link, unless its catalog is not found or it is linked),
and `Commit`. A session's `removes` are the links its DELETEs found, `holds` those it
has locked; a tick's `restarted` are links that somebody else wrote anew after it read
them, which only properties look at; `Blocked`, `Conflicts`, `DropsWait` and
`Deadlocked` are what PostgreSQL does with overlapping ones, `Abort` the rollback it
forces, `Crash` any other. Operators replace catalogs, of one or many versions, promote,
edit automation, delete versions, edit or delete channels and delete catalogs. Left out:
`check_auto_promotions` (nothing ever inserts a promotion rule) and the promotion queue,
a read-only view.

### ImportApproval: from an import to the fleet

A runner (`Import`) ingests a version and then posts its result, in two calls; it
posts the result whatever the ingest returned, or dies between them (`PostResult`
never happens). `Ingest` decides where the version goes (`UseQuarantine`), `PostResult`
decides by a rule of its own whether an operator is asked (`ApprovalAtPost`).
Operators `Decide` on a pending result, whose version is then looked up (`Resolve`),
assign catalogs, delete versions, and switch `auto_promote` and the quarantine flag
meanwhile. `Resolved` is the look-up with its fallback, and keeps what makes it
delicate: candidates are rows whose `pending_catalog_names` is not SQL NULL, and an
ingest without approval writes the JSON value null, which is not SQL NULL.

### RunLifecycle and AutoPkgRuns: the run history and those who write it

`RunLifecycle` is the abstract specification: what a reader of the run history may
rely on. A run appears, is started at most once, and ends as completed or failed; a
completed run with results is not turned into a failure.

`AutoPkgRuns` is the detailed one. `making` is the row a creator has flushed and not yet
committed (the workflow is dispatched in between, so a GitHub job may exist for a run
that is then rolled back); `runs` and `results` are the tables; `workers` are GitHub
jobs, polling Macs, and the script that someone starts by hand. Claims are two steps,
`Claim` (select and lock) and `Claimed` (commit); `/complete` and `/fail` are a load and
a commit each. The poll script runs under `set -euo pipefail` and nothing guards its
claim (`poll_local_autopkg.sh:10`, `:112`, `:130`): a claim that is refused
(`ClaimRefused`) or whose answer is lost after the commit (`ClaimLost`) ends the script.
launchd, or somebody, may start it again (`Restart`). `History == INSTANCE RunLifecycle
WITH ...` maps rows to statuses, and the run `autopkg_runs` checks `History!Spec`.

### AutoPkgSchedules: cron schedules (EXTENDS AutoPkgRuns)

Composes schedules with the run creation above: a firer (the loop, the webhook) lists
what is due, and for each schedule loads it, verifies trust, creates and dispatches
the run, and advances `next_run_at` in one transaction. `Fire` is `Create` of
`AutoPkgRuns`, `CommitFire` and `RollbackFire` extend `CommitRun` and `RollbackRun`.
Operators create, edit, enable, disable and delete schedules meanwhile. A cron
expression is its period.

### The pages of the web interface

Each is a module named after its component, complete with the routes it calls.

| Module | Code | What it keeps apart |
|-|-|-|
| `SoftwareEditor` | `app/software/[id]/page.tsx`, `lib/software-detail-form.ts` | the form, the snapshot the review dialog was opened with, the batches of PUTs of a save, the version shown now |
| `SoftwareList` | `app/software/page.tsx`, `components/data-table.tsx`, list and bulk routes of `pkginfo.py` | filters, page and order; listings cached under them; the sending, the computing and the arrival of each answer; ticks by id; bulk requests |
| `UploadDialog` | `software-upload-dialog.tsx`, `lib/pkginfo-name.ts`, `munki_import.py` | the name on the dialog and the name derived by the server, as sequences of character classes; the stored file and the row |
| `RolloutCard` (EXTENDS `ShardOps`) | `promotion-cards.tsx` | status as cached, switch and slider, the row; requests that are refused, and those whose answer is lost |
| `WorkflowPanel` | `approvals-workflow-panel.tsx`, `workflow.py` | preferences one by one; the drafts of a channel's steps |
| `CatalogsPage` | `app/catalogs/page.tsx`, `catalogs.py` | the dialog's row, its form, answers of other saves; a creation's flush and its commit, a save's load and its commit |
| `ManifestEditor` | `app/manifests/[id]/page.tsx` and its lists | the manifest shown, the one the lists were loaded from, saves under way and those of a page that was left; references as strings of letters, digits and dashes, with `parseManifestItemRef` and `formatManifestItemRef` |
| `ConditionalBlocks` | `lib/manifest-conditional-items.ts` and its editor | the tree of blocks, addressed by path, with identities |
| `OverrideEditor` | `app/autopkg/recipes/[id]`, `autopkg-recipe-override-editor.tsx` | fields as received, as shown and as sent; the key an answer is cached under |
| `RecipesPage` | `app/autopkg/recipes`, `use-autopkg-quick-run.ts`, `trust.py`, `autopkg_runs.py` | rows as listed and as they are; the check of trust; what a run is posted with |
| `RunsPage` (EXTENDS `RecipesPage`) | `app/autopkg/runs` | what is ticked, what the filter shows, what "all" was meant by |
| `OverrideImport` | import dialog of `app/autopkg/recipes` | what a batch has sent and what the dialog holds by then |
| `ApprovalsPage` | `app/approvals`, `trust.py`, trust routes of `autopkg.py` | GitHub's content, the trusted one, the requests, what a card showed; each check (of one recipe, of those about to run, of all), re-fetch and decision from its load to its flush |
| `ScheduleEditor` | `app/autopkg/schedules` and its dialog | the row, the ticks, the cached list that filters them |
| `DiscoverPage` | `app/autopkg/discover`, `services/autopkg.py` | the organisation's list, the cache, what was added by hand |
| `AccessAdmin` | `app/admin/access`, `rbac.py` | lists loaded out of order, the levels in a dialog |
| `Enrollment` | `app/enroll`, `enrollment-tokens-card.tsx`, `enrollment.py` | each commit of a redemption |
| `InsightsChat` | `use-insights-chat.ts` and its panel | streams, the visit to the page that opened them |
| `Session` | `lib/api.ts`, `auth-redirect.ts`, `auth-provider.tsx`, login and callback pages, `route-error-boundary.tsx` | the token a request was sent with; the cache, with what answers of queries and of mutations put there; the redirect under way |

`WebLibrary` and `WebAdministration` put them together for TLC: a browser tab has one
page open (`tab`), which takes the steps, while what the others hold is at rest; a
property of the composition speaks of the same conjuncts for each page. A page at
rest is in one initial state, so the state space is the sum and not the product. The
composition adds no interaction: pages share the query cache in the code, and each
module has the invalidations by other pages among the events of its environment.

### MC modules

`MCShardRollout`, `MCPromotion`, `MCImportApproval` and `MCAutoPkgSchedules` give the
constants that a `.cfg` cannot write (functions, records) and the symmetry sets.
`MCWebLibrary` does, and adds `ConditionalBlocks` as one more tab: that module computes on
trees with RECURSIVE operators, which no module with a theorem may reach. `WebLibrary`
and `WebAdministration` pass their own constants on to their pages, since theorems are
proved of them. `WebAdministration` and `AutoPkgRuns` are checked without an MC module.

### How the modules fit together

```
 ShardOps ◄─ ShardRollout ◄─ MCShardRollout        RunLifecycle ◄┄┄ AutoPkgRuns ◄─ AutoPkgSchedules
     ▲            ▲                                    (refined by)      ▲               ▲   ▲
     │     ShardRolloutProofs                                    AutoPkgRunsProofs       │  MCAutoPkgSchedules
 RolloutCard                                                             ▲               │
     │                                                           AutoPkgSchedulesProofs ─┘
     │
     │     Promotion ◄─ MCPromotion           ImportApproval ◄─ MCImportApproval
     │         ▲                                    ▲
     │     PromotionProofs                    ImportApprovalProofs
     │
 WebLibrary ─► SoftwareEditor, SoftwareList, UploadDialog, WorkflowPanel, CatalogsPage,
   ▲     ▲     ManifestEditor
   │     MCWebLibrary ─► ConditionalBlocks
 WebLibraryProofs ─► ShardRolloutProofs
 WebAdministration ─► OverrideEditor, RunsPage ─► RecipesPage, OverrideImport,
     ▲         ApprovalsPage, ScheduleEditor, DiscoverPage, AccessAdmin,
     │         Enrollment, InsightsChat, Session
 WebAdministrationProofs ─► EnrollmentProofs ─► Enrollment
```

The three stages of a version's life (import, promotion, rollout) each have their
own view of its catalogs: `ImportApproval` keeps sets of them with the quarantine
catalog, `Promotion` every link with its `entered_at`, `ShardRollout` the link to
production. The loop runs the promotion tick and the rollout tick in one session,
one after the other (`services/promotion.py:570-577`); they are separate ticks
here, because they share no row state but the initialisation of a rollout when a
version is promoted, which `ShardRollout` has as `Promote`.

## Runs and bounds

Each bound is as small as lets the case happen: two sessions overlap in every way that
matters to one row, but for the stories of three that are told below. On a page two rows
are enough to confuse one with another; a third is there where an order or a page needs
it. The clicks allowed are those of the longest story a property is about (open, edit,
leave, open another, save, late answer), and every definition's mutant is found within
them.

| Run | Checks | Instance | Shows |
|-|-|-|-|
| `shard_rollout` | `TickKeepsOperatorColumns`, `StartLostToOverlapOnly` | 1 version, a ticker, 2 operators whose requests overlap, a two-day rollout, days 0 and 1, 5 requests | whatever a stale tick overlaps, the hold, pin, start day and deletion mark survive; an active rollout loses its start day only to a request that another one has overtaken |
| `shard_rollout_live` | `TypeOK`, `ActiveHasStart`, `EventuallyOnSchedule` | 2 versions of one title, 2 tickers, an operator, rollouts of 1 to 3 days, days 0 and 1, 3 requests | with one operator an active rollout knows its start day whatever ticks overlap; once he is silent, every rollout that may advance gets to its schedule and stays on it |
| `promotion_ticks` | `OneStepPerTick`, `NeverStranded`, `EventuallyPromoted` | 2 versions, 2 tickers, no operator, 1 crash, days 0 to 1, two shapes of channel | overlapping ticks, with waits, deadlocks and a crash, move by one step, lose no version, and take what is due |
| `promotion_operators` | `TypeOK` (with the foreign keys), `DwellRespected` | 1 version, a ticker, an operator, 2 requests, 1 crash, days 0 to 2 | cascades leave no dangling link or step; what a tick takes had dwelt, unless its link was written anew between the tick's read and its DELETE |
| `import_approval` | `TypeOK`, `NothingLeftHeld`, `HeldUntilDecided`, `DeletionIsFinal` | 2 imports, versions of 2 titles with one version string, 2 operator sessions, 2 requests, 1 crash | see below |
| `autopkg_runs` | `TypeOK`, `OneExecution`, `HistoryKept`, `PendingIsClaimed` | 2 runs, 2 users, 2 jobs, 2 pollers, 1 script, 1 report each, 1 lost call or machine | the history implements `RunLifecycle`; a claim is exclusive; no local run waits for ever while some poll script runs |
| `autopkg_schedules` | `ScheduleTypeOK`, `DisabledIsNotFired`, `DueIsServed` | 1 schedule, two crons, loop, webhook and a user, a polling machine, 2 runs, 2 edits, 1 failure, time 0 to 2 | a due schedule is served although firings fail and edits interfere; what is disabled is not fired from a stale list |
| `web_library` | `TypeOK`, `SavesAreAsReviewed`, `ListIsTrue`, `CardIsTrue`, `CatalogFlagsAreTheirs`, `UploadedNamesResolve`, `ManifestIsItsOwn`, `WorkflowWritesItsOwn`, `BlocksAreKept` | eight pages, one at a time: 2 versions, 2 items on pages of 1 or 2, a rollout of 2 days, 2 channels, 3 catalogs, 3 files, 2 manifests and 2 items one of which reads as a version of the other, 2 blocks and a nested one; 1 to 5 clicks and foreign changes each | what is saved was shown and belongs to the row it was loaded from; lists and switches tell what the server holds |
| `web_administration` | `TypeOK`, `UntouchedIsAsReceived`, `RunsAreMeant`, `BlockedCanBeApproved`, `RestrictedStaysRestricted`, `SecretsAreWiped`, `AnswersUnderTheirQuestion`, `SessionEndsOnce`, `RetrySendsOnlyFailures`, `RepositoriesAsAsked` | eleven pages, one at a time: 2 recipes, overrides, schedules, repositories, tokens, Macs, accounts and roles, 3 files, 3 questions; 1 recipe of three contents on GitHub with 2 checks at once; 1 to 7 clicks and foreign changes each | blocked recipes do not run and can be approved; stale dialogs send nothing old; secrets are wiped; a signed-out tab keeps nothing but what a late save stores |
| `claim_production_is_sharded`, `claim_trust_shown`, `claim_version_switch` | one property each | one version, one recipe, one item of two versions | a statement of the repository that the code does not keep, see [Disagreements](#disagreements-between-the-code-and-what-is-said-of-it) |

What the less obvious properties say:

* `ActiveHasStart` matters because `_tick_one_pkg` silently skips an active row
  without a start day: the fleet would stay partly served for ever. Resets, starts,
  pins and completions can come in any order, and a tick's stale commit among them.
  It is checked, and proved, for *one* operator session; two that overlap can break it.
* `StartLostToOverlapOnly` says how they do. Each of two requests flushes the columns
  it changed: one that takes a version out of production clears the start day, one that
  clears the pin of a completed version makes it active again, and the row ends with
  both. The property excludes every other way: no tick does it, however stale, and no
  request whose row is still as it was loaded.
* `TickKeepsOperatorColumns` fails when the tick does not respect a hold (its
  completion then clears it), and would if a flush wrote whole rows, as an ORM without
  dirty tracking does: `FlushChanged` is what keeps stale ticks from doing harm.
* `EventuallyOnSchedule` is a `<>[]`: a stale commit may set the percent back, and
  a later tick must repair that. It speaks of rows that the tick may advance
  (`Tickable`), for a held or pinned row has no schedule.
* `DwellRespected` takes the plan that the tick had loaded and its clock, since an
  operator may have edited the channel since. It is checked with operators who reassign
  and promote between a tick's SELECT of the link and its DELETE, which names the link
  and not the `entered_at` that was read (`services/promotion.py:167`, `:220`): a link
  that somebody deletes and writes anew in between moves without dwelling again
  (`txn[s].restarted`). This is the one exception, and the property says so: no other
  overlap, edit, crash or late tick takes a link before its time. It is proved for any
  number of tickers, operators and shapes of channel, cycles included.
* `NeverStranded` is about the DELETE that comes before it is known whether the INSERT
  can be made. Among any number of ticks alone it holds, and is proved, on plans without
  a cycle: the only reason not to insert is that the version is in the target already,
  and what takes it from there brings it further up. Operators who delete catalogs break
  it (see the tick and its target under
  [Disagreements](#disagreements-between-the-code-and-what-is-said-of-it)).
* `HeldUntilDecided` is stated of links: what was in quarantine gets into
  another catalog only by an approval, an assignment, or an ingest that needs no
  approval, and by the commit of that very session.
* `NothingLeftHeld` says that the approval queue is complete: work it off and no
  version waits. The exceptions are what the code cannot know: results that the
  runner never posted, or posted with other gating than the ingest, recipes
  whose key is not the title's name (`keyed`), and versions that an import wrote which
  needed no approval. The last one takes three imports and shows on no smaller
  instance: an ingest that publishes at once has loaded a version before it was held;
  the version is held, deleted, and then revived by that ingest's flush, which leaves
  the names it is pending for as they are. `keyed` recipes have one version of a
  number: `approve_result` looks a version up by title and version.
* `DeletionIsFinal`: a rejection or deletion that overlaps an approval or an
  assignment stands; only an ingest that saw the version deleted revives it.
* `OneExecution` holds until someone starts the script by hand, which claims
  nothing (`run_local_autopkg.sh`); `HistoryKept` holds in spite of that.
* `PendingIsClaimed` asks for claims only as long as poll scripts run, that is, unless
  from some time on all of them have ended. It says nothing of a run whose claim was
  committed and whose answer was lost, which stays `running` (below).
* `DueIsServed` is excused once all run ids of the bound are used up.
* `SavesAreAsReviewed` has three parts. What a PUT carries is what the review dialog
  showed, although the row is fetched again under it; a field of one installer
  (hash, size, receipts) reaches no other version, although "all versions" sends
  other batches first; "saved" is said when every PUT of every batch was acknowledged.
* `ListIsTrue` is about listings under *other* filters, pages and orders than the one on
  the screen: a bulk request changes which items they hold. A request, the moment the
  server computes its answer, and the arrival of it are steps of their own. For the
  listing on the screen the invalidation cancels what is on its way and asks anew. For
  one that is off the screen, or has no data yet, it does not: an answer computed before
  the write that arrives after the invalidation counts as fresh for 30 seconds. The
  property excepts such answers (`overtaken`). It is about this page's own writes: other
  operators', and requests whose answer was lost, show after those 30 seconds.
* `CardIsTrue` follows the switch and the slider of the pin. As long as they were not
  clicked they copy the status, whoever changed the row. After a click, an idle card
  whose status is up to date shows the pin of the row, also when answers were lost after
  their commit. The property stops where the code goes wrong (`pinHistory = "crossed"`):
  the clicked request was not taken, or another operator changed the row after it was,
  and from there on until the next answer that differs from the one before. The card
  then takes an equal status for no news (`promotion-cards.tsx:224`).
* `CatalogFlagsAreTheirs`: each creation and save clears the flag of the *other*
  catalogs its UPDATE sees. Two that are created at once do not see each other, and both
  are quarantines from their commits until a flagged form is saved (`overlapped`). The
  second half says that a form nobody typed in shows the catalog above it.
* `ManifestIsItsOwn` has three parts. What is saved was loaded from the same manifest.
  The catalogs of a page that does not ask before it is closed are
  saved; the sections need not be (below), which is why it speaks of catalogs. A section
  holds no string twice, and no two of one software as `parseManifestItemRef` reads
  them, except where a *name* reads as another one with a version (`Misread`): "Python-3"
  is offered next to "Python", both are read as "Python", and pinning a version of the
  first writes one of "Python".
* `BlocksAreKept`: a click on one block's card changes that block; a document the page
  lets through comes back from the server as it was shown.
* `UploadedNamesResolve`: Munki splits a name that ends in a version, so that a
  manifest with it finds nothing. The preview agrees for names of ASCII characters and
  versions that begin with a digit; the two programs use different classes for the rest.
* `UntouchedIsAsReceived` is stated of what a request *carries*: a field that was not
  edited has the value of the last answer that reached the form. A save is addressed
  to the recipe that its form was loaded from, although an answer can be cached under
  the key of another one (below).
* `RunsAreMeant` and `RestrictedStaysRestricted` are about the same trap: an empty
  list of recipes means *all* to the server, and three different computations (a failed
  check, a stale listing, a search box) can empty one.
* `BlockedCanBeApproved`: the status `pending_approval` and the open request that lifts it
  are written by transactions that overlap, each with the columns it loaded. It is about
  the step that leaves a recipe blocked without a request, and there are two that do. The
  check of all recipes sets the status before the second walk, swallows what that one
  raises and commits (`routes/autopkg.py:1885-1909`, `:1925`). And a decision that loaded
  the recipe before a check blocked it and selects its request afterwards: the request is
  approved, and the status, which equals the one loaded, is not flushed. Any other step
  that did it, of any overlap of checks, re-fetches and decisions, would violate it.
* `SecretsAreWiped` allows the password to stay only for a token whose redemption broke
  off between its commit and the wipe.
* `SessionEndsOnce`: after a sign-out the cache has nothing of the former user but what
  saves that were on their way at that moment put there: a mutation's `onSuccess` calls
  `setQueryData` whatever was cleared since
  (`autopkg-recipe-override-editor.tsx:754`). No answer of a query is stored there, and
  what is requested later is requested without the former user's token. A tab
  reloads itself once for a missing script.

Deadlock checking is off in all runs, since days, requests, clicks, runs and reports are
bounded and the instances come to rest. Symmetry is declared in safety runs only:
over operator sessions in `shard_rollout`, over imports and operator sessions in
`import_approval`. No definition distinguishes them.

## Fairness

* `ShardRollout!FairSpec`: weak fairness of a ticker's load and strong fairness of
  its commit, since the scheduler wakes every 60 seconds and tries again after any
  failed tick (`services/autopkg_schedule.py:140-158`): however often ticks are
  rolled back, one commits. Days pass.
* `Promotion!FairSpec`: strong fairness of a ticker's next statement and of commits,
  because a waiting statement gets the lock when its holder ends; weak fairness of
  the aborts that the database forces; crashes are finitely many (`MaxCrashes`).
* `AutoPkgRuns!RunFairSpec`: weak fairness of what a polling Mac does next. The poll
  loop does not end by itself (`poll_local_autopkg.sh`), and the script it calls does.
  A loop that a lost claim has ended is started again by nobody in particular: nothing is
  assumed of `Restart`, nor of GitHub jobs, of scripts started by hand, or of creators.
* `AutoPkgSchedules!FairSpec` adds weak fairness of each firer's next step, for the
  loop wakes each minute, and of time.

Nothing obliges an operator to begin or to end a request, and nothing obliges a
server to answer a page, so the pages have safety properties only.

## Proofs

Eight modules hold theorems, for any sets, plans, sessions and bounds, from the
assumptions on the constants that each model states by name and TLC evaluates on its
runs. They say what the code rests on: tickers are no operators, rollouts last 1 to 30
days, users do not fire schedules, and so on. That the
value standing for "none" is not a row, a request or a number is among them, for a
prover needs to be told what TLC's model values imply.

Every proof goes one way: the property is seldom inductive, so an invariant `IInv`
says in named conjuncts what open transactions, requests under way and stale copies
may hold; one lemma per action, or per kind of it, shows that a step keeps it; the
theorem reads the property off. What each invariant adds is the content of the proof.

### `ShardRolloutProofs`

`IInv == TypeOK /\ TickShape /\ RequestShape`.

* `TypeCorrect == Spec => []TypeOK`. Every row stays a row although flushes put
  columns of different sessions together, and percentages stay in 0 to 100. The
  arithmetic of `compute_shard_percent` and the type of every service function are
  lemmas of their own.
* `OperatorColumnsKept == Spec => TickKeepsOperatorColumns`. `TypeOK` does not say
  what an open tick carries; `TickShape` does: no change of links, rows that agree with
  the loaded copies in the operators' columns, and a status that is the loaded one or
  `complete`. `FlushChanged` then leaves those columns alone. The commit is the step to
  think about: it changes *other* transactions (`Overtaken`) as well, but only those
  that delete links, so never a tick.
* `OverlapsOnly == Spec => StartLostToOverlapOnly`. `RequestShape`: no transaction
  makes an active row without a start of a row that it loaded with one. A lemma per
  service function (`ResetsKeepStart`, `PinKeepsStart`, `UnpinKeepsStart`, ...) shows it
  where the request begins, and a flush can then break the row only by mixing it
  with what somebody else has written since.
* `OneOperatorStarts`: with at most one operator and any number of tickers,
  `Spec => []ActiveHasStart`. `OneOperatorInv` adds that what his request has loaded is
  as no other request has written it since. Ticks may have; they only complete.

### `PromotionProofs`

`IInv` is `TypeOK` with `TickInv` of every ticker: versions still in a tick's queue are
untouched by it, and whatever it has taken from a version, or is about to, and has
given it, are the source and the target of *one* step of the plan it loaded.

* `TypeCorrect == Spec => []TypeOK`, with the foreign keys: no link and no step of a
  channel names a catalog that is gone. A commit of somebody else between a tick's
  statements cascades into what the tick has not committed yet; `CommittedTables` is the
  lemma about both.
* `OneStep == Spec => OneStepPerTick`, with operators who reassign, edit and delete
  between the statements of a tick, and other ticks.
* `DwellTimes == Spec => DwellRespected`, for any tickers, operators, plans and crashes.
  `TakesDwelt` says of every open tick that each link it has deleted, and the one it is
  about to delete if it is still there, is there among the committed links and either
  had dwelt for a step of the plan loaded, or was written anew since it was read. The
  step to think about is another session's commit (`CommitDwelt`), which may delete a
  link that the tick has picked, write it anew (then it is `restarted`), but not one
  that the tick has deleted and holds.
* `NobodyIsStranded == Operators = {} /\ Acyclic => (Spec => NeverStranded)`, where
  `Acyclic` says that all steps lead upwards in some order of the catalogs. `ClimbInv`:
  what an open tick has taken from a version, and is done with, is `Followed` by a link
  further up, one that is there or one that it brings. Another tick's commit may take
  that link away, but then leaves one that is higher still (`CommitFollows`).

### `ImportApprovalProofs`

`IInv == TypeOK /\ Imports /\ Transactions /\ HeldAreAccountedFor`. `Transactions` says
which session opens which transaction and what it may write over the row it loaded.
`HeldAreAccountedFor` says of every held version that some import *still accounts
for it*: it wrote the version, and it needed no approval, or it is undecided and every
open decision on it has found that very version.

* `TypeCorrect == Spec => []TypeOK`.
* `NobodyIsForgotten == Spec => []NothingLeftHeld`. The property speaks of rest only,
  and the invariant of every moment. The step to think about is the decision: its
  look-up must not find another version than the one its import wrote (`ResolvedFindsHeld`,
  where the assumption on `keyed` is needed), and its commit must clear the names of the
  version that its import accounted for.
* `HeldVersionsWait == Spec => HeldUntilDecided` and `DeletionsStand == Spec =>
  DeletionIsFinal` are action properties that follow from what `Transactions` says of
  the session that commits.

### `AutoPkgRunsProofs` and `AutoPkgSchedulesProofs`

`IInv` numbers the runs (`Ids`), ties a flushed row to what GitHub answered (`Made`),
says what a busy job or Mac knows of its run in each phase (`Jobs`, `Macs`), that no two
of them have the same one (`Apart`), and, as long as no script was started by hand, that
what a poller has loaded to complete a run is still so and that counts are those of
the results (`Polled`, `Counted`).

* `TypeCorrect == RunSpec => []TypeOK`; `RunHasOneExecution == RunSpec => []OneExecution`.
  The lock of a claim is one step of the story. The other is that a job exists before
  its run does: it must be the only one, and no Mac may claim the run.
* `HistoryIsKept == RunSpec => HistoryKept`: `AutoPkgRuns` implements `RunLifecycle`.
  Initial states map to initial states, and every step under `IInv` maps to a step of
  `RunLifecycle` or to a stutter, although `/complete` and `/fail` write what they
  computed from a row loaded earlier.
* The lemmas are about `Step`, in which any session creates runs, so that
  `ScheduledRunsKeepTheirs == Spec => []OneExecution /\ HistoryKept` holds in the
  composition with schedules without a second proof.
* `ScheduleTypesHold == Spec => []ScheduleTypeOK` and `DisabledNotFired == Spec =>
  []DisabledIsNotFired`. `FiringInv`: what a firer has loaded was enabled at that
  moment, whatever list it came from. `Refers`: a schedule is not deleted while a
  flushed run refers to it.

### `EnrollmentProofs`

* `EnrollmentTypeCorrect`: rows, card and requests keep their types.
* `RedeemedSecretsAreWiped == Spec => []SecretsAreWiped`. The code says that a token is
  consumed atomically, and it is not: any number of Macs may be past the check when the
  first commits. That a password does not outlive them is not obvious, since one of
  them may write the row after another one has wiped it. `SecretsAreWiped` is not
  inductive, as it says nothing while a redemption is under way. The invariant
  `NoneForgotten` says that a redeemed token with a password, none of whose redemptions
  broke off, has *somebody who owes the wipe*: a request past its commit. The commit
  makes its own request that one; a wipe discharges all of them, since nothing writes a
  password back; breaking off is the exception the property states.

### `WebAdministrationProofs`

All properties of `web_administration`, for any number of recipes, schedules, roles,
repositories, tokens and questions. Each page has an invariant and a section of its own.
`TabStep` puts them together: a step of the tab is a step of one page and leaves the
variables of all others alone; `AtRest` says that a page at rest keeps its invariant.
The enrollment page takes its invariant, and the lemma that steps keep it, from an
instance of `EnrollmentProofs`.

| Theorem | Property | What the page's invariant adds |
|-|-|-|
| `PagesTypeCorrect` | `TypeOK` | types of caches, dialogs and requests under way |
| `UntouchedIsNotSentOld` | `UntouchedIsAsReceived` | `FormOf`: a field of the form that was not edited is that of the recipe shown; `GoodCall`: a request is addressed to the recipe its form was loaded from, and its body has that recipe's values where nothing was edited |
| `RunsStartedWereMeant` | `RunsAreMeant` | the outcome of a check separates those that passed from the others, up to the run that is posted; "all" under way was ticked as none |
| `OnlyFailuresAreSentAgain` | `RetrySendsOnlyFailures` | what is acknowledged is disjoint from what a batch has left or failed, and the dialog holds acknowledged files only while their batch runs |
| `BlockedRecipesHaveRequests` | `BlockedCanBeApproved` | `GoodCheck`: a recipe that a handler is about to block has its request filed, or is in its second walk, which will file one or roll the handler back; only the check of all recipes is left out of that (`Promised`). `GoodDecision`: the request that a decision has selected is one of its recipe. Each commit is then one of `CommitStep`, where a status that is flushed comes with its request, and `DecideStep`, where it can only be the one that was loaded |
| `RestrictedSchedulesNameRecipes` | `RestrictedStaysRestricted` | a save under way of a dialog for some recipes names one |
| `RepositoriesStayAsAsked` | `RepositoriesAsAsked` | what was added by hand is cached and marked as such |
| `SecretsDoNotStay` | `SecretsAreWiped` | as in `EnrollmentProofs` |
| `AnswersStandUnderTheirQuestion` | `AnswersUnderTheirQuestion` | `InTurn`: questions and answers alternate, also after the oldest were trimmed, and each answer follows the question that it carries |
| `SessionEnds` | `SessionEndsOnce` | `Late`: what a signed-out tab has in its cache are saves that were on their way at the sign-out, and no request that may still be stored as a query's is of the former user; reloads are counted by the key in the session storage |

### `WebLibraryProofs`

All properties of `web_library` but `BlocksAreKept`, for any versions, fields, items,
channels, catalogs, names and manifests, and any number of clicks. The composition
goes as for `WebAdministration`; the work is in the pages.

| Theorem | Property | What the page's invariant adds |
|-|-|-|
| `TypesHold` | `TypeOK` | types of rows, caches, dialogs and requests of every page |
| `SavesWriteTheReviewed` | `SavesAreAsReviewed` | `GoodPuts`: a request on its way has values of its review, and no installer field unless it is for the version shown; `Accounted`: each write a save has planned is acknowledged, on its way, or in a batch that is still to come. Without the last, "saved" could be said of a batch that was never sent |
| `ListingsAreTrue` | `ListIsTrue` | `ListTrue`: an answer that was computed and is *on its way* is also what the server would say, unless a bulk write overtook it. A bulk commit makes them all wrong at once; the invalidation that follows restarts the one on the screen and marks the others, and this is shown for *all* filters, orders and pages |
| `CardShowsTheServers` | `CardIsTrue` | `CardPin`, by the history of the pin. Where the click was heard, `PinSettles` and `PinWillSettle` say which request or which next answer makes card and row equal, since a status the row has left does not come back without the card; a lost answer is covered, as the status is stale until it is fetched. Rows and percentages come from an instance of `ShardRolloutProofs` |
| `WorkflowIsWrittenByParts` | `WorkflowWritesItsOwn` | drafts belong to the channel whose dialog is open, and a patch has one field |
| `CatalogsKeepTheirFlags` | `CatalogFlagsAreTheirs` | the pair-wise form of "one quarantine": a creation clears what its UPDATE saw and a save what exists at its commit (`CreatedOne`, `SavedOne`), so that a pair keeps both flags only if neither saw the other, which needs two creations at once |
| `UploadsResolve` | `UploadedNamesResolve` | the preview of an upload on its way is computed from the fields it carries |
| `ManifestsAreSavedFromTheirOwn` | `ManifestIsItsOwn` | whose lists are on the page, and what `isDirty` means while a save is under way: its lists, or those loaded since, are the ones shown. Of a section: no two entries are `Same`, equal as strings or, but for misread names, of one base |

`UploadsResolve` and the sections of a manifest rest on lemmas about sequences, for
names and lists of any length:

* `StartHasNoOtherTails`: what looks like a version at the end of a name's start looks
  like one in the name, as separators are word characters. So the name that is cut at
  the *first* such place has none left (`CutIsWhole`), and cutting at another one first
  changes nothing (`CutTwice`).
* `VersionIsATail`: a version that begins with a digit, and ends the slug after a
  separator, is such a place. Therefore the server's extra step is idle. `CutsAgree` is
  about the two classes of word characters: where what remains is of ASCII, they cut at
  the same place.
* `OfferedIsNew`, `PickedIsRead`: what the pickers offer is not read as an entry of the
  section, and a pinned reference is read back as its software. The second rests on the
  assumption `RefsAreReadBack`, as parsing is not the inverse of formatting for every
  string: it asks for versions that begin with a digit or hold a dash (anything else is
  taken for a part of the name), and for names that do not end in a dash nor hold two in
  a row. TLC evaluates it on the names of the run.
* `AddRef`, `ReplaceRef`, `RemoveRef`, `MoveRef`: what the operations on a section do to
  a list in which no two entries are the same. A removal is the sequence of what is
  kept, by the number of kept items before each (`PlaceIsTaken`).

### What is only model-checked

* Liveness: `EventuallyOnSchedule`, `EventuallyPromoted`, `PendingIsClaimed`,
  `DueIsServed`. Fairness and ENABLED, like induction over data and RECURSIVE operators,
  are out of reach of the proof system as it is installed.
* `BlocksAreKept`. `ConditionalBlocks` declares RECURSIVE operators for its tree, and no
  module with a theorem uses it.

## Disagreements between the code and what is said of it

Each of these has a run whose counterexample shows it, and an entry in `PROJECT.json`.

* `ProductionIsSharded`. `PUT /pkginfo/{id}/catalogs` into production should start a
  rollout; it is initialised with the membership loaded before the change, and the
  status stays `none`, so the version goes to the whole fleet.
* `ApprovedWasInTheDiff`. `persist_verify_trust_result` (`services/trust.py:924`) stores
  the differences of one walk over GitHub together with the trust of a second one, and
  an approval installs the newest request whatever card was clicked.
  `docs/local-autopkg-runner.md:181` says that any change is visible in the diff.
* `FormFollowsVersion`. The effect that should reset the editor "when navigating
  between versions" (`app/software/[id]/page.tsx:334`) runs at mount only. Another
  version of the item that is opened by a link shows the form of the first, and a save
  writes it there.

These were met while modelling and follow from the models, but have no run of their own:

* `derive_deployment_status` and the summary of a rollout
  (`services/shard_rollout.py:575-586`) say "awaiting approval", "(manual override)" and
  "fully deployed (no shard condition)". A net-new title that awaits approval has no
  condition, which publishes it to all (`:289-296`); a percent pinned on a completed
  rollout publishes a condition under "fully deployed"; a start that keeps an old pin
  (`:357-362`) reports the pin while the schedule's percent is served.
* "Shard rollout is paused; installable condition will not be updated automatically"
  (`services/shard_rollout.py:583`): a tick that loaded the row before the pause writes
  percent and condition after it (`:513`), once.
* `_apply_channel_step` "ensure[s] membership in target" (`services/promotion.py:166`).
  A tick that finds its target catalog deleted has already deleted the source link, and
  commits.
* "Exactly one quarantine catalog is enforced in the API when the flag is set"
  (`docs/architecture.md:72`). A creation clears the flag of the other rows its UPDATE
  sees (`routes/catalogs.py:25`, `:143-160`); of two that are created at once neither
  sees the other, and both are quarantines. `CatalogFlagsAreTheirs` is about everything
  else.
* An item must not be labelled with a base name that Munki resolves to another one, the
  foot-gun that `lib/manifest-item-ref.ts:9-12` is there to prevent: a title "Python-3"
  that is added without a version is written as it is, and read as version 3 of "Python".
* The approval status "must match" the gating of the ingest (`routes/autopkg.py:814`).
  The ingest finds a recipe by identifier, the result by identifier or name (`:790`), and
  `auto_promote` may be switched between the two calls: an import may be published and
  then wait for an approval that decides nothing.
* Enrollment tokens are consumed "atomically" (`services/enrollment.py:177`), "the
  server rejects reuse" (`docs/client-onboarding.md:70`): two Macs that redeem at once
  are both past the check (`:194`) before either commits, and both get a profile.
* An uploaded file is stored under `uploaded/<slug>/<filename>`
  (`docs/storage-backends.md:77-79`); the code stores it under the subdirectory typed, or
  none, and a second file of the same name replaces the first.
* The suffix the backend strips is "a strict subset of what the heuristic catches"
  (`lib/pkginfo-name.ts:46-48`); it is not for versions that begin with a letter, nor for
  letters outside ASCII.

## Behaviours seen while modelling

They follow from the models too, but contradict no statement of the repository, so
that no run is made of them. They are the exceptions behind the wording of the
properties above.

* Rollouts: clearing a pin on a completed rollout makes it active with
  `force_complete` still set, and no tick ever advances it. Two operators whose
  requests overlap (a reset and the clearing of a pin) can leave an active row without
  a start day; `StartLostToOverlapOnly` confines it to that.
  Switching sharding off in mid-rollout freezes the conditions that are published.
* Promotion: two ticks can leave a version in source and target of different steps, and
  a third that overlaps both can then move it before its dwell time; on a channel whose
  steps come back to a catalog, two ticks can do so, and can leave a version without any
  catalog; a reassignment that overlaps a tick leaves the union of both; a link inserted
  between the count and the deletion of a catalog cascades with it; when an operator
  reassigns a version between a tick's read and its DELETE, the new link is taken away
  without its dwell time; the promotion queue may show another step than the tick takes;
  `requires_manual_approval` of a step is not looked at by the tick.
* Imports: the only candidate of the same version string may belong to another
  title, and is released by that title's approval; an approval that races a re-import
  can leave a version in both production and quarantine; an empty list of intended
  catalogs holds a version that no decision releases; two catalogs flagged as
  quarantine by overlapping requests make every held ingest fail.
* Runs: a claim whose answer is lost, or a script that exits, leaves the run
  `running` for ever, as nothing expires it and Macs do not call `/fail`; a claim that
  fails, or an answer that cannot be parsed, also ends the poll script, and a Mac without
  launchd's `KeepAlive` (`docs/local-autopkg-runner.md:95`) polls no more; a dispatch
  that is accepted before its transaction is rolled back starts a job for a run that
  does not exist; a script started by hand executes a run that a poller also has.
* Two editors of one row: a manifest is saved as a whole document and an override by
  the fields of its form; the later save undoes the earlier one's other changes.
* Schedules: `next_run_at` is not looked at again when a listed schedule is fired
  (`services/autopkg_schedule.py:61`). The loop and the webhook can fire one
  occurrence twice, and a schedule that was rescheduled after the listing is fired at
  the old time. The commit of a firing writes the `next_run_at` of the cron
  expression it loaded over one that an edit has set meanwhile.
* Software list: an answer computed before a bulk change, for a listing that is off the
  screen or has no data yet, is shown as fresh for 30 seconds when it arrives after the
  invalidation.
* Software pages: a table page beyond the total stays empty after a deletion; a bulk
  request of more than 500 items is refused as a whole; a failed upload leaves its file,
  and an upload that ends after its dialog was closed still opens the new item.
* Manifests: a title that ends in a dash and a digit is read as a version of another
  one: "Python-3" in a section reads as "Python", is shown so, is offered again next to
  it, and a version pinned on it is one of "Python"; a version that begins with a letter
  becomes a part of the name. Section lists can be edited during a save, whose answer
  marks them as saved; a save that ends when another manifest is shown has that one
  fetched again and not the saved one, and marks its lists as saved; the details dialog
  survives the Back button and writes into the next manifest.
* Rollout card: after a failed request the switch shows what was wanted, until an answer
  that differs; a paused
  rollout cannot be started again from the page; another operator's pin that comes back
  to an equal answer leaves a moved switch as it is.
* Workflow panel: a PATCH of steps omits `requires_manual_approval`, whose default is
  false (`schemas/munki.py:421`); Enter pressed twice creates two channels.
* Catalogs: two that are created at once with the quarantine flag both keep it. A
  description that is cleared on the page is not sent.
* Override editor: a refetch drops unsaved edits; the answer of a pending save is cached
  under the recipe that is shown by then.
* Recipe list and runs page: a run is asked for by names, which the schema does not make
  unique; the modules identify a recipe with its name. Cancel during a check of trust
  does not cancel the run; a disabled recipe counts as verified; files chosen while a
  batch runs are replaced at its end.
* Approvals: the check of all recipes (`POST /autopkg/repos/update`) blocks a recipe and
  commits although GitHub refused the walk for its request, so that nobody can approve
  it until another check files one; a decision that overlaps a check can use up the new
  request and leave the recipe blocked. An older request of a recipe stays after the
  newer one was approved; a check that fails with an error turns a blocked recipe to
  unknown.
* Discover: "added" is decided by an identifier guessed from the repository, and the
  override added here gets another one, so that its card is never marked.
* Schedules page: an unrelated edit drops recipes that are blocked at the moment; the
  late answer of a save closes the dialog of another schedule; "select all" replaces
  the selection by what the filter shows.
* Accounts: lists loaded out of order show the older answer; two superusers can delete
  each other.
* Enrollment: a crash or failure between commit and download uses the token up and
  leaves the password in its row.
* Insights: after leaving and coming back a second stream can run beside the first.
* Session: a save of an override that is answered after the sign-out puts the recipe
  back into the cache of the signed-out tab; a late `/auth/me` makes the former user the
  one signed in until the next refresh; a 401 of a request with an old token removes the
  new one; Back to the login page keeps the cache.

## What is not modelled

* **Read-only**: plist compilation and the repository's answers (what a condition means
  to a device is described above), the promotion queue, status and preview routes, the
  dashboard, reports, clients and audit pages.
* **Data only**: version comparison is an ordering of strings, computed by a loop over
  their parts with nothing that changes; merging of plists; cron syntax and time zones;
  recipe list validation.
* **No decision taken**: client reports and inventory (an insert after a look-up that a
  duplicate does not hurt), the Munki agent, the audit log, the metadata cache of
  runners (each replaces the whole document; a lost entry costs a download), the agent
  behind the insights chat.
* **Pure I/O or infrastructure**: storage back ends, metadata read from installers,
  icons, avatars and device images, settings (single rows that one request replaces),
  command line, seeds and migrations, deployment.
* **Inside modelled components**: the `is_production` flag of a catalog changing
  hands, bulk requests that initialise several rollouts at once, legacy promotion rules
  (never created), renaming catalogs, the exchange with an identity provider, the
  middleware's look-up of a token, the walk over a recipe's parents and their hashes
  (content is a version number), what AutoPkg itself does. The pages of one tab are not
  open in a second one at the same time: the other operators of each module stand for
  that.

## Plan

Ordered by what decides which software reaches the fleet: `ShardOps` and
`ShardRollout` (who of the fleet gets a version), `Promotion` (when it gets to the next
catalog), `ImportApproval` (how it gets in), `RunLifecycle`, `AutoPkgRuns`,
`AutoPkgSchedules` (what imports it), the nineteen pages, and the proofs of all of them
but `ConditionalBlocks`, whose tree would need a form without RECURSIVE operators.
A composition of import, promotion and rollout on one row, with an abstract
specification of a version's stages, would be the next module.

## Running

```
tlc -config ShardRollout.cfg MCShardRollout
tlc -config WebLibrary.cfg MCWebLibrary
tlapm ShardRolloutProofs.tla
tlapm WebAdministrationProofs.tla
tlapm WebLibraryProofs.tla
```

The pairs of module and configuration are in `PROJECT.json`. Every property has
there a mutant, a form of a definition with a plausible bug, that makes TLC find the
property violated.
