# A TLA+ model of Atlas

Atlas (`src/src/founderos_atlas`, on top of the FounderOS runtime in
`src/src/founderos_runtime`) discovers networks over SSH, keeps what it finds in a
workspace directory and shows it on a web server. This directory models the parts of it
that *keep state that several actors change*: what starts, runs and ends a discovery, the
crawl and the device console, the files that must survive a crash, and the records that
operators edit at the same time. TLC checks the models on small instances. The safety
properties of almost all components, and the refinement of the job service, are proved
with TLAPS for every value of the constants; section 6 says of which and under what
hypotheses, and what is only model-checked.

All paths below are relative to the repository root, `src/`; `atlas/` abbreviates
`src/founderos_atlas/` and `runtime/` `src/founderos_runtime/`.

## 1. Inventory

### Discovery

| Part | State it keeps | Operations | Shared with |
| --- | --- | --- | --- |
| Execution engine, `atlas/discovery/executor.py` | lifecycle state, paused and cancelled events, queue index, outcomes, completed set | `run_pool`, `next_address`, `record`, `pause`, `resume`, `cancel` | main thread, N workers, an operator |
| Multi-hop crawl, `atlas/discovery/multihop.py`, `policy.py` | queue, wave, results, visits, recorded markers | waves, attempts in a pool, integration, boundary policy | the workers of a wave |
| Job manager, `atlas/web/jobs.py` | jobs in memory, the run lock, `jobs.json` | `start`, `request_cancel`, `_execute`, `_persist`, `_restore` | request threads, job threads, the scheduler, the file across restarts |
| Schedule catalog and worker, `atlas/scheduling.py`, `web/schedule_routes.py` | `schedules.json` (leases, runs, windows, revision), `_active` | `claim_due`, `attach_job`, `renew_lease`, `complete_run`, `tick`, the page | workers, the page, the job manager, the clock |
| Daily times, `atlas/scheduling.py` | `next_run_at` of a daily schedule | `_next_daily`, `_daily_occurrence`, `resolve_local_datetime` | time zones |
| Device console, `atlas/console/`, `web/console_routes.py` | tokens, host keys, sessions, audit events | mint, redeem, accept a key, connect, register, pump, close, expire | handler threads, list requests, devices |

### Files that survive a crash

| Part | State it keeps | Operations | Shared with |
| --- | --- | --- | --- |
| Project store, `runtime/local_store.py` | artifacts, events, state, a backup, a lock file | load, save in phases, recover, clear a lock | processes |
| Runtime commands, `runtime/application.py` and its services | project, runs, artifacts, approvals, event stream, idempotency journal | the five commands that change a project | retries |
| Workspace, `atlas/workspace/`, `web/app.py` | metadata files, version marker, instance lock, backups, archive | start-up, migrations, backup, transactional restore | two servers, an operator |
| Outbox, `atlas/notification_delivery.py` | messages with attempts and next times | `enqueue`, `pending`, `dispatch` | dispatchers, providers |

### What operators edit

| Part | State it keeps | Operations | Shared with |
| --- | --- | --- | --- |
| Inbox, `atlas/notifications.py`, `telemetry/` | items with status and revision | `notify`, `reconcile`, `set_status` | collectors, discovery failures, operators |
| Accounts and sessions, `atlas/access/`, `web/ops.py` | accounts and a revision, session records | create, update, delete, sign in and out, expiry, recovery | administrators, requests, restarts |
| Incident cases, `atlas/incidents/records.py` | cases and a revision, audit events | open, acknowledge, move, resolve, close, reopen, bulk | operators, investigations, plans |
| Change plans, `atlas/compass/` | plans with assessment, approval, checks | edit, analyse, review, approve, execute, archive | planners, the cases |
| Curation, `atlas/sites/overrides.py`, `identity/resolutions.py`, `evidence_resolution.py` | three catalogs, each with an audit trail | assign, resolve, decide, revert, undo | operators, pages |
| Policy pages, `atlas/web/routes.py`, `policy/` | report cache, baselines, exceptions | report, save a baseline, grant, revoke | request threads, discoveries |

How they meet: the schedule worker and the web routes call `start` and `request_cancel` of
the job manager; a job thread runs the discovery pipeline, which runs a
`DiscoveryExecution` or a crawl; results travel back only by polling. A failed discovery
calls `notify`; a change plan writes to the incident case it belongs to. Everything else
meets only in files, and most pairs of components share none.

What is hard about them, and hence what the properties are about: events are read outside
the lock that pops the queue; a tick, a request or a save is a sequence of separate
critical sections and the process can die between any two; leases, tokens and sessions run
out under live users; pages read a record and its revision in two reads; audit events
follow a change after its lock is released; files are cut to their newest entries; answers
of the network arrive in any order and old answers arrive late. `PROJECT.json`, "hazards",
has the lines.

### The parts that are not modelled

The discovery adapters, platforms, transport and collectors are device I/O and text
parsing; the analysis packages (path intelligence, advisor, investigation, routing, policy
rules, and more) are pure functions of discovered artifacts; the pages, the visualization
and the command line render. Together they are most of the repository, which is why the
mapped lines are a small share of it (about 7 % of 115 000 lines): their control is a
sequence of pattern matches, and a model of it would repeat it. Their outcomes appear in
the models as a nondeterministic choice (a candidate's outcome, the end of a pipeline, a
fact that a poll returns, evidence that changes).

Also not modelled: the memory, history and telemetry stores (append-mostly files that no
modelled decision reads), runtime journeys and planning (sequential, in memory), credential
and profile files, and the later routes of the runtime's state machine that no command
reaches.

## 2. Modules

```
JobService  <--implements--  DiscoveryJobs <-- MCDiscoveryJobs
    ^ INSTANCE
ScheduleWorker --> ScheduleStore               MCScheduleWorker --> ScheduleWorker
MCDiscoveryPool  --> DiscoveryPool
MCStorage --> LocalStore, FounderRuntime, WorkspaceStart, Outbox
MCDesk    --> Inbox, Access, IncidentCases, ChangePlans, Curation, PolicyReview
MCNetwork --> Crawl, Console, DailyTimes

proofs:  DiscoveryPoolProofs --> DiscoveryPool     DiscoveryJobsProofs --> DiscoveryJobs
         ScheduleProofs --> ScheduleWorker         ConsoleProofs       --> Console, Crawl, DailyTimes
         StoreProofs    --> LocalStore, Outbox     WorkspaceProofs     --> WorkspaceStart, FounderRuntime
         InboxProofs    --> Inbox, Curation
         DeskProofs     --> IncidentCases, PolicyReview, Access, ChangePlans
```

`PROJECT.json`, "map", gives the source lines of every definition; the comment at the head
of a module says what its steps are and what it leaves out. Definitions with a comment
"Mutant:" are not part of any specification: each is a plausible bug, used to confirm that
some property notices it. Variables called "history" record what happened for a property
and guard nothing.

**DiscoveryPool** (`discovery/executor.py`). The variables are the fields of
`DiscoveryExecution`, and `main` and `pc` the program counters of the thread inside
`run_pool` and of the workers. `cursor` is the last list position handed out, so that the
de-duplication of the constructor's list is part of the model. One action is one critical
section, or one unlocked read of an event.

**JobService** is abstract: what `web/jobs.py` promises its callers. A profile has at most
one active job, a result is final, only a job that was asked to stop ends cancelled, and a
restart leaves no job active and may forget jobs or results but never invents them.

**DiscoveryJobs** (`web/jobs.py`). `thread` is where each job's thread stands in
`_execute`, `runLock` and `saving` who holds the run lock and who is inside `_persist`,
`file` is `jobs.json`. `_persist` is two steps because `write_text` truncates before it
writes: in between the file is unreadable, and the write can fail.

**ScheduleStore** has no variables: every method of the store is an operator from a catalog
to a catalog, with the helpers of the source behind them and `Valid`, the test `_read`
applies. **ScheduleWorker** puts the store, the abstract `JobService`, the clock, the
schedules page (with its maintenance windows, of which only the new revision matters) and
restarts together. Every call inside `tick` is an action; `local[w].now` is the single
reading of the clock that a tick uses.

**DailyTimes** gives the zone of a daily schedule one change of its offset and computes
`next_run_at` as the code does, from wall times and folds. Its reference definition says it
without them: the first instant at which the wall clock shows the time or a later one. The
two agree under `DailyAssumption`: no gap is longer than the 180 minutes that the code
searches, and no clock is set back across midnight.

**Crawl** takes the queue as a wave, lets the attempts of the wave end in any order and
integrates the answers in the order of the wave: `ahead` are the neighbors of the last new
device, which are looked at one after the other before the next answer. The network is
chosen at the start: what each host answers, the serial numbers and the neighbors it
reports.

**Console** follows each `console_attach` handler from its token to the end of its pump,
and the three ways a session ends (pump, disconnect, expiry). Expired sessions end only
when a request looks, as in the code.

**LocalStore** is the save in its file operations, with failures and deaths between any
two; an executed command is an entry with a fresh id. A process that clears locks can take
the live process of another account for dead (`Unseen`), because `_pid_alive` answers so
when it may not signal it. Two histories say when the directory had no longer one writer
for a reason that section 5 describes: `stolen` (a live lock was cleared, or two processes
cleared one) and `crossed` (a recovery overlapped a command). **FounderRuntime** is what one
command does to the project, its records and its event stream; there a command is one step.

**WorkspaceStart** is the start-up order of two servers, the migrations, the backup and the
restore, file by file; a file is absent, torn, or holds an edit in the format of a schema
version. `excuses` is a history of the circumstances under which the version marker may
speak of files it was not written for. Two of them, "mixed" and "again" (section 5), were
found by the proof and are out of reach of the run, in which there is one restore.

**Outbox** has dispatchers that read the due messages before they take the lock and write
all results at the end.

**Inbox** has collections that notify signal by signal and reconcile at the end, from facts
that may be older than those another collection has reported. `heard` (history) is the
newest poll that was notified of each subject, and `overtaken` are the subjects about which
an answer came too late: a report after a newer one, or a reconcile that closed the item of
a newer poll.

**Access**: each store operation is one critical section, a request is several.
**IncidentCases**: one revision for the catalog, pages that read in two steps, audit events
after the lock: the append can fail and the server can die before it, and `caseLost`
(history) has the revisions whose event is lost in that way. **ChangePlans**: no lock at
all, the file is truncated and then written. Requests may overlap; `planCrossed` (history)
counts how often one began while another was under way.
**Curation**: one contract for three catalogs, `contract` says which; catalog and trail are
two files that are replaced one after the other.

**PolicyReview**: request threads share the cache of reports without a lock. The key is
read part by part, then looked up, then moved to the end, or the report is evaluated from
what is read after the key. A saved baseline empties the cache in a step of its own. An
entry that vanished between two steps is the `KeyError` that ends the request.

## 3. Runs

Components that share no state are checked in one run by a selector variable (`store` in
MCStorage, `desk` in MCDesk, `busy` in MCNetwork): every behaviour is one of a single
component and the others stay in an initial state, so the reachable states are the sum of
the components' and not their product. In `storage` and `desk`, actors that are
interchangeable (servers, dispatchers, clerks, planners, curators, reviewers, the two
accounts) are declared symmetric; both runs check safety properties only.

| Run | Instance | Size |
| --- | --- | --- |
| `pool` | 2 workers, 5 list entries with a duplicate and a completed address; pause, resume and cancel any number of times | 41 thousand states |
| `jobs` | 2 profiles, 2 jobs, a file that keeps 1, one restart; failing and torn writes | 183 thousand |
| `schedule` | 1 worker; an interval schedule with a retry, a one-time schedule, or an empty catalog that the operator fills; time 0..2, 2 jobs, one trouble (restart, clock set back, page opened) | 1.0 million |
| `schedule_lease` | 2 workers, two schedules that share a profile or differ, time 0..3, 1 job, a history of 2 runs | 0.8 million |
| `schedule_live` | 1 worker, an interval schedule with a retry, time 0..3, a lease of 2, one trouble | 0.24 million |
| `storage` | store: 2 processes, one of them clearing stale locks and unable to signal the other, 3 commands, 3 mishaps; runtime: every sequence of 8 saved commands with 2 keys; workspace: 2 servers, 1 edit, 2 deaths, 1 restore; outbox: 2 dispatchers, 3 messages, a file of 2, 1 stumble | 1.7 million |
| `desk` | inbox: 2 conditions, 2 polls, either one collector with answers of the latest poll and an operator, or two collectors whose answers may be a poll late; accounts: 2 and the local operator, 3 modes; cases: 2 clerks, 1 title, 3 changes, 1 lost event; plans: three first plans (in review, scheduled, running), 2 planners, 4 saves, an overlap or a death; curation: 2 curators, 3 changes, 1 lost event; policy: 2 reviewers, 3 requests, a cache of 1 | 1.3 million |
| `network` | crawl: 4 hosts, 3 topologies, every assignment of four kinds of answers, depth 2, 3 devices; console: 2 sessions, capacity 1, 2 keys; calendar: 3 days of 6 hours, offsets that change by 1, 2 or 3 at any hour of a day | 0.63 million |

What they check. An invariant called `...Sound` is the conjunction of named parts:

* `pool`: `AtMostOnce`, `CompletedMeansAll`, `ResumeSetIsHonest`, `AtMostOneLate` (a worker
  that tested the pause event before `pause()` may still contact one device, and no more),
  `TerminalIsFinal`, `PoolWindsDown`.
* `jobs`: `JobsConsistent` (one pipeline, one active job per profile, active jobs have a
  thread, the file is truthful), `StageMovesForward`, `CancelHolds`, `EveryJobEnds`, and the
  refinement `ImplementsJobService`.
* `schedule`, `schedule_lease`, `schedule_live`: `CatalogSound` (every catalog written reads
  back, an attached run is watched), `CadenceKept`, `NeverLaunchedTwice`,
  `EditsSeeTheCatalog`, `LeasesSound` (a claim has its lease, retries are bounded),
  `HistoryKept` (a result is final and an unreadable catalog is left alone), `EveryRunEnds`.
* `storage`: `StoreSound` (a command is applied once; and until the lock of a live writer
  is cleared, one writer, something always loads, the backup is the last or the last but
  one commit, no state without its events), `StoreNoLostUpdate`; `RuntimeSound` (replaying
  the events gives the state, a phase has its run, the evidence fits the state, no project
  is stuck, a key is applied once); `WorkspaceSound` (one server, no edit lost, a server
  serves a migrated workspace, the display default follows what was there before),
  `WorkspaceRestores` (a restore brings all of the archive or nothing); `OutboxSound` (the
  newest messages are kept, a record is true, one live message per key), `OutboxSends`
  (every call of a provider has a reason).
* `desk`: `InboxSound`, `InboxOpenUnlessOvertaken` (what the newest evidence reports has an
  open item, except where an answer came too late); `AccessSound` (an administrator
  remains, a revision identifies its catalog, a revocation holds), `AccessDeadStaysDead`;
  `CasesSound` (a revision identifies its catalog, an ended case has a resolution, a change
  has its one event, a request that still owes it, or one that failed or died before it);
  `PlansSound` (what runs was approved, its pre-checks recorded, and what completed has
  every change and check recorded, even when requests overlap; while they follow one
  another, an approval covers changes that were seen and assessed, no pre-check fails once
  the plan runs, and the case is told); `CurationSound` (the trail accounts for the
  catalog, pages tell what they show, one entry per subject), `CurationUndoTakesBack`;
  `PolicySound` (a report is never older than the request for it, the cache keeps its
  bound, an edit replaces what its form showed, with the exceptions that the property
  names).
* `network`: `CrawlSound` (no device twice, no host twice, visits in the order of the wave,
  depths are shortest distances, the crawl raises only when nothing was found),
  `CrawlPolicyKept`; `ConsoleSound` (capacity, no SSH connection without an owner),
  `ConsoleTrust` (a token once, only keys that an operator was shown),
  `ConsoleClosedTabEnds`; `DailySound` (the next run is the first occurrence after the last
  one ended, entered times are taken only when one instant shows them).

Why these bounds are enough to be interesting. Two actors race for one thing, and a third
adds no new pair. A bound on troubles, mishaps, deaths or stumbles of one to three already
exposes every step of the others to the disturbance. Every limit of the source (1000 runs,
four cached reports, leases of minutes, a file of jobs or messages) is a constant here and
smaller than what the instance produces, so that it is reached. What the small instances do
not show: three concurrent schedules, two crashes in the scheduler runs, clock corrections
with two workers, two restores of a workspace, plans of more than two changes, networks of
more than four hosts. Where a theorem of section 6 states the property, it covers the first
four of these. With a clock that is set back far enough an occurrence can be retried more
often than `max_retries` says, and likewise when the cut of the history drops the run that
carries the key of an occurrence still to come; `LeasesSound` is therefore checked where
the clock only moves forward and the history is long enough, and `SpecLeasesSound` names
both as hypotheses.

Production starts a single schedule worker (`src/founderos_runtime/cli/commands.py:1537`).
`schedule_lease` still uses two, because the lease protocol with its owner field is written
for several and the repository's tests exercise it so. In the `plans` part of `desk` the
one mishap is an overlap of two requests or a death of the server. That an overlap breaks
the relation of the approval to its assessment is the subject of `plans_overlap`; `desk`
shows what holds nevertheless.

Deadlock is checked in the pool and schedule runs. In the others the system may stop: every
job ended, every bounded change made.

## 4. Fairness

* `DiscoveryPool!FairSpec`: weak fairness for the main thread and each worker. They are OS
  threads that wait only for the conditions in their guards. The operator owes nothing:
  `PoolWindsDown` is conditional on the pool not staying paused.
* `DiscoveryJobs!FairSpec`: weak fairness for the end of a file write, strong fairness for
  the steps that bring a job nearer to its end. Strong, because the lock is taken and
  released by others infinitely often and the code relies on a waiting thread getting it
  eventually. It also assumes that a pipeline ends after finitely many callbacks: a
  discovery has a limit on its devices and connections have timeouts; a pipeline that hangs
  anyway holds the run lock, and nothing in the manager would end it.
* `ScheduleWorker!FairSpec`: the polling thread keeps ticking (it catches every exception of
  a tick), the clock advances, and jobs end. The last is what `EveryJobEnds` shows of the
  real manager.
* `ConsoleFairness`: a handler's connection attempt ends (it has a timeout), its thread runs
  on, and its pump notices a closed tab, because the receive call on the socket returns. No
  fairness for requests: nobody has to list, disconnect or expire anything.

## 5. What disagrees with the documentation

Four runs check one statement of a document, a comment or a check in the code, and TLC
finds a behaviour of the code against it. `PROJECT.json`, "findings", quotes them.

* `jobs_remember`: a crash inside `write_text` leaves `jobs.json` unreadable, and the
  restart treats that as an empty history: active jobs vanish instead of being marked
  interrupted.
* `schedule_trimmed`: `claim_due` keeps the newest 1000 runs whatever their status. If an
  active one is cut, the catalog no longer passes its own validation: every later tick
  fails and the server cannot be restarted.
* `inbox_stale`: a complete but old answer without signals closes the items of conditions
  that newer evidence reported.
* `plans_overlap`: a request that loads the plans while another has truncated the file
  finds none; it saves its own plan alone, without its assessment, and the others are gone.

The models contain more that is worth knowing. The properties are stated so that they hold
in spite of it, and say where they make the exception.

Discovery.

* `run_pool` ignores a refused transition: if `pause()` lands after the workers' last look
  at the event, the pool drains and the execution is returned in state paused for ever.
* A cancellation that arrives after the last callback is accepted and the job ends
  completed.
* The cut of the run list also removes old idempotency keys: a one-time schedule whose run
  fell out and which is resumed is launched again for the same occurrence.
* A failed attempt with retries left sets `enabled` (`scheduling.py:1007`): it resumes a
  schedule that an operator paused meanwhile.
* The schedules page, the users page, the case page and the policy result page read rows
  and revision separately; an edit from a page that was read around a write is accepted.
* Daily times: where clocks are set back from after midnight to before it (St. John's until
  2011) `_next_daily` can return a past instant; after a gap of more than 180 minutes it
  raises.
* The crawl's device limit is a budget per wave: hosts that fail or turn out to be known
  devices use it up (`multihop.py:279-282`). An allow rule is tried before the ranges, so
  it lets an excluded range through.
* A console ended by `_reap` leaves no audit record (`manager.py:230-241`), and idle and
  duration limits hold only when a request looks.

Files.

* A recovery that overlaps a command may back up a mixed state (`local_store.py:345`).
* A brief that is passed over keeps its approval pending for good.
* Two operators who clear the same stale lock at once: the later one reads the dead owner,
  and then unlinks by name the lock that a writer has created in between
  (`local_store.py:262-271`). And `_pid_alive` takes a process of another account for dead
  where it may not signal it (`local_store.py:402-406`), so that an old lock of a live
  writer is cleared too. From then on two processes may write (`stolen`); a command is
  still applied once.
* A legacy archive without a version marker is never migrated after its restore
  (`restore.py:86`). Nor are the files of a restore whose marker was written for others: a
  second restore before the restart that migrates the first one's files takes their versions
  for the marker's, and a backup that is hashed while a restore is under way mixes the files
  of both. `WorkspaceSound` excuses these three and a restore that died half-way, and the
  theorem shows that there is no fifth way.
* A second server rewrites `jobs.json` before it asks for the instance lock (`app.py:284`,
  against `instance.py:12-14`); `migrations.py:95` and `backup.py` spell the credential sets
  file in two ways; a restore takes none of the stores' locks.
* A message that two dispatchers found due, or that was delivered before a crash, is sent
  again; `OutboxSends` counts these.

Operators' records.

* `incidents/records.py:9` promises one audit event per mutation. The event is appended
  after the catalog is written and its lock released (`records.py:429-460`): when the append
  raises or the server dies before it, the change stands and has none. `CaseChangesAudited`
  names these.
* "whoever held the old credential no longer holds a live session" (`ops.py:417`) holds of
  the sessions there are when the password changes. A sign-in that was authenticated with
  the old password before, and opens its session after the others were revoked, keeps it;
  `AccessSound` speaks only of the former.
* The dedupe key of a condition contains the time of observation, so every poll makes a new
  item of it; a snoozed item answers 404.
* The transition of a case from resolved to closed bypasses the validation of `close()`
  (`records.py:758`); acknowledge, suppress, resolve and reopen ignore the transition
  table; a search and an opening at once, or a reopening, give two active cases of one
  title.
* Two plans of one title get one id, and a plan that was lost starts again at revision 1,
  so that old pages match it. Editing readiness during a review keeps the status although
  `lifecycle.py:7` says "any edit returns here"; some handlers rely on the page for their
  guard. With two overlapping requests an approval can cover changes the approver never
  saw, which `service.py:227` excludes.
* After a lost audit event an undo takes back an older change, although
  `resolutions.py:1-9` promises changes that are reversible. The undo form of the topology
  page sends no revision. An override that matches by a shared weak key replaces that of
  another device; a device whose strongest key is ambiguous gets a second entry, and later
  neither is found.
* The comment at `routes.py:2922` says that every dimension of a report is in its key; the
  device contexts (sites, roles) are not. Two requests that touch one cache entry can make
  one of them fail with a `KeyError`. The revision of the exceptions is checked before the
  lock is taken, so two operators can both pass it.

## 6. Proofs

All theorems are proved by TLAPS from the assumption named in the module the theorem is
about (`PoolAssumption`, `JobsAssumption`, ...). These are typing facts: finite sets of
workers or sessions where the code has a finite number of them, placeholders that are not
values, limits that are natural numbers. `CrawlAssumption` adds that the seeds are distinct
hosts of the network (the constructor removes duplicates) and that none is called like a
kind of marker; `CurationAssumption` that what is described has at least one key, each
once, and exactly one where the code takes one; `DailyAssumption` that an offset is less
than a day (Python refuses others), that no gap is longer than the code's search and that
no clock is set back across midnight. `BackoffGrows` is a fact of arithmetic
that the provers cannot derive, that powers of two grow. TLC evaluates each of them in the
runs. The bounds of the runs (how many jobs, mishaps, restores) are constants too and so
are arbitrary numbers in the theorems.

| Module | Theorem | Property |
| --- | --- | --- |
| `DiscoveryPoolProofs` | `TypesHold` | `TypeOK` |
| | `ProcessedAtMostOnce` | `AtMostOnce` |
| | `CompletedIsComplete` | `CompletedMeansAll` |
| | `ResumeSetHonest` | `ResumeSetIsHonest` |
| | `LateDequeuesBounded` | `AtMostOneLate` |
| | `TerminalStatesFinal` | `TerminalIsFinal` |
| `DiscoveryJobsProofs` | `SpecJobsConsistent` | `JobsConsistent` |
| | `SpecStageMovesForward` | `StageMovesForward` |
| | `SpecCancelHolds` | `CancelHolds` |
| | `SpecImplementsJobService` | `ImplementsJobService` |
| `ScheduleProofs` | `SpecHistoryKept` | `HistoryKept` |
| | `SpecEditsSeeTheCatalog` | `EditsSeeTheCatalog` |
| | `SpecCadenceKept` | `CadenceKept` |
| | `SpecClaimedIsActive` | the first part of `LeasesSound`, without hypotheses |
| | `SpecLeasesSound` | `LeasesSound`, given `[][clock' >= clock]_clock` and `Remembers` |
| | `SpecCatalogSound` | `CatalogSound`, given `[]InWindow(catalog)` |
| | `SpecNeverLaunchedTwice` | `NeverLaunchedTwice`, given `[](catalog.last <= RunsKept)` |
| `ConsoleProofs` | `SpecConsoleSound`, `SpecConsoleTrust` | `ConsoleSound`, `ConsoleTrust` |
| | `SpecCrawlSound`, `SpecCrawlPolicyKept` | `CrawlSound`, `CrawlPolicyKept` |
| | `SpecDailySound` | `DailySound` |
| `DeskProofs` | `SpecCasesSound`, `SpecPolicySound` | `CasesSound`, `PolicySound` |
| | `SpecAccessSound`, `SpecAccessDeadStaysDead` | `AccessSound`, `AccessDeadStaysDead` |
| | `SpecPlansSound` | `PlansSound` |
| `InboxProofs` | `SpecInboxSound` | `InboxSound` |
| | `SpecInboxOpenUnlessOvertaken` | `InboxOpenUnlessOvertaken` |
| | `SpecCurationSound`, `SpecCurationUndoTakesBack` | `CurationSound`, `CurationUndoTakesBack` |
| `StoreProofs` | `SpecStoreSound`, `SpecStoreNoLostUpdate` | `StoreSound`, `StoreNoLostUpdate` |
| | `SpecOutboxSound`, `SpecOutboxSends` | `OutboxSound`, `OutboxSends` |
| `WorkspaceProofs` | `SpecWorkspaceSound`, `SpecWorkspaceRestores` | `WorkspaceSound`, `WorkspaceRestores` |
| | `SpecRuntimeSound` | `RuntimeSound` |

Four hypotheses, all about schedules, go beyond the assumptions.

* `InWindow`: the newest `RunsKept` runs include every run that is still active. The run
  `schedule_trimmed` shows that without it the catalog stops reading back, which is the
  finding of section 5.
* `catalog.last <= RunsKept`: no run was ever cut. A cut also removes the idempotency keys
  that `claim_due` looks for duplicates in, and section 5 says what happens then.
* `clock' >= clock`: the wall clock is not set back. A retry is due at the moment its run
  ended plus the delay, which has to be later than the run it retries for its key to be a
  new one. With two corrections and two jobs TLC finds an occurrence that is claimed more
  often than `max_retries` allows.
* `Remembers`: the cut to the newest runs does not forget a run that carries the key of its
  schedule's next occurrence. It is weaker than "no run was cut". Without it a one-time
  schedule that ran, is enabled again and lost its run to the cut is claimed once more from
  the first attempt on, as TLC shows with two runs kept.

The other theorems have none. Where the code gives up a promise, the property itself says
where, by a history of what happened: `caseLost` (events of a failed or dead request),
`planCrossed` (requests overlapped), `overtaken` (an answer came after a newer one),
`stolen` and `crossed` (a live lock was cleared, a recovery overlapped a command),
`excuses` (what may mislead the version marker). Each of these happens in the runs, except
for the excuses that section 2 names.

None of the properties is inductive by itself. Each module proves one inductive invariant,
a conjunction of named parts, preserved with one lemma or one case per action; TLC checked
each invariant on a small instance before it was proved. What the parts are for:

* **Pool**: `QueueInv` ties the history `attempts` to the queue index (an address was given
  out once if its position is at or before the index, and never otherwise) and says that
  busy workers hold different, unrecorded addresses. It rests on `ListFacts`: a pending
  address has one queue position, which is what the constructor's `seen` set is for.
  `BooksInv`: nothing handed out is lost. `ControlInv` carries the reason for completeness
  through the threads: a worker that left without being cancelled saw an empty queue, and
  an empty queue stays empty. `LateInv` bounds late dequeues by what a worker may still do
  at each location.
* **Jobs**: `LockInv` says that the run lock's holder is the one thread between taking and
  releasing it; `StatusInv` relates a job's status to where its thread is; `FileInv` says
  that the file knows no other jobs, and no other results, than the manager, which is what
  a restart restores. The refinement needs all three: a thread that ends a job must find it
  active, and a restored job must be one the service had.
* **Schedules**: every store operation is an operator, so the proof has two layers. Lemmas
  about the operators say that a sane catalog stays sane and that a new catalog *follows*
  the old one (runs keep their schedule, results are final). The worker's invariant adds
  `CatalogInv`, `JobsInv` (runs are linked to jobs there were), `TicksInv` (what each
  worker knows in the middle of a tick), `WatchInv` and `SettleInv` (who watches a claimed
  run, or that it is no longer anyone's), `PageInv` and, for launches, `LaunchInv`: an
  occurrence that was launched is on record or in the hands of the worker that launches it.
  The bound on retries needs to know what was ever claimed, launched or not (`Claimed`),
  and two more parts. `ClockInv`: no run was due later than now, and none that a worker
  holds on to later than its tick began, so that a retry is due after the run it retries.
  `RetryInv` (`ChainAt`, `Within`): a schedule is at an occurrence after everything it ran;
  as long as a run carries the key of that occurrence, the occurrence was claimed as often
  as this run's attempt says, and without such a run one time less than the schedule's
  attempt. The lemmas `...Moves` say of every store operation that it leaves a schedule
  where it is, puts it to rest at a later occurrence or retries the attempt that carries
  the key (`Progress`); `claim_due` alone adds claims, and for one lease one claim
  (`VisitedClaim`).
* **Console**: `CapacityInv`; `HeldInv` (a session is in the hands of the registry or of one
  of the three that end it); `LogInv` (what is still held has not been recorded as ended);
  `TokensInv` (no token of a handler is outstanding, none was redeemed by two).
* **Accounts**: `SessionsInv` (tokens are unique, no deadline further away than the limits),
  `FormsInv` (a form of the current revision shows the current accounts unless its page is
  torn), `RequestsInv`, and `DoomedInv`: a request that still has to revoke sessions knows
  their tokens, which no login gives out again.
* **Cases**: `CatalogOfCases` bounds when a case was touched by the revision; `ClerksInv`
  says that a clerk's page is no newer than the catalog, that its case exists, and that a
  clerk who owes an event shows no page. With that, each revision is in one of three sets,
  and a step moves at most some of them on: recorded, owed, or lost.
* **Policy pages**: `ReviewOf` follows a request: what it began with is no newer than its
  key, its key no newer than the stores, and each part of its report, once read, no older
  than the stamp in the key that answers to it. `CacheCovers` says the same of the entries,
  which is why it does not matter who stored the entry a request hits. The bound of the
  cache needs that one more entry means one more request that is about to evict.
* **Inbox**: `ItemsApart` (items of one subject have different keys, and one without a key
  is alone); `InboxFormsInv` (a form shows an earlier revision of its item, or the item).
  Both must survive the cut of the file. `ObservedInv` says of each subject that no answer
  has overtaken that its items are in the order of their polls, none newer than `heard`,
  and that the newest one is open and carries the evidence that stands: whoever loses it to
  the bound of the file has lost all the others before, and a collection that proves
  recovery from the same poll has the item in its list. An older collection cannot close
  it, since that would make the subject an overtaken one.
* **Plans**: two layers. `RecordInv` holds whatever overlaps: the plan in the file, and the
  plan that any saving request is going to write, each carry their own record
  (`OwnRecord`), because a request changes what it loaded and writes all of it. `PlanInv`
  holds as long as no two requests have crossed; `PlansInv` joins them. In `PlanInv`,
  `SanePlan` says of a plan by itself what the lifecycle promises. `PlanFileInv` holds it
  of the plan in the file, `WorkInv` of the plan a request is going to write, as `ToWrite`
  has it at each step of the save, with a revision one higher. `PageOf`: a page is no newer
  than the plan and at the same revision shows it, so that a decision is about the changes
  there are. A death in the middle of a write loses the file; the plan that is made then
  has the revisions of the lost one once more, and pages of the lost one pass for its own.
  What still holds, and why a check is never recorded for the wrong plan, is that checks
  have ids of their own (`uuid4` in `lifecycle.py:182`, looked up by `record_check`): a
  page with the ids of the plan's checks is a page of that plan. The model had no such ids
  until the invariant turned out not to be inductive without them.
* **Project store**: `StoreAlways` has two layers. The kinds of the files and `OnceInv`
  hold always, also with two writers; the rest, `StoreInv`, until a lock is stolen.
  `LockInv` (who writes has the lock file, and one process at a time unlinks a dead
  owner's); `OnceInv` holds for each of the three copies and each runtime in memory,
  because a recovery can bring any of them back; `RuntimeOf` and `WriterOf` say at each
  phase of a save what the process has in memory and which of the two directories loads:
  the directory until its events are written, the backup from then on, the directory again
  with the state. `ReadOf` says that a runtime whose revision is current extends the
  directory by one entry, which is why the check of the revision under the lock suffices.
  `FilesInv`, `ReadOf` and `RecoveryOf` hold until a recovery overlaps a command; one
  writer does so in any case.
* **Workspace**: `LockHeld`; `StageInv` (what each start-up has already done); `DisplayInv`;
  `RestoreInv` and `UndoInv` (what a restore has to put back); `MarkerInv` says that the
  version marker speaks for the files, the archive and what a restore brings, unless one of
  the excuses occurred; `ArchiveInv`. Writing `MarkerInv` down is what showed the excuses
  "mixed" and "again".
* **Runtime commands**: `ProjectOrder` says that a saved project has one of the five forms
  in `Form`, one for each state, with the number of briefs handed in as parameter: which
  runs there are, which of the records are approved and by which approval, and (`Told`)
  that the events tell its state. Each command is proved to take one form to the next or to
  raise, which is also why some command always goes on; `JournalOrder` says what is on
  record for a key. The replay is a recursive function over the events. That one event more
  changes it by what `ReplayEvent` says of that event is proved by taking the least number
  of events at which two replays of the same beginning could differ.
* **Outbox**: `SenderInv` (who sends has the lock, its results are of messages before those
  still due); `RecordInv`: a record that no dispatcher has a newer result for is
  `Truthful`, that is, says how often the provider was called, up to the slips of the
  message (it was stale when it was sent, or its result was lost); `CountInv` is the bound
  on the calls that follows; `LiveInv`: without slips, what a dispatcher sends was live in
  the file all the time, which is why `enqueue` made no second message of its key.
* **Curation**: `RevisionsInv` (the catalog is the last of the catalogs there were, a page
  shows one of them, and in each a subject has one entry); `EventsInv` (an event says what
  its revision did to its subject, with the exception of an entry that cannot be told from
  another); `OrderInv` (the trail has the events of the settled revisions without the lost
  ones, in order; those being written are of the last revisions). What an undo takes back
  is then found by its revision.
* **Crawl**: `AnswersInv` (each of the first hosts of a wave answers once, in any order);
  `VisitsInv` (the visits of hosts, as ranked in the report, are of the first hosts that
  were taken, and the rest of the wave follows); `OnceInv` (a host was taken or is queued,
  once, if it was ever enqueued); `LevelInv` (the waves go down one level after the other)
  and with it `NearestInv` (a depth is one more than that of the nearest device that
  advertises the host: the devices found later are no nearer); `LookedAtInv` (a neighbor
  that was looked at is enqueued if it may be followed and is in the report, or will be)
  and `MarkersInv` (what was marked as recorded was recorded).
* **Calendar**: the work is in the lemmas. An instant that the code accepts for a wall time
  is one that shows it (`ValidAre`); what it finds for a day is the first instant that shows
  the time or a later one (`OccurrenceIs`, for which the search has to be as long as the
  gap); and a moment is before every instant of a later day (`DaysPass`, which is where a
  clock set back across midnight would break the code). The invariant adds that the next
  run was counted from the moment on record.

Only model-checked, and why:

* All liveness (`PoolWindsDown`, `EveryJobEnds`, `EveryRunEnds`, `ConsoleClosedTabEnds`):
  fairness and `ENABLED` are outside the prover.
* That the hypotheses of a theorem are needed: TLC's counterexamples show it (the runs that
  expect a violation, and section 5).

## 7. Plan

Every invariant and every action property that a passing run checks is now stated by a
theorem. What is left is breadth: the parts that section 1 lists as not modelled, and those
of which section 2 models a part (peer identity beside curation, policy baselines beside the
pages).
