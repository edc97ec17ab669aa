# OKEngine in TLA+

A verification development for OKEngine, the engine that runs a Markdown
knowledge vault: governed writers, resumable operations, a PostgreSQL read
projection, schedulers and web front ends around one directory of pages. Paths
below are relative to the repository.

The vault is plain files, there is no database that would serialise the writers,
and everything that keeps it consistent is a protocol between processes that are
killed, time out and read one another's files halfway. That is what is modelled
here. What a page says, how it is parsed and how it is shown is not.

## 1. Inventory

| Component | State it keeps | Operations | Where it is hard |
|---|---|---|---|
| **Corpus transactions** `src/okengine/corpus_transaction.py` | `.okengine/corpus/`: `lock` (flock), `lock-owner.json`, `active.json`, `commit.json`, `epoch`, `journal.jsonl` | `mutation()`, `touch()`, `stable_corpus()`, recovery in `_finish_active()` | a kill between or inside the four commit writes; recovery killed in turn; conversion of the flock |
| **Operation locks** `src/okengine/operations/run.py` | lock files under `.okengine/operations/locks/`, flocks on their inodes, a stamp in each | `acquire_lockset()`, `LockSet.release()` | files are unlinked by name while others have them open; partial acquisition; stale holders |
| **Operation runs** `run.py`, `framework.py`, `okengine-operations/app.py` | receipts, request records, `_PROCESSES`, workers | POST run, the reaper thread, GET (`refresh`), start-up reconciliation, CLI `run` and `resume`; plan, cancel, logs | event loop, reaper and GET threads on the same files; the service or the CLI killed under its worker |
| **Read projection** `src/okengine/projection/projector.py`, `okengine-projection/service.py`, `src/okengine/mcp/projection.py` | tables `pages`, `links`, `projection_runs`; an advisory lock | incremental and full runs, the service loop, checked queries | nobody takes the fence: correctness is the order of unlocked reads |
| **Write services: review** `src/okengine/write_services/review.py`, `scripts/framework_review.py` | a page's review projection, one ledger record per request, `.okengine/review.lock` | decide, assign, machine check, reconcile | two files per decision; the write tools take another lock than the reviewers |
| **Write services: pages** `write_services/transactions.py` and neighbours | pages, the fence, requests | create, update, converge, patch, dedup | a page read before and published after somebody else's write |
| **Vault lookup cache** `src/okengine/vault_lookup_cache.py` | snapshot of the vault keyed by state | lookup, invalidate | a stale snapshot |
| **Scheduler patches** `patches/cron-plus/`, `scripts/cron_plus_store.py` | `jobs.json`, run records, pid files, model slots, receipts | order after, claim, take a slot, time out, record an outcome, sweep for orphans; deploy | kills, pids that are given out again, sweeps that race the runner, a deploy in the middle of a run |
| **Backup** `scripts/framework_backup.py` | staging directories with a flock each, a lock on their parent, the archive | `create`, `verify`, `restore` | hardlinks taken under the fence and read after it; two backups at once |
| **Upgrade** `scripts/framework_upgrade.py` | `.okengine/migrations-state.json`, the pin, snapshots with manifest and rollback plan | `upgrade --apply`, pack migrations, recovery, rollback, retention | nothing is locked, one step of several fails, a kill anywhere |
| **Install, pull** `scripts/framework_install_domain.py`, `framework_pull.py` | pack trees | file selection, then the pack runner of the upgrade | their last step is the upgrade's |
| **Extension composition** `scripts/extension_*.py` | none | a function of manifests | none |
| **MCP servers, reader, cockpit** | sessions | routing, rendering | none of their own |
| **Extensions, identity and grounding checks, tools, ci** | none | page text analysis, pack content, build tooling | none |

How they meet: the write tools (by `write_services/transport.py`), the workers of
operations (by `run.py` and the runner service) and the repair scripts are inside
`mutation()`. Not every writer is: review calls over HTTP or from the CLI hold
`review.lock` only, reconciliation and both upgrade runners hold nothing, and what
they write has no journal record. Audits and backups are inside `stable_corpus()`.
An operation holds its declared locks outside and the corpus fence inside. The
projection and its readers only look at `epoch`, `journal.jsonl` and
`active.json`. The cockpit polls the operations service for request records.

What makes each part correct:

- *corpus*: each transaction gets exactly one journal record, epochs are
  contiguous, the journal replays to the vault, readers see no unfinished work,
  recovery always succeeds and always comes;
- *locks*: nothing stays locked, nobody waits for ever, conflicting runs exclude
  one another;
- *runs*: no false success, workers under lock and fence, every path gives them
  back, records settle and agree with receipts;
- *projection*: rows at an epoch are the pages of that epoch, queries serve only
  committed states, the service catches up;
- *reviews*: an approval covers the text that was read, page and ledger agree,
  history is never rewritten;
- *backup*: the archive holds the bytes of the fence, or says which files it does
  not; no backup removes what another one works in;
- *lanes*: an outcome is never rewritten, no run is started twice on the same
  success of another lane, no record stays open for ever;
- *upgrade*: a release that is claimed is the release the pages are at, a rollback
  undoes everything of its own and nothing of anybody else's, a kill costs one
  replay and no recovery point.

`PROJECT.json` lists under `hazards` the lines where these can go wrong.

## 2. Modules

| Module | Models | Composition |
|---|---|---|
| `CorpusTransaction` | `corpus_transaction.py`, one action per durable file operation | refines `CorpusLedger` |
| `CorpusLedger` | what its consumers rely on: a versioned vault that moves by whole transactions | abstract |
| `CorpusTransactionProofs` | theorems about the two | extends `CorpusTransaction` |
| `OperationLocks` | `acquire_lockset()` and `LockSet.release()`, one action per system call | |
| `OperationLocksProofs` | theorems about it | extends `OperationLocks` |
| `OperationRuns` | the run lifecycle, service and CLI | uses lock and fence as mutexes, whose detail the two modules above have |
| `OperationRunsProofs` | theorems about it | extends `OperationRuns` |
| `Projection` | projector, service loop, checked query | uses the corpus protocol by the order of its published writes |
| `ProjectionProofs` | theorems about it | extends `Projection` |
| `ReviewDecisions` | the review service and the write tools on one page, with their two locks | the fence as a mutex |
| `CorpusBackup` | `create()`: fence, links, copies, checks, retries, staging sweep | the fence as a shared lock the governed writers wait for |
| `VaultUpgrade` | both migration runners, recovery and `restore` of a saved snapshot | none: the runners take no lock at all |
| `ReviewDecisionsProofs`, `CorpusBackupProofs`, `VaultUpgradeProofs` | theorems about these three | each extends its module |
| `LaneRuns` | the cron-plus policy modules as a scheduler and its runners call them, and a deploy | the store's lock by atomic steps |
| `LaneRunsProofs` | theorems about it | extends `LaneRuns` |
| `MC*` | the small instances | |

### CorpusTransaction

The variables `active`, `prepared`, `epoch`, `journal` and `tail` are the files
of `.okengine/corpus/`, `ex`/`sh` the flock, `owner` is `lock-owner.json`. A
process is at `pc`, entered for `job` (a snapshot or a touched-paths mutation, or
a read), and is heading for the `phase` of `_finish_active()`: recovering,
committing or failing. `Prepare`, `SetEpoch`, `AppendRecord`, `DropActive`,
`DropPrepared` are the durable writes of a commit in their order; `Kill` may come
between any two, `DieInAppend` inside the append, `FinishError` is an I/O error
in the middle, after which the `finally` clause still lets go of the fence.
Digests are modelled by the text they identify, transaction ids by a counter
(`secrets.token_hex` does not repeat).

The constant `TornTails` says what a kill inside an append leaves: with `"fragment"`
an unparseable prefix; `"unterminated"` adds a whole record without its newline.
`flock(LOCK_SH)` on an exclusively held lock is two steps (`DowngradeUnlock`,
`DowngradeRelock`), as flock(2) says.

### OperationLocks

Names (`path`) and files (inodes) are apart, because `release()` unlinks a name
while other runs have the old file open. A run lives in a host: all runs of the
service share one pid, so that a stamped pid says that the host lives, not that
the run does.

### OperationRuns

An actor is a POST request with its handler and reaper, or a CLI process. The
handler runs on the event loop (`OnLoop`: nothing else is served until it
returns), reaper and GETs are threads. A GET is three steps (load and merge,
decide, write). `FenceTimeout` and `LogsFail` are the two exits of the handler
that no `try` covers; in `SpawnFails` and `StartFails` leaving the fence may raise
before the locks are released (`Undo`). `dropped` remembers all three. A record is
probed by the number of its worker's pid: once the worker is gone the number may be
some other process's (`PidTaken`, `PidFreed`), and `PidAlive` is true of that too.
`CliResume` reuses the run id of another actor.

### Projection

The writer half is the corpus protocol reduced to what an unlocked reader can
observe: marker, pages, epoch, journal record, marker gone. A killed writer is not a
separate case: the next participant finishes its transaction in the same order.
A run takes the advisory lock, chooses between journal delta and full scan, reads
page after page, and publishes in one PostgreSQL transaction, unless a page was
unreadable or the deletion guard refuses. A checked query reads the checkpoint,
the marker and the epoch, and then the rows. `Restore` puts an older vault under
the projection; `restore()` extracts file by file and is one step here, since every
page it touches is exempt from then on. `unjournalled` is a history variable: pages that changed without
a journal record (a restore, a transaction that put a page back) since the last
full scan that began later. The code cannot know of them; the properties say
exactly what it owes for all the others. `back` is one too: the checkpoint has gone
below the one a query read. After that the same number may stand for another corpus,
so `ServedRowsAreCommitted` leaves that query out.

### ReviewDecisions

One page, and the ledger records of its requests. A call of a reviewer is `Open`
(what the cockpit or the CLI shows), `Enter` (`review.lock`), `Check` (409 when the
page is not the one that was opened), `Ensure` (find or make the record),
`PublishPage`, `PublishRecord`; `Fail` is a failed replace, after which
`_restore_review_outputs()` puts the old page back. A tool call holds the fence,
reads the page, writes it back governed (`Governed` is
`_apply_review_governance()`), and may queue a request. A page and its content hash
are one thing; a request's id is modelled by what it is the hash of. `read` and
`torn` are histories: which texts were sent back with an approval, and which
decisions lost their record to a kill. A reconciliation (`Reconcile` reads and plans,
`CloseRecord` writes the records one by one) takes no lock and runs beside all of them.

### CorpusBackup

Inodes, not paths, carry bytes, mtime and mode, since that is what the code relies
on: a hardlink keeps its bytes when a page is replaced by rename, and shares
them with whoever writes in place. `Link` is the walk under the fence, `Copy` the
forced copies, `Read` and `Check` the archive loop of each file, whose bytes are
read before its stat is compared. Mtime and ctime are readings of a coarse clock
(`Tick`); link counts follow from names and links (`Nlink`), and whatever changes one
moves the ctime (`Touch`). Writers publish, delete, append in place,
append and put the mtime back (`Pin`), or chmod. Forced copies are limited by number
(`Cap`) and by bytes (`Fits`, the sets of files within the byte limit). `put` and
`meddled` are histories: which files were rewritten with the mtime of their stat, and
which had their mode or link count changed since, or were so rewritten in the tick of the
stat's ctime. `SweepBegin` to `Own` are the life of the staging directory with its two
locks.

### VaultUpgrade

A vault is a function from files to what they hold; a page is which migrations
went over it and whose edit it carries last. What a migration writes is external;
that its output may fail to conform is chosen in `Init`. One variable, `run`, is the
invocation in progress; its `pc` follows the code from the snapshot over `Load`,
`Migrate`, `RecordApplied` to `GatePasses` or `GateFails`, and back through
`Quarantine` and `Restore`. The engine runner captures its delta before the gate
(`Freeze`), the pack runner once more when the gate fails, and the difference is
visible in `GateEditsSurvive`. `Kill` may come anywhere, `Raise` wherever a handler
catches, `RestoreFails` inside a rollback, `Write` (others) at any time. A run is
started with one of its flags or none.

### LaneRuns

`jobs` is `jobs.json`, of whose entries the fields of `after_ordering.py` are kept;
`record` are the files of `runs/<lane>/`, `pidfile` those of `pids/`, `slot` the
flocks of one model. A runner goes through `pc`: its sweep, `Begin`, `TakeSlot` or
`Starve`, `Work`, `RecordOutcome`, `FinishRecord`, `RemoveIfOwned`. A sweep, of a
runner or of the `Tick`, is four steps (`ReadRunning`, `Probe`, `ReadAgain`,
`CloseOrphan`), since it races the runner it looks at. `Kill` takes one runner or,
in `Recreate`, the container. Claims, outcomes and `Deploy` are single steps: all
three hold `jobs.json.lock`. The scheduler's own code (`jobs.py`, `runner.py`) is not
in the repository; `Claim` and `RecordOutcome` are what these modules require of
it. `inputs` and `eaten` are histories: the completions a run was claimed for, and
those a lane has had.

## 3. Runs

| Run | Instance | Result |
|---|---|---|
| `corpus` | 2 processes, 1 page, 2 transactions, 2 kills or errors, non-atomic downgrade | passes: `TypeOK`, `ReceiptExactlyOnce`, `EpochsContiguous`, `JournalExplainsWiki`, `RecoveryNeverRefused`, `EventuallyReceipted`, refinement `ImplementsLedger` |
| `corpus_downgrade` | the same with 1 kill | **violated**: `StableRead` |
| `operation_locks` | 3 runs, 2 locks, 2 hosts, 1 death | passes: `TypeOK`, `NoFlockLeaks`, `HoldersOwnTheirFiles`, `EveryRunDecides` |
| `operation_runs` | 1 service run, 2 CLI runs or resumes, another fence holder, 1 kill, pids taken and freed at will | passes: `TypeOK`, `NoFalseSuccess`, `AttendedWorkIsFenced`, `NoOtherLeak`, `FinalUnlessResumed`, `RequestSettles` |
| `projection` | 2 pages, 2 transactions, service and deploy, 2 attempts, 1 restore or killed run | passes: `TypeOK`, `ProjectionFollowsCorpus`, `ServedRowsAreCommitted`, `RewindsReconcile`, `CatchesUp` |
| `reviews` | 2 reviewers with 2 calls, 2 tools with 2 edits, reconciliations at any time, 1 kill or failed replace, any job | passes: `TypeOK`, `DecidedTextWasRead`, `LedgerBacksPage`, `HistoryOnlyGrows` |
| `review_flag` | 1 reviewer and 1 tool with 1 call each, no fault | **violated**: `UpdatesKeepFlag` |
| `backup` | 1 backup, 2 files, 3 attempts, up to 2 forced copies of which the bytes allow one, 3 writes, 3 ticks, no kill | passes: `TypeOK`, `FenceBytes` |
| `backup_pair` | 2 backups, 1 file, 2 attempts, 1 write, 1 kill | passes: `StagingSafe` |
| `upgrade` | both runners, 3 migrations in 2 releases, 3 pages, 3 invocations, 1 kill or failed rollback, 1 edit by others | passes: `TypeOK`, `ClaimIsTrue`, `RollbackUnchanges`, `NoPageLost`, `GateEditsSurvive`, `OneReplayPerCut`, `RecoveryPointsStay` |
| `lane_runs` | 2 lanes, one after the other and on the same model with limits 1 and 2; 3 runs, 2 pids, 1 kill, 1 deploy | passes: `TypeOK`, `OutcomesStand`, `InputsExact`, `NewestSettles` |
| `upgrade_claim` | the same as `upgrade` | **violated**: `PackClaimIsTrue` |

Every property of a passing run has a mutant in `PROJECT.json`: a definition of
the model with a plausible mistake in it, under which TLC finds that very
property violated.

### Why the bounds are enough

- *corpus*: the flock admits one process, so a second one stands for all the
  others; two transactions let a recovery meet leftovers of an earlier one; two
  faults kill a writer and then its recovery. One text and absence suffice because
  only equality of digests is used, and with one page a record lists its change
  or nothing. The theorems below remove these bounds for the safety properties,
  the number of pages in particular.
- *operation_locks*: three runs make a releaser, one with the old file and one with
  the new one; two locks allow a partial
  acquisition, and overlapping sets. Six files is the most the three runs create.
- *operation_runs*: two CLI processes let one resume the other and both meet the
  service. Two endings of a worker (success, success without its outputs) are the
  ones whose verdicts are easily confused. How often a pid is given out is not bounded.
- *projection*: the vault starts at epoch 1, a vault with a past: the first scan
  records checkpoint 1, the first transaction makes a journal delta, and the second
  one can be in the middle of its pages while that delta is read. Two pages allow
  a move, and a scan that is torn between them. With one content a page is there
  or not, which is what rows, moves and the guard depend on. The guard is set
  (absolute 0, 60 percent) so that it refuses to empty the table.
- *reviews*: two reviewers who opened the same page, or one of them after the
  other's decision, and two tools, one of which holds an old copy while the other
  writes. Two calls and two edits are the least with which a page returns to
  review after it was decided, and with which a reconciliation that read before a
  decision overwrites it, or is overwritten. Reviewers and tools are symmetric.
- *backup*: one file known to be written in place and one just written, both urgent,
  with bytes for one copy, so that the limits have to choose; three attempts (the code's
  number) let a rewritten file be found, copied, and crowded out. `Settle` and `Hot` are
  0 ticks, the sharpest case of a coarse clock. Three ticks separate the stat, a write and
  the check. The sizes of a file never differ, the hard case of the comparison. A kill
  before the archive is published leaves nothing to check there. `backup_pair` trades
  the second file for a second backup and a kill: only the staging directories matter.
- *upgrade*: two migrations of one release and one of the next let a kill fall
  between migrations, between releases, and inside either. One migration rewrites
  and creates, one rewrites the same page again, one deletes: every kind of
  delta. Three invocations are an interrupted run, its retry, and a restore. The
  single cut may be a kill, an error without snapshot, or a failed rollback.
  `Keep` is 1, so that retention takes whatever it may take but the newest
  confirmed snapshot; the proofs are for any `Keep`.
- *lane_runs*: three runs are a lane, its successor, and either of them again, beside
  the other or after it: a success is used, and may not be used again. Two pids mean
  that a killed runner's pid is the next one's, or the one after's. One kill leaves
  one orphan. The limits differ, as `model_concurrency` may, so that one lane starves
  where the other goes on.

### Fairness

- *corpus*: a process past the flock waits for nothing but the disk (`Step`); of
  the processes polling a free flock somebody gets it; readers keep arriving,
  which the scheduled audits and backups do. No fairness on writers, and none on a
  particular poller: `_acquire()` polls and may starve until it times out.
- *operation_locks*: `acquire_lockset()` never waits; a live run goes on.
- *operation_runs*: handlers and threads go on, workers end, the container
  restarts its service, clients poll. No fairness on kills, resumes or other
  holders of the fence, and none on pids: a process that has the number of a worker may
  keep it, and `RequestSettles` says nothing of a record for as long as it does.
- *projection*: transactions end (by their writer or the next participant); a run
  that has the lock goes on; the service calls `rebuild()` for ever, after a
  failure too, and PostgreSQL queues its waiters, hence strong fairness of the
  service for the advisory lock. A deploy need not happen. Queries have no fairness.
- *lane_runs*: a runner goes on, and its waits and its work end
  (`model_slot_wait_seconds()`, `run_deadline()`); the scheduler ticks. No lane is
  ever started again for the sake of an old record.
- *reviews*, *backup*, *upgrade*: safety only, no fairness. Every one of their
  calls may stop anywhere.

### What the violated runs show

- `corpus_downgrade`: `stable_corpus()` converts its lock with one `flock()` call;
  the kernel drops the old lock first. A writer that is polling gets in, publishes,
  is killed, and the reader then traverses its unfinished work.
- `upgrade_claim`: a pack rollback that fails in its middle (an I/O error, Ctrl-C)
  leaves pages restored and the state file not, and the `finally` clause removes the
  snapshot. The vault goes on claiming an intermediate release, whose
  migrations the next run therefore skips.
- `review_flag`: a tool that read the page before a reviewer requested changes or
  rejected it writes its copy back under the fence, which the reviewer does not
  take, and the page leaves quarantine.

### Other divergences

Met while modelling. The models contain this behaviour; no run is spent on it, and
where a property would be violated by it the exception is named in the property.

- A killed append that left a whole line without its newline is counted as
  journalled by the recovery and truncated by the next append: the receipt is lost
  (`corpus_transaction.py:231`; `TornTails` with `"unterminated"`).
- `LockSet.release()` unlocks, closes, then unlinks: one run may lock the old file
  and another a new one under the same name (`operations/run.py:129`).
- A fence timeout, or logs that cannot be opened, leaves the POST handler after the
  locks were taken and before any `try` (`okengine-operations/app.py:317`).
- Leaving the fence finishes the corpus transaction and may raise (no space, say). After
  a failed start `lockset.release()` is then not reached (`app.py:61`, `:329`): the
  service keeps the flock until it ends, where the docstring of `abort_start()` says
  "without leaving a worker or flock behind" (`app.py:44`; `Undo`).
- "Mark it failed so it does not hang forever" (`app.py:223`) depends on the pid of the
  dead worker staying free: `pid_alive()` asks about a number (`app.py:149`), and after
  a restart of the container a small number is soon somebody else's. While that
  process lives, no GET and no start-up reconciliation settles the record (`PidTaken`).
- A GET that loaded `running` writes it over the reaper's terminal record until the
  next GET (`app.py:231`).
- A page read in the middle of a transaction that puts it back and ends before the
  second look at the marker is published, and at an unchanged epoch the service
  never scans again (`okengine-projection/service.py:320`).
- A checked query runs its SELECT after the checks; an incremental run in between
  may have read a page of the next, unfinished transaction (`mcp/projection.py:109`).
- With `--keep-snapshots 0` the engine runner deletes every confirmed snapshot. When an
  operator's restore stops after the pin and before the state file, the next run finds
  nothing pending, claims the target for pages that went back, and deletes the snapshot
  they came from (`framework_upgrade.py:855`; it takes three cuts in four invocations, more
  than the run `upgrade` has; `ClaimIsTrue` excepts `Keep = 0`).
- An operator may restore an older snapshot after a later run, when the files of its
  delta are again as recorded. Pages outside that delta which the later run migrated
  stay, the record of it goes back, and the next run migrates them once more
  (`framework_upgrade.py:711`; `strays`).
- The pack runner captures its delta again when the gate fails, and so reverts
  what others wrote during the gate (`framework_upgrade.py:1133`).
- A retry after a kill compares with a snapshot taken of half-migrated pages, so
  that the regression gate is blind to what the killed run broke
  (`framework_upgrade.py:1345`).
- A decision is published over a page that a tool changed after the check
  (`write_services/review.py:371`), where `docs/human-review.md:16-17` promises a
  refusal. What is published is the text that was read; the tool's edit is lost.
- The request a tool's flag made is under an id of its own, which the decision on
  that page never asks for (`review.py:308`).
- "History is appended, never replaced, so each closure is auditable"
  (`framework_review.py:168`) is not so beside a review call. The reconciliation reads
  the records first and writes them later without `review.lock`
  (`framework_review.py:261`): it erases a decision made in between, and a call that had
  loaded the record erases its closure. `Overwritten` in `HistoryOnlyGrows` is exactly
  these two.
- A file that was rewritten after the fence with its mtime put back is archived without
  a word when its mode or link count changed as well, or when it happened in the tick of
  the stat's ctime. `docs/backup-restore.md` documents this ("Known limitation: a same-size
  rewrite with its mtime set back"); `FenceBytes` excepts that file and no other.
- `status --watch` does not return for a run that ended `degraded`
  (`operations/framework.py:312`); a repeated `cancel` is refused as a different
  request, since its time is part of it (`framework.py:346`).
- A fence timeout of the CLI leaves its receipt `running` (`operations/run.py:266`).
- "An older orphan is already closed by the newer run's own start"
  (`patches/cron-plus/run_records.py:134-135`) is not so when the orphan's pid belongs
  to some process at that moment, the newer run itself for one: the sweep leaves
  the record, and ticks read only the newest. It is closed when the lane starts once
  more. If a process that stays has the pid, not even the newest is closed; the
  model gives the pids of runners to runners only.
- A deploy between a run's outcome and its record removes the outcome from the
  store, and `finish_run_record()` writes `failed` for a run that succeeded
  (`run_records.py:166`); a kill there leaves a record that the next sweep closes as
  `failed` too.
- Sweepers write through one `.json.tmp` name (`run_records.py:40`), and
  `remove_if_owned()` reads before it unlinks (`pid_ownership.py:30`); both are
  single steps in the model.

## 4. Proofs

`CorpusTransactionProofs` proves, for every set of processes, pages and texts and
any number of transactions and faults:

| Theorem | Statement | Assumes |
|---|---|---|
| `TypeCorrect` | `Spec => []TypeOK` | |
| `ExactlyOnce` | `Spec => []ReceiptExactlyOnce` | `TornTails = {"fragment"}` |
| `EpochsCorrect` | `Spec => []EpochsContiguous` | `TornTails = {"fragment"}` |
| `JournalComplete` | `Spec => []JournalExplainsWiki` | `TornTails = {"fragment"}` |
| `NeverRefused` | `Spec => []RecoveryNeverRefused` | `TornTails = {"fragment"}` |
| `ReadersHoldStill` | `Spec => ` a reader's epoch is the one on disk, and `[][sh # {} => UNCHANGED disk]_vars` | |
| `Refinement` | `Spec => Ledger!Spec` | `TornTails = {"fragment"}` |

All rest on `CorpusAssumption` (the special values are none of the ordinary ones,
the bounds are naturals). The further assumption is needed: without it a torn line
without newline loses a receipt ("Other divergences"). `ReadersHoldStill` is what is left
of the promise of `stable_corpus()`: once a reader has its `LOCK_SH`, nothing moves under
it. That no unfinished work is on disk by then is false, as `corpus_downgrade` shows.

The argument. The properties are not inductive: what a recovery finds depends on
how far the killed process had come, and none of its local state survives.
`IInv` is therefore mostly a statement about the disk (`DiskSafe`), which a kill
leaves as it is:

- `Receipts`: ids are below the counter, records are unique, and every id is
  receipted or is the active one's;
- `Markers`: a prepared commit beside an active marker is of the same transaction
  and lists exactly its changes, one alone has its record in the journal;
- `Chained`, `Epochs`: each record advances the epoch by 0 or 1, and the epoch
  file is that of the last record or of the prepared one that is still owed;
- `Explained`: the journal replays to `Old`, the vault before the transaction
  that is still owed a record.

`Typed` adds which process may be where (the holder of the exclusive flock and
nobody else is inside the protocol), `Knows` what each stage has established.
One lemma per file-writing step shows that `DiskSafe` and `Knows` survive it. The
refinement maps the ledger's content to the replay of the journal, its version to
the last record's epoch and its receipts to the ids in the journal; then
`AppendRecord` is the ledger's `Commit` and every other step stutters. That the
content changes exactly when the epoch does follows from `Explained` and
`Markers`.

`OperationLocksProofs`, for all runs, hosts and lock sets, from `LocksAssumption`:

| Theorem | Statement |
|---|---|
| `TypeCorrect` | `Spec => []TypeOK` |
| `NoLeaks` | `Spec => []NoFlockLeaks` |
| `HoldersOwn` | `Spec => []HoldersOwnTheirFiles` |

The argument is an account of flocks. A flock is of a live run that is about to
stamp the file or counts it in `held` (`Accounted`); what a run counts it has locked
and stamped, each file once (`Owned`); a run at work on a lock has its file open
(`Opened`) and has taken exactly the locks before it (`Staged`). Since a name may be
unlinked under an open file, none of this is about names.

`OperationRunsProofs`, for all runs and resumes, from `RunsAssumption`:

| Theorem | Statement |
|---|---|
| `TypeCorrect` | `Spec => []TypeOK` |
| `SuccessIsTrue` | `Spec => []NoFalseSuccess` |
| `WorkIsFenced` | `Spec => []AttendedWorkIsFenced` |
| `NothingElseLeaks` | `Spec => []NoOtherLeak` |
| `FinalsStay` | `Spec => FinalUnlessResumed` |

`Held` says who may hold lock and fence: an actor between taking and giving back, or
one that `dropped` remembers; `Worked`, that there is no worker before the spawn or
after the wait; `Named`, which record an actor writes to; `Finals`, that a receipt is
terminal only past its finalize, or was reopened by a resume; `Truthful`, that each
`succeeded`, in a receipt, a record or in the hands of a thread that is about to write
it, stems from a worker of that run that ended well. The last one is where a stale
GET could have hurt.

`LaneRunsProofs`, for all lanes, limits, pids and bounds, from `LanesAssumption`:

| Theorem | Statement |
|---|---|
| `TypeCorrect` | `Spec => []TypeOK` |
| `OutcomesAreKept` | `Spec => OutcomesStand` |
| `InputsAreExact` | `Spec => InputsExact` |

`Written` says how far a run's record is from where its runner is, `Looked` what each
step of a sweep has found out: after the probe the run is gone for ever, so that
after the second read only another sweep can close the record, the same way.

`InputsExact` is not inductive either: a deploy wipes the store under a runner. `Owners`
says that a live runner is alone under its pid and that its lane's pid file names it, so
no second run of a lane is claimed beside it; `Completed`, that completions are those of
runs past their outcome; `Consumed`, that no completion a success has used exceeds what
is marked as consumed. `Claims` is the core: a run at work finds its inputs in
`after_claim`, or a deploy has dropped them there, and with them the successes they were
the completions of, so that they cannot be claimed again.

`ReviewDecisionsProofs`, for all reviewers, tools, texts and numbers of kills and
failures, from `ReviewAssumption`:

| Theorem | Statement |
|---|---|
| `DecidedAsRead` | `Spec => []DecidedTextWasRead` |
| `LedgerBacks` | `Spec => []LedgerBacksPage` |
| `HistoriesGrow` | `Spec => HistoryOnlyGrows` |
| `TypeCorrect` | `Spec => []TypeOK` |

`Quoted` says that what a page shows, what a
call has loaded and what it is about to publish stems from a text its reviewer read.
`Books` is about page and ledger together: who is past the entry holds `review.lock`
(`Alone`); a record is made for a page that names an earlier one, so that a page
never names the record being made for it (`Earlier`, `Planned`); the record a call
loaded is still the ledger's, unless a reconciliation has closed it since, and the page
names it only after that call's own decision (`Fresh`). A reconciliation leaves its mark
at the end of a history, and only the holder of `review.lock` can remove it: so a call
that writes back something old has met one. That a record shows no more checks than there are calls is a count:
`Counted` charges every check to a call that is over, by the cardinality of the calls
under way.

`CorpusBackupProofs`, for all calls, files, kinds of writers and bounds, from
`BackupAssumption`:

| Theorem | Statement |
|---|---|
| `TypeCorrect` | `Spec => []TypeOK` |
| `StagingIsSafe` | `Spec => []StagingSafe` |
| `ArchiveIsOfTheFence` | `Spec => []FenceBytes` |

`Claim` is the argument: whoever sweeps, makes or locks a directory holds the lock of
the parent, a directory made and not locked yet is nobody's, and the one a call works in
is its own. A sweep takes what is nobody's, so it must be alone with the parent. That
the types hold needs `Fenced`: the files copied under the fence stay where they are.

`FenceBytes` follows one file from the fence to the archive (`Traced`). Under the fence
the entry of the staging directory is a link to the inode of the stat, or a copy of bytes
the file had (`UnderFence`, `Linking`, `Copied`). Bytes are `Sound` when they are of the
fence, or the mtime tells, or the ctime does and the file is not noted in `meddled`; or
else the file is noted in both `put` and `meddled`. `Stat` keeps that of the inode of each
stat, together with what makes the ctime speak: mode and link count are the stat's unless
noted. Every step of a writer or of another backup moves an inode `Forward` only, which
preserves `Sound` (`TraceForward`), and no inode number returns to a name (`Distinct`,
`Onward`). What was read of a link is therefore accounted for by the check that follows
it: the bytes are of the fence, the name goes to the list of changed files, or the file is
one that no stat tells from the old one (`Passes`, `Settled`). Nothing is assumed of the
other files of the archive.

`VaultUpgradeProofs`, for all migrations, retentions and numbers of runs, from
`UpgradeAssumption`:

| Theorem | Statement |
|---|---|
| `TypeCorrect` | `Spec => []TypeOK` |
| `ClaimsAreTrue` | `Spec => []ClaimIsTrue` |
| `RollbackBringsBack` | `Spec => []RollbackUnchanges` |
| `NothingIsLost` | `Spec => []NoPageLost` |
| `GateEditsAreSpared` | `Spec => []GateEditsSurvive` |
| `ReplaysAreCuts` | `Spec => []OneReplayPerCut` |
| `RecoveryPointsAreKept` | `Spec => RecoveryPointsStay` |

`UpgradeAssumption` says among other things that migrations are numbered in the order
of their releases; both runners sort them so (`framework_upgrade.py:213`, `:366`), and a
batch in another order would claim a release too early. The argument has layers, each
resting on those before it.

- *Shape* (`Shaped`): files, snapshots and invocation have their types (`Typed`), edits
  are dated (`Dates`), a run's snapshot is the newest and has no plan before the run
  records one (`Numbered`, `Own`), what is still to be rolled back is a delta between the
  snapshot and the vault (`Delta`), and a recorded plan is one between the snapshot and
  its image (`Deltas`). `GateEditsSurvive` needs no more.
- *Course* (`Steered`): what is pending at each point of a run, and what release is
  claimed there (`Progress`); a snapshot is of a vault that claimed less, a plan of one
  that was through (`Points`).
- *Coverage* (`Covered`): a recorded delta names every file in which its image differs
  from the snapshot, but for what others wrote since (`Plotted`), and so does a captured
  one (`Captive`); a rollback has each file either back or ahead of it (`Returning`).
  A pack run that is resumed after a kill finds a plan that is exact (`Settled`), although
  it was captured by a run that is gone. `RollbackUnchanges` is the case with nothing
  ahead.
- *Claims* (`Backed`): vault, complete snapshots and images are `Sound`: each recorded
  migration has been over every page it was written for. A migration in progress has done
  so but for what is left to do (`AppliedSo`), a copy but for what is left to copy
  (`CopiedSo`), and a rollback takes the record back no later than the pages (`BackSo`).
  After a rollback that was torn only `Posted` remains, and with it, for the engine's
  runner with `Keep > 0`, the newest confirmed snapshot, which retention spares (`Recov`):
  that is the exception in `ClaimIsTrue`. Of a torn rollback of the pack's runner the theorem
  says nothing, for its snapshot is gone and the claim is false (`upgrade_claim`).
- *Replays* (`Once`): on every page of vault, snapshots and copies a migration has been at
  most as often as it was cut off, and once more if it is recorded or is at this page now
  (`VaultOnce`, `TreesOnce`, `CopyOnce`, `BackOnce`).
- *Counts* (`Sized`): no page is gone over more often than there are invocations
  (`Counted`), which with the bound on recorded versions is what `TypeOK` adds.

`ProjectionProofs`, for all pages, contents, projectors, deletion limits and numbers of
transactions, restores and kills, from `ProjectionAssumption`:

| Theorem | Statement |
|---|---|
| `TypeCorrect` | `Spec => []TypeOK` |
| `RewindsAreScans` | `Spec => RewindsReconcile` |
| `FollowsCorpus` | `Spec => []ProjectionFollowsCorpus` |
| `ServesCommitted` | `Spec => ServedRowsAreCommitted` |

`Good` carries the argument: what was read of a page at or after some epoch is still
the committed content, or somebody tells, namely a later journal record, the record the
writer still owes, or the transaction at work. It survives every step of a writer, except
that a page is put back or a vault restored, and these pages are `Lost` to whoever read
them before. `Rows` says it of the table, counted from the checkpoint, `Scanned` of a run
under way, counted from its source epoch and without what it `covered`. A delta may carry
rows over because a journal without gaps names every page whose row has gone bad
(`DeltaIsComplete`). With the corpus at rest only "still the committed content" is left.
For queries, `Settled` adds that a full scan is published as it looked when no
transaction was at work, `Carried` that a delta to its own checkpoint reads nothing, and
`Asked` that what the query is about to serve was not read in the middle of anything.

So every invariant and every action property of a passing run has a theorem. Only
model-checked are

- the liveness properties `EventuallyReceipted`, `EveryRunDecides`, `RequestSettles`,
  `CatchesUp` and `NewestSettles`: the prover has no rule for fairness;
- the properties of the violated runs, which are false.

## 5. Not modelled

- Rendering, parsing, page schemas, link resolution, identity and grounding
  checks, templates and pack content: functions of a page's text.
- Front ends and MCP routing: no state of their own that is shared.
- Install and pull: they select files by manifest and call the pack runner of
  `VaultUpgrade`. Extension composition is a function of manifests.
- Of the upgrade: dry runs, `--confirm-snapshot-good`, baselining of vaults without
  a version, loading of migrations, the migrations themselves.
- Of the backup: `verify`, `restore` (an action of `Projection`), dry runs, file
  modes other than the one bit that explains a ctime, the `--force` overwrite.
- Of the reviews: several pages, the capability checks, the dashboard, and the
  tools other than update (create, converge and patch differ in how they make a
  page's text).
- Of the operations: planning, `cancel` (it leaves a file for
  the worker, which is pack code), `status` and `logs`; that inputs
  change between plan and run; the lock files and the fence in detail (they have
  modules of their own).
- Of the projection: bootstrap DDL, `health_check()`, `verify_reproducible()`, the
  separate count of a query, pages excluded by namespace.
- Of the scheduler: cron-plus itself (third-party code that is not in the
  repository), the arithmetic of its timeouts and of clock changes, run receipts
  and artifact digests (functions of what a run wrote), and the pauses a deploy
  carries over. `write()` reads and writes them under one lock, as the scheduler
  does.
- What a lock timeout of the corpus fence tells its reader: `lock-owner.json` is in
  the model (`owner`), but only error messages read it, and no property is about it.
- Most of the repository by lines is none of this: text analysis of pages (the cron
  lanes and audits), rendering, schema tables, pack content, command-line
  parsing and reports. It keeps no state that two steps could disagree about, so the
  share of lines that models stand for stays small.
- fsync and power loss: a completed write is durable (the code fsyncs files and
  directories).

## 6. Plan

1. *Done*: `CorpusTransaction`, `CorpusLedger` and their proofs; `OperationLocks`;
   `OperationRuns` and the proofs of both; `Projection`; `VaultUpgrade`;
   `CorpusBackup`; `ReviewDecisions`; `LaneRuns`; the proofs of these five.
2. *Model next*: the inputs of a plan and the cancel marker in `OperationRuns`; the
   lookup cache keyed by the epoch. An abstract specification of a run (requested, running, terminal
   once) that `OperationRuns` implements up to resumption.
3. *Prove next*: that a run (requested, running, terminal once) is what `OperationRuns`
   implements; `CorpusTransaction` for tails that are whole lines without a newline, up
   to the receipt they lose.
