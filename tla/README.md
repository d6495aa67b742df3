# ZSEC Shield in TLA+

TLA+ modules, TLC configurations and TLAPS proofs for ZSEC Shield: the protection
engine in `src/zsec_shield`, the Windows desktop in `apps/windows-ui`, the
companion's status script, and the publication of updates (paths below are
relative to the repository). The first part is the inventory of the system, the
second how the development is built up; then come modules, runs, bounds and
fairness, proofs, disagreements between code and documentation, and limits.

## 1. Inventory

ZSEC Shield is a local file scanner with a foreground "watch" mode, a quarantine,
signed rule and intelligence data, and several front ends. There is no daemon:
processes share a state directory, and inside one process a few threads share
objects.

| Part | State it keeps | Operations | What must hold | Module |
| --- | --- | --- | --- | --- |
| **Event queue** (`watcher.py`, `DebouncedPathQueue`) | raw queue, coalescing table with `first_seen_at`/`due_at`, overflow flag, counters | `submit` (observer threads), `ingest` (ingest thread and main loop), `due`, `clear_overflow` (main loop) | bound on raw plus coalesced entries; no report disappears; drops are told; no starvation | `EventQueue` |
| **Watcher** (`watcher.py`, `ForegroundProtectionWatcher`) | snapshot of fingerprints, three "incomplete" flags and a generation counter | `run`, `_reconcile` (inventory, reconciliation, full rescan) with drains in the middle, `_scan_pending`, `_scan_paths` | no change is forgotten; failures are retried; the summary admits every gap | `Watcher` |
| **Scanner** (`scanner.py`, `content_inspection.py`, `rules.py`) | none between files | walk, open, hash, match, compare before/after | a file that changes while read is an issue, not a hash | in `Watcher` |
| **Scan worker** (`scan_worker.py`) | child process, pipe, request counter | start/handshake, `inspect`, timeouts, recycling, `close` | an answer belongs to the request it answers | `ScanWorker` |
| **Watch evidence** (`watch_evidence.py`) | health state, rotating log files | `record`, `_rotate` | "healthy" only when it is so; a crash loses at most the oldest records | `WatchEvidence` |
| **Signed feed** (`feed.py`) | document file, state file, lock | `install_feed`, `inspect_feed` | sequence never decreases; a reader never trusts a mixed pair | `SignedInstall`, `FeedInstall` |
| **Intelligence updates** (`automatic_updates.py`) | document, envelope, last known good, state, status | `install_intelligence_envelope`, `run_automatic_update` | monotone; state is the commit marker; the status is committed | `SignedInstall`, `UpdateClient` |
| **Intelligence catalog** (`intelligence.py`) | catalog and its state, fetch cache, backups | fetch, parse, build, `update_desktop_intelligence` | no source goes back; nothing is replaced without a backup | `AdvisorySources`, `CatalogInstall` |
| **Quarantine vault** (`quarantine.py`, `crypto_vault.py`, `zba.py`, `recovery_drill.py`) | entry directories with content and metadata, device root key | `quarantine_finding`, `restore_entry`, `load_device_root` | the original is removed only when an authentic copy exists; the metadata says what happened | `QuarantineVault` |
| **State primitives** (`util.py`, `status_store.py`, `paths.py`) | lock file, temporary files | `update_lock`, `atomic_write_*` | one updater at a time; a reader sees old or new | steps of `SignedInstall` |
| **Command line, readiness** (`cli.py`, `readiness.py`) | none | commands and their documents | exit codes and outcomes agree | `EngineDocuments` |
| **Desktop: monitoring** (`bridge.py`, `app.py`) | session object, reader thread, child process, timers, coverage flags | start, stop, pause, retry, watchdog, exit | one child; active only on evidence; monitoring comes back | `DesktopMonitor` |
| **Desktop: operations** (`bridge.py`, `app.py`, `contracts.py`) | thread pool, event queue, cancel event, flags of what is under way, cards | scans, refreshes, actions, maintenance, restore, feed import, exit | everything is answered; cards say what is known | `DesktopTasks`, `EngineDocuments` |
| **Companion** (`windows/companion`) | Scheduled Task or Run value, heartbeat | status script; supervising loop | green only on evidence | `CompanionDocuments` (status only) |
| **Publication** (`scripts/publish_update_service.py`, `.github/workflows`) | published tree, audit records | build, replace, publish, deploy | a client never reads a mixed set or an older catalog | `Publication` |
| **Browser shields** (`browser/zeroq-shields`) | settings, declarative rule sets, operation queue | settings transaction, runtime health | settings, rules and badge agree | none |

How they interact: observer threads call `submit`; the ingest thread and the main
loop share the queue under one lock; the main loop calls the scanner, which calls
the worker through a pipe; matches go to the quarantine; every step emits a record
to the evidence sink, and on the child's standard output to the desktop, whose
reader thread posts it to the Tk loop; the desktop's pool runs the engine's
commands and the companion's scripts and posts their answers to the same loop;
updaters replace the feed and the catalog, which readers open without a lock; the
publication script writes what the updaters will fetch.

What is hard: three kinds of thread on the queue; the walk of the protected
folders interrupted by drains that scan other files and write the same cache;
files that change between `lstat`, `open`, hash and the caching of the
fingerprint; failure flags of which one recovers, one is remembered and one
persists; sequences of individually atomic file replacements with a crash or a
reader between two of them; retries after such a crash; timeouts racing with late
answers; callbacks of one session or refresh arriving during the next; deployments
that overtake each other. `PROJECT.json` lists the hazards line by line, with the
properties that cover them.

## 2. How the development is built up

In the order of the plan, the most important behaviour first:

1. `PathObligations` (abstract), `EventQueue`.
2. `Watcher` over the promise of the queue rather than over the queue itself, so that
   files, cache and flags can be explored; `WatcherProofs`.
3. `TrustRegister` (abstract), `SignedInstall`, and over it `FeedInstall` and
   `UpdateClient`; `SignedInstallProofs` about all three.
4. `QuarantineVault`, `QuarantineVaultProofs`.
5. `ScanWorker`, `ScanWorkerProofs`.
6. `AdvisorySources` (pure), `CatalogInstall`.
7. `Publication`; `IntelligenceProofs` about it and about `CatalogInstall`, the two ends
   of the intelligence catalog: what publishes it and what collects it.
8. `WatchEvidence`; `WatchSessionProofs` about it and about `EventQueue`, the two ends
   of a watch session.
9. `DesktopMonitor`, `DesktopMonitorProofs`.
10. `EngineDocuments`, `CompanionDocuments` (pure) and, over both, `DesktopTasks`;
    `DesktopTasksProofs` about all three.

`MC...` modules give constants their values where a `.cfg` cannot. No module composes
two state machines of different processes beyond these: the interfaces between
them are narrow (a queue, a file replaced as a whole, a line of output), and each
module represents its neighbour by what that interface lets it see.

## 3. Modules

### PathObligations
The abstract specification: `owed`, `handed`, `alarm`. A reported path stays owed
until handed to the scanner; a report that cannot be kept raises the alarm in the
same step, and only an acknowledgement lowers it.

### EventQueue
One action per critical section of `DebouncedPathQueue`.

| TLA+ | Code |
| --- | --- |
| `raw`, `pending`, `entry`, `overflowed`, counters | `_queue`, keys and values of `_pending`, `overflowed`, the attributes of the same name |
| `SubmitExcluded`, `SubmitDebounced`, `SubmitQueued`, `SubmitDropped` | the four ways through `submit` |
| `IngestOne` | one iteration of `ingest` (the lock is taken per iteration), by the ingest thread |
| `DueCall`, `DueIngest`, `DueIngested`, `DuePop` | `due`: its call of `ingest`, then the second critical section |
| `ClearOverflow` | `clear_overflow` |
| `Tick` | the monotonic clock |

Event types are reduced to two classes, urgent and ordinary, because that is all
`submit` and `ingest` distinguish. Paths are numbers because `due` sorts its keys.
`consumer` is the program counter of the main loop inside `due`. `handed_out` and
`acknowledged` are history counters used by `Accounting` only. The handler for
`queue.Full` in `submit` cannot be reached: the raw queue's size is `max_events`
and `submit` checks the sum under the lock.

### Watcher
One session. The disk is `present`, `content` (which change wrote the file last)
and `meta` (its fingerprint); a write may restore the fingerprint. The queue is
represented by the variables of `PathObligations`, so whatever `due` returns is
some subset of what is owed; timers (reconciliation, full rescan, duration, health
check, drain interval) are nondeterministic choices.

| TLA+ | Code |
| --- | --- |
| `snapshot`, `current` | `_reconciliation_snapshot` (= `previous`), `current` in `_reconcile` |
| `operational`, `historical`, `persistent` | the three `_..._operational_incomplete` flags |
| `moved` | has `_incomplete_generation` changed since the walk began |
| `gaps` | issues, unresolved files and failed quarantines of the walk under way, which reach the flags when `_scan_paths` returns |
| `CallbackFails` | an exception in the heartbeat or drain of a walk: `scanner.py:163-184` makes an issue of it and walks on; the rest of the drained batch is lost |
| `Visit...` | `changed_since_last_reconciliation` for one file |
| `Inspect...` | `_scan_file` and `record_successful_hash` |
| `NoDrain`, `Drain`, `Scan...` | `drain_priority_events`, `_scan_pending`; the same `Scan...` actions serve the main loop |
| `EndWalk` | the end of `_scan_paths` and of `_reconcile` |
| `CheckPipeline`, `CheckDuration`, `CheckFails`, `TakeDue`, `StartWalk`, `Sleep` | the main loop in the order of the code |
| `Interrupt`, `Stop` | Ctrl+C anywhere, or an exception outside a walk (`Uncaught`); the `finally` block and the summary |

One inspection is one step with four outcomes (hashed, failed, gone, matched but
not quarantined). A file that changes during the read is the outcome "failed". A
change between the `lstat` of the walk and the open is possible because
`VisitChanged` and `Inspect` are separate steps. `_same_opened_file`
compares device, inode and size only, so a write in place that keeps the size is
hashed, and the content is recorded under the fingerprint read before it
(`InspectHashed` with `seen # meta`). A write that changes the size is one of the
causes of `InspectFailed`; the model does not tell the two apart.

### TrustRegister, SignedInstall, FeedInstall, UpdateClient
Three pieces of code install signed data by one protocol: `install_feed`
(`feed.py`), `install_intelligence_envelope` and
`run_automatic_application_update_check` (`automatic_updates.py`). `SignedInstall`
is that protocol: verify, take the lock without waiting, compare with the rollback
state, replace `Objects` one after another, replace the state last. Two modules
extend it: `FeedInstall` with the readers (`inspect_feed`, which takes no lock),
`UpdateClient` with the status record around the installation.
`TrustRegister` is what a reader may rely on.

| TLA+ | Code |
| --- | --- |
| `Objects` | feed: the document; catalog: last-known-good copy, document, envelope; the application notice is the same protocol with one object |
| `file`, `state` | the objects on disk; `max_sequence` and digest of the state file |
| `holder` | the advisory lock of `update_lock`, which ends with its process |
| `Begin` ... `Return` | one installation; `WriteObject` is one `atomic_write_bytes` |
| `WriteFails` | `OSError` before a replacement, or, in its second disjunct, from `_fsync_directory` after the last one, when the state is already committed |
| `Crash` | the process is killed anywhere |
| `at`, `document`, `status`, `seen` | the local state and result of `inspect_feed` |
| `status`, `loaded` (`UpdateClient`) | the status file; the part of it a check read at its beginning |

A version is a sequence number and a digest. Signatures, key rings, policies and
validity periods decide only whether a download is a version or a failure, and
whether a reader distrusts what it reads (`Distrust`). Two envelopes around the
same payload are not told apart. The lock does not wait on either platform. A
check that is not due returns what it read and is no step.

### QuarantineVault
`quarantine_finding` and `restore_entry` by several processes, one file at stake.
Contents and fingerprints are numbered by the change that made them, so that
"the same content" and "the same fingerprint" can differ (`WriteUnseen`: a write
`_same_snapshot` cannot see).

| TLA+ | Code |
| --- | --- |
| `content`, `stamp` | the file; device, inode, size and time as `_same_snapshot` compares them |
| `root` | `device-root.key`, named by the process that created it |
| `found`, `saw`, `key` | digest in the finding, snapshot of `_inspect_regular_source`, root loaded |
| `entry` | the published directory: state, root that wraps its content key, root its metadata is signed under |
| `LookForRoot`, `CreateRoot`, `LoadRoot` | `load_device_root(create=True)`: `exists`, replace, read, in three steps |
| `Encrypt`, `Publish` | copy from one handle with its checks; the rename of the pending directory |
| `Compare`, `Unlink`, `UnlinkFails`, `Record` | the last comparison, the removal, and the metadata written back |
| `ReadEntry` ... `RecordRestore` | `restore_entry`; `Link` is `os.link`, which fails when the name is taken |

Until `Publish` a crash leaves only a temporary directory, so crash and error are
one action (`GiveUp`). The record is written from the metadata in memory, signed
under the root that is then on disk. Legacy entries (read and restored only) and
the listing are left out; a restore that fails before it has done anything is no
step.

### ScanWorker
`BoundedScanWorker` and its child. Files are measured in content frames; a frame
carries the version of the file it was read from, so a digest is the sequence of
these versions and equal digests mean equal contents.

| TLA+ | Code |
| --- | --- |
| `pc` | where the broker is in `_start` and `inspect` |
| `opened`, `sent` | the `fstat` made when the file was opened; what `inspect` has read and hashed |
| `requests` | `_requests` |
| `wpc`, `job` | where the worker is in `_worker_main` and `_scan_stream`; its request |
| `toWorker`, `toBroker` | the two directions of the pipe, the first one bounded |
| `NoAnswer` | the deadline of `_receive` or the end of the pipe |
| `Fail`, `Close` | the `except` clause of `inspect`: the worker is closed and killed |
| `Die`, `Hang`, `Lie` | what a child that reads hostile bytes may do |

A file that is written gets another modification time; a write that keeps size and
time is not in this module (it is in `Watcher` and `QuarantineVault`). Frames arrive
whole: a child that stops in the middle of a frame it writes blocks the broker in
`recv_bytes` after `poll` has returned, as one that stops reading blocks it in
`send_bytes`. `ReceiveHello` keeps what the code does when the configuration
cannot be sent: the `OSError` is not a `ScanWorkerError`, so the dead worker is
not closed until the next file.

### AdvisorySources, CatalogInstall
`AdvisorySources` is the pure part of `intelligence.py`: from the body a source serves
to a catalog. A body is a record of the times it declares, its month and its items;
the four parsers differ in where a version comes from, what makes an advisory and
what refuses a body. `CatalogInstall` is `update_desktop_intelligence` run by several
processes.

| TLA+ | Code |
| --- | --- |
| `ParseKev` ... `ParseApple`, `ParseSource` | `parse_cisa_kev`, `parse_microsoft_msrc`, `parse_ubuntu_usn`, `parse_apple_security`, and the dispatch of `collect_catalog` |
| `ValidCatalog`, `BuildCatalog`, `StateOf`, `NoRollback` | `validate_catalog`, `build_catalog`, the rollback state, `_check_rollback` |
| `body`, `meta` | the two files of a cache entry, each replaced on its own |
| `catalog`, `state`, `kept`, `keptState` | the installed pair; the backup directory, with names and contents apart |
| `Fetch`, `NotModified`, `Offline`, `WriteBody`, `WriteMeta` | the fetcher: conditional request, 304, `--offline`, and the cache |
| `LookCatalog`, `LookState`, `DryRun` | what is read and compared before the lock |
| `Lock` ... `InstallState` | the same under the lock, the two backups, the two replacements |
| `Stop` | the run is killed or meets an I/O error anywhere |

A server answers with any edition it ever had, so mirrors that lag are included. Of an
item the model keeps what decides whether it counts: its time, that it names a CVE,
that it is a kernel livepatch notice (`parse_ubuntu_usn` keeps those out of the
version, and a page of nothing else has none) and that its row has a link
(`parse_apple_security` takes the version from rows without one too). Texts, products
and severities are left out.

### Publication
`build` signs four documents and an audit record in a staging directory, verifies
them, and replaces the files of a tree one by one. `place` chooses between an
operator's tree, which keeps what an interrupted build left, and a job of the publish
workflow, whose workspace is thrown away when it fails.

| TLA+ | Code |
| --- | --- |
| `Stage`, `Coherent`, `VerifyTree`, `Refused`, `BuildOf` | staging, `verify_tree`, and the reuse check against the audit record, all in `build` |
| `Replace` | one replacement of the loop that ends `build` |
| `LocalBuild`, `LocalInterrupt`, `LocalEdit` | an operator's build; it is interrupted; the catalog is edited |
| `Trigger`, `Checkout` | a push, the schedule or an operator triggers a job for the commit main has then; when the job before is over it checks out that commit, which main may have left behind |
| `Refresh` ... `Push`, `JobFails` | refresh, selection of the sequence, build, push, which fails when main is not the commit checked out |
| `DeployStarts`, `PagesStarts`, `DeployEnds` | the deployments of the two workflows, which may overtake each other |
| `Commit`, `ClientReads` | somebody else pushes to main; a client reads and accepts one document |

A document is the record that is signed; one key signs all.

### WatchEvidence
`RotatingNdjsonLog` and `WatchEvidenceSink` as successive sessions drive them. A log
file is a sequence of record numbers; `Torn` is a part of a record at the end of a file.

| TLA+ | Code |
| --- | --- |
| `log`, `health`, `operational` | the current and older log files; the health file; `operational_state` |
| `AppendBegins`, `Unlink`, `Rotate`, `Write` | `append`, `_rotate` and `_append_bytes`: removal of the oldest, each rename, the write |
| `HealthWritten`, `HealthBusy`, `HealthSkipped` | the replacement of the health file, retried while a reader holds it |
| `StartSession` ... `SessionOver` | the watcher's records with the flags that decide them (`_health_issue`, recoveries, heartbeats) |
| `PipelineBreaks` | the queue overflows or its ingest thread dies, unnoticed until the loop looks; a heartbeat of a walk tells of it at once |
| `Killed`, `WriteFails` | the process ends, or `record()` raises, in the middle of any of it |
| `Swallowed`, `EndsSession` | where that leads: inside a walk the scanner makes an issue of it, the session goes on with the record unwritten and the health file as it was; elsewhere it ends the session |

### DesktopMonitor
`WatchSession` with its thread and child, and the part of `app.py` that starts, stops,
pauses and watches it. The Tk thread's callbacks are atomic steps, but for the modal
question inside `_start_watch`, during which other callbacks run.

| TLA+ | Code |
| --- | --- |
| `session`, `mode`, `bound`, `stopping` | `watch_session`, `watch_mode`, `watch_session_id`, the session whose `stop` is half done |
| `thread`, `child`, `told`, `channel` | the reader thread, its process, `_stopped_by_user`, what it has posted |
| `engine` | what the child's records say: inventory and incompleteness |
| `tracked`, `dogs`, `beat`, `retry` | heartbeat tracking, pending watchdog timers, age of the last heartbeat, the retry timer |
| `inventory`, `coverage`, `card` | the two evidence flags, the card "active" |
| `orphans` | history: sessions lost when a question of `_start_watch` was answered after another had begun |
| `SpawnFails`, `ChildEnds`, `Repeats`, `SaveFails` | what may go wrong, `MaxFaults` times: no process, a crash, a record number used twice, a choice that cannot be saved |

### EngineDocuments, CompanionDocuments, DesktopTasks
The first two are pure: on one side what `cli.py` and the status script answer, on
the other what `contracts.py` accepts and shows; written by hand on both sides. A
document is a record of the fields whose agreement is checked. `DesktopTasks` is the
desktop around them.

| TLA+ | Code |
| --- | --- |
| `LoadUpdate`, `ValidUpdate` | the record of the last update of advisories, as `status` reports it and the desktop checks it |
| `Outcome`, `CheckAnswer`, `StatusAnswer`, `ReadinessAnswer`, `DrillAnswer`, ... | the commands of `cli.py`, with exit codes |
| `ValidStatus`, `ValidReport`, ..., `AcceptsReport` and its like | the validators of `contracts.py` and the exit codes `bridge.py` accepts |
| `DefenderEvidence`, `SupervisorState`, `Reasons`, `Companion` | the status script |
| `ValidCompanion`, `CompanionPresentation`, `WindowsCard`, `Ready`, `Cutover` | acceptance and presentation of its document |
| `Presentable`, `ShownVerdicts` | which of the script's documents the desktop takes, and that it shows those as they are |
| `queue`, `running`, `ready`, `busy` | the operations that wait, what each thread of the pool runs (`Idle` if nothing), the results posted to Tk, `busy_operations` |
| `scanEvent`, `cancelled`, `dialog`, `panel` | the cancel event of the scan, which events are set, the quarantine question, the scan panel |
| `inflight`, `maintaining`, `hour`, `buttons` | the flags of the companion refresh and of the hourly maintenance, the Defender buttons |
| `Start`, `StatusReads`, `ScanSaves`, `Fail`, `Hang`, `Expire` | a thread takes an operation, reads or saves the summary, fails or hangs until its timeout |
| `AnswerEnds`, `CompanionEnds`, `OtherEnds`, `Deliver` | an operation ends with its answer; the Tk loop handles it |
| `Click...`, `Answer...`, `TrayScan`, `CancelScan`, `Exit` | the user; `FirstRefresh`, `Deadline`, `Periodic`, ... are the timers |

## 4. Runs

Twelve runs, all of which hold. Related invariants are conjoined under one name;
the parts have names of their own in the module.

| Run | Properties, with their parts |
| --- | --- |
| `EventQueue` | `Bookkeeping` (`CapacityBound`, `Accounting`, `OverflowTold`); `AgedIsDue`; `KeepsObligations`, the refinement of `PathObligations`; `EventuallyScanned` |
| `Watcher` | `SummaryHonest` (with `FlagsNested`): a complete summary has no gap behind it; `LateChangesCovered`: a change made after the inventory has been hashed or will be read by the walk under way or the next one; `FailuresKeepIncomplete` |
| `WatcherLive` | `EventuallyInspected`: the full rescan reads every content, also one that produced no event and restored its fingerprint |
| `FeedInstall` | `InstalledIsSound` (`ObjectsMatchState`, `ObjectsNeverOlder`, `ReportedIsCommitted`); `ImplementsRegister`, the refinement of `TrustRegister` |
| `UpdateClient` | `StatusIsCommitted`; `StateOnlyAdvances`; `EventuallyNewest` |
| `QuarantineVault` | `RemovalIsSafe` (`RemovedIsRecoverable`, `RemovedWasSaved`); `StateIsHonest` |
| `ScanWorker` | `ExchangeIsSound` (`ResultIsTheFile`, `InStep`, `Recycled`); `EventuallyReturns` |
| `CatalogInstall` | `DiskIsSound` (`BackupsAuthentic`, `RestsConsistent`, `ParsedIsAnswered`); `WritesAreSafe` (`NoSourceRollback`, `ReplacedIsKept`, `DryRunWritesNothing`) |
| `Publication` | `PublishedIsSound` (`BuiltVerifies`, `PublishedCoherent`, `OneDocumentPerSequence`, `ServedIsNewest`); `NothingGoesBack` (`ClientCatalogForward`, `AuditStands`) |
| `WatchEvidence` | `LogIsSound` (`LogBounded`, `InOrder`, `OnlyOldestGone`, `NewestIsKept`, `RetainsWhatFits`); `HealthIsTrue` (`HealthyIsTold`, `DegradedIsTrue`) |
| `DesktopMonitor` | `SessionsAreHeld` (`OneObserver`, `StopReachesChild`); `ActiveIsProven` (`CoverageAgrees`, `ActiveIsWatched`); `MonitoringGoesOn` (`PauseIsKept`, `MonitoringReturns`, `SilenceIsEnded`) |
| `DesktopTasks` | `WorkIsHeld` (`BusyIsCounted`, `ScanIsHeld`, `ExitCancels`, `RefreshIsHeld`, `OneMaintenance`); `CardsAreHonest` (`WaitIsHonest`, `ExportIsShown`, `SettledCardAgrees`); `DocumentsAgree` (`ScansAreShown`, `AnswersAreShown`, `SuccessIsWhole`, `GreenIsEarned`, `VerdictsAreShown`); `WorkIsAnswered` |

Most runs also check a type invariant (`TypeOK`, `EvidenceTypes`, `CatalogTypeOK`); for
the others it is part of the invariant that is proved. The exceptions a property
makes are in the property (`~lost`, `~old`, `orphans = {}`, `untold`, `stops = 0`,
`drainFailed`, `HangsOverPipe`, `Presentable`): they are the cases of section 6 in which
the code does not keep it. The two history flags do not stay up for ever: `lost` holds
from a scan that begins while another is under way until one begins alone, `old` from a
reading of the status that overtakes another, or a scan that fails, until a reading
begins alone. The hazards in `PROJECT.json` say which part of each is covered.

`DocumentsAgree` is about operators, so its run evaluates it over every document of the
model rather than along behaviours. `ShownVerdicts` states the boundary of what the
desktop takes from the companion's script in both directions: the documents named there
are refused, and no other.

### Bounds

- `EventQueue`: three paths, one of them excluded, room for two entries, so that the
  queue is full with one raw and one coalesced entry; four reports are enough to
  fill it, drop one, and report a waiting path again; the coalescing limit (2) is
  twice the debounce (1), so one report can be postponed and then capped; a drain
  takes one path, so that selection matters.
- `Watcher`: two files, one that the walk is at and one whose event is drained
  meanwhile, two changes and one failure of an inspection or a callback; symmetric
  files; 1.5 million states. `WatcherLive`: one file,
  writes that restore the fingerprint, no symmetry (it is unsound with liveness).
- `FeedInstall`: two installers, one reader, two sequence numbers with two digests
  each (a sequence number can be reused and a digest can return), two faults, so
  that the repair of a torn installation can itself be cut short. `UpdateClient`: the
  four files of the catalog, three versions, two updaters and one fault.
- `QuarantineVault`: two quarantines and one restore, three changes of the file
  (write it, change it after the scan, put another one where the restore is about
  to); 366 thousand states.
- `ScanWorker`: a worker for two answers and three inspections, so that one worker
  is used twice and then replaced; files of up to two frames and a pipe of two, so
  that request and content fill it; two versions of the file; one death, hang or lie
  (with two the same holds over 1.2 million states).
- `CatalogInstall`: two updaters, three runs and one that is cut short: one leaves a
  torn installation, one meets it while another is under way. The editions include
  the same meaning in other bytes, a new version, and a changed meaning under the
  same version; one selection has one source, the other four. 629 thousand states.
- `Publication`: two sequence numbers, three editions of the catalog (one refused),
  three builds, so that one is interrupted, one reuses its sequence and one goes on;
  a window as long as half the clock, so that documents expire; one client, since
  clients do not act on each other; one job that waits, as the workflow's concurrency
  group has. 1.1 million states.
- `WatchEvidence`: files of two records and two older files, twelve records (two
  complete turns of the files), two kills or errors, so that a session that starts
  from what a kill left is itself killed, and so that an error swallowed in a walk is
  followed by another: as many as leave the newest record in place. 3.1 million states.
- `DesktopMonitor`: two session objects whose names are used again, one record on
  its way, two acts of the user, one fault.
- `DesktopTasks`: two threads, two scans, two acts and one fault. `Crowd` bounds how
  many operations, besides the long ones that run, may be under way when the user or a
  timer acts (`Act`); the code has no such guard. It is 0 in the run: with 185 thousand
  states the liveness property can be checked beside the invariants. The invariants
  also hold with `Crowd = 1` (921 thousand states), and the theorems for any `Crowd`,
  that is, without that guard. The documents are enumerated in full, for every
  combination of the fields that are kept; of Defender's evidence `ShownVerdicts` takes
  beside each machine only what differs in how the desktop takes it (`Typical`).

`CHECK_DEADLOCK FALSE` where something ends or its bound is used up: sessions, reports,
one quarantine per process, inspections, runs, builds, records, acts of the user.
`FeedInstall` and `UpdateClient` are checked for deadlock: nobody waits for the lock.

### Fairness

`EventQueue!FairSpec`: weak fairness of the main loop's steps inside `due`, of its
calling `due` again (the `while True` of `run`) and of time. None for the ingest
thread, which the code expects may die, nor for observers. `Watcher!FairSpec`: weak
fairness of the loop as a whole, and strong fairness of starting a full rescan: the
loop comes back to that choice again and again, and `next_full_rescan` is compared
before `next_reconcile`, so once it has passed the next visit takes it. No fairness
of events being due: the property must hold when the observer is silent.
`UpdateClient!FairSpec`: weak fairness of each updater (the companion's timer starts a
check again, a started check goes on) and strong fairness of a successful download of
the newest version (downloads do not fail for ever). Faults are bounded by `MaxFaults`.
No fairness of the lock: `EventuallyNewest` holds although each updater may find it
taken any number of times. The property is conditional: eventually only the newest
version is served. `ScanWorker!FairSpec`: weak fairness of the broker, whose deadlines
are on its own clock, and of a worker that does not hang. `DesktopMonitor!Spec`: weak
fairness of threads, of the end of a process that was terminated, of `stop` and of
time; strong fairness of the retry timer, the watchdog and a session's posted records,
which fire between whatever else the Tk loop does. The engine need not say anything
and the user need not act. `DesktopTasks!Spec`: weak fairness of the work as a whole
(pool, commands, timeouts, Tk loop), none of the user or the timers, whose acts are
bounded.

Each property has a mutant in `PROJECT.json`: an operator written before the
definition it replaces, a slip one could make in that code, under which TLC finds
the property violated.

## 5. Proofs

Eight modules hold the theorems; every constant is arbitrary within the named
assumption of its module.

**`WatchSessionProofs`**, first part (`QueueAssumption`): `TypeCorrect`, `BooksAreKept`,
`NoStarvation`; `AcceptedIsKept`, that `ingest` never drops an accepted report;
`ImplementsObligations`, that the queue implements `PathObligations`. The inductive
invariant `QueueInv` says beside the invariants of the run that the times in `raw` and
`first` are not in the future (`ObservedPast`) and that a due time never exceeds
`first + MaxCoalesce` (`DueBounded`), which is what `AgedIsDue` needs. `AcceptedIsKept`
needs the capacity bound in the state before: `IngestOne` tests the room left after
the raw entry was removed, which the bound makes sufficient. For the refinement each
critical section is one abstract step or a stutter under
`owed = pending \cup RawPaths`; ingesting is a stutter because the report only moves
from one side of the union to the other.

Second part (`EvidenceAssumption`; any limits, issues, records and faults):
`EvidenceTyped`, `LogSurvives`, `HealthTells`. `EvidenceInv` has, of the log, how far a
rotation is (`Rotating`: the current file is full until it moves, the place a file moves
to is free), where the newest record is (`Newest`: in file `i > 0` only after
`Len(log[0]) + i - 1` faults, counting a file that has moved already at its old place),
and that without faults a backup was full when it became one (`Filled`), so that what
`Unlink` removes was more than the files hold. That nothing but the oldest goes with it
is `InOrder`. Of the health file, `Told` speaks of the state `Coming`, which the records
still to be written will leave: a handler sets its flags at once and its records follow,
so `HealthIsTrue` holds at rest only and is not inductive; of `Coming` the same holds
always, as long as nothing is `untold`: an error swallowed in a walk drops the records
of a step, and `untold` stays up until the next heartbeat tells of the flags. `Counted`
(every handler leaves room for the records that end the session) is what bounds
`acked`.

**`SignedInstallProofs`** (any clients, versions, objects, faults):
`InstallationsAreSound` and `NoRollback`. `InstallInv` adds `Progress` (who is past the
download holds a version, who returns has an outcome) and `WriterKnows`: the version
held under the lock is still acceptable, since nobody else can have changed the state;
the objects before `next` are that version; and an untorn disk is consistent until the
first replacement. Without the first part replacing the state could lower it, without
the second nothing is known of the objects when the state is replaced. With any number
of readers the pair of files implements
`TrustRegister` under `value <- state` (`FeedIsRegister`): the last step of a reader
returns the state only if it equals the document read before, so it is a read of the
register at that moment. For `StatusIsTrue` what each client has
loaded must be in the invariant, because it is written back after a failure.

**`QuarantineVaultProofs`** (any number of quarantines and restores): `VaultTypes`,
`SafeRemoval`, `HonestState`. `VaultInv` adds `RestoresHold` (the metadata a restore
will write back belongs to an entry that was published), `ProgressTells` (which steps a
quarantine must have done before it is where it is), `OneRoot` (while there has been one
root, whatever was loaded, wrapped or signed is that root) and `CopyIsCurrent` (a file
with the fingerprint seen at the inspection still has the content that was encrypted,
unless it was changed unnoticeably; this needs that no snapshot lies ahead of the
clock).

**`IntelligenceProofs`**, first part (any updaters, selections, editions, runs and stops):
`CatalogTypes`, `SoundDisk`, `SafeWrites`. The invariant says of each place of an
updater what it knows: what it has built is a valid catalog of the results so far;
what it got is what it was told, because a cached body under another's validator is
refused; under the lock the pair it compared is the one on disk, and
by the time it replaces the catalog both backups are there and whole.

Second part (any clients, editions, windows and bounds): `PublicationTypes`,
`PublicationSound`, `PublicationForward`. What is served is connected to what is on
record: `AllOnRecord` says that every document main, a deployment, the site or a client
holds is the one main's audit record of its sequence binds, and `RecordIsWhole` that
along the record sequences the catalog only moves forward. `WasMain` says of a commit
that was once main (the one triggered, the one a job works on) that all it has is on
that record. From these two follow that a sequence stands for one document, and that no
deployment of an older tree takes a client back, without a word about the order of
deployments. `JobGoesOn` (a job works on the commit it checked out, with a sequence that
commit does not have) makes a push, which requires that main is still that commit,
extend the record; `BuildGoesOn` (the files before those still left are the staged ones)
makes the tree whole when nothing is left. That a greatest sequence exists is part of
the invariant (`MainIsNewest`), since the induction that would give it is out of the
prover's reach.

**`WatcherProofs`** (any files, changes, failures): `SessionTypes`, `HonestSummary`,
`FailuresStay`, and `ChangesAreCovered`, the last under the assumption that writes do
not restore fingerprints, as in the run. `HonestInv` relates what has gone wrong
(`lost`, `failures`, a dead ingest thread) to the flags at each place of the loop;
`FailuresInv` says that an unresolved file is in neither the snapshot nor the part of
the new one the walk has filled, so that it is still ahead. `FailuresStay` leaves out
failures met in a drain for which the walk has put, or without opening the file will
put, its fingerprint into the new map (`DoneWith`): disagreement 2. `CoverInv` says of each
file that its last change is hashed, or still to be read by the walk under way or the
next, with `ClockInv` ordering changes, marks and fingerprints; since it relies on no
event, it needs none of the conditions under which events survive.

**`ScanWorkerProofs`** (any sizes and bounds): `ExchangeTypes`, `ResultsAreWhole`,
`WorkersAreReplaced`, `NothingIsLeftOver` and their conjunction `SoundExchange`. Four
invariants: `Types`; `Copy` (what was read lies between the version opened and the one
there is, and is one version once the metadata agree); `Turns` (requests a worker was
given, or will find in the pipe, bear increasing identifiers from `First` on, of which
there can be no more than answers counted plus the present one); `Exchange` (where an
honest worker and the pipe are at each place of the broker: in the handshake, at rest,
or asked, scanning or done, with the parts of the file in order).

**`DesktopMonitorProofs`** (any sessions, depth of channels, acts and faults):
`MonitorTypes`, `MonitorHolds`, `MonitorProves`, and `MonitorPauses` from the steps alone.
`MonitorInv` adds three things. `ThreadsAreKnown`: a thread that has not ended is that of
the session held or of one lost, and how far it is tells of its child, so that a live
child leads to its session. `ChannelsEnd`: a channel is empty until the child is read and
its completion is its last record, so that what is handled after a completion is not of
the session before. `EvidenceFollows`: of a session's coverage the application knows what
the engine knows or has the records on the way, in an order in which nothing better
comes behind bad news and no incomplete inventory behind a whole one; the claim of
`CoverageAgrees` for an empty channel is not inductive without the channels that are not.

**`DesktopTasksProofs`** (`TasksAssumption`: any threads, scans, acts and faults):
`TypesAreRight`, `WorkIsHeldAlways`, `CardsAreHonestAlways`, `TheDocumentsAgree`.

- *Counting.* `CountOf...` say how the operations of a kind in a sequence, or on the
  threads, change when one is appended, taken, joined or replaced. From them, a step of
  the pool or of a command moves one operation and counts none (`StartCounts`,
  `GoesOnCounts`, `IsOverCounts`), and a step of the Tk loop is a movement `Moves(jobs,
  gone)`: what it submits, and what it has delivered. `Accounts` says which movement
  goes with which change of `busy`, of the flags and of the cancel event, once for all
  handlers (`HandlerMoves`, `AskMoves`).
- *Work.* With that `HeldInv` is inductive. It adds to the five parts of `WorkIsHeld`
  that after the exit nothing waits and no question is open (`ExitIsFinal`), without
  which a scan could still begin whose event nobody has set. The part of `ScanIsHeld`
  that holds whatever scans have met, that no event is held once no scan is left, has a
  name of its own (`EventIsOfAScan`) because the cards' invariant uses it alone: nothing
  can be cancelled then. That the event is that of the one scan under way, and that exit
  cancels it, is proved of every run in which the last scan to begin met no other.
- *Cards.* `WaitIsHonest` and `ExportIsShown` are inductive beside the types
  (`TypeInv`). `SettledCardAgrees` speaks of moments when nothing reads the summary; its
  strengthening `ReadingsAgree` follows each reading under way: while no scan is left,
  and the last reading was begun alone with no failed scan since (`~old`), what a
  reading has, or has posted, is what the last summary says, or a failure. A scan that
  completes submits a reading (`ReadingsAwaited`), which is why the card need not agree
  before.
- *Documents.* `DocumentsAgree` is about operators, not steps: `AllScansAreShown`,
  `SuccessOfScans`, `AllAnswersAreShown`, `AllGreenIsEarned` and `AllVerdictsAreShown`
  show each agreement from the definitions of both sides, case by case over what the
  engine and the script can find, without enumerating the documents as TLC does. Of the
  companion's documents the theorem gives the exact set that is refused (disagreement
  20) and says that the rest is taken and shown as it is.

Model-checked only: liveness and fairness (`EventuallyScanned`, `EventuallyInspected`,
`EventuallyNewest`, `EventuallyReturns`, `WorkIsAnswered`, and of `MonitoringGoesOn` all
but `PauseIsKept`), which are outside the prover's reach. Every other property of the
runs is a theorem.

## 6. Disagreements between code and documentation, and observations

Met while modelling; the properties say where they make an exception for them.

Watcher and queue:

1. *Events during the inventory.* `drain_priority_events` (`watcher.py:1068`) pops a
   due event for the file the walk is at and skips it, relying on the walk to read the
   file; in the metadata-only inventory the walk does not, and caches the new
   fingerprint (`watcher.py:1245` says events still use content inspection). The
   change is read at the next full rescan, a day later by default.
2. *Failures in a drain* (`watcher.py:938`). The eviction goes to the old snapshot; when
   the walk has already passed the file, the new one keeps its fingerprint, and the
   next clean reconciliation clears the flag without having retried the file
   (`docs/FOREGROUND_WATCH_MODE.md:109`).
3. *Interrupted batch* (`watcher.py:1314`). Paths `due` has returned are in neither table;
   Ctrl+C during the batch loses them without `watch_event_backlog_unprocessed`
   (`docs/FOREGROUND_WATCH_MODE.md:162`).
4. *Quiet period.* `due` ingests, then selects in a second critical section; a report
   that arrives in between is still raw, and the path is handed out although it has
   just been modified.
5. *Dead observer.* The duration is tested before the observer: a session whose
   observer died meanwhile ends complete.

Engine:

6. *Forgotten success* (`automatic_updates.py:438`). A failing check writes back the
   success it read at its beginning, over one recorded meanwhile (`:426`).
7. *Last-known-good copy.* A retry after a crash between envelope and state copies the
   uncommitted envelope over the copy of the committed one.
8. *Two device roots* (`crypto_vault.py:118`). Two first quarantines at once both find
   no root; the second to write replaces the root the first has used, whose copy cannot
   be decrypted any more (`README.md:16`).
9. *Deadline of the worker.* It bounds the wait for an answer, not the writes: a child
   that stops reading, or stops in the middle of a frame, blocks the scan. This is
   the case `EventuallyReturns` excludes by name.
10. *Catalog.* A crash between catalog and rollback state makes every later run fail
    closed until somebody repairs the pair by hand, and so does one between the files of
    a backup; two runs can leave a cache entry whose body is not the one its validator
    names, which every later run refuses
    (`docs/DESKTOP_INTELLIGENCE.md:134`).
11. *Health file.* An issue told before and a failed quarantine emit no record, so the
    file stays "healthy" until the next heartbeat; so does one whose record fails inside
    a walk, where `scanner.py:184` turns the `WatchError` into an issue of the scan; a
    killed session leaves "healthy" on disk; a record torn by a crash makes the next
    one, appended to the same line, unreadable.
12. *Publication* (`docs/UPDATE_SERVICE.md:134`: the build "refuses this locally"). The
    reuse check compares the audit record, which is replaced third: after an interrupt
    before that, the same sequence can be built again with other contents. A deployment
    of `pages.yml` can put an older tree back; clients keep what they have accepted.

Desktop:

13. *Two children.* `_start_watch` asks a modal question after it has tested that there
    is no session, and does not test again. If the second start fails, `watch_mode` is
    reset while the session lives. A failed `_start_watch` leaves a watchdog timer.
14. *Coverage after a refused record.* A repeated or refused record turns coverage off,
    and later records of the same session turn "active" on again.
15. *Two scans.* A scan from the tray can begin while the question before a quarantining
    scan is open; both then share one cancel event, or one loses it, until a scan begins
    alone. Cancel and exit may miss one of the two; nothing is refused for ever.
    `_scan_protected_folders` says "Scanning" even when `_begin_scan` has returned
    early.
16. *Status cards.* Refreshes of the status have no generation, so an older answer may
    come last, and stay on the card until a reading is begun alone; a scan that fails
    does not refresh the status, although it may have saved its summary; one whose
    summary could not be saved leaves the card with an older scan.
17. *Buttons.* A periodic refresh of the companion enables the Defender buttons while an
    action is under way, and the refresh after an action is dropped when one is in flight.
18. *Exit* cancels the scan but not another running command, which keeps the process (a
    full scan by Defender for up to a day).
19. *Answers.* An error document with exit code 2 is reported as an unsupported schema.
    `_begin_store_startup` drops a change while a query is in flight.
20. *Companion evidence.* A companion supervised by a Scheduled Task is reported
    "Running", which `contracts.py:753` and `:777` do not accept, so a healthy one shows
    "Evidence unavailable"; `registered_and_running` is never produced. Defender evidence
    that breaks off, the fallback to the Security Center and a health of `UNKNOWN_n` are
    refused too. The validator does not cross-check signatures when
    `defender_reports_out_of_date` is null, and the presentation looks at the first three
    reasons only.

## 7. Not modelled

- *Watcher*: observer start-up and fallback to polling, heartbeat counters; directories,
  links and mount points (a walk visits files in any order); root replacement except
  as an outcome of `CheckFails`; duplicates of a path under different spellings. The
  content of rules and matches.
- *Engine*: signature and cipher algorithms, file permissions, schedules and back-off of
  updates, legacy quarantine entries and the listing; the history of restores in an entry's
  metadata, of which two that overlap keep one; limits on frames, rules and
  resources of the worker; argument parsing, host queries, the inventory of extensions.
- *Desktop*: layout, animation and wording; `settings.py`, `store_startup.py`, update
  notices.
- *Companion*: the supervising loop and the installer; only the status script and what
  the desktop makes of it are modelled.
- *Browser shields extension*: its settings transaction depends on the storage and the
  rule engine of the browser, which nothing in this repository specifies.
- *Browser preview* (C#), packaging, the web site and generated intelligence data are
  outside the protection engine.
