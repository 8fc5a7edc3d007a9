# lazysubs-eye: verification project

lazysubs-eye shows subscription quotas of coding agents (Claude, Codex, MiniMax)
and local token usage (Claude Code, Pi, OpenCode) in Waybar, on the command line
and in a terminal UI. It is one binary, run by several processes at once that
share no memory: Waybar starts one every few seconds, the user runs the CLI, and
one or more TUIs stay open. They meet only in files: `status.json`,
`notify-state.json`, the token indexes, `config.toml` and the SQLite database
of the spend history. Inside a process, threads collect providers, scan
transcripts and send results to the one thread that owns the UI state.

This directory holds TLA+ modules that model that behaviour, TLC configurations
that check them on small instances, and proofs checked by TLAPS. Source paths
below are relative to the repository's `src/`.

## Inventory

| Component | State it keeps | Operations | Interacts with | What is hard | What makes it correct |
|---|---|---|---|---|---|
| Durable state files (`cache.rs`, `file_lock.rs`) | target, temporary sibling, lock file and its inode | `atomic_save`, `atomic_save_locked`, `FileLockGuard::acquire / verify / drop` | every component that persists | crash at any system call, power cut, lock file replaced, contention | readers see whole documents; `Ok` means durable; one lock owner; saves return |
| Status refresh (`providers/mod.rs`, `cache.rs`, callers in `main.rs`, `tui.rs`) | `status.json`: `fetched_at` and one entry per account with `stale_since` | `load`, `load_stale`, `collect_all`, `collect_until_budget`, `keep_stale_data`, `save` | provider threads over a channel; durable files; notifications | providers that hang or fail, two processes, stale data kept through chains of failures, clock set back | ages are honest; nothing is shown twice or silently missing; recent data kept |
| Notifications (`notify.rs`) | `notify-state.json`: last alert of each window | `check` = `load_state`, `plan`, `send`, save | status refresh | reset, dip, escalation and error in any order; unlocked read-modify-write | alerts are spaced; none is recorded unsent; no window stays silent |
| TUI refresh cycle (`tui.rs`) | `RefreshScheduler`, `refreshing`, `*_scanning`, deadlines, channel | `refresh`, `apply_update`, `settings_apply`, `clear_expired_loading` | status and token workers | messages that arrive late, panics, requests during a refresh | one collection; forced requests honoured; nothing loads for ever |
| Spend history (`history.rs`) | `daily_usage`; `meta`: fingerprints, ingest states, cursors, `backfill_v1` | `record_source`, `ingest_single_day`, `maybe_backfill…`, `prune` | token sources; TUI threads; other processes through SQLite | partial failure, cancellation, crash between transactions, midnight, order of days | a cursor hides no failure; done means ingested; skipping is sound; backfill completes |
| TUI history and graph (`tui.rs`) | `graph`, `history_data`, backfill guard | `reload_graph`, `reload_history`, `apply_update` | spend history over the channel | replies that arrive after a newer request, settings changed during a backfill | what is shown belongs to what is selected and holds a finished backfill; one backfill; an open graph gets data |
| Pi token index (`pi_tokens.rs`) | `pi-index.json`: per file offset, size, identity | incremental scan, rebuild | durable files | appends during a scan, truncation, rotation | incremental scan = full scan |
| OpenCode token index (`opencode_tokens.rs`) | rowid cursor, day window, totals | incremental query, invalidation | SQLite of OpenCode, durable files, TUI panel, history | change of day, changed rows, replaced database, kept rows | a checkpoint is one snapshot; incremental = full; a failure erases nothing |
| Configuration (`config.rs`) | `config.toml`, process-wide copy | `load`, `validate`, `persist` | settings modal of the TUI, the user's editor | unlocked read-modify-write, two TUIs, several forms of one key, a list of rows that changes its length | what is saved is found again or an error is shown; the user's own text stays; focus on a live row |
| System integration (`install.rs`) | Waybar and Hyprland files, backups, journal | `install`, `install_sandbox`, rollback, `uninstall` | durable files, the user's editor, Waybar | a step of several fails, the process dies, the user edits, markers are damaged | a command does what it reports; what the user wrote is kept; Waybar never shows half |
| Claude transcripts (`tokens.rs`) | none | `claude_by_day`, sums | history | – | pure |
| Provider clients (`providers/*.rs`) | none between calls | one request per account | status refresh | network | an answer per account |
| Output, diagnostics, performance, CLI (`output.rs`, `diagnostics.rs`, `performance.rs`, `main.rs`) | `last-error.json` | formatting, doctor, check | all | – | pure or read-only |

`PROJECT.json` lists each with its status, and every hazard with the line where
it bites.

## Modules

| Module | Models | EXTENDS / INSTANCE |
|---|---|---|
| `DurableDocument` | what any state file promises: atomic replacement, recovery of a whole generation, acknowledged saves stay | – |
| `LockedPublish` | `cache.rs` atomic saves and `file_lock.rs`, step by step | refines `DurableDocument` |
| `LockedPublishProofs` | theorems about `LockedPublish` | `LockedPublish`, TLAPS |
| `StatusRefresh` | one refresh of the status, in several processes | – |
| `Notify` | `check` of `notify.rs`, in several processes | – |
| `TuiRefresh` | the refresh cycle of one TUI | – |
| `HistoryIngest` | the spend history in SQLite | – |
| `TuiHistory` | period rows, graph requests and the backfill of one TUI | – |
| `PiIndex` | the daily token index of Pi: incremental scans of session files | – |
| `OpenCodeIndex` | the daily index of OpenCode, its panel and what it records | – |
| `Settings` | `config.toml`, its loading and writing, the settings modal | – |
| `ConfigText` | the text edits of the installer | – |
| `Installer` | install, sandbox, uninstall, rollback | `ConfigText` |
| `StatusRefreshProofs`, `NotifyProofs`, `HistoryIngestProofs`, `PiIndexProofs`, `OpenCodeIndexProofs` | theorems about the module of that name | that module, TLAPS |
| `TuiProofs` | theorems about the terminal UI | `TuiHistory`, `TuiRefresh`, TLAPS |
| `UserFilesProofs` | theorems about the files of the user that are edited | `Settings`, `Installer`, TLAPS |
| `MC*` | constants of the instances, symmetry sets | the module of that name |

`StatusRefresh`, `Notify`, `PiIndex`, `OpenCodeIndex`, `Settings` and `Installer` treat
a save as one step, which may report an error after it took place. What `LockedPublish`
shows is the licence for it: for a reader the replacement of a file is atomic and always
whole (`DocumentSpec`). SQLite transactions are taken to be atomic and durable
(`journal_mode=WAL`, one connection per worker).

Most modules have a variable `env` (`desktop` in `Installer`) that no step changes. It says what the program runs
in: which processes there are, which answers, faults and settings may occur, how far
the clock goes. `Environments` is the set it is chosen from, so that one run asks the same
questions of several worlds, each rich where the others are poor, and a theorem
covers all of them.

### LockedPublish

A writer is a process inside one save. `pc` follows the code: `locking`
(`FileLockGuard::acquire`, polling every 10 ms until the timeout), `create`,
`write`, `sync`, `verify` (the `before_commit` callback), `rename`, `settle`
(chmod of the target and fsync of the directory), `cleanup` (the temporary file
is removed after any error), `release` (guard dropped). `locking` (the
variable) is fixed in the initial state: TRUE for `status.json`, FALSE for the
files saved with `atomic_save` and `atomic_save_system`. The flock belongs to the
inode a process has open (`fd`, `held`), while `lockInode` is what the path
names: they differ once someone deletes the lock file. `disk` is the set of
documents the path may name after a power cut: a rename adds to it, the fsync of
the directory leaves only the newest. A file's bytes are `torn`, `whole` (in
memory) or `synced`. `StepFails` is any `?` of the closure; `Crash` is a killed
process, whose flock the kernel frees; `PowerCut` stops all of them.

`gen` and `acked` are history variables: the generation a save has published and
the newest one reported as saved. The abstract `Acknowledge` requires that no older
generation is recoverable, hence the refinement says that a save that returned
`Ok` is never undone, although another writer may rename between this
writer's rename and its fsync.

### StatusRefresh

`cache` is `status.json`, `draft` the snapshot a process builds, `batch` what
each collector thread has sent. `Hit` and `Miss` are `cache::load` against the
TTL; `Arrive` is a thread's message with one answer per account; `CloseBudget` the
end of `collect_until_budget` together with the merge of `collect_all` (reused
entries of the families that are missing, explicit errors for those never
seen); `Keep` is `keep_stale_data`, which reads the snapshot a second time;
`Save` may fail silently, as in the code. `born` is a history field: the run in
which the windows were fetched.

Accounts have different identifiers. `config.rs` does not refuse two accounts of one alias; they would share
their entries, which is left out.

### Notify

`Plan` is `load_state` and `plan` in one step (both only read), `Send` one
`notify-send`, `Save` the replacement of the file. `Alerts`, `Kept` and
`PlannedRecord` are the planner's decision for one window. `announced` is the
history of alerts handed to `notify-send`. `env` says how long the cooldown is and what
may go wrong: concurrent checks, faults, windows missing from a status.

### TuiRefresh

`collecting` is `RefreshScheduler::active`, `pending` and `pendingForce` its other fields;
`refreshing`, `scanning` and `armed` are fields of `App`; `updates` is the mpsc queue in FIFO
order; `working` and `scans` are the worker threads. `ApplyStatus` is the whole
arm of `apply_update` with the follow-up refresh. A scan sends its tokens and then,
from its guard, `ClearLoading`; a panic sends only the latter. `overdue` marks a
scan whose deadline has passed. `owed` and `awaiting` are history variables: a
forced refresh, or a panel's first scan, that someone asked for. The history side of
`apply_update` is in `TuiHistory`, the settings modal in `Settings`; they share no variable
of `App` with the refresh but the channel, which each module has with its own messages.

### TuiHistory

The database is a version, `db`, that every write raises; what a query returns is the
version it read and the period or view it is about. `rows` are read by the UI thread at
once (`Reload`), a graph by a thread for each request (`Request`, `ReadGraph`, `SendGraph`)
whose answer comes back over `channel` in any order relative to others. The keys `g`, `v`, `t`,
the two settings of the history and any other key are actions, as are the messages of
the backfill and of the scans. `asked` numbers the graph requests and `final` is the
version in which the last backfill ended; both are history.

### HistoryIngest

A worker is a thread that records live usage (`LiveScan`, `RecordLive`) or runs
the backfill (`BeginBackfill`, `Scan`, `Filter`, then per day `TreatDay`,
`Write` or `WriteFails`, `Mark`, `MoveCursor`, and `Prune`, `Finish` at the end).
Every statement that commits by itself is a step, so that a crash or another
worker fits between any two. The usage of a day is a number; a fingerprint is the number
it was computed from. `Plans` are the orders in which the scan may list its days:
by day for Pi and OpenCode, any order for Claude, whose days come out of a
`HashMap` (`tokens.rs:196`). `missed` is history: sources whose scan failed.
The cutoff timestamp of an ingest state is only displayed and left out.

### PiIndex

`path` and `file` are the session tree: what each path names, and the lines,
the unfinished line and the modification time of each inode. Users and Pi change
them between any two steps of a scan (`AppendLine`, `AppendPart`, `Rewrite`, `Create`,
`Remove`, `Move`). `scan` is one `update_pi_index`: `Begin` loads the index and
withdraws files that are gone; `process_file` looks its path up five times, and each look is a
step: `Stat` (metadata and fast path), `ReadHeader`, `ReadCursor` (the lines before the cursor are
compared), `ReadSuffix` (up to the size that `Stat` saw) and `Record`, which enters the entries and
fingerprints what stands before the new cursor. `Save` replaces `pi-index.json` or fails silently. Bytes are
half lines, so that an offset can fall within a line. Contributions are left out: an entry is its id,
and `seen` says which files hold it. An entry that is too much for the totals (`Huge`) may be refused by
`add_entry` after `process_file` has listed it: `refused` records which were.

`quiet`, `still`, and `prefix` and `raced` of a file state are history: whether files changed
during the scan or since the metadata of the file in hand, the lines a state was made from, and whether
these were written over, or the file replaced at its path, between two reads of the scan. A raced
state holds old entries under a fingerprint of new bytes, and the code has no way to notice.
`FastPathSound` and `ScanIsRebuild` except such states, which run `pi_raced` shows to be wrong, and
`ScanIsRebuild` files without a header, which keep what they had.

Left out, as the module says: edits that a fingerprint of 4 KiB cannot tell from an append
(`Distinguishable`: new contents of a file match none of its states by header and window without having
the lines the state was made from), and a file written over within the millisecond
of its last write (`Rewrite`, `Create`; appends may do so). One scan runs at a time: the index of a
second process could only replace this one as a failed save leaves the old one.

### OpenCodeIndex

`db` is OpenCode's database: the identity of its file and its parts by rowid; a change may
delete rows or put an older copy back, in place or as a new file. `Open` reads the clock and
fixes the snapshot, `Project` loads the checkpoint, decides between rebuild, change of
day and continuation, and adds up the rows after the cursor, `Save` replaces
`opencode-daily-index.json`. Another process may do the same between any two of these steps.
Sums keep "unknown" (an absent value makes the sum absent), rows that are malformed
fail the scan, sums past `Limit` fail it too (`checked_add`). `Deliver` is what becomes of
the result: the panel of a TUI keeps rows it shows when a scan has none, the history
records ready and stale rows (a one-shot process an empty result as well).
`base` and `drift` are history: the snapshot a checkpoint was made from, and whether the
rows it counted have since changed in a way the identity of the file does not show.

### Settings

A document is its managed keys and the rest (`foreign`), which may be nothing, something
the user wrote, or something `validate` rejects. Each way of writing a key has one
representative. `Press` is `settings_apply`: memory first, then `persist` reads the file (blindly,
if it cannot be read), and `Save` renames the new text over it; an editor, another TUI
or a restart fit in between. `settings_items`, `settings_move` and `toggle_id` keep their names.
`standing` is history: TUIs whose `persist` was the last to write, hence whose choices
must be found again.

### ConfigText and Installer

A text is a sequence of tokens: a JSON member, an array item, a CSS rule, a marker, a
line end. `WithModule`, `WithStyle`, `WithRule` insert; `Strip` and `WithoutRule` remove lines;
`Valid` is `validate_markers`; like the code it does not see who wrote a line of the kinds that its own blocks
hold (`Tolerated`), and `WithoutRule` takes every line that names the window class
(`Naming` are those of the user). Line ends matter because comments and removal reach the end of a
line. `Installer` walks the three files with `Read`, `Backup`, `Publish`; any of them may
fail and then `Restore` copies the journal's backups back, last first, each of which may
fail as well. `Kill` ends the process anywhere, `UserEdit` is the user's editor, `Tick` the clock
that names backups. `desktop` is the one to start from; `before`, `written` and `marks` are
history. What is left behind by one command is what the next one starts from.

An edit may come at any moment, and `written` is what the user wrote last, whatever becomes of it. The code
loses an edit that comes between the backup of a file and its publish, or before a rollback
(`late`): `AuthoredIsKept` excepts those and no others. An edit between the reading
and the backup (`raced`) leaves the file but is in the backup. `UserTextSurvives` speaks of the files themselves and
excepts both, and the lines that uninstall claims although the user may have written them. What
`RemovedWholly` allows to stay after an uninstall is written there: newlines, and one comma behind a `modules-right` that was the last member.
The reads of a preflight are one step, and so are the two of `validate_markers`.

## Runs

| Run | Instance | What it shows |
|---|---|---|
| `publish` | 2 writers, 2 inodes, 3 generations, lock files may vanish, locked and unlocked documents | `WholeDocuments`, `OneLockedPublisher`, `VerifiedSoleOwner`, `DocumentSpec` (refinement), `EverySaveReturns` |
| `status` | 2 processes with hanging and failing collectors; or 1 process, 2 accounts of one family, 4 kinds of answer, clock set back | `HonestAge`, `EachAccountOnce`, `NoSilentTimeout`, `FreshMeansFresh`, `KeepsRecentData`, `RefreshCompletes` |
| `notify` | 2 processes with faults over 2 instants; undisturbed checks with cooldown 2 over 6 instants | `RecordsWereSent`, `NoSilentWindow`, `AlertsSpaced` |
| `tui` | 1 panel, 2 live scans | `OneCollection`, `RequestsServed`, `LoadingEnds` |
| `history` | 2 workers on 2 past days; 1 worker with 2 sources; 1 worker that records and backfills around midnight, 2 retentions; all with faults | `CursorHidesNothing`, `DoneMeansIngested`, `FingerprintStandsForRows`, `BackfillCompletes` |
| `tui_history` | 1 source, 2 graph threads, 3 keys, 2 writes | `RowsAreFinal`, `GraphIsCurrent`, `OneBackfill`, `GraphArrives` |
| `pi` | 2 paths, 2 inodes, 1 header, 2 entries of the first day and 1 of the second, which may not fit, files of up to 3 lines, 3 writes, the third on the first day only (`MCBound`), a cursor window of one line | `SourcesAgree`, `FastPathSound`, `ScanIsRebuild` |
| `opencode` | a TUI and a one-shot process; 4 worlds: faults, all kinds of parts, changed databases, a moving clock | `IndexIsOneSnapshot`, `ReportIsExact`, `OnlyScansErase`, `OnlyStaleCrossesDays` |
| `settings` | 1 TUI with an editor, or 2 TUIs, 2 providers, 6 documents, restarts, failed reads and saves | `SavedOrShown`, `HandWrittenKept`, `FocusOnRow` |
| `installer` | 11 desktops, 2 or 3 commands in a row, failures, deaths, edits | `CommandKeepsPromise`, `AuthoredIsKept`, `UserTextSurvives`, `BarSeesWhole` |
| `backfill_unsorted` | 1 worker, one unsorted source, 2 faults | **violated**: `DoneMeansIngested` |
| `pi_raced` | 1 file of up to 3 lines, 3 writes | **violated**: `EditsAreDetected` |

Type invariants are the first conjunct of one invariant of each module. In `TuiHistory` the
properties bound every variable they speak of.

### Why the bounds are enough

* *publish*: a conflict takes two writers, a replaced lock file two inodes. Three
  generations let one save lie between another's rename and its directory fsync and
  a third follow. One extra poll separates "at once" from "after a wait". The
  theorems below cover every number of writers, inodes, polls and saves.
* *status*: a wrong age takes a second process or a second refresh. With two
  processes, two instants (TTL and grace period of one) let windows be stale when the other
  process looks; the longer chain, three instants with a TTL of two and a clock set back, is checked
  with one process. Two families make the mix of answered, reused and failed
  entries; two accounts of one family share a batch. The theorems cover the rest.
* *notify*: alert, reset, dip, escalation and cooldown end fit in six instants with
  a cooldown of two. Concurrency needs two processes and no more than one tick.
  Windows do not influence each other in `plan`, so one is enough where none is
  missing.
* *tui*: panels are treated alike and meet only in `refresh`. A second live scan of the
  same panel is what a late message needs. A run with two panels and one live
  scan each (320,005 states, more than three minutes) holds the same properties
  and is left out of the project for its time alone.
* *pi*: two inodes cover replacement and the reuse of an inode, two paths moves and copies that share
  entries. Three writes allow create, append, rewrite, at any of the five looks of a scan; an index that is
  wrong at the next scan has gone wrong by then. Two entries of one day are what an unnoticed edit takes; the
  third comes after midnight and may be too much for the totals, there two writes suffice for two copies. `MaxNew` is 1:
  a file begins with at most one entry and the others are appended. A second header is left to the theorems.
  A deleted file's contents are forgotten, for nothing reads them. The theorems cover any number of all of these.
* *history*: the success of one worker lies before, between or after the failure of the other on two
  days; two faults let the recovery fail as well. Three past days with one worker, where a success
  lies on both sides of a failure, are those of `backfill_unsorted`. `MaxUse` is 1: a
  fingerprint of nothing, of something, and none.
* *tui_history*: two graph threads answer out of order; a third request waits until
  one is free. Three keys suffice to open, change and close the graph, or to switch stats off
  and on during a backfill. Two writes tell a backfill's end from another process's record.
* *opencode*: three parts let the cursor lie before, between and behind changes; a day has
  two ticks, so that scans of one day, of the next, and a periodic rebuild occur. `Limit` 3 is
  overflowed by two parts.
* *settings*: four presses write, undo and rewrite a key; one editor's save or one restart
  falls anywhere between them. With thresholds of 1 to 4 both clamps are reached.
* *installer*: the desktops differ in where `modules-right` stands and what follows it, in what
  is missing or locked, in what was integrated by hand, and in a rule for the window class that the user wrote.
  Two commands show a recovery from a failure, three a removal after it. Two seconds put backups in one
  second or in two. The user adds a line of his own, one of a kind that the blocks hold, or one that names the class, at
  any line, or deletes an end marker; one edit is before, between and after the steps of either command.

Deadlock is checked where the processes never stop. It is switched off for
`publish` (the bound on saves ends it), for the history runs (a finished backfill
leaves nothing to do) and for `tui_history`, `opencode`, `settings` and `installer`, where the
bounds on keys, changes, presses and commands end the run.

### Fairness

* `LockedPublish`: weak fairness of a writer's own steps, failures not among them. A process that lives keeps
  running the call it is in. Nothing is assumed of the lock being free: polling is
  bounded.
* `StatusRefresh`: weak fairness of `CloseBudget`, `Keep`, `Save`, `Show`. The receiver
  waits with a timeout. Collectors get none, they may hang for ever.
* `TuiRefresh`: weak fairness of the UI loop's reception of messages, of expiry
  (the loop turns every 200 ms), of the status worker (its collection has
  a budget) and of the guard of a scan that has sent its result. Scans get none.
* `HistoryIngest`: weak fairness of a worker's steps, strong fairness of
  `BeginBackfill`: every TUI starts with `maybe_backfill` and `ingest_today` calls
  it, so attempts recur as long as the program is used. Faults are bounded, which says
  that failures stop at some point.
* `TuiHistory`: weak fairness of the UI loop's reception, of graph queries and of the
  end of a backfill: each is a loop or a query that ends. Keys get none.

## What is proved

Eight modules hold theorems. They cover every value of the constants, under the named
assumptions of the module they are about. `TuiProofs` and `UserFilesProofs` extend two
modules each, whose specifications (`Spec`, and `RefreshSpec` or `DesktopSpec`) share no
variable and no name (hence `collecting` and `updates` beside `active` and `channel`, or
`written` beside `authored`); each theorem is about one of them.

`LockedPublishProofs`, for every set of writers and inodes and every bound,
under `PublishAssumption` (finite writers, `NoInode` is no inode, natural bounds):

* `TypeCorrect`, `ReadersSeeWholeDocuments`, `LockExcludes`: the invariants of run
  `publish`.
* `VerifyAdmitsSoleOwner`: the action property, lock files may be replaced.
* `PublishRefinesDocument`: the protocol implements `DurableDocument`.
* `AcknowledgedSavesSurvive`: no power cut takes back an acknowledged save.

The invariants are not inductive by themselves. `IInv` adds three parts.
`TempReady`: what stands before its rename has its bytes on disk, without which
`Rename` could publish a torn file. `LockOwners`: who works on the document
holds the flock of its inode, inodes in use have one holder, and while lock files stay
every active writer has the inode that the path names; without the last, two
holders of different inodes would be possible. `Generations`: everything recoverable
lies between the acknowledged and the visible generation, and an outcome `ok` is
only present in `release`, where the directory has been synced since; this is what
`Acknowledge` needs. `NextTypeOK`, `NextFiles`, `NextLockOwners` and
`NextGenerations` show one part each for every action, `Invariance` combines
them.

`StatusRefreshProofs`, for any processes, families, accounts, grace period and environment,
under `RefreshAssumption`:

* `AgesAreHonest`, `AccountsShownOnce`: the invariants of run `status`.
* `TimeoutsAreShown`, `HitsAreFresh`, `RecentDataIsKept`: its action properties.

`IInv` says of the file that it is honest and has each account once, and of a draft what holds at its
stage: between the merge and the second look at the cache (`keep`) the windows of
this run have no age yet and reused ones carry their own (`HonestDraft`), afterwards
the draft is as honest as the file. One lemma each says what `Collected`, `Reused`,
`TimeoutErrors` and `KeepStale` return; that reused and collected entries belong to
different families is why no account comes twice. `RecentDataIsKept` needs a second
invariant, `SoleDraft`: where one process refreshes, a draft still waiting to be saved
has degraded nothing that the file holds.

`NotifyProofs`, for any processes, windows and resets, under `NotifyAssumption`:

* `FileRecordsWereSent`, `NoWindowStaysSilent`: any interleaving, crash or failed save. `IInv`
  adds that what a process will save was sent or is still to be sent before it saves
  (`NextIsSentOrPending`), which a step of another process does not undo.
* `AlertsAreSpaced`: undisturbed checks. `CooldownInv` counts planned alerts with
  sent ones (`Raised`): each that is still in its cooldown is covered by the record
  in force, a later or equal one of at least its level. `PlannedCovers` shows that a plan keeps this, since
  an alert inside the cooldown needs a higher level.

`TuiProofs`, for any panels, live scans, sources, graph threads, writes and keys, with no
assumption on the constants:

* `CollectionsDoNotCompete`: the invariant `OneCollection` of run `tui`. It is inductive as it
  stands; the work is in counting the status messages of the queue, which `AppendCounts`
  and `TailCounts` do for every action that sends or receives.
* `OneBackfillAtATime`, `RowsOfAFinishedBackfill`, `GraphOfTheShownView`: the invariants
  of run `tui_history`. `BackfillInv` says where the backfill is: a thread, its end in
  the channel, or nowhere. The other two need it, since a backfill that ended while it
  was not active would leave rows and graph behind `final`. `GraphInv` says of every
  answer on its way what `GraphIsCurrent` says of the one shown (`FreshNow`); `NextCalm`
  shows that a step leaves alone what answers are judged by, makes it not count or
  asks again, and `NextMoved` where the data of each step comes from.

`HistoryIngestProofs`, for any workers, sources, plans, clock and retention, under
`HistoryAssumption`:

* `HistoryTypes`, `FingerprintIsSound`: invariants of run `history`.
* `CursorIsSound`, `DoneIsSound`: the other two, where every source lists its days oldest first. The hypothesis is
  needed: it is the one that run `backfill_unsorted` drops.
* `OrderedSourcesStandAlone`: the same for each ordered source, with no hypothesis about
  the others. One that is unordered loses days of its own only.
* `FrozenDaysStay`: a past day that has its rows keeps them.

`IInv` speaks of the pairs of an ordered source and an owed day without rows of its own (`Missing`).
Cursors lie before all of them, and `done` means that there are none. Neither is
inductive without `JobInv`, which says of each worker that what it will write on a past day is
true, that a backfill still holds every missing day in its plan or has marked the source as
broken, and that the days of an ordered source never go back in the rest of its plan: another worker,
a crash or a failed write may come at any of its steps. Past days are those before
`env.start`, which `today` never falls behind: a live record goes to no past day.

`PiIndexProofs`, for any paths, inodes, headers, lines and lengths, under `PiAssumption`:

* `IndexTypes`, `DirectionsAgree`, `FastPathIsSound`, `QuietScanIsRebuild`: the invariants of run `pi`,
  of every behaviour of the module, with no hypothesis about what becomes of the files. Raced states are
  excepted in the properties themselves.

`IndexInv` (types, directions, and that a scan resumes from the entries of the state) is inductive alone.
`FastPathInv` adds that a file has one name (`DiskInv`) and, for every state, that its entries are those of the lines it was
made from and that, unless it is raced, these are the first lines of any file that matches its header and
window, and all lines of a file that has its metadata (`StatesInv`); the first is what `Distinguishable` says
of a write. `ScanInv` says the same of the file in hand at each of the five looks, as long as `still` holds or the
file keeps the metadata. `QuietInv` says that while nothing changes every file not in `todo` is counted as it
is. Both stand on the modification time, which never goes back.

`OpenCodeIndexProofs`, for any processes, usages, environments, days and bounds, under
`OpenCodeAssumption`:

* `CheckpointIsOneSnapshot`, `ReportsAreExact`: the invariants of run `opencode`.
* `FailuresEraseNothing`, `OnlyKeptRowsCrossDays`: its action properties.

What a checkpoint has added up is all there was to add up, although no scan read it all: this
needs to know what a rowid that stayed in place says of the rows behind it. `IInv` therefore
speaks of `born`, when each part was written, which no variable records: `Table`, in every
table there is, also in a copy that may be put back, identifiers grow with the rowids and an identifier
fixes the time. `Sound` holds of a checkpoint whatever became of the database; `Exact`, that
it stands for all parts of its day, of one that has not drifted; `Past`, that the rows it has counted
lie on its day or before. `Working` says the same of what a scan is about to save. On a new
day the sums start empty and the cursor stays: the part under the cursor was written before that day, so
was everything behind it (`NothingToday`), hence nothing is skipped. On the same day kept sums
and new parts are merged. That merging gives the sum of all (`AddUp`, `GoesOn`) is a fact about
sums over finite sets, absent values included: a sum can be taken apart at any subset
(`SumOfParts`), and the total of a row of sums is the sum of the totals (`RowOfParts`).
The action properties follow from what a delivery does with the panel and the history
(`HistoryIsDelivered`).

`UserFilesProofs`. `Settings`, for any processes and providers, under `SettingsAssumption` and
`DocumentsAssumption`:

* `UserTextStays`, `ChoicesSurvive`, `FocusStays`: the invariants of run `settings`.

`Typed` says that configurations, files and the text a `persist` has read are documents
whose lists name no provider twice: `toggle_id` keeps that (`config.rs:364`).
A file written by hand with a name twice in a list is left out. `FocusInv`: `settings_move` comes round to a row that can
be changed (`MoveLands`), and a key that changes the rows only changes those after the
focus (`RowStays`). `HandInv`: what a `persist` in progress has read is what the user left. `SavedOrShown` is
inductive beside them because load finds what `apply_to_doc` wrote (`SavedIsLoaded`), for every
configuration and every document it is written into.

`Installer`, for any desktops, texts, commands, edits, faults and deaths, under `InstallerAssumption`:

* `UserVersionsAreKept`: the invariant `AuthoredIsKept` of run `installer`, its exception included.
* `FailuresAreUndone`: `FailureRestores`, a part of its invariant `CommandKeepsPromise`.

`Recoverable` adds `KeptAside`: a file about to be replaced, and each one in the journal, has
what the user last wrote in a backup, unless he wrote it after that backup; `NameIsFree` is why a backup never
replaces another: of one more names than there are backups one is free. And `Undoable`: the journal names each
file once, with a backup that holds what the file was before it, and a file that is not in it is as it was;
so each `Restore` leaves less to restore and nothing else wrong. A failed copy ends this
part (`failed`) and not the other: what the rollback tore is still in its backup. What the texts
become (`Strip`, `WithModule`) does not enter the argument, which is why it holds for any.

Proofs by induction are over the natural numbers, with a set for the property:
`SetInduction` follows from the order being well-founded, and gives `Without`, the recursive
function that takes an item out of a list, its meaning (`WithoutIs`). No module with
theorems reaches a RECURSIVE operator. In the same way `SubsetInduction` goes over the subsets
of a finite set, by the least cardinality of those that lack the property, and gives
`SumFunction`, a fold of the library, its meaning (`SumIs`, `SumsTake`).

Only model-checked: liveness (`EverySaveReturns`, `RefreshCompletes`, `RequestsServed`,
`LoadingEnds`, `BackfillCompletes`, `GraphArrives`), which the prover does not
reach; and what the installer does to texts: `UserTextSurvives`, `BarSeesWhole`, and of
`CommandKeepsPromise` its parts `InstalledOnce`, `RemovedWholly`, `PlanCovers` and the types. They rest on what the functions
`Lines`, `Joined` and `UserPart` make of every text, an induction over data, and on the
texts of the instances: `PlanCovers`, for one, does not hold of a file in which the user, while the
command runs, deletes a line that holds an end marker and the rules as well.

## Where code and comments part

With a run that shows it:

* `backfill_unsorted`: the resume cursor assumes ordered days (`history.rs:941-943`),
  Claude's are unordered (`tokens.rs:196`): a failed day can be lost for good.
* `pi_raced`: `process_file` compares the lines before the cursor, reads what follows and takes the new
  fingerprint by separate opens (`pi_tokens.rs:451`, `463`, `493`). A file that is written over between
  them keeps its old entries under a fingerprint of the new lines, and no later scan notices until the file is
  rebuilt for another reason or the day ends, against lines 388-390 ("this window detects in-place edits").
  A session that another one replaces at its path in between does the same.

Found while modelling, without a run of their own. Refresh and TUI:

* A family that times out is filled from the snapshot with no look at its age
  (`providers/mod.rs:376`), against lines 72-73. A collector that hangs at every refresh shows
  windows of any age; `HonestAge` says they are at least shown with it.
* A late `ClearLoading` clears the flag of the next scan (`tui.rs:849`), which a refresh
  then doubles, against lines 188-189.
* Answers to graph requests are told apart by view only (`tui.rs:846`): an older answer
  for the same view may replace a newer one, also one that a finished backfill asked for.
* `g` does nothing while stats are off (`tui.rs:912`): a graph that is open then cannot be closed. Switching
  stats off does not end a backfill that runs.
* `collect_all` looks at the snapshot before `save` replaces it: a process whose request failed may
  save its error over a success of another (`cache.rs:229`, `providers/mod.rs:76-77`).
* A status worker that panics leaves the scheduler held: it has no guard as scans do
  (`tui.rs:696`).

Notifications:

* `plan` keeps records only of windows in the status (`notify.rs:76`); one that is missing
  once is announced again at its return, inside the cooldown (lines 51-52). `AlertsSpaced`
  is stated for statuses that name every window.
* Two processes may send the same alert, since load, send and save are unlocked
  (`notify.rs:170`).
* A `notify-send` that fails is recorded as an alert that was seen (`notify.rs:150`).

State files and indexes:

* `verify` precedes `rename` and nothing ties them (`cache.rs:199`): when a lock file
  is replaced in between, two writers publish one after the other, which lines 103-105
  deny. Each document is still whole and durable (`DocumentSpec`).
* An error after the rename (`cache.rs:202-205`) reports a failed save whose document is
  in place; line 162 says the old target is preserved.
* A session file that loses its header keeps its old entries (`pi_tokens.rs:440-445` returns early), against
  lines 409-410 ("otherwise remove this file's old contributions and rebuild"). `ScanIsRebuild` excepts it.
* Two processes save `pi-index.json` without a lock (`pi_tokens.rs:588`); the later save
  wins and the other's progress is read again.
* The OpenCode cursor survives midnight because "old rowids cannot enter the new day"
  (`opencode_tokens.rs:696-697`). A scan that runs across midnight, an older scan saved late, or
  a clock set back breaks that ground, and rows are missing until the periodic rebuild:
  the history variable `drift` marks such checkpoints.

Spend history:

* Rows that a panel keeps after a failed scan are recorded under the date of the recording
  (`tui.rs:819`, `history.rs:814`): yesterday's usage goes under today. `OnlyStaleCrossesDays` says
  that no other rows do while no scan runs across midnight.
* `record_source` takes the date when it records (`history.rs:826`), the backfill
  before it scans (`history.rs:900`): a scan that straddles midnight lands under the
  wrong day, or lowers a fresher record of the new day (line 902).
* `prune` keeps the fingerprints of the rows it deletes (`history.rs:659`): raise
  `history_days` and such a day counts as ingested, against lines 651-652.
  `FingerprintStandsForRows` is stated for the days every setting retains.
* A source that cannot be read during the backfill has no days (`opencode_tokens.rs:872-878`), and
  `done` is written without it. `DoneMeansIngested` leaves such sources out (`missed`).
* The cutoff is taken after the scan (`history.rs:422`), not before (lines 120-121).

Configuration and installation:

* `persist` takes a file that it cannot read for an empty one and replaces it (`config.rs:387`): credentials,
  accounts and comments go, against line 380 ("preserving unmanaged keys and user comments").
  `HandWrittenKept` excepts it (`blind`).
* What the user saves between the backup of a file (`install.rs:605`) and its publish (608) is
  overwritten and in no backup, against lines 602-603 ("the journal still has the pre-mutation bytes").
  `AuthoredIsKept` excepts it (`late`).
* Uninstall deletes every line of `hyprland.conf` that names the window class
  (`install.rs:925`), one that the user wrote without a marker included, against lines 10-11 ("unmarked manual
  integration is reported, never deleted") and `openspec/changes/safe-system-integration/design.md:103`.
  `UserTextSurvives` leaves such lines out (`Unclaimed`); a desktop and an edit of run `installer` have one.
* The newline that install puts behind a stylesheet without one (`install.rs:768`) and the comma it puts behind a
  `modules-right` that was the last member (379) stay after uninstall, against lines 343-344 ("every line is marked or
  enclosed, so uninstall can restore bytes exactly"). `RemovedWholly` counts both.
* A `modules-right` array on one line is cut by the inserted line comment (`install.rs:392`):
  the rest of the line, the user's modules and the bracket among it, becomes a comment and goes with the
  uninstall, against lines 7-8. The desktops of
  run `installer` have an item per line, for `UserTextSurvives` fails where they do not.
* The modal clamps each threshold by itself (`tui.rs:556-561`): `warning_at` at or above
  `critical_at` is saved, and the next start rejects the whole file and uses defaults.
* A file that `validate` rejects is loaded as defaults; the next key press writes defaults over its
  managed keys.
* `config.toml` is read, edited and renamed without a lock (`config.rs:387-392`): the later of two
  savers wins.
* `waybar = { window = .. }` as an inline table cannot be emptied from the TUI
  (`config.rs:496-500` only takes a table), and `waybar.percent` is never removed. `SavedOrShown`
  leaves both out.
* `toggle_id` writes down the list of the providers that are on. One that was off at that moment
  stays hidden when it is switched on later.
* Uninstall takes out every line of a block that is of a kind the block holds (`install.rs:509-516`), a changed
  `color:` of the user as well; `UserTextSurvives` counts them as claimed.
* A command edits the stylesheet and reloads Waybar also where it leaves the config alone because its structure is
  not recognised (`install.rs:748`); `BarSeesWhole` excepts such configs.

## Not modelled

* Claude transcripts (`tokens.rs`), provider clients, output, diagnostics: formatting, parsing of
  JSONL, HTTP and JSON-RPC, none of which keeps state of its own or orders events. What they return is an
  input of the models: the answers of `StatusRefresh`, the days of `HistoryIngest`.
* Of the command line, argument parsing, `doctor` and `check`; its refresh is modelled.
* SQL queries that only read, the buckets of the graph, paths and symlink checks. A query is
  modelled by the version of the database it sees (`TuiHistory`).
* `ingest_partial_day` has no caller outside tests.
* Two scans of Pi at once: the second index could only replace the first as a failed save leaves
  the old one.

## Plan

The components that keep state are modelled, and what the prover reaches of their
properties is proved. What could be added: an abstract specification of the installer, all or
nothing, that `Installer` implements while no rollback fails, and one of the spend history, what
is frozen stays.
