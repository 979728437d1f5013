# Verification of Quotalis

TLA+ specifications of the concurrent and stateful parts of Quotalis, the TLC configurations that
check them on small instances, and TLAPS proofs that hold for every value of their constants.
`PROJECT.json` indexes the components, runs, mutants, source lines, hazards and theorems.

Paths below are relative to the repository: `rust/src` is the core crate and command line,
`shell/` abbreviates `apps/desktop-tauri/src-tauri/src`, `ui/` abbreviates `apps/desktop-tauri/src`.

1. [The system](#1-the-system)
2. [Modules](#2-modules)
3. [Runs, bounds and fairness](#3-runs-bounds-and-fairness)
4. [Proofs](#4-proofs)
5. [Where the code departs from its description](#5-where-the-code-departs-from-its-description)
6. [What is not modelled](#6-what-is-not-modelled)
7. [Plan](#7-plan)

## 1. The system

Quotalis shows how much of their quota a user has used with many AI providers. A Tauri desktop shell
refreshes snapshots in the background, keeps them in one mutex-protected `AppState`, tells React
windows about changes by events, shows alerts, and updates itself. The same core crate is a command
line with a `serve` mode, an HTTP dashboard over the same data.

| Component | State | Operations | Talks to | What is hard | Correct means |
|---|---|---|---|---|---|
| Dashboard snapshot coordinator, `rust/src/cli/serve/dashboard/coordinator.rs` | slot mutex, flight outcome, wait list | `get`, drop of `BuildGuard` | one task per HTTP request | cancellation and panics of the builder; registering a waiter against notifying it | one build at a time, no lost wake-up, one answer per build, every call returns |
| Provider refresh, `shell/commands/providers.rs` | cache, `is_refreshing`, generation | begin, load, prune, fetch, publish, finish, invalidate | settings commands, timer, tray, front end | batches superseded in the middle; settings read outside the lock | no disabled provider comes back, the lock has an owner, an enabled provider is published |
| settings.json, `shell/commands/settings.rs`, `shell/collection_settings.rs` | the file; two unrelated locks | load, change, save | nearly every command, the command line | whole-document saves under different locks or none | a saved patch survives other patches, a stale layout edit is rejected |
| Self-update, `shell/commands/updater.rs`, `rust/src/updater.rs` | update state, offer, installer path, installer file | check, download, progress, apply, dismiss | release server, banner, installer | overlap of checks, downloads and dismissals; a progress task that outlives its download | no stuck state, Ready can be applied, only a verified installer of the current offer is launched |
| Workspace backgrounds, `rust/src/workspace_backgrounds.rs` | three files per image, active image | list, import, remove, choose | update_settings | crash or failure between files; removal against choice | listed images are complete, catalog bounded, the active image is not removed |
| Quota alerts, `rust/src/notifications.rs` | marks in memory and in a file, previous levels | observe, persist, load | refresh batches, settings | restarts, torn writes, a bounded memory of marks | each alert once per episode, "restored" only after "depleted" |
| Notification journal, `rust/src/notification_journal.rs` | SQLite baselines and events | observe, page, mark read, mark all | quota alerts, history page | observations that arrive late and out of order, pruning, a page confirmed after newer events | no change recorded twice, nothing unseen marked read, tables bounded |
| Last-good policy, `shell/commands/providers.rs:445-618` | failure counts, cache | replace a failed snapshot | refresh batches | which failures count, and what resets the count | an authorisation loss shows |
| Codex accounts, `shell/commands/codex_accounts.rs`, `rust/src/codex_accounts` | auth.json in `~/.codex` and in each managed home, its backups, accounts.json | add, remove, switch, fetch, the lanes of a refresh, token renewal | provider refresh, Codex CLI | no locks at all; rotating tokens; a switch of several file operations that may fail or be cut short; lists saved over one another | no working login is lost, the store names an account once and with its own home |
| Profiles, `shell/command_profiles.rs`, `rust/src/profiles.rs` | profiles.json, active profile | add, switch, edit | settings.json, provider refresh | two files saved in turn | active profile and settings agree |
| Hooks, `rust/src/core/hooks.rs`, `hook_transition.rs` | baselines in memory | observe, dispatch | refresh batches, `hooks watch` | edge detection against resets and outages | one event per crossing |
| Overlay surfaces, `rust/src/surface_coordinator.rs`, `shell/surfaces.rs` | expanded overlay, windows | expand, collapse, reconcile | window events | concurrent reconciliations | at most one overlay expanded, windows follow settings |
| Settings write queue, `ui/lib/latestWriteQueue.ts` | pending and current value | push, drain | update_settings | a write failing while another waits | the last value is written |
| Command runner, `rust/src/host/command_runner.rs` | child, two reader threads | run, stop, time out | logins, CLI providers | deadline against exit | always ends, exit code kept |

The rest (provider adapters, cost scanners, history, cookies, tray and floating bar, React pages,
command-line formatting, translations) is I/O, presentation or pure data; section 6 gives reasons.

How the modelled components meet:

- `update_settings` saves settings.json (SettingsFile), and then invalidates the refresh generation
  (ProviderRefresh). The tray menu and profiles save without invalidating.
- A finished refresh batch hands the cache to the quota alerts, under the `AppState` mutex. Only one
  such pass runs at a time, so QuotaAlerts needs no refresh state: it observes arbitrary levels.
- Removing a background reads settings.json under the lock of `update_settings`; BackgroundCatalog
  includes that lock and the choice of the active image.
- The last-good policy decides what a batch publishes, and a copy of the cache taken at the end of a
  batch reaches the journal under another lock, late or out of order. Publication composes the two.
- The Codex lanes run in the task of a refresh batch, after its other fetches, but take no part in the
  generation protocol: a lane of a superseded batch still renews and saves. What they share with the
  account commands and the Codex CLI is files, so CodexAccounts has lanes as tasks of their own.
- Self-update and the coordinator share no state with the others.

The other interfaces are a single lock or a single call, so those modules are checked apart, each with
the others' part of the interface as an action of its own (`Save`, `ToggleFromTray`, `Choose`,
`ChangeSettings`), unconstrained, so that it does whatever the other component could.

## 2. Modules

Each module lists its constants, state, actions and properties in this order. The definitions called
*Mutant* are deliberately wrong versions of the definition below them and are used by no specification:
substituted for it, each makes one property fail, which shows the property is about that code.

**SnapshotCoordinator** implements **SharedBuild**. A caller is a task making one `get()`. A critical
section of the slot mutex is an action (`DecideServe`, `DecideWait`, `DecideBuild`, `PublishSlot`,
`DropReset`); storing the outcome, `notify_waiters`, and a waiter's wake-up are actions of their own,
so tasks interleave at every unlock and await. `CancelWait` and `AbandonBuild` drop a task at an await
(a panic of the build is the same event). A flight is named after its builder; a payload is the flight
that made it. `SharedBuild` is what callers are promised, with no mutex or wait list: one open build,
joined or started; one verdict for all who joined; good verdicts kept until stale.

**ProviderRefresh**. A batch runs `Begin`, `LoadInputs` (after the lock is dropped), `PruneToInputs`,
`StartFetches`, `Publish` per provider, `Finish`, `EmitComplete`. The generation counter is only ever
compared for equality, so it is represented by its holder. `Save`, `Invalidate` and `FollowUp` are the
three steps of an `update_settings` call; several calls overlap. `ToggleFromTray` is the tray menu and
`switch_profile`. `GoStale` is the age of the cache, `Refresh` the timer or the user, `spinner` the flag
of `ui/hooks/useProviders.ts`. It implements **RefreshRound**: no file, generation or fetch, but rounds,
one at a time, that decide once what they are for, show nothing else, and complete only when the cache is
exactly that. In the mapping a round is held while `is_refreshing` is set, and its
scope is what the batch loaded, once it has pruned the cache to that.

**SettingsFile**. A document is the set of writers whose change is in it, plus the collection layout and
its revision. Patches hold SETTINGS_PATCH_LOCK, editors WRITE_LOCK, `Unlocked` writers nothing. Saves
are atomic (`write_string_atomic`) and can fail.

**UpdateLifecycle**. Every block under the state lock is an action. A payload computed under the lock
and emitted after it waits in `outbox`. A download is its file operations (`OpenFile`, `WriteChunk`,
`Verify`, `RejectFile`), its final state (`Finish`) and `AbortTicker`; its progress task takes a value
of the watch channel (`TakeTick`) and writes the state (`ApplyTick`) separately. Applying is three steps
as well, what it takes from the state (`BeginApply`), the digest of the file (`HashInstaller`) and the
start of the installer (`Launch`), between which checks and downloads go on. `file` holds the chunks
of each installer file, so that two downloads of a release can corrupt one another.

**BackgroundCatalog**. One file operation per action under BACKGROUND_LOCK, each of which may be the
last before a `Crash` or a `FailImport`; a removal also holds SETTINGS_PATCH_LOCK from `CheckInactive`
on. A crash is of the process: what was written stays written in order (no loss of power). It implements
**ImageShelf**, in which there are no files or half-done operations: an image counts as being on the shelf
while all three of its files exist, that is from the rename of its metadata (`Publish`) to the deletion of
that (`DeleteMetadata`), and an import as bringing one between its check of the limit and that rename.

**Snapshots**, **LastGood**, **NotificationJournal**, **Publication**. LastGood is the policy of one
provider (only Claude's failures are ever passed over): the outcome of a fetch, the count of failures,
evictions by an invalidation (count dropped) or by the prune of a batch (count kept). NotificationJournal
is the two tables; an observation is one transaction with the classification against the lane's baseline
and both prunings, and among baselines of the same second any may be the ones dropped. Publication is
their composition with a clock: an observation may be of any snapshot fetched up to now, in any order.
The clock is taken not to run back. Left out: the label of an event (scheduled or unexpected), lanes of
banked resets, which behave alike, and `codex_reset_backfill`. A snapshot that was preserved keeps its old
`updated_at` and is ignored by `observe` like any other that is not newer than the baseline. The composition
implements **Inbox**, what a reader of the history sees: messages numbered as they arrive, of which only the
oldest are thrown away, and marks that stay within what the reader has looked at.

**CodexAccounts**. One action is a stretch of code up to its next read or write of a file. A login is a
user and a number the server handed out; `live` are those it still accepts, and a renewal replaces one by
the next (refresh tokens rotate). A task is a command of a window or a lane, with its locals (what it
read, the list it will save, the homes it still has to remove). `FetchBegin`, `LoadLogin`, `Renew`,
`RenewLost`, `SaveLogin`, `EndFetch` are a fetch with up to two renewals; `SwitchBegin`, `Inspect`,
`Materialize` or `NothingToAdopt`, `BackupAmbient`, `CopyTarget` a switch; `AddBegin`, `AddSigned`,
`AddSucceed`, `AddFail` a sign-in; `RemoveBegin`, `RemoveHome` a removal; each ends in `PersistLoad` and
`PersistSave` of the whole list. `Fails` is a file operation that fails, `Crash` the end of the process,
which may cut the file being written short; `CliLogin`, `CliRenew` and `CliLogout` are the Codex CLI. Listing accounts
(`Listed`) is the reconciliation of the store with what the homes hold. Left out: the store of
usage snapshots, names and dates, the desktop session that a switch carries along. Backups, whose names
hold the second they are made in, are taken to be at least a second apart.

**QuotaAlerts**. Usage is a level (low, one per threshold, full). `Observed` is the handling of one
window: `CheckStep`, then `CheckThreshold`, then `CheckSession` for a primary window, each a function on
the manager's two memories, because the order of marking, dropping the oldest mark and forgetting
matters. The queue of marks is a set with the order in which they entered (`Push`, `Front`, `Drop`),
which the provers can reason about where they cannot about a filtered sequence. A pass over several windows is several `Notify` steps of which only the last writes the file.
`Persist` may fail or cut the file short; `Restart` is an exit or crash followed by `load_from`. Quiet
hours suppress the display of an alert after its mark is set and are left out.

## 3. Runs, bounds and fairness

State counts are distinct states.

| Run | Instance | What it shows |
|---|---|---|
| coordinator | 4 callers, fair; 91 k | safety, refinement of SharedBuild and return of every call, with cancellation, panic, error and expiry |
| refresh | 1 provider, 2 updates, 2 batches, 1 toggle, fair; 76 k | lock ownership, staleness, no resurrection, refinement of RefreshRound (honest completion); an enabled provider is published without the timer, a disabled one leaves the cache with it |
| update_lifecycle | 2 releases, 2 checks, 1 download of 2 chunks, 1 dismissal, fair; 0.24 M | no stuck check, Ready has an installer, launch of the verified offer only, checks and downloads end |
| settings_writers | 2 patches, 1 unlocked writer, 2 editors, 3 edits; 1.0 M | what it takes to lose a patch or accept a stale edit |
| background_catalog | 4 images, catalog of 2, 2 crashes; 0.40 M | completeness, safety of the active image, refinement of ImageShelf (the bound) |
| quota_alerts | 2 lanes (1 session), 3 levels, 2 marks, 2 settings, until a mark is lost; 95 k | once per episode, re-arming, session pairing, the bound on marks |
| publication | 1 account and unnamed snapshots, 2 processes, 2 usages, 3 moments, 1 baseline, 2 events; 0.12 M | second authorisation failure shown, no change recorded twice, nothing unseen marked read, bounds of the tables, refinement of Inbox |
| codex_accounts | 2 users, 2 homes, 1 window, 1 lane, 3 logins, until the last is in use; 0.48 M | no working login lost but in the named ways, a sound store, no login in a removed home |
| refresh_spinner, update_stuck, settings_blind_edit, quota_depletion_restart | smallest instance that shows it | section 5 |

Why the bounds are enough. The interesting cases need two of a kind and an interferer: a builder, a
waiter of the same flight, one of the next flight and a late one (four callers); a batch and its
successor; two overlapping updates, one of which enables a provider and one disables it; a patch, another patch and a writer without a lock; two images in the
catalog, one leaving it and one arriving; a lane whose coolness could wrongly re-arm another (two).
Two marks make the alert memory overflow within one observation. One baseline and two events make both
prunings of the journal bite, a second process gives unnamed snapshots a second lane, and two recorded
events leave one for after the page was fetched. Three logins are a managed one, an ambient one
and a renewal of either; the window and the lane are the two tasks that race, the CLI the third actor.
Three runs have a state constraint, named in the MC module. `LastLogin`: once the last login is out, the
lane only saves it and the window only ends its command (without it the instance has 7.0 M states; it
was run once, without an error). `LossSettled`: once an alert mark is lost, which ends what two of the
properties promise, only states in which the file holds the memory go on. `LastEvent`: after the last
event is written the shell's cache, on which the journal does not depend, rests. The safety properties
of these three runs are theorems, which know no constraint and no bound.
Two downloads that share an installer file are too much for a run with checks and fairness (2.0 M states
without): that Ready has an installer although they overlap is shown by the theorem
`ReadyMeansInstallable`, which is for any number of downloads.
Bounds in the models are named: `MaxToggles`, `MaxEdits`, `MaxCrashes`, `Chunks`, `MaxTime`,
`MaxWritten`, `MaxProcess`, `MaxLogins`; the calls of one-shot
commands are the members of `Updates`, `Checks`, `Downloads`, `Dismissals`, `Callers`. `MaxItems`,
`MaxEntries`, `MaxSent`, `MaxEvents`, `MaxBaselines`, `Retention` are the program's own limits. Symmetry
is used only in runs without liveness. Deadlock is checked except in the settings runs, where all writers
may be done, and in publication, where time may be over.

Fairness and its justification:

- coordinator: weak fairness of each task's next step (tokio polls ready tasks, mutex sections are
  short); builds end since adapters have timeouts. Nothing obliges a payload to expire or a task to be
  dropped.
- refresh: weak fairness of `BatchStep` (every fetch runs under `provider_fetch_timeout`) and of what
  follows a saved update. The user and the timer owe nothing; `DisabledGetsDropped` assumes the timer
  explicitly (`TimerOn`), because automatic refresh can be switched off.
- update: weak fairness of pending checks (15 s timeout), started downloads (transport timeouts), their
  progress tasks and event delivery. No command is obliged to be called.

No other module states liveness; their operations run to their end under a lock.

## 4. Proofs

Eight proof modules (the Publication module proves about LastGood and NotificationJournal), checked by
TLAPS for every value of the constants under the named assumptions of each module (no caller is `Nobody`,
limits are natural numbers, writers are distinct, and so on).

| Module | Inductive invariant beyond the properties, and why | Theorems |
|---|---|---|
| SnapshotCoordinatorProofs | `SlotOwned`: a building slot has its builder at a place from which it will leave it; `BuilderOutcome`: what a flight's outcome is at each place of its builder; `WaitersTracked`: a waiter is enrolled, or woken, or its flight has notified. The properties speak about waiters, their safety depends on where the builder is. | TypeCorrect, AtMostOneBuild, WakeupsNotLost, OutcomeBeforeWake, OneAnswerPerFlight, FreshStands, CallsAreFinite, and Refinement: initial states map to initial states, each step to a step of SharedBuild or a stutter |
| ProviderRefreshProofs | `FetchProgress`: while a batch is current, what it has fetched is in the cache and nothing it did not announce is, which makes honest completion inductive. `LockHasOwner` and the staleness invariants support each other. | TypeCorrect, RefreshLockOwned, NoStaleBatch, NoResurrection, CompletionHonest, Refinement (of RefreshRound), SpinnerNeedsLateStart, LeftoversComeFromTray, BatchesAreFinite |
| SettingsFileProofs | `PatchInv`: a patch that is done and not lost is in the file and in the copy of the patch that holds the lock. `EditInv`: until an old layout is put back, file and copies have matching revision and layout, and the editor with the lock has the newest. | TypeCorrect, PatchesLoseOnlyToOutsiders, RevisionsNameLayouts, StaleEditsRejected, PatchesAreTransactions, EditsAloneAreSafe |
| UpdateLifecycleProofs | which places a download has a target in; `InstallerOwned`: the installer recorded is that of a download that has finished its file; `ApplyingSound`: what an apply under way took is such an installer, and once hashed it is of the promised release and whole, unless a second download of that release writes the same file | TypeCorrect, CheckingNeverSticks, ReadyMeansInstallable, InstallerMatches, StuckNeedsLateTick, DownloadsAreFinite |
| BackgroundCatalogProofs | `FilesInv`: which files exist at each step of the operation under way; `UsedInv`: listed ids are taken, so a new id has no metadata; `PatchInv`: a removal past its check is not of the active image; `PlaceInv`: an import under way has room | TypeCorrect, ListedIsComplete, CatalogStaysBounded, RemovalsSpareActive, ListFailsOnlyAfterFault, Refinement (of ImageShelf) |
| QuotaAlertsProofs | `Ordered`: the queue of marks is a finite strict order, so a full one has a front to drop; `KnownInv`: until a mark is lost, the thresholds marked are those that are due, and a depletion marked is one that is open; `SentInv`, `DurableInv`: a mark this process made lies at or below the level it observed last | TypeCorrect, AlertsOnce, RestoredInOrder, CrossingsAreAnnounced, SilenceNeedsRestart, NoLossBeforeRestart, LossNeedsFault |
| PublicationProofs | `PolicyInv`: a good snapshot that is shown has a count equal to the authorisation failures since, at most one; `Settled`: the baseline of an event's lane is no older than the event; `Limits`: both tables are within their limits after both prunings, from a lemma on the newest of a finite set of events (`NewestEvents`); `InOrder`: ids are in the order of reception | TypeCorrect, LogoutComesThrough, NoChangeTwice, NewArrivalsStayUnread, RoomForBaselines, Refinement (of Inbox) |
| CodexAccountsProofs | `KeepInv`: what each task relies on in each phase: what a renewal is about to overwrite is no longer accepted by the server, what a switch is about to overwrite is in a backup; `HomeInv`: no home is ever known with two users, by its auth.json, the store or any task; `StoreInv`: the store and every list about to be saved name an account once. `Writers` says who may change a given auth.json. | TypeCorrect, LoginsAreKept, RecordsAreSound, LossNeedsInterference, TasksAreFinite |

Each safety theorem is `Spec => []P`, from an initial lemma, a step lemma with one case per action,
and PTL. Theorems about steps (`FreshStands`, `PatchesLoseOnlyToOutsiders`, `StaleEditsRejected`,
`RemovalsSpareActive`, `LoginsAreKept`, `AlertsOnce` and its neighbours, `NewArrivalsStayUnread`) combine
the invariant with one analysis of `Next`.

Four theorems are refinements, each `Spec => Abstract!Spec` under the mapping written beside the component:
the initial states map to an initial state, and a lemma `NextRefines` maps each action to one of the
abstract actions or to a stutter, under the component's invariant. They need more than the invariants the
runs check: that a batch which completes has announced what the cache holds, that an import under way has
room (`PlaceInv`), and, for the history, that the prunings by age and by number both keep the newest
(`PrunedNewest`). The bounds `MaxToggles`, `MaxCrashes` and `MaxTime` play no part in them.

Five theorems are the other side of section 5. Each says that a violation found there takes one particular
step, by proving the property for the behaviours without it:

- `SpinnerNeedsLateStart`: if no batch announces its start after it has been superseded
  (`AnnouncedWhileCurrent`), the spinner is honest. `CompletionOwed`, its invariant, names who will send the
  completion.
- `StuckNeedsLateTick`: if no progress task holds a value when its download is over (`TicksInTime`),
  Downloading belongs to a running download.
- `EditsAloneAreSafe`: if only editors write (`OnlyEdits`), no stale edit is accepted; likewise
  `PatchesAreTransactions`: if only patches write, each is one atomic change of the file and none is lost.
- `SilenceNeedsRestart`: while the application is not started again (`OneProcess`), every depletion that is
  observed is announced, whatever the settings were before and however many marks were dropped.

Others take up the exceptions that the properties of the passing runs make, and say what has to happen
before one applies:

- `NoLossBeforeRestart`: the first process forgets no mark, however small its memory, since what it drops
  from one of its two memories it still has in the other; thresholds are announced once and restorations
  follow a depletion, without the exception for lost marks. `LossNeedsFault`: with room for all keys (512
  in the code, `notifications.rs:384`) later processes forget one only if a restart finds the file
  behind the memory (`FileKeepsUp` fails: a save failed or was cut off).
- `RoomForBaselines`: while the accounts, and the starts that had snapshots of no account, are no more than
  the baselines kept (4096, `notification_journal.rs:13`), no change is recorded twice in any lane.
- `ListFailsOnlyAfterFault`: with room for three files an image (160 entries for 40 images,
  `workspace_backgrounds.rs:13`), `list` is refused only after a crash or a failed clean-up.
- `LeftoversComeFromTray`: a provider that neither the tray nor a profile switch disables
  (`NotDisabledThere`) is never left over in the cache or in a current batch, whatever these do to the
  others; the staleness properties of the run promise that only as long as there was no toggle at all.
- `LossNeedsInterference`: if tasks follow one another, the CLI writes only while none works, and a renewed
  login can be saved (`Undisturbed`), then a working login goes only by a removal or a write of the CLI, and
  the store is sound. Every other operation may fail, and the application may end anywhere.

The conditions are about behaviours and not assumed of the code, which does take those steps; a correction
of it would have to establish them.

Four theorems are what termination needs besides fairness: a number that every step of an operation lowers
and no other step raises, so that nobody else can send it back for ever. `CallsAreFinite` is for the calls
of the coordinator, where a dropped build does send its waiters back to the decision, at most once for each
flight; `BatchesAreFinite` for a refresh, one step a provider; `DownloadsAreFinite` for a download with its
progress task; `TasksAreFinite` for the commands and lanes of the Codex accounts, whose renewal retries once.
They assume that the requests, providers and homes are finitely many. That a step is taken at all is
fairness, and with `ENABLED` it stays with TLC.

Every safety property of a passing run is proved, the refinements included. Model-checked only is all liveness (`EveryCallReturns`,
`EnabledGetsPublished`, `DisabledGetsDropped`, `CheckingEnds`, `TasksEnd`), which is out of the prover's
reach, as is ENABLED, and with it the absence of deadlock; no model needs a recursive operator.

## 5. Where the code departs from its description

Runs that are expected to find a violation:

- **refresh_spinner** (`SpinnerHonest`). `refresh-started` is emitted outside the generation check. A
  batch superseded before that line announces itself after its successor has completed, and never
  completes itself: the front end keeps showing "refreshing". `SpinnerNeedsLateStart` shows that nothing
  else makes it do so.
- **update_stuck** (`DownloadingIsLive`). A progress task that took its last value before the download
  ended writes Downloading over Error or Ready. Checks are then skipped and downloads refused with
  nothing downloading. Only such a late value does it (`StuckNeedsLateTick`).
- **settings_blind_edit** (`NoBlindOverwrite`). `update_settings` and `set_collection_layout` rewrite one
  file under different locks: a patch can put an old layout and its revision back, and an editor that
  has not seen the newer layout passes the revision check. Under one lock neither could happen
  (`EditsAloneAreSafe`, `PatchesAreTransactions`).
- **quota_depletion_restart** (`DepletionsAnnounced`). The mark of an announced depletion is kept in the
  file, the level that would clear it only in memory. Restart while depleted, then a reset, and the next
  depletion is silent (nor is the first reset announced as restored). Without the restart it is not
  (`SilenceNeedsRestart`).

Seen while modelling, and left without a run. Refresh and settings:

- The tray menu and `switch_profile` change the enabled providers without a new generation, so a running
  batch can publish a provider that has just been disabled; it leaves the cache with the next batch.
  Nothing else leaves one there (`LeftoversComeFromTray`).
- Switching a token account does not invalidate the cache either, and the account of a cached snapshot is
  taken from the token accounts loaded at the start of the batch (`providers.rs:733`).
- Writers of settings.json outside the locks lose concurrent changes; `LossNeedsOverlap` says exactly when.
  The `config` command of the command line is such a writer in another process (`cli/config.rs:381`).
- Orphans of interrupted background imports and removals count towards the 160 directory entries `list`
  accepts, and nothing deletes them; enough of them make `list` and `import` fail. It takes the
  interruptions (`ListFailsOnlyAfterFault`).
- Update events are emitted after the state lock is released (`updater.rs:72`), so concurrent commands can
  deliver them in another order than their transitions; the banner is right again after the next event.

History:

- `notification_journal.rs:60` says of the page boundary that "newer arrivals stay unread", and that
  is proved of the journal (`UnseenStaysUnread`). The page in the front end, however, takes the
  `throughId` of the newest response when it loads more (`ui/hooks/useNotificationHistory.ts`), so
  "mark all" there can cover events it has never shown.
- `codex_reset_backfill` takes the cached window whatever account it is of.

Codex accounts. `LoginsKept` names the ways in which a working login may go; some deserve attention:

- A managed copy and `~/.codex` share one rotating refresh token after a switch: renewing one makes the
  other useless. A renewal whose answer is lost loses the login (`RenewLost`), which no client can avoid.
- Switching to the managed account that is already active puts its stored, possibly older, login over the
  fresh one, which stays in a backup only; the page disables the button only for an account whose
  source is ambient.
- A stored account follows the first-listed home that has a login of its user, so after a second sign-in
  a switch may install the older login.
- Backups are named to the second, and a second one in the same second replaces the first.
- accounts.json is not written atomically, and a torn file fails every later load (`Readable`).
- `models.rs:262` says of `removed_accounts` that it is kept to avoid adding an account again; nothing
  writes it, and an account persist that loaded its list before a removal brings the account back.
- The lanes load the snapshot store before their fetches and save it whole after them
  (`codex_accounts.rs:131`, `:137`): a fetch or a removal in between is undone, and a store that cannot
  be read is replaced by one with the lanes' entries only.

Profiles: `command_profiles.rs:3` and `:17` call a switch atomic, but the profile store and the settings
are saved one after the other (`:62`, `:63`); profiles.json is written in place, and a torn one loads as
a new store (`profiles.rs:417`), which the next command saves over all profiles.

## 6. What is not modelled

Parts of modelled components:

- *Banked-credit, predictive-pace, pricing and status alerts*: the first go through the journal like
  resets, the next two have their own small memory, status alerts have no caller.
- *Which account a snapshot belongs to*: an account is part of a lane in QuotaAlerts and of a snapshot in
  Publication; how it is derived from a snapshot and the token accounts is outside.
- *Unreadable settings.json*: it loads as defaults; SettingsFile assumes the file can be read.
- *The usage snapshots of the Codex accounts and the desktop session*: they decide nothing in the commands;
  what concurrent saves of the store lose is described in section 5.
- *Choice of release asset, package family and installer command line*: pure functions of the platform.
- *Loss of power*: the models' crashes are of the process; reordering by the disk is not considered.

Components with state of their own that have no module:

- *Profiles*: commands on the main thread that edit one file whole; what can go wrong is the order of two
  saves, described in section 5. Their effect on the others is `ToggleFromTray` and an unlocked writer.
- *Hook transitions and dispatch*: an edge detector over successive snapshots whose baseline is exchanged
  under a lock and whose events are fired after it (`rust/src/core/hooks.rs:565`), so that two passes may
  fire theirs in the other order. The detector is the same kind of machine as QuotaAlerts, without its file.
- *Overlay surfaces and shell transitions*: which native window is shown, with reconciliations that act on
  settings of different ages (`surfaces.rs:955`). Nearly all of it is window-manager calls whose
  outcome the code does not model.
- *Settings write queue*, `ui/lib/latestWriteQueue.ts`: a promise chain with one slot for a pending value,
  used by one component; a failed write leaves the value that waited behind it unwritten until the
  next change (`:23`).
- *Command runner*: child processes with wall-clock, idle and stop conditions; time is all it is about.
- *Timer arithmetic*: when the timer comes round is left open; only that it does is ever assumed.
- *serve HTTP loop*: a connection gate and a time budget per request; the state shared between requests
  is the coordinator.

Data and presentation: provider adapters, cookies, WSL, cost scanning, pricing, history queries,
translations and command-line output are requests, parsing and arithmetic without shared control state (a
fetch is an event with a result to ProviderRefresh). Tray, floating bar and React pages are presentation;
flags of theirs derived from back end events are modelled where a property is about them.

This is also why the mapped lines are a small part of the repository: most of its code is adapters,
scanners, formatting and platform services of the last paragraph, of which a model could only repeat the
text.

## 7. Plan

Done, in this order: SnapshotCoordinator with SharedBuild; ProviderRefresh; UpdateLifecycle; SettingsFile;
BackgroundCatalog; QuotaAlerts; LastGood and NotificationJournal with Publication; CodexAccounts; the proofs
of all of them; RefreshRound, ImageShelf and Inbox with their refinements; the termination measures and
the theorems on when the exceptions of the properties apply.

Worth adding, most important first:

1. **HookTransitions** as an instance of the level machine of QuotaAlerts, with dispatch after the
   lock: one hook per crossing, in whatever order they are delivered.
2. **Profiles** with two files saved in turn, and a restart between them.
3. **LatestWriteQueue** composed with SettingsFile: the last value is written if writes eventually succeed.
4. **Surfaces**: at most one overlay expanded, for reconciliations on settings of different ages.
5. ProviderRefresh composed with SettingsFile, in which `Save` is the settings transaction, and with
   LastGood, in which a superseded outcome is dropped by the generation check instead of by assumption.
6. An abstract keyring that CodexAccounts implements, in which a login is added, renewed or given up in
   one of the ways `LoginsKept` names.
