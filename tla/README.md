# Odysync: TLA+ models and proofs

Odysync looks for updates in every package manager, vendor tool and publisher of a
machine, decides by a conservative policy which of them may run, applies them, and says
what happened. It is a Rust workspace (`crates/`), a command line and a daemon
(`crates/odysync-cli`), and a desktop program (`apps/gui`: a Tauri back end in Rust and a
React front end). This directory holds TLA+ modules translated from that code, the TLC
runs that check them on small instances, and theorems about them checked by TLAPS.

`tlc -config X.cfg M.tla` runs a check and `tlapm M.tla` the proofs of a module.
`PROJECT.json` lists the components, runs, mutants and theorems, and for every definition
the source lines it stands for.

## 1. Inventory

| Component | Source | State | Operations |
|---|---|---|---|
| Version algebra | core `version.rs` | none | `parse`, `compare`, `is_upgrade_to`, `is_prerelease` |
| Safety policy | core `policy.rs` | none (a value of the config) | `matches`, `evaluate`, `plan` |
| Runner | core `runner.rs`, `restore.rs` | report, history in memory, progress | `run_with_progress`, `apply_with_retry`, `confirm` |
| Update history | core `history.rs` | `history.json` | `load`, `record` (keeps the newest 500), `save` |
| Config store | core `config.rs` | `config.json`, `config.json.tmp` | `load`, `save`, the edits, pauses with a deadline |
| GUI application state | `src-tauri/state.rs` | config in memory, cached probe behind an async lock, scan cache | `save_config`, `probed_backends`, `invalidate_backends`, `replace_scan_cache` |
| GUI commands | `src-tauri/commands.rs` | none of their own | 50 async handlers, run in parallel by Tauri's runtime |
| Front-end store and pages | `apps/gui/src` | one resource per kind of data, each with a load in flight; what localStorage keeps | `refresh` (joins a load in flight), the pages that start an apply, the `apply-finished` listener |
| Command line | cli `main.rs` | none between processes | hold, unhold, pause, resume, scan, apply, care, profiles |
| Daemon | cli `daemon.rs` | none between rounds | wait for mains power, load, scan, plan, apply |
| Process runner | core `proc.rs` | the child | spawn, drain both pipes, wait, time out |
| Core scan cache | core `scan_cache.rs` | results with a time | `get_or_insert`, `invalidate` (no program uses it yet) |
| Windows Update session | backends `windows_update/session.rs` | a search shared for 60 s | `get_or_run`, `forget`, `install_and_forget` |
| Direct installs | backends `direct/` | a download directory, a locked file | resolve, check, download, lock, verify, install; the swap of a bundle |
| Offline cache | backends `offline.rs` | installers, a manifest | `download_and_cache`, removal |
| Driver backup | backends `driver_backup.rs` | a directory per backup, manifest last | create, list, restore, prune |
| Security audit | backends `security/` | a list of removed autostart entries, a quarantine | read-only scans; `apply` of a remediation |
| Cleanup | core and backends `cleanup.rs` | none | which directories are safe roots, what is removed |
| Startup items, autostart, schedules | backends | the system's own entries | list, enable, disable, create, remove |
| Other backends | backends `apt.rs` ... `oem/`, `gpu/` | none | `scan`, `apply`, `installed_version`: run a command, parse its text |
| Maintenance, devices, system information, tray, tools, telemetry, signatures | the rest | none | one-shot commands and reports |

**How they interact.** The front end calls a GUI command over IPC; the command reads the
config in memory, probes the backends under a lock or takes the cached probe, lets all of
them scan at once and fills the scan cache. An apply names updates by source and id only,
takes their versions from that cache, plans, and hands the plan to a runner, which calls
one backend at a time, sleeps between retries, reads every version back, and saves the
history at its end. The command then drops the cache and emits `apply-finished`, upon
which the store refreshes; the page that asked refreshes too. The CLI and the daemon do
the same in one process with no cache. GUI and CLI share `config.json` and
`history.json`, and nothing locks either.

**What is hard here.** Commands of the GUI interleave at every await, and so do two
programs on one file. A run is long: the plan ages under it, a timed-out installer lives
on, and a kill in between loses what is only in memory. Caches (the probe, the scan, the
list of the last session) are filled by long reads that changes overtake. Saves fail or
are cut off half way. A retry may repeat what was done. The hazards, each at its line, are
in `PROJECT.json`.

**What makes each part correct.**
- *Versions*: the order is strict, so no sequence of updates goes in a circle; it is the
  order the source's loops compute.
- *Policy*: whatever holds, exclusions and settings a session has built up, a package
  moves forwards only and only to a version a hold on it allows.
- *Runner*: it does what was approved and nothing else; says "updated" only of what was
  read back; stops retrying; the history agrees with the report; it ends.
- *Config store*: the file always loads and goes through whole edits; memory and the
  cached probe agree with it; a hold stays until it is lifted.
- *Scan and apply*: what is applied is what was seen; the list is put right after an
  apply; nothing is installed backwards.
- *Unattended rounds*: what was reported as updated is there; what was confirmed is not
  installed again; what can be updated is updated in the end.
- *Windows Update*: a search that is shared is never older than an install.
- *Direct installs*: what runs is what was checked; a whole copy is always on the disk; the
  answer of a swap is true.
- *Offline cache*: nothing lies in it unchecked. *Driver backup*: what is listed can be
  restored. *Remediation*: no file of the user's is deleted. *Startup page*: off is never
  gone. *Schedule*: what was answered holds after the next sign-in. *Cleaner*: only what was
  chosen, and no more bytes reported than have gone.

## 2. Modules

| Module | What it models | Proofs |
|---|---|---|
| `Versions` | segments, `Version::compare`, `is_upgrade_to`, `is_prerelease` | `VersionsProofs` |
| `UpgradeChain` | one package through any number of upgrades | `VersionsProofs` |
| `Policy` | `matches`, the rules of `evaluate` in order, `plan` | |
| `CliSession` (uses `Policy`) | hold, unhold, settings and apply with filters, one process each | `VersionsProofs` |
| `UpdateRun` | *abstract*: what a run promises its caller | |
| `Runner` (implements `UpdateRun`) | `Runner::run_with_progress` and the world around it | `RunnerProofs` |
| `ConfigRegister` | *abstract*: the settings as one value changed by whole edits | |
| `ConfigStore` (implements `ConfigRegister`) | `config.json`, its writers, memory and the cached probe | `ConfigStoreProofs` |
| `ScanApply` | the scan and apply commands, their cache and the front end | `ScanApplyProofs` |
| `WindowsUpdate` | the backends over the Windows Update Agent and their shared search | `WindowsUpdateProofs` |
| `DirectInstall` | installs from a publisher's site, with the swap on macOS | `DirectInstallProofs` |
| `Backends` | what each backend asks of the tool behind it, as a record | `UnattendedProofs` |
| `Unattended` (uses `Policy`, `Backends`) | the daemon and a scheduled care over any of them | `UnattendedProofs` |
| `OfflineCache` | installers kept for machines without a network, and their manifest | `StoresProofs` |
| `DriverBackup` | create, list, restore and prune backups of the driver store | `StoresProofs` |
| `Remediation` | quarantine, hosts file, autostart values | `StoresProofs` |
| `Startup` | the startup page on three systems, and Odysync's own entry | `StoresProofs` |
| `Schedule` | the schedule with schtasks, launchd and systemd | `StoresProofs` |
| `Cleaning` | scan, choice and walk of the disk cleaner | `StoresProofs` |
| `MCStores` | the last six, side by side in one run | `StoresProofs` |

`MC*` modules give the constants their values. Operators named in a comment "Mutant"
stand beside the definition they would replace: each is a plausible bug, and each
property of a passing run is shown to fail with one of them.

**Versions.** A segment is a number or a word, a word stands for its rank in dictionary
order, which is all `Segment::cmp` uses. The loops of `compare` return at the first
position that differs; the module says that such a position exists, and the run
`decisions` compares this with the loops written out. `parse` is not modelled: where a
raw string matters (the read-back, pins) a constant function `ParseOf` says what it
becomes.

**Policy, CliSession.** A candidate is the set of names it answers to, the two elevation
rules of its backend, and two raw versions. Patterns are a small set with their folded and
their lower-cased form, because `matches` trims and lower-cases while `hold` and `unhold`
only ignore case. The filters of `--only` and profiles know fewer names than holds do.
Each command is one step: it is one process, and `ConfigStore` is about two at a time. An
apply installs what its plan allows; `Runner` is about sources that do otherwise.

**Runner.** A step is the code between two awaits; `pc` and the length of the report say
where the loop is. A backend's answer to `apply` is any result of the trait; with it the
package may land at the target version, at a later one, or not at all, and the answer may
be an error all the same. A transient error may leave an orphan: `proc.rs` kills the child,
not what the child started. Other programs may change any package at any time, and the
process may be killed at any step. The history is saved in two steps (`fs::write` empties
the file first) and may fail in each.

**ConfigStore.** Files have inodes, since two writers of `config.json.tmp` keep writing to
the file they opened whatever its name has become. A command of the GUI is a task with the
steps open, write, rename, adopt, and invalidate when it changed the set of disabled
backends; a command of the CLI loads the file, and is done after the rename. Any call may
fail and any program die in between. A probe holds the lock of its slot from the snapshot
of the config to its result. `Overlap` says how much may happen at once.

**ScanApply.** The scan resource has at most one load, queued, running or answered; a
refresh joins it. Any page may apply, and a scan may be asked for, while others are at
work. A scan asks every source; each answers at a time of its own or is left
out. A page's apply runs from the click to the end of its refresh; two of them may run side
by side. `crossed` holds the packages of which two applies were planned side by side, or
which an apply dealt with after a scan under way had its answer; a scan that begins while no
apply runs clears it. It is a variable of the properties only: no step looks at it. Only the
version rule of
the policy and the effect of the runner on the machine and the history are kept.
Simplifications: the click and the synchronous beginning of the command are one step; the
`apply-finished` event arrives before the command's own answer; one package per source;
dry runs, holds and the other resources of the store are left out.

**WindowsUpdate.** A scan queues for the lock of its search (a lock for each criteria), takes
the list kept there if it is young, or asks and keeps the answer; an apply checks who owns
the update, asks again by itself, downloads, installs, and drops the kept list once it has
the lock. What Windows answers is of the time of asking. `classify` is a function of the
categories and the words of a title. Windows offers, withdraws and installs by itself.

**DirectInstall.** A scan approves a release; an apply resolves it again (with the answer
kept on disk when the network fails), looks whether the program runs, downloads, locks the
file, verifies it through the lock and runs the installer, or on macOS unpacks a bundle and
swaps it in by two renames, a copy if those fail, and a way back. Each call may fail and the
process may be killed before each. What is on the disk is a set of copies at two places, each
whole or not. Another program may write to the file that is not locked, the user may start,
quit and reinstall the program, the publisher may release.

**Backends, Unattended.** Most backends differ in a few choices that decide what lands on the
machine: what a scan lists and where its two versions come from, how a failed query shows,
what is checked before an install, what the tool is told to install, and what is read back.
`Backends` is a table of these, translated backend by backend; `Unattended` is the loop of
the daemon, `--once` and care around any row of it. The daemon looks at the power and then
loads the config, and ends when it cannot; a failed scan is an empty one; the policy is that
of module `Policy` with its defaults; the run keeps `Runner!Confirm` and leaves its retries
to `Runner`. What a process reads once in its life (`memo`) lives as long as the daemon; a run
with `--once` and a care are new processes and begin without it. One round is looked at at a
time: to it, what a second program installs meanwhile is one of the changes from outside
(`ChangedOutside`). How the keys of a tool's JSON are spelled (fwupd's, say) is parsing and
is taken as given.

**OfflineCache.** A command is a sequence of file operations: create and write the staging
file, check it, rename it, read the manifest, empty and write it; removal, pruning and
clearing likewise. Each may fail, which ends the command and tidies nothing. A file is
missing, half written or one of a few contents. Two downloads of one installer share the
name of the staging file: a rename takes the file another one has open with it, and what that
one goes on writing ends up under the final name (`handle`). `mixed` holds the names of which
two downloads had a staging file at once; no step looks at it.

**DriverBackup.** A backup is a directory named for a second; exports put files in it or fail
one by one, the manifest is written last in two steps. Programs are the desktop program and
the command line, each of which may die; a prune deletes a directory as far as it can.

**Remediation.** The copy and the removal of each fix are separate steps with a failure or a
kill between any two; names of copies are made of a second and a file name, as in the code.
The query of a Run value may answer "absent" of one that is there; the list of removed values
is emptied and then written, and one that was cut off counts as empty. The user edits `hosts`
and sets values at any time.

**Startup.** What the system keeps of an entry is a record by its kind: a Run value and its
approval, a shortcut under two names, a `.desktop` file of the user over one of the system, a
property list with or without the key `Disabled` and what launchctl was told of it. `Starts`
is the rule of the system, `RowsOf` the code's list,
`Switched` its switch; the page may show a list that is old, and a `.desktop` file may be left
empty by a write that was cut off.

**Schedule.** The scheduler's own store or the unit files (`unit`), what it runs until the
user signs out (`loaded`), and whether a timer starts at sign-in; each call of `systemctl`,
`launchctl` and `schtasks` is a step that may fail, with the program hearing of it or not, as
in the code. A query that fails is answered as no schedule, so the removal is skipped; loading
a job launchd has already is no error and leaves the old job. `promise` is what was answered
last; two answers promise nothing about the machine: "removed" when none of the calls that
take a schedule from the next sign-in has worked (`Unheard`), and "there is none" of a query
that failed (`NotSeen`). One caller at a time.

**Cleaning.** A small tree under the roots of three categories, with a directory in a
directory, a link that leads out, a file that does not match, files that programs hold open,
create and delete, a root that a broken environment may make unsafe, and a browser. A
directory is measured, removed node by node, the deepest first, and measured again when that
failed; other programs act between any two calls, and the report is what the code computes
from the two measures. What lies right below a category is what `read_dir` gives of its root,
so a root that is itself a link is read as the directory it leads to, in the code and here.
Files keep their size. A cleaning that is killed reports nothing and is left out.

**MCStores.** These six share no state, so a behaviour picks one and runs it. Their
properties are the run's, by an operator of the same name. `MCDecisions` picks in the same way
one of `UpgradeChain` and `CliSession`.

## 3. Runs

Passing:

| Run | Instance | Shows |
|---|---|---|
| `decisions` | 60 versions and the unknown one, two upgrades; and one package with two names, five spellings, four versions, two holds, four settings | a chain never returns to a version it left, and the order is that of the loops; a session moves forwards only, only to a pinned version, with one hold per spelling |
| `runner` | six plans over two packages, four version strings, up to two retries, a history of two lines | retries, history, approval, the promise, termination |
| `config_store` | one package, one backend, one profile, GUI and CLI, one command at a time | whole edits, memory and probe agree with the file, holds are kept |
| `scan_apply` | one package, three versions, two pages that scan and apply at any time, one restart | what is applied is what was shown; but for what really crossed, the list is put right and nothing goes backwards |
| `windows_update` | two updates, one of them known as an upgrade by its title only, two backends, two scans, one apply | scans see installs, each backend installs its own, everybody is served |
| `direct_install` | three kinds of app, three releases, one crash | what runs was checked, a copy is always there, the answer is true, no loop, it ends |
| `unattended` | every backend, as administrator and not, three releases | reported updates are there, nothing goes backwards, no loop, what can be updated is |
| `stores` | for each of the six modules the instance of `Stores.cfg` | what is cached was checked, what is listed can be restored, no file is lost, what was off comes back, answers hold, only the chosen is cleaned and counted |

Violations, each one a disagreement of the code with what its documentation says
(`PROJECT.json`, findings):

| Run | Property | What happens |
|---|---|---|
| `stale_copy` | `HoldsAreKept` | the GUI saves over a hold the CLI made |
| `never_installed` | `UpdatesArrive` | a candidate of dnf names no installed version, so the policy holds back each of its updates |
| `no_way_back` | `AlwaysComesBack` | a shortcut that was turned off is listed under a name it cannot be turned on by |
| `lost_history` | `HistoryKeepsAll` | of two applies side by side the last one to end writes its history over the other's |

Further disagreements of this kind, each with a configuration that finds it
(`tlc -config X.cfg M.tla`) but not among the runs of `PROJECT.json`:

| Configuration, module | Property | What the documentation says | What happens |
|---|---|---|---|
| `JoinedScan.cfg`, `MCScanApply` | `AppliedInvalidates` | "Anything applied invalidates the scan" (`commands.rs`:514) | the refresh after an apply joins a scan from before it (`store.tsx`:182), and the list offers what is installed |
| `SharedStaging.cfg`, `OfflineCache` | `OnlyOnceItPasses` | "only moved into place once it passes" (`offline.rs`:443-444) | one download is checked while another writes on in the same staging file (505) |
| `LostValue.cfg`, `Remediation` | `DisableIsReversible` | "The original value is written to a JSON restore file before it is removed" (`remediate.rs`:14-15) | a removed autostart value is noted nowhere: its query failed (371-379), or the list was cut off and read as empty (407) |
| `StillScheduled.cfg`, `Schedule` | `RemovedIsGone` | "Removed scheduled task" (`main.rs`:799) | a removal whose calls all fail is answered as done (788) |
| `ListedOff.cfg`, `Startup` | `ListIsTrue` | "Programs that start when the user signs in" (`startup_items.rs`:1) | a launch agent with the key `Disabled` starts once it was turned on, and stays listed as off (400) |
| `LiveCache.cfg`, `MCStores` | `UnknownIsRunning` | "Unknown is treated as running" (`cleanup.rs`:934) | a `tasklist` that ends with an error is read as no browser running (930) |

**What the passing runs except.** Where the code protects nothing, a constant, or a set that
only the property reads, says what is excepted. The model contains what lies beyond; most of it
is what a violating run or one of these configurations shows:

| Excepted | By | What happens beyond |
|---|---|---|
| two commands at a time | `ConfigStore!Overlap` | `"programs"`: a hold is lost (`stale_copy`); `"free"`: two commands save in one order and adopt in the other, and share `config.json.tmp` |
| packages of which two applies, or an apply and a scan that had its answer, crossed | `crossed`, in `ShownIsCurrent`, `NeverBackwards`, `CatchesUp` | the list offers what is installed (`JoinedScan.cfg`), and an apply of such a list may take a package back |
| names whose staging file two downloads had at once | `mixed`, in `NothingUnchecked` | something unchecked lies in the cache (`SharedStaging.cfg`) |
| two backups, or two fixes, in one second | `DriverBackup!OneASecond`, `Remediation!OneFixASecond` | they share a directory; a copy replaces another of the same name |
| a text of hosts that is edited while a reset is under way | `NothingIsDeleted` | the edit comes between the copy and the write, and is lost |
| removed autostart values | not in `NothingIsDeleted` | they can be lost (`LostValue.cfg`) |
| shortcuts, and `.desktop` files emptied by a write that was cut off | `ComesBack`, of turning on only | a shortcut is listed under another name (`no_way_back`); the empty file cannot be turned on |
| removals none of whose calls has worked; queries that failed | `Unheard`, `NotSeen`, in `AnswersHold` | the schedule still starts (`StillScheduled.cfg`) |
| the job launchd runs until the next sign-in | `AnswersHold` | loading a job again leaves the one that is loaded |
| exactness of the count when another program creates or deletes files meanwhile | `Meddled`, in `OnlyTheChosen` | what others deleted between the two measures is counted as well; never more than has gone |
| browsers that start during the walk, or whose question failed | not in `OnlyTheChosen` | the cache goes while it runs (`LiveCache.cfg` for the question) |
| a left-over entry first in the list of Windows | `MCDirectInstall!MCApps` | what is installed is offered for ever |
| sources that do not tell what is installed | `Unattended!KnowsInstalled`, `CanUpdate`, in the properties | a remembered or constant version is approved again and again |

Other things the models contain and no property forbids, because the code does them: a plan
is not evaluated again when an entry's turn comes, so a package that has moved ahead is taken
back (`Runner!ChangedOutside`); the cached probe hides a backend after its pause has lapsed
(`ConfigStore!DeadlinePasses`); a program started during the download of its update is
replaced under its user (`DirectInstall!StartOrQuit`); two downloads that end together lose
an entry of the manifest; a pnputil that fails makes an empty backup that counts as complete;
the switch for Odysync's own entry shows an entry as on that the startup page has turned off
(`Startup!Status`); a profile without
entries limits nothing (`CliSession!Filters`); a dry run reports no restart as due
(`Runner!Settle`). `PROJECT.json` names each under "hazards" where it could be missed by a
test.

**Bounds, and why they are enough.** `MaxUpgrades` and the set of versions: two upgrades
among releases of up to three segments and chains of up to two are what a circle needs
(three versions), and every pair of shapes the loops tell apart is among them; the theorem
covers all others. `MaxHolds` 2: the rule "first match decides" shows with two. `Jobs`: a
plan of two or three entries puts each kind of entry before and after each other kind that
matters, `HistoryCap` 2 makes the trim happen, `max_retries` 0 to 2 makes the first, a
middle and the last attempt differ. `MaxVersion` 3: a plan, a newer release while it waits,
and the scan after; for `Unattended` and `DirectInstall` an
installed, an approved and a newer one. `MaxRestarts` 1: what a restart leaves behind is the same the second
time. One package and two pages are what two crossing applies or an apply and a scan need; a
second package matters only where one scan has the answer of one source and not of the other,
which `ShownIsCurrentHolds` covers for any number of them. One package on a file is enough for whole edits, since an edit is whole or not.
`Stores.cfg`: two commands on two
files, two programs on two packages and three backups, three seconds for the names of copies,
one entry of each kind, two times and both verbs of a schedule; each of the six properties is
about at most two actors and three names. `Alike` lets TLC take packages of the offline cache,
and commands of it, for each other: `OfflineCache` uses both only as names, the six
properties speak of all of them alike, no other store has them as constants, and the run
checks invariants only. The trees of `Cleaning` are three deep, as `Below`
needs. Deadlock is checked except where a system really stops: a finished run (`Runner`), an upgrade chain at its
end, a list with nothing left to install (`ScanApply`), and stores whose clock has run out.

**Fairness.** `Runner!Spec` assumes that the run itself goes on (`WF_vars(RunStep)`): every
command a backend spawns has a timeout (`proc.rs`), the restart query and the sleeps are finite. Nothing
is assumed of the world. `ScanApply!Spec` assumes that work which was started goes on
(timeouts again, and the front end's queue lets every load through); nobody has to press a
button. `WindowsUpdate!Spec` assumes of each task that it goes on, the queue of a lock being
first come, first served as tokio's mutex is. `DirectInstall!Spec` assumes that an apply goes
on: each of its calls has a timeout. `Unattended!Spec` assumes that a round goes on, and,
strongly, that a source the daemon can ask again and again answers some time and that its
tool succeeds some time: the loop sleeps and asks for ever, failures are the world's. The
other modules have safety properties only.

## 4. Proofs

Each theorem is about every value of the constants: any packages, versions, programs,
commands and lengths. The last column is what else it supposes; each of these is either a
case the code excludes or the limit that section 3 names, beyond which the code fails.

| Theorem | Says | Supposes |
|---|---|---|
| *Versions, and the command line* (`VersionsProofs`) | | |
| `CompareIsTotal` | any two known versions are less, equal or greater; swapping swaps | |
| `UpgradeIsAStrictOrder` | an upgrade is irreflexive, asymmetric and transitive | |
| `AcceptedReadbackIsAnUpgrade` | what `confirm` accepts of an approved upgrade is an upgrade | |
| `TheLoopsCompare` | the two loops of `compare`, as recursions, compute the order | |
| `OrderingIsTheLoopHolds` | the same as the invariant of the run | |
| `ChainNeverReturns` | `ChainSpec => []NeverReturns` | |
| `SessionTypeCorrect` | types, and at most one hold per spelling | |
| `MovesForwardOnlyHolds` | `Spec => MovesForwardOnly` | |
| `OnlyToAPinnedVersionHolds` | `Spec => OnlyToAPinnedVersion` | |
| *Runner* (`RunnerProofs`) | | |
| `RunnerTypeOK`, `RunnerRetriesStop` | `Spec => []TypeOK`, `Spec => []RetriesStop` | |
| `RunnerOnlyTheApproved` | `Spec => OnlyTheApproved` | |
| `RunnerHistoryIsTheReport` | `Spec => []HistoryIsTheReport` | the file found is within the cap |
| `RunnerKeepsThePromise` | `Runner` implements `UpdateRun` | |
| *Config store* (`ConfigStoreProofs`) | | |
| `ConfigTypeCorrect` | `Spec => []TypeOK` | |
| `NeverTornHolds`, `ProbeIsFreshHolds` | `Spec => []NeverTorn`, `Spec => []ProbeIsFresh` | `Overlap # "free"` |
| `MemoryIsTheFileHolds`, `HoldsAreKeptHolds` | `Spec => []MemoryIsTheFile`, `Spec => []HoldsAreKept` | `Overlap = "never"` |
| `StoreActsAsRegister` | `ConfigStore` implements `ConfigRegister` | `Overlap = "never"` |
| *Scan and apply* (`ScanApplyProofs`) | | |
| `ScanTypeCorrect`, `AppliesWhatWasSeenHolds` | `Spec => []TypeOK`, `Spec => []AppliesWhatWasSeen` | |
| `ShownIsCurrentHolds`, `NeverBackwardsHolds` | `Spec => []ShownIsCurrent`, `Spec => NeverBackwards` | |
| *Windows Update* (`WindowsUpdateProofs`) | | |
| `TypeCorrect` | `Spec => []TypeOK` | |
| `ScansSeeInstallsHolds` | `Spec => []ScansSeeInstalls` | |
| `InstalledByItsOwnerHolds` | `Spec => []InstalledByItsOwner` | |
| *Direct installs* (`DirectInstallProofs`) | | |
| `DirectTypeCorrect`, `RunsWhatWasCheckedHolds` | `Spec => []TypeOK`, `Spec => []RunsWhatWasChecked` | |
| `KeepsACopyHolds`, `SwapAnswersTrueHolds` | `Spec => []KeepsACopy`, `Spec => []SwapAnswersTrue` | |
| `NotOfferedAgainHolds` | `Spec => NotOfferedAgain` | no left-over entry comes first |
| *Unattended rounds* (`UnattendedProofs`) | | |
| `EveryBackendFits` | each backend whose scan knows what is there reads it back, and confirms no constant | |
| `UnattendedTypeCorrect`, `UpdatedIsThereHolds` | `Spec => []TypeOK`, `Spec => []UpdatedIsThere` | backends of `Backends` |
| `MovesForwardHolds`, `ComesToRestHolds` | `Spec => MovesForward`, `Spec => ComesToRest` | the same |
| *Stores* (`StoresProofs`) | | |
| `NothingUncheckedHolds` | `Spec => []NothingUnchecked` | |
| `ListedCanBeRestoredHolds` | `Spec => []ListedCanBeRestored` | `OneASecond`, one or more kept |
| `NothingIsDeletedHolds` | `Spec => []NothingIsDeleted` | `OneFixASecond` |
| `ComesBackHolds` | `Spec => []ComesBack` | Odysync's own entry is no shortcut |
| `AnswersHoldHolds` | `Spec => []AnswersHold` | the three schedulers |
| `OnlyTheChosenHolds` | `Spec => []OnlyTheChosen` | |

What the constants must be is named where they are declared: `ParseOf` maps raw versions to
versions and `PreTags` are ranks; every name of a package has been folded, and the names a
filter knows are among those a hold knows; a plan is a sequence of entries and the cap is
positive; there are finitely many tasks and none is of both programs; an app of macOS leaves no entry behind,
as only Windows has the list; revisions are numbers; the bytes of a download are neither of the
model's words for "none" and "half" (`BytesAssumption`); the tree that is cleaned is finite, no
deeper than the walk of the model, with links apart from directories and a size for each file
(`TreeAssumption`). The stores have further hypotheses that
only keep names apart: the words a model uses for "no text" and "no time" are no text of a
hosts file and no time of day, entries of the startup page are of one kind each, Odysync's own
entry is one of them, and there is a first second. A prune that keeps no backup deletes the
last one because it was asked to, which is why `ListedCanBeRestoredHolds` asks for one. The
history of `RunnerHistoryIsTheReport` was written by `UpdateHistory::record`, which keeps it
to the cap; of a longer one the save would drop lines though nothing was tried.

*Versions.* `ReleaseLess` and `ChainLess` say "there is a first position that differs".
Trichotomy takes the least such position (a lemma from the well-ordering of the naturals,
without induction over sequences); transitivity takes the smaller of two positions, after
padding all three releases to one length. A strict order gives `NeverReturns` by an
invariant of one step: whatever was passed is below what is installed. `TheLoopsCompare` is
about recursive functions of the position. Induction is out of reach, a least counterexample
is not: the last position at which the claim about the loop fails is before the end, and one
turn of the loop from there contradicts it. That the function exists at all is shown in the same
way, by its graphs up to a position. The proof needed the loops to be written with the
tests in the order of the code: as a `CASE` two of the guards overlapped, and TLC had
happened to take the first.

*Command line.* `SessionInv` is the types and `Apart`: no two holds of one spelling. `hold`
and `unhold` are loops over the list, described again turn by turn (`TheLoopRuns`); that
the list stays apart is proved of any number of turns. An apply installs only what `Decide`
lets through, and the lemmas follow it through its rules in their order.

*Runner.* `RetriesStop` is not inductive: that the loop never asks again after a definite
answer holds because of where the program is, and that the number of answers is bounded
because it is tied to `attempt`. The invariant is `TypeOK`, `RetriesStop` and `RetryLoop`
(in the loop: the answers so far are all transient, one for each attempt made; while
asleep, `attempt` is below the limit). `Position` adds which entry the loop is at, that it
is one the policy let through, has a backend and is not part of a dry run, and that every
orphan belongs to such an entry; from it `OnlyTheApproved` follows step by step, with a
lemma that all a backend may land at is at least the approved version. The refinement maps
`pc` to three phases: a step that appends to the report is `Answer`, with `Confirm` the only one that says
"Updated" outside a dry run; the last step is `Finish`; all others are stutters of the
promise, in which the machine may change. `HistoryIsTheReport` speaks of the k-th entry that
was tried, which `CHOOSE` picks by counting; `HistoryInv` adds that there is exactly one
such entry for each k (`Counted`), and the lemmas say that one more entry at the end adds
one line at the end, and that cutting to the newest may be done after each line or at last.

*Config store.* Three invariants, one for each value of `Overlap`. `Typed` holds always: a
task of the GUI runs only while the GUI does. `Alone` (no two tasks at once) says that the
staging file belongs to the one that saves, and is whole when it is renamed; and of the
cached probe, that whoever made it stale has yet to invalidate it. `InTurn` (no program beside another)
adds that an open command is about to write an edit of what the file says, or has written it,
and that what was promised is in the file and no edit under way takes it away. The refinement is then
immediate: a step either leaves what a load returns, or is one edit of it, the rename.

*Scan and apply.* `Typed`: what is cached on the Rust side and what the page
shows agree entry by entry (`Agreed`), which gives `AppliesWhatWasSeen`. `InTurn` is about the
packages that have not crossed: whatever is cached, found by the scan under way or listed with
nothing on its way to replace it starts from what is installed, and each of them is planned by
one apply at most, whose plan starts from there until the apply has dealt with it. An apply
that deals with a package either makes the answers of a scan old, which is a crossing, or
comes before them.

*Windows Update.* The invariant says who waits in which queue and that whoever has an answer
holds the lock (`Locking`), that each list is of the half that was searched, that what an
apply has looked at is one update of its own (`Checked`), and of each install that is over:
a kept or an arriving answer names it only while its apply has still to drop it (`Dropped`).
`Fresh` says that no such answer, and no list of the scan, names what was installed and
dropped before the scan began.

*Direct installs.* Step by step of an apply: it is for the release that was approved, and that
one was published (`Approved`); what it has downloaded is that or a later one, and what was
verified on Windows is held and genuine (`Checked`); in the swap a whole copy is at the one place or at
the other (`CopyIsKept`, `MovedIn`). `NotOfferedAgain` needs `Newer`: an apply is for more than was
confirmed, and every copy that can become the program is at least that.

*Unattended rounds.* `EveryBackendFits` goes through the table, backend by backend; the rest of
the proof uses of a backend only what it says. The invariant adds `StillAnUpgrade`: from the
approval to the end, unless someone else touched the package, what is installed is at most what is
on offer. Lemmas carry the version algebra over to numbers.

*Stores.* Each has an invariant of its own, over the steps of its commands: what the staged file under the name
of a command is at each of its steps (`CommandFits`), as long as no other command has had that
name at the same time, and that a file another one has open is that of a shared name; that two exports
have different directories, and each directory that is listed and not being deleted is whole
(`ExportFits`, `Outlived`); that copies are of the past, so that the name of the next is free
(`CopiesOfThePast`); that what was turned off is still listed and what a row says of it can be undone
(`TurnedOffIsListed`); and for
each call of a manager what has been done by then (`CallFits`, `PromiseIsKept`). `EachGoesItsWay`
composes them: a step of one store leaves the variables of the others.

*Cleaner.* The tree is a constant, so the theorem is about all of them. `CleanFits` says that what is still to be
removed was chosen; `Emptied`, that the files measured of the directory that is being emptied are
those still in it and those gone since, unless another program meddled; `RightlyGone`, that what the
cleaner has removed matched a rule below a root it may clean, with no link on the way; `Counted`,
that what is reported is at most the bytes of what has gone outside that directory, and exactly
those when nobody meddled. What lies below an
entry has its way up end there (`BelowAnEntry`), so it was chosen with the entry and no link is
on the way. That the bytes add up is a fact about a fold: the function the fold is defined by
exists, for sets of more and more files (`SumsExist`), the sum is the same whichever file is
taken first (`AnyFileFirst`, from the smallest set where it is not), and of two sets that are
apart it is the sum of both (`BytesOfBoth`).

**Only model-checked.** Liveness (`Terminates`, `CatchesUp`, `EveryoneIsServed`, `Ends`,
`KeepsTrying`): fairness and ENABLED are beyond the installed provers. Every invariant and
every action property of a passing run is stated by a theorem; the runs that
end in a violation stay what TLC finds. The `TypeOK` of `ScanApply`, `WindowsUpdate`, `DirectInstall` and `Unattended`,
and `ChainTypes`, are proved and in no run.

## 5. Not modelled, and the plan

Not modelled because there is no state to check or it is the operating system's: reports,
maintenance commands, the security audits, the tray, the rendering and parsing of text,
`scan_cache.rs`, which no program uses, and the draining of the two pipes in `proc.rs`, which
is one join under a timeout. Of modelled parts are left out: `Version::parse`, the rules for
paths in `is_safe_cleanup_root` and `sanitize_filename` (pure functions of strings), the
recycle bin and the component store, the matching of installed programs to the catalogue of
direct installs, the catalogues of GPU vendors, Windows' restore points, and the resources of
the front end that behave like the scan resource.

What comes next:

1. `ConfigStore` with `Overlap = "programs"`: an abstract register in which a save may take
   back the edits made since its load, and a proof that the store does no more harm than that.
2. `ScanApply`: of a history that two applies write back, each line is one of a run; and the
   liveness of the list with two packages.
3. An abstract specification of a whole-file save (old or new, nothing between) that
   `ConfigStore`, the history of `Runner` and the manifests of `OfflineCache` and
   `DriverBackup` could each be measured against.
