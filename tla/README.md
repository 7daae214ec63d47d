# A verification of NSX-Manager

NSX-Manager updates itself, installs custom-firmware packs and prepares system
firmware on a console whose SD card can lose power at any instant, and whose
FatFs file system cannot rename onto an existing file. These TLA+ modules model
the parts of it that change state on the card or share state between threads.
TLC checks them on small instances, and TLAPS proves the most important
invariants for every value of the constants.

`PROJECT.json` maps every definition to the lines it models and lists the runs,
mutants, findings, hazards and theorems that this document describes.

## 1. The system and its parts

| Part | Code | Module |
|---|---|---|
| Handoff document, recovery decision | `core/update/handoff.cpp` | `Handoff` |
| Recovery forwarder (the swap) | `apps/forwarder/src/swap.cpp`, `main.cpp` | `Forwarder`; what it promises: `AtomicUpdate` |
| Staging an update, handing over, purging | `domain/selfupdate/update_service.cpp` (`stage`), `app/main.cpp`, `domain/maintenance` | `SelfUpdate` |
| Update check, cache, backoff, mirror toggle | `update_service.cpp` (`check`), `core/update/manifest_cache.cpp`, `backoff.cpp`, `ui/tabs/settings_tab.cpp` | `ManifestCheck` |
| CFW pack installation | `domain/cfw/cfw_install_service.cpp`, `core/cfw/merge_marker.cpp` | `CfwMerge` |
| Firmware installation | `domain/firmware`, `core/firmware`, `infra/archive/zip_extractor.cpp` | `FirmwareInstall` |
| Verified download | `infra/http/curl_client.cpp` (`download`) | `Download` |
| Incremental hash | `core/hash/sha256.cpp` | `Sha256` |
| Version precedence, update policy | `core/version/semver.cpp`, `core/update/update_policy.cpp` | `UpdatePolicy` |
| Files the user keeps | `core/paths/preserve_rules.cpp` | `PreserveRules` |
| Archive-bit repair | `platform/fs/archive_bit.cpp` | `ArchiveBit` |
| One job off the UI thread | `ui/widgets/background_job.cpp` | `BackgroundJob` |
| Views, dialogs, animations | `third_party/borealis` | `ViewStack` |
| Updates, CFW, firmware and tools tabs | `ui/tabs` | `UpdateTab`, `InstallTab`, `ToolsTab` |
| Home tab | `ui/tabs/home_tab.cpp` | `HomeTab` |
| Shell and splash screen | `ui/app_shell` | `AppShell` |

How they interact: the shell puts all tabs on one view stack. Each tab runs its
services on a background job and looks at it every 100 ms. A staged update is a
binary plus a handoff in the staging directory; the application then asks the
loader to start the forwarder, which swaps the binaries. The user can also start
the forwarder from its repair entry. At the next start `main()` reinstalls
missing forwarder copies and lets the CFW service undo an interrupted merge. The
tools tab can delete the staging directory, which holds the files of both.

## 2. The modules

**Handoff** holds the document both programs read and `decideRecovery`. A binary
is the version it carries, `Torn` is content that is no released binary.

**Forwarder** is `runSwap`, one action for each file operation (`WriteCounter`,
`ClearCounter`, `MoveCounter`, `VerifyStaged`, `CopyStaged`, `ClearBackup`,
`MoveAside`, ...). `card` is the files, `handoff` the document on the card, `h`
the copy in memory and `pc` the next operation. A rename over an existing file
is two steps, as in `renameOver`. Every operation may fail and the power may be
cut before any of them, up to `MaxFaults` in all. With `BadCard` the card may
keep other bytes than it was given.

**AtomicUpdate** is what the forwarder promises, without files: the user has the
old or the new version, it changes only while the update is pending, and success
is only reported with the new one. **ForwarderInv** maps the card to it
(the version in place, or the one the repair entry brings back) and has the
invariants with which `SelfUpdateProofs` proves it.

**SelfUpdate** extends `Forwarder` with the application: start-up, staging with
its bounded retries, the restart, the repair entry and, in `PurgeSpec`, the purge.
`removeTree` lists first and deletes afterwards, so a purge interleaves with
staging. The application and the forwarder never run at once, because the loader
starts one after the other is gone.

**CfwMerge** is `mergeStagedTree`, `rollBack`, `commit` and
`recoverInterruptedMerge` on `dest`, `backup`, `staging`, `marker` and `list`.
`before` and `kept` record what the card was, for the properties only. In
`PurgeSpec` the tools tab deletes backup, staging, list and marker one by one and
in any order, but not during an installation: `AppShell` shows that the progress
dialog keeps the two apart.

**FirmwareInstall** is `FirmwareInstallService::stage`: preflight, download,
deleting file by file, extracting entry by entry. In `SharedSpec` other tools
write to `/firmware` while the application works.

**ManifestCheck** is `check()` on several threads with the three cache files and
`writeAtomic`, whose temporary names the threads share, while the settings tab
swaps the two URLs. `CatalogService::fetch` is the same algorithm on other files.
`seen` and `lastFail` record what hosts served and when checks failed, for the
properties only.

**BackgroundJob**: the worker's last two stores are separate steps. **ViewStack**
is the view stack of borealis: a view that is shown or hidden fades, and the rest
of the push or the pop happens in the callback at the end of the fade. A view is
a pair of class and owner; deleted views are remembered in `freed`. **UpdateTab**,
**InstallTab** (the CFW and the firmware tab are one class but for what follows
success) and **ToolsTab** have an action per click, button, callback, poll and
worker step, and **AppShell** composes them with the splash screen, the start-up
dialog, the end of the main loop and the destructors. Using a deleted view may
crash or may go on; both are in the model.

**HomeTab** has the tab's two workers, the mutex of the view they write to and
the destructor. **Download** is `CurlClient::download` with its file sink.
**Sha256** has the buffering, padding and length field of the hash; the
compression function is the string of bytes it was given. **UpdatePolicy** has
`compare` and `decideUpdate` next to a definition of SemVer precedence that does
not use the algorithm, **PreserveRules** the glob matcher and the order of the
rules next to a definition of what a pattern means. **ArchiveBit** has the
recursive repair with its stack of calls; every rename is a step.

The `MC...` modules give the constants finite values. `MCComponents` puts six
modules that share no state into one run: the initial state chooses which of them
moves. The `...Proofs` modules hold the inductive invariants and the proofs;
`ScreenProofs` has what the operations of the view stack do to the invariant that
`AppShellProofs` proves, and `ComponentProofs` has the proofs about `Download`,
`HomeTab` and `UpdatePolicy`, each with a specification of its own
(`DownloadSpec`, `HomeSpec`, `PolicySpec`); `ArchiveProofs` has those about
`ArchiveBit` (`RepairSpec`).

## 3. What is checked

| Run | Properties | Shows |
|---|---|---|
| `forwarder` | `TypeOK`, `InstalledIsVerified`, `SoundCardInv`, `SoundRepairCompletes`, `SoundAtomicUpdate` | three cuts or failures anywhere in a swap. Installed is only reported for a target read back, also on a card that keeps wrong bytes. On a sound card the invariants of the proofs hold, a missing application returns, and the swap implements `AtomicUpdate` |
| `self_update` | `SelfTypeOK`, `NeverStranded`, `SwapBudget`, `NoDowngrade` | three releases in a row, with purges during and after staging: the application is launchable or restorable, attempts are counted before they are made, and no recovery goes back past the version that staged the update |
| `cfw_merge` | `MergeInv`, `OutcomeIsTrue`, `MergeReversible`, `RecoveredIsBefore`, `PreservedUntouched` | outcomes are true, a cut merge is reversible and recovered, preserved files are not touched |
| `cfw_merge_resolves` | `MergeResolves`, `PreservedUntouched` | with purges between any two runs the marker goes away and preserved files stay |
| `firmware_install` | `TypeOK`, `NeverMixed`, `UntouchedOnFailure`, `ReadyIsWhole` | versions never mix, failures before clearing change nothing, what is offered to Daybreak is whole |
| `app_shell` | `ShellTypeOK`, `OneInstaller`, `NoToolUnderInstall`, `NextProgramAlone`, `ChainloadIsReady`, `OutcomesNotShared`, `ButtonComesBack` | clicks, polls, animations and workers in any order, 506,067 states. Nobody waits forever: deadlock is checked, so no destructor joins a worker that waits for the main loop |
| `manifest_check` | `TypeOK`, `FreshIsRecent`, `DeferralIsEarned` | two concurrent checks during a publication, with failing hosts and the mirror toggled, 4,020,866 states |
| `manifest_restart` | `FreshIsRecent` | a document that cannot be read, a power cut and a failed write between the cache's files, 4,881,362 states |
| `components` | `HashesTheMessage`, `OnlyVerifiedIsNamed`, `PartialIsBounded`, `NeverReturns`, `PolicyOffersNewer`, `PreservesAsWritten`, `FilesKept`, `CleanRepairRestores`, `ViewOutlivesWorkers` | six independent parts against what each promises, 44,603 states |

Every property has a mutant, a plausible mistake in the code, that breaks it.

### Bounds

* `forwarder`: two versions, the old and the new. `MaxAttempts` is 2, so that an
  attempt, a retry and a spent budget all occur; `AttemptsLimit` is 4, so that
  deleting the application again and again takes the counter past it.
* `self_update`: three versions, so that a backup can outlive two updates.
  Downloads are retried up to 2 times of either kind (3 and 2 in the code).
* CFW: three files (one preserved, two others, so that one can be merged while
  another is not yet), two packs, two installations, so that a second one runs on
  the result of the first, two faults and a cut. Packs and the two unpreserved
  files are symmetric. The liveness run has two files, one installation, two
  faults and two cuts, and no symmetry.
* Firmware: two `.nca` names, one other, two versions, three installations, two
  faults, one cut, one foreign file.
* `app_shell`: the four job objects of the application and two jobs started,
  enough for every pair of jobs to meet. Section 5 names what needs three.
* `manifest_check`: two threads and three checks, so that a third reads what two
  wrote; a TTL of 2 against a clock up to 2, so that a cache expires.
  `manifest_restart`: one thread, three documents of which the second cannot be
  read, a clock up to 3.
* `components`: a block of 8 bytes with a length field of 2 and messages of up to
  20, which takes every position of the padding relative to a block boundary; a
  file of 4 bytes in pieces of up to 2, downloaded twice; releases 0.9.1 and 0.10.0
  with up to two identifiers out of 9, 10, 11, a and a1, which tell comparison by
  value from comparison of text; lists of up to two rules; two repairs with a
  failing call and a cut.

`CHECK_DEADLOCK FALSE` is set where the bounded environment (releases, checks,
parts that finish) really comes to an end.

### Fairness

* `MCForwarder!MCSpec`: a running forwarder goes on, and somebody keeps opening
  the repair entry. Faults are never required.
* `CfwMerge!FairPurgeSpec`: the service goes on once started, a purge that began
  runs through, and the application is eventually closed and opened again, which
  is when recovery runs.
* `AppShell!FairSpec`: threads are scheduled, every transfer has a stall limit so
  that jobs end, and the main loop reaches every tab's poller. Clicks and
  animations are not required.

## 4. What is proved

All theorems hold for any constants that satisfy the named assumptions of the
modules: any set of versions, files, names, packs, documents or threads, any
budget, and any number of faults, cuts, releases, installations, checks and jobs.

* `SelfUpdateProofs`, for the forwarder alone: `TypeCorrect`; then, on a card that keeps its bytes
  (`~BadCard`), `SwapInvariant`, `NeverStrandedAlways` and `SwapBudgetAlways`.
  `NeverStranded` is not inductive: whether a rename is safe depends on what
  earlier steps established. `SwapInv` therefore says for each group of steps
  what the card looks like: the target is in place up to the first rename,
  missing with a complete backup between the two, the copy next to it complete
  once made, the counter on the card from the verification on.
  `InstalledIsVerifiedAlways`, on any card: `VerifiedInv` strengthens it: from the
  moment Installed is decided until the program ends only the clean-up runs, which
  leaves the target alone.
  `ForwarderImplementsAtomicUpdate`, on a sound card: with `CardInv` (target and
  backup hold the old version, the new one or nothing, the staged binary exists
  throughout the swap, and Installed means the new one) every step is a step of
  `AtomicUpdate` or leaves its variables alone. The mapping takes the target, or
  the backup while there is no target, as the installed version.
* `SelfUpdateProofs`, then for the composition with purges. `SelfUpdateNeverStrands`,
  on a sound card: the application keeps `SwapInv` because it only runs with the
  target in place and only writes handoffs that were never attempted; `AppInv`
  says so. `NoDowngradeAlways`, on any card, from `OrderInv`: an update leads
  upwards, what runs next is not below the version that staged it, and a backup
  an older update left is cleared before a step relies on the backup. A binary
  that is no version (`Torn`) is nobody's downgrade. `SelfTypeCorrect` needs
  `TriesInv`, that a download about to be tried has tries left.
* `CfwMergeProofs`: `MergeInvariant`, `PreservedUntouchedAlways`,
  `MergeReversibleAlways`, `OutcomeIsTrueAlways` and `RecoveredIsBeforeAlways`.
  `MergeInv` has these parts: types, that files to keep are outside every plan
  and list, that the marker covers the backup, what the merge loop has behind it
  and ahead of it, that what undoing needs is on the card throughout it
  (`UndoInv`), and what the rollback has put back and has yet to put back
  (`OutcomeInv`), which is what makes the reported outcome true. A purge breaks
  the last two and keeps the others, which is enough for
  `PreservedUntouchedByPurges`.
* `FirmwareProofs`: `FirmwareTypes` and `NeverMixedAlways`, also with other tools
  writing into the directory, from `MixInv`: while clearing, every entry still
  there is to be deleted, and while extracting, every entry is of the version
  being extracted. `UntouchedOnFailureAlways` and `ReadyIsWholeAlways` follow
  from `FirmwareInv`, for a directory nobody else writes to during an
  installation.
* `ManifestProofs`: `CheckTypes`, `FreshIsRecentAlways` and
  `DeferralIsEarnedAlways`, for any number of threads. `CheckInv` does not say
  which mixture of the three files is on the card, since threads that share
  temporary names can produce all of them. It says that every record that exists
  anywhere, on the card, in a temporary file or in a thread's hands, is true of
  the past: metadata carries a time no later than the last one at which its
  document was served, and a deadline is at most `Cap` after the last failure.
  What a thread accepts is then true whoever wrote it. `CheckTypes` includes that doubling the delay stops at
  the cap, `GrowsBound`, by induction on the number of failures.
* `AppShellProofs`: `ShellTypes`, which includes that a job counts as running
  exactly from `start()` to its worker's own store, and `NextProgramAloneAlways`,
  from `CloseInv`: the destructors run one after the other once the loop is left,
  and a worker that was joined never comes back. `OneInstallerAlways`,
  `NoToolUnderInstallAlways` and `OutcomesNotSharedAlways` rest on
  `ScreenInvariant`, an invariant of the view stack and the tabs on it, whose
  steps for the operations of the stack are in `ScreenProofs`. No tab looks at the
  other's job, so what keeps two installs apart is which view the user can reach.
  Two cases make that an invariant. `Leaked`: a fade that blocked the inputs was
  cut short, so that more tokens are held than fades are left to return them; this
  never ends and no button works again. `Calm`: none was, and then only the top of
  the stack leaves. For the calm case the invariant follows the views in the order
  in which they will get the focus (`Foci`: the one that has it and the stack below
  it): the progress dialog of a running install is among them, with no dialog that
  asks before it (`HeldBy`), so everything the user reaches before it goes away is
  a report. In both cases at most one callback that writes is under way, and none
  while an install runs (`Pending`). That the pop at the end of a fade takes
  whatever is on top, and leaves deleted views on the stack (section 5), is part of
  the model; the invariant speaks of the focus for that reason.
  `DaybreakIsReadyAlways` is the half of `ChainloadIsReady` that follows: Daybreak
  is started only with a firmware unpacked.
* `ComponentProofs`: `OnlyVerifiedIsNamedAlways` and `PartialIsBoundedAlways`
  from `DownloadInv` (while bytes arrive the partial file holds what the sink
  counted, and it is the published file once verified), and
  `ViewOutlivesWorkersAlways` from `HomeInv`. For the policy,
  `CompareIsPrecedence`: the comparison of `semver.cpp`, which compares numbers by
  length and then by text, agrees with the precedence of SemVer section 11,
  which compares them by value. The argument is that a lexicographic order of an
  order is an order, applied to characters, identifiers and versions, and that of
  two numerals without a leading zero the longer is the larger. `WentUpAlways`,
  `NeverReturnsAlways` and `NewerIsOfferedAlways` follow; the run checks the last
  as `PolicyOffersNewer`, which restricts `NewerIsOffered` to its policy part.
* `ArchiveProofs`: `FilesKeptAlways` and `CleanRepairRestoresAlways`, for any tree
  and any targets, one inside the other included. `RepairInv` needs little of the
  stack of calls: a call renames its directory after the calls for its
  subdirectories have returned, so every call but the innermost is still walking
  (`CallsInv`) and at most one directory is away. `Restored` is the card with that
  directory renamed back; as long as no error is counted its files are those from
  before the repair. Moving one entry home does not change `Restored`
  (`EntryGoesHome`), and renaming back what was renamed away gives the card back.
  The other lemmas say what a rename does to a path: it keeps the tree a tree
  and every name in it.

Assumptions worth naming: `NoneAssumption` (the value for "no file" is no
document's), `RepairAssumption` (what is on the card is in directories that are,
a file is known by its name, and the targets are no files), and `PolicyAssumption` (what `parseSemVer` returns: three numbers
and identifiers that are not empty). That numbers have no leading zero is not
assumed of the constants, because `parseSemVer` accepts `01` in a prerelease. It is
a hypothesis of `NeverReturnsAlways` and `NewerIsOfferedAlways` and of
`CompareIsPrecedence` (`WellFormed`); `WentUpAlways` does without it. Section 5
shows what happens otherwise.

TLC checks `SwapInv` and `CardInv` (together as `SoundCardInv`) and `MergeInv` as
invariants of the runs. `ScreenInv` is checked by adding `ScreenProofs` to what
`MCAppShell` extends and `INVARIANT ScreenInv` to `AppShell.cfg`: it holds in all
506,067 states with two jobs. In the same way `RepairInv` holds in all 15,834
states of the repair.

Induction. The induction theorems of the library take an operator as a parameter,
which the provers do not instantiate. For numbers `SetInduction` and
`NumberInduction` state the same for a set, from the well-foundedness of `<`; with
them, what the recursive functions `growCapped` and `Value` compute is proved.

Only model-checked:

* All liveness (`SoundRepairCompletes`, `MergeResolves`, `ButtonComesBack`), which
  is out of this prover's reach, as is that nobody waits forever.
* The half of `ChainloadIsReady` about the restart into the forwarder. When the
  view below the restart dialog was hidden, the restart only comes after that view
  has been shown again, and inputs are not blocked meanwhile: with the focus on the
  root, a check could be started that resets the outcome. The root never has it
  then, but because few dialogs open unasked, which is a matter of the whole
  history and not in `ScreenInv`. TLC finds no violation with up to four jobs (26
  million states); the run has two.
* `HashesTheMessage` and `PreservesAsWritten`: `Sha256` and `PreserveRules` have
  recursive operators, over the bytes and over the pattern.


## 5. Where documents and code disagree

Three disagreements have a run of their own, which TLC ends with a counterexample:

| Run | Statement the code does not keep |
|---|---|
| `cfw_rollback_twice` | rollback deletes only what the merge created (`RollBackKeepsOriginals`). A rollback cut by a power loss and resumed deletes originals it had restored: a code bug |
| `self_update_torn_forwarder` | no update is pending with nothing able to install it (`ReadyMeansInstallable`). A forwarder copy cut short is accepted for good |
| `app_shell_freed` | views "are freed when the application shuts down or the view is popped" (`FreedOnlyWhenPopped`). The dialog with the outcome is pushed while the progress dialog fades; the end of the fade pops the new dialog and deletes the old one, which stays on the stack: a code bug |

The following are stated in the modules too, after the properties that hold, and
TLC refutes each of them on the instance named. They are not among the runs: to
see a counterexample, put the property into a copy of that configuration with the
changes given. For `Forwarder`, take the module itself, with `Version = {v1, v2}`,
`Spec` and `CHECK_DEADLOCK FALSE`.

| Property | Statement | Configuration and changes |
|---|---|---|
| `RolledBackIsPrevious` | RolledBack: "The previous version was restored." | `Forwarder`, `MaxAttempts = 1` |
| `UnrecoverableMeansNothingUsable` | "Nothing usable remains" | `Forwarder`, `MaxFaults = 0` |
| `OldKeptUntilConfirmed` (a `PROPERTY`) | the old version is kept until the new one is confirmed | `Forwarder`, `MaxFaults = 1` |
| `HandoffSurvivesPowerCut` | a power cut does not abandon an update in flight | `Forwarder`, `MaxFaults = 1` |
| `ReadyMeansStaged` | Staged: "ready to chainload"; a purge may follow | `SelfUpdate`, `MaxFaults = 0` |
| `AlwaysSomethingLaunchable` | "there is always a launchable entry point" | `SelfUpdate`, `SelfSpec`, `MaxFaults = 2` |
| `CleanUpChangedNothing` | without a backup the destination is untouched | `CfwMergeTwice`, `MaxCuts = 1` |
| `ReversibleWhileBackedUp` | reversible while the backup exists | `CfwMergeTwice`, `MaxCuts = 1` |
| `MergeReversible` with purges | a cut merge whose marker cannot be read at the next start is not recovered, and a purge then deletes the backup | `CfwMergeResolves`, `PurgeSpec` |
| `NotOursMeansForeign` | a refused directory holds somebody else's file | `FirmwareInstall` |
| `ForeignKept` (a `PROPERTY`) | unknown files stop the installation | `FirmwareInstall`, `SharedSpec`, one installation, no symmetry |
| `EveryCompletionIsTaken` (a `PROPERTY`) | takeFinished() is "True exactly once per completed job"; a click between the worker's two stores drops a completion | `AppShell`, `Spec` |
| `InstallIsAccepted` (a `PROPERTY`) | a click installs only what the button announced | `AppShell`, `Spec` |
| `InputsComeBack` | inputs blocked for an animation are unblocked; an animation that is cut short never reports its end | `AppShell`, `Spec` |
| `OneWriter` | no update is staged under an install | `AppShell`, `Spec`, `MaxJobs = 3` |
| `OwnETagOnly` | an ETag is not sent "somewhere it cannot mean anything" | `ManifestRestart` |
| `PreferredIsAsked` | the mirror is asked first exactly while the toggle is on; the hosts are swapped, not set | `ManifestRestart`, `MaxClicks = 2` |
| `FallsBackElsewhere` (a `PROPERTY`) | a check asks two hosts; a toggle in between makes it ask one twice | `ManifestRestart`, `MaxClicks = 1` |
| `RepairedIsInPlace` (a `PROPERTY`) | a repair without errors leaves every file in place; after a cut between the rename and the new directory, `/atmosphere` stays under its temporary name and the next repair reports no error | `Components` |
| `PolicyOffersNewer` | numeric identifiers are compared "by value, not lexically"; `01` is longer than `9` and wins | `Components` with the identifier `<<48, 49>>` added |

Evident from the code, without a model:

* ADR 0005 says "a manual check bypasses the TTL"; the button calls the same
  `check()` as the launch.
* The home tab reads the message of the day from
  `/config/nsx-manager/cache/manifest.json` and
  `/switch/nsx-manager/staging/update.json` (`home_tab.cpp:1019-1022`). Nothing
  writes either: the cache is `/config/nsx-manager/cache/update.json`. A bulletin
  is never shown.
* `home_tab.cpp:402` and `:604` read `m_telemetryStatus` without the mutex that
  guards its writes, and the home tab says the application is current also when
  the check could not reach a host.
* Disabling a sysmodule may report success while it stays enabled, and the tools
  tab ignores the answer.
* `main.cpp` chainloads when the forwarder is ready or its path merely exists.
* The purge and the reboot do not look at the update job, the archive-bit repair
  may run under an install, and `setPreferMirror` swaps two strings that a
  worker may be reading.

## 6. Assumptions and limits

* Different binaries and documents have different digests.
* Writing a temporary file is one step in `ManifestCheck`. Two threads that write
  the same temporary file at once therefore never mix their bytes, which the card
  could.
* CFW: deletions succeed and existence probes are reliable; faults are failing
  writes, moves and reads. `MergeReversible` ends with the merge loop, and
  `RecoveredIsBefore` covers one cut with a file displaced and no fault;
  section 5 shows what happens outside.
* A restore that fails in `rollBack` is followed by deleting the backup. The
  model does the same; `OutcomeIsTrue` only demands that it is not called a
  rollback.
* The update check's clock only moves forward, and ETags of the two hosts never
  coincide.
* The answer of `decideUpdate` is a choice in `UpdateTab` and "newer" in
  `SelfUpdate`; `UpdatePolicy` is where it is modelled.
* What a service did is a choice in `AppShell`: the tabs and the services are
  composed only by what the job reports.
* `OneInstaller` and `NoToolUnderInstall` rest on borealis giving the focus, and
  with it the buttons, to the top of the view stack, which `ViewStack` models.

The map covers about 4,100 source lines. The application's own code under
`src/src/nsx` has about 15,600 with its headers, of which most of what is left is
layout and drawing, character-level parsing and validation, and calls into the
platform. Vendored code (borealis, the drivers of the RCM payload) makes up most
of the tree; only the view stack of borealis is modelled.

Not modelled:

* Donate tab, theme and list widgets: layout and drawing only.
* Path rules other than the preserve list, URLs and strings, manifest and
  catalogue documents: filters and validation on the characters or fields of one
  value, without state. A model would be a transliteration.
* The compression function of the hash: arithmetic on 32-bit words.
* The catalogue service beyond what `ManifestCheck` stands for.
* File logger: no part of the application constructs it.
* Message of the day: it reads files that nothing writes (section 5).
* Sysmodules: one boot flag per toggle, written by one thread.
* Network telemetry and platform services: reads of the console's state, calls
  into libnx and the secure monitor.
* RCM payload: a bare-metal bootloader on vendored drivers, built apart.

## 7. Plan

1. Clock jumps in `ManifestCheck`, and an instance of it for the catalogue.
2. A proof of the half of `ChainloadIsReady` about the restart.
3. `ArchiveBit` composed with the installers, which it may run under.
4. The channel toggle composed with the check and the policy.
