# Verification of RufusArm64

RufusArm64 (Go helpers and a GTK front end) downloads signed images, writes them
to removable disks, reads disks back into images, tests drives for false
capacity, and restores Windows FFU images under a signed trust bundle. Its hard parts are transactions over files and disks that other
processes, other commands and the power supply disturb. This directory models
those transactions in TLA+, checks them with TLC on small instances and proves
the central invariants with TLAPS for instances of any size.

`PROJECT.json` lists components, runs, mutants, findings, hazards and theorems,
and maps every definition that models code to its lines.

## Inventory

| Component | State it keeps | Operations | Hard behaviour | What makes it correct |
|---|---|---|---|---|
| FFU trust store (`internal/ffu/trust_*`) | `active.json`, `generations/`, private temporaries, a flock | publish, signed update, withdraw, recover, activate, roll back | process death, failing system calls and power loss between any two steps; operations signed against an older record | the active record names an intact, authorised history; it only moves forward |
| FFU review and restore (`cmd/rufus-linux/ffu_*`, `internal/ffu/restore_*`, `internal/sourcefile`) | source file and lease, target descriptor, review binding, execution result | review, restore | writers that break the lease, disks swapped under one name, torn writes, cancellation | only what was reviewed and confirmed is written; the reported status is true of the disk |
| FFU parsing, authentication, plans (`internal/ffu`) | none | parse, hash, bind to a target, order writes | bounds and arithmetic over untrusted headers | accepted plans do not overlap and stay inside disk and payload |
| Image catalog channel (`internal/acquisition/channel.go`, `trust.go`) | root history, `catalog.json`, `state.json` | refresh, offline refresh | no lock on the cache; replaying servers; clocks that move | roots descend from the package's root; accepted versions never go back |
| Release channel (`release_channel.go`, `update_state_linux.go`) | root history, `release.json`, rollback state, a flock | refresh, verify, accept | state read before the lock; roots the user supplies | the rollback state only moves forward and is signed and fresh |
| Image download (`download.go`, `resume.go`) | partial file, destination, a flock | download, resume | retries, deaths and other downloads of the same image | only the signed bytes are installed; the user's file survives |
| Channel administration (`cmd/rufus-channel-admin`) | metadata files | create, sign, verify, publish | offline ceremony | produces what the clients accept |
| Runtime integrity (`internal/runtimeintegrity`) | fallback loader, its backup, `md5sum.txt`, a flock | install, remove, roll back, generate, verify | three names in two directories of FAT media; rollbacks that fail or are cut off | the original loader survives; a rollback restores the media exactly |
| Device qualification (`internal/devicequal`, `cmd/rufus-device-qualify`) | drive under test, page cache, report | plan, write, sync, read back, finish | drives that wrap around or lose writes; what an earlier test left; cancellation | a drive passes only if it keeps every tested region |
| Drive backup (`internal/drivebackup`) | source disk, destination directory, temporary file | read or convert, compare, publish | raw writers, swapped disks, a user at work in the directory, death | what is published is whole, durable and of the reviewed disk |
| ISO capture (`internal/isocapture`) | mounted source, bind mount, workspace, temporary file | scan, bind, master, mount, compare, publish | a source that stays writable; mounts that are cut off | the image is what was reviewed, as it was at one moment; the source survives |
| Raw and compressed imaging (`internal/imaging`) | image, prepared file, target | probe, prepare, select, write, read back | an image that is edited while it is expanded or written | the target is the hashed image |
| Linux media (`internal/linuxmedia`, `persistence`) | image mount, overlay, workspace, target mounts | inspect, choose, partition, copy, make persistence, verify | several mounts to undo; an image inspected before it is copied | one version of the image; nothing left behind |
| Windows media, Windows To Go (`internal/windowsmedia`, `windowstogo`, `windowsconfig`) | image mount, staged files, workspace, target mounts | inspect, stage, erase, copy or apply, verify | staged parts and copied parts come from different passes | one version of the image; "nothing was erased" is true |
| FreeDOS media (`internal/freedos`) | target, report | plan, lock, write extents, flush, read back | arithmetic of the layout; conservative report | the plan fits the disk; the report owns up |
| Non-bootable formatting (`internal/nonbootable`) | target, report | plan, lock, partition, format, verify | overlap, orphans of killed runs, clocks | only the confirmed disk is written; success is durable |
| Secure Boot, UEFI:NTFS (`internal/secureboot`, `uefintfs`) | pinned assets, the DBX file | parse, stage, install | malformed input | refuse what is malformed |
| Qualification records (`internal/qualification`) | evidence files | record, admit | partial evidence | no claim without all its evidence |
| Safety, device, sourcefile, trustedexec, operationcost, volumelabel | none | checks | stale answers | refuse system disks |
| Command line, GUI | running helper | start, progress, cancel | helper dies, output is cut | report what the helper proved |

The front ends call the helpers; `ffu restore` reads the trust store that the
trust commands write; the catalog channel authorises the images that Download
fetches and the release channel the package; both channels share the root
verification and the layout of the root history, in separate directories. `rufus-linux write`, the graphical helper of
the Linux writers, the formatter, the FreeDOS tool and the drive test all find and
bind their target through `internal/safety` and hand their writer a closure that
looks at it again; images are held by the leases of `internal/sourcefile`.

## Modules

| Module | Models |
|---|---|
| `TrustStore` | the trust store: one action per system call group of a transaction, its rollback, recovery and activation |
| `TrustRegister` | what the store promises: a register of records that moves forward and ends with a withdrawal |
| `TrustStoreProofs` | theorems about `TrustStore` |
| `FullFlash` | review and restore, with the source's writer, the kernel lease, the disks and the mounts around them |
| `FullFlashPlan` | the plan of a restore: write descriptors, their destinations on a target, the overlap checks and the order of the writes, as predicates |
| `FullFlashProofs` | theorems about `FullFlashPlan` and `FullFlash` |
| `TargetDisk` | the disk at a device path: attachments, mounts, page cache, media, and what package `safety` asks about it |
| `Formatter` | `rufusarm64-nonbootable-format`, from discovery to the report |
| `RootChain` | verification of root and online metadata, as operators |
| `RootHistory` | replay, fetch and storage of roots, shared by both channels |
| `AcquireChannel` | `RefreshChannel` |
| `ReleaseChannel` | `update refresh` and `update verify`, up to the accepted rollback state |
| `ReleaseChannelProofs` | theorems about `ReleaseChannel` |
| `Download` | `Download` with and without `--resume` |
| `DownloadAlone` | commands that run one at a time: `AloneSpec` and `AloneVerified` |
| `AcquisitionProofs` | theorems about `AcquireChannel`, `Download` and `DownloadAlone` |
| `RuntimeIntegrity` | `InstallARM64` and `RemoveARM64` with their rollbacks |
| `RuntimeIntegrityProofs` | theorems about `RuntimeIntegrity` |
| `MediaSession` | what the media writers share: the image and its lease, the target, mounts, the workspace, the deferred cleanup, and the others around them |
| `WriteCommand` | the commands in front of the writers: discovery, preparing of containers, confirmation, revalidation, unmounting, the closure `targetCheck` |
| `RawImage` | package `imaging`'s writer |
| `WindowsMedia`, `WindowsToGo` | packages `windowsmedia` and `windowstogo` |
| `PersistentMedia`, `ExtractedMedia` | package `linuxmedia`: `CreatePersistent` with package `persistence`, and ISO Image mode on FAT32 and NTFS |
| `FreeDOS`, `FreeDOSLayout` | `rufusarm64-freedos-format`; the arithmetic of its filesystem and extents |
| `DeviceQualify` | `rufusarm64-device-qualify` |
| `MediaWriters` | the composition of all of these and their properties |
| `MediaWritersProofs` | theorems about `MediaWriters`, the verdict of `DeviceQualify` and `FreeDOSLayout` |
| `MediaDataProofs` | the theorem that what a command announces as done is one version of the image |
| `CaptureSession` | what the two captures share: the source, the destination directory, publication and cleanup |
| `DriveBackup`, `IsoCapture` | package `drivebackup`; package `isocapture` |
| `Capture` | the composition of both and their properties |
| `TargetDiskProofs` | theorems about `Formatter` and `Capture` |
| `MC...` | instances for TLC |

`RootChain` ← `RootHistory` ← `AcquireChannel` and `ReleaseChannel`, and
`TargetDisk` ← `Formatter`, by EXTENDS; `TargetDisk` ← `MediaSession` ←
`WriteCommand` ← each writer ← `MediaWriters`; `TargetDisk` ← `CaptureSession` ←
each capture ← `Capture`.
`TrustStore` instantiates `TrustRegister` with the refinement mapping
`active.json` ↦ value.

### How state and actions correspond to the code

*TrustStore.* `root` and `gens` are the two directories as processes see them,
`disk` their durable copies: `fsync` copies one, `Writeback` may do so at any
time, a power loss replaces what processes see by what is durable. `tx[p]` is a
`trustStoreTransaction` with its flags `generationAdded` and `activeCommitted`
and a program counter named after the stages of the code. Each rename, exchange,
unlink and fsync is an action. Digests are the values they are digests of. Which
faults an instance has is the constant `Faults`: cancellation, failing system calls of
the transaction (`io`), failing system calls of its rollback (`undo`), death and power
loss.

*FullFlash.* `run` is the command, whose `pc` walks the steps of `runFFURestore`
and `executeAuthorizedSinglePhaseFullFlashWithOps`; every check of lease, source
identity, descriptor and target is an action of its own before the read or write
it protects. A block of the source or the disk holds the name of the
authenticated block, or `altered`, `old`, `torn`. `cache` is the page cache and
`media` the disk: readback goes through the same descriptor and therefore the
page cache, and the disk is trusted to keep what an fsync acknowledged. The
identity of a disk is its attachment (the kernel's `diskseq`).

*FullFlashPlan* counts in blocks of the store. Each planner is a predicate on what it
accepts and returns: a `DescriptorPlan` whose descriptors take the payload in turn
(`PlansSingleStoreV1`), a target it can be bound to (`BindsTarget`), and the operations
in order of declaration (`OrdersWrites`). A sort is a sequence that lists a finite set
in the order of the code's comparison, and each overlap check compares neighbours in
it, as the loops do. `detectSameAnchorOverlaps` also describes what overlaps; the
callers ask only whether anything does, and up to the first overlap its active interval
is the neighbour. `FullFlash` is given the operations as its constant `Plan`, and its
`PlanAssumption` is what `Executable` says of them.

*TargetDisk and Formatter.* `port` is the attachment the device path names: a
disk with its `diskseq`, which is what an identity token tells apart. A disk
holds a partition table and a filesystem, each the layout of a plan, `old`,
`none` or `torn`, once in the page cache and once on the media. Mounts are named
by where they are, below the removable-media roots or not. `run[r]` is an
invocation, whose `pc` walks `main.run`, `linuxBackend.Prepare`, `Execute`'s
phases and `finishDeviceExecution`; the fields `changed`, `swapped` and
`disturbed` are history: which attachments the run wrote, whether a disk was
attached between its last identity check and its open, and whether an orphaned
utility wrote to its disk. `wipefs`, `sfdisk` and `mkfs` complete, fail half-way,
or outlive a run that is killed (`orphans`). Two assumptions are about the
kernel: a device number is not given to another disk while a descriptor of the
first is open, and `mkfs` opens its partition exclusively, so it refuses a
mounted one. Label rules, the geometry of the partition and the private mount
that verifies UDF are represented by the failures they cause; the partition's
own flock is left out because only the holder of the disk's flock reaches it.

*Channels.* An envelope is a record of the fields that verification reads. The
network returns any envelope that exists, in any order, or fails. In
`AcquireChannel` every check reads the clock; in `ReleaseChannel` a command reads
it once, as the code does. `Clock` lets it run and sets it back. `Fail` is every
error return and the death of the process. `storeRootHistory` is two actions,
the look at the file and the rename, because another process may come between.
The chain of roots that a user names is represented by its last root, which must
sign itself like the first.

*Download.* Names and inodes are separate: `part` and `dest` are names, `job[p].file`
is a descriptor, `locked` the flock of an inode. Each of open, lock, stat, chmod,
close, rename and the three places that remove the partial by name is an action.

*RuntimeIntegrity.* `tree` holds the contents of the fallback loader, its backup, one
payload file and one name another program may add; `manifest` is `md5sum.txt` with
its `InstallationRecord`; `durable` is what the disk holds of both. On FAT every
directory entry is written back on its own (`Writeback`), so the disk may see a
removal before an earlier rename in the same directory, unless a sync lies between;
a rename itself is taken to be old or new, never neither. `call` is the one call
that the flock of the media root admits: `pc` names the step, `done` the flags of
`installMutationState`, `stale` and `rootChanged` the differences `sameStableObject`
would find. A temporary is a flag while the call owns it and `litter` afterwards:
a later verification meets it as an unexpected file. Every error return is `Fail`,
which enters the deferred rollback; a rollback tries all of its steps, and
`UndoFails` lets any of them fail. `exposed` and `excused` are history: they mark the
rollbacks `OriginalKept` must except. Media that carry an `md5sum.txt` of someone
else are refused by both calls and not represented.

*Media writers.* `src` is the image: its bytes (a version), `mtime`, `ctime` and the
state of the kernel lease. `w` is the one writer; `w.pc` walks `runWrite` or the
helper up to the writer's call and then the writer itself, phase by phase, and
`w.mode` says which writer that is. `w.fd` is the open descriptor, `w.own` the mounts
the kernel has made for the writer and `w.known` those its cleanup knows of; they
differ when a mount is cut off after the kernel made it, or `mountPrivate` fails
after the mount. `w.digest`, `w.plan` and `w.staged` are the versions that the first
hash, the inspection and the staging saw, and the target's filesystem is the version
that was copied to it, or `mixed`. So an image that changes between two passes, and
may change back, is caught exactly where the code compares. `src.past` is the set of
contents the image has had under its present `mtime`; `EditsLeaveTrace` says that an
edit which puts one of them back leaves a new `mtime`. `VerifyPinned` leaves `ctime`
out, as in the code. Deferred functions run last opened, first
closed, and each may fail. `w.claim` is what an error says about the disk, `w.touched`
the writer's own flag, and `w.changed`, `w.swapped`, `w.flawed` are history: which
attachments were changed, whether the opened disk is another one than the selected,
and whether the medium kept something else than was flushed to it. A copy is two
steps, one per part that may come from different versions.

*FreeDOS and the drive test* read no image. The size of a disk is in sectors, and the
plan is accepted by the arithmetic of `FreeDOSLayout`, whose bytes and sectors are the
code's. In `DeviceQualify` a drive is a map from addresses (regions) to cells and the
set of cells that keep what is written; the page cache holds what was written since
the last sync, which leaves in a cell any one of the regions stored there. A region
is one value, its pattern and address: a drive whose capacity ends within a region is
represented by the failure it causes. The cells may begin with what an earlier test
left.

*Captures.* `src` is the source in two parts, each a version and a change time, that a
reader reaches one after the other; `src.past` records every state that the whole
source was in at one moment. `dest` is the destination directory: whose file is under
the name, whether the temporary file exists, whether the name is durable, whether the
user moved the directory. `c` is the command; `c.plan` and `c.scan` are the inventories
of `isocapture.Scan`, `c.view` the bound filesystem, `c.image` what was read into the
temporary file. A death may come at any step; `cut` marks a bind mount that was cut
off after the kernel made it.

## Runs

Passing runs:

| Run | Checks | Instance and why it is enough |
|---|---|---|
| `trust_power` | `ActiveIntact`, `HistoryAuthorized`, `ObservedDurable` | two processes, deaths and power loss with every order of writeback of the two directories; three payloads (successor and policy rotation) and two signed operations: one signed before and applied after another publication |
| `trust_cancel` | `CancelUndone`, `LockReleased` | cancellation at every stage; a generation limit of 2 is reached; a bundle signed twice collides with its own generation |
| `trust_register` | `TypeOK`, `RegisterSpec` | all faults: refinement of `TrustRegister` |
| `full_flash` | `TypeOK`, `OnlyReviewed`, `StatusHonest`, `CommandEnds` | with `swaps`, two disks that swap at one path, two trust generations and one source change; without, a payload block used at two locations, so that the source is read again after the first write, and a disk that is unplugged and plugged in again. The instance's assumptions run the planners on every image of one or two descriptors with one or two blocks and locations each, on targets of 2 to 6 blocks, and obtain the instance's plan from them |
| `formatter` | `TypeOK`, `TargetReviewed`, `ChangeReported`, `PassedDurable`, `SystemMountKept` | with `overlap`, two runs that ask for different layouts on one path, with cancellations, kills, orphans and desktop mounts; without, one run with every option against three disks, one of another capacity, mounts of the system and a clock that is set back; two attachments, the reviewed one and one that replaces it |
| `acquire_shared` | `RootsLinked`, `HistoryReaches`, `KeptUnlessOvertaken` | two processes without a lock; one root in two signed versions, a rogue root and a repeated one; two catalogs of one version; a clock that is set back by the tolerated skew |
| `release_channel` | `TypeOK`, `NotFrozen`, `StateSigned`, `RefreshLinked`, `StateMonotone` | two overlapping commands, a key rotation, a foreign root, a release that has expired unless the clock is set back beyond the skew |
| `download_overlap` | `AloneVerified`, `FinishedUntouched`, `ForeignKept` | one or two commands at a time, an image of two blocks, wrong and surplus bytes, three inodes: the one a command still holds and one at each name |
| `runtime_integrity` | `TypeOK`, `OriginalKept`, `UndoExact`, `SuccessDurable` | any number of calls one after the other, each failing, dying or losing power at any step, and two changes by another program: one before and one after a file is read, or one of each kind |
| `media_writers` | `TypeOK`, `ErasesReviewed`, `OneSource`, `ClaimHonest`, `EndsClean`, `VerdictTrue` | every writer and tool behind its command; two versions of the image and two edits, so that it can change and change back; two disks of one capacity; two acts of the others in all (three were checked too, in a run of 1.6 million states before the tools were added); every option in raw mode (the front ends share the code after it). Four regions, two of them in the quick profile, and every drive that wraps around or loses writes at any of them |
| `capture` | `CaptureTypeOK`, `CaptureWhole`, `CleanEnd` | both captures, all three formats, in the directory that was chosen (one moved away is excepted, as is the unlink after a failed directory sync); two disks, two versions of each part, two edits and three acts of the others, so that the source can be swapped, edited and edited back between two inventories |

Two processes are the least that interleave; every lock in the code admits one
holder, so a third would only wait, except in `Download`, where two commands that
are started again already show the failure below. Deadlock checking is off: a
system without commands rests, and the bounds on clocks and operations end
behaviours.

One run ends in a violation and shows where code and documentation disagree:

| Run | Property, and the text it states | What the trace shows |
|---|---|---|
| `trust_lost_generation` | `ActiveIntact`; `docs/ffu-trust-bundle-publication.md:62` | A first publication succeeds. The second exchanges `active.json` and removes the exchanged-out record; then its last fsync (`trust_store_linux.go:367`) fails, the only failure. Rollback skips the exchange back, since `activeTemp` is empty, and deletes the generation that `active.json` names. The rollback's own calls do not fail in this run (`Faults = {"io"}`) |

Five hazards of the list have no property: the code breaks what one would say, the models
contain the history, and the properties nearest to it except exactly that. TLC finds each
of these histories when the exception is taken out of the property:

* *A rollback loses the original loader.* An installation fails after it replaced the
  loader; in the rollback the rewrite of the original fails, and the backup is removed
  all the same (`transaction_linux.go:633`, `638`), although the transaction "preserves the
  original before replacement ... and restores the exact original tree after every
  tested failure boundary" (`docs/uefi-runtime-integrity.md:26`). `OriginalKept` excepts it.
* *An overtaken refresh.* Two refreshes load the state; one stores catalog 2, the other
  then stores the catalog 1 it was served (`channel.go:195`), although the client "stores
  the highest accepted root and catalog versions" (`docs/acquisition-channel.md:19`).
  `KeptUnlessOvertaken` excepts the overtaken refresh.
* *An unverified image is installed.* A command refuses its partial, gives up the lock and
  removes the name twice. Between the two removals another command creates and verifies
  a new partial; the second removal takes its name, a third command creates an empty
  partial of that name, and the second command renames that into place
  (`download.go:159`), although an image is installed "only after the signed size and
  digest both match" (`docs/acquisition-catalog.md:14`). `AloneVerified` is about commands
  that run one at a time; without that restriction `InstalledVerified` is violated.
* *A utility outlives its run.* A formatter is killed while `wipefs` runs; the flock goes,
  the utility stays. The next run formats and verifies, the old `wipefs` erases its table,
  and the report says passed, although "a successful report verifies the partition
  geometry and exact filesystem generation" (`README.md:185` of the repository).
  `PassedDurable` excepts runs that are disturbed this way.
* *A mount nobody knows of.* `mount --bind` of the source is cut off after the kernel made
  the mount, and the removal of the workspace deletes the source's files through it
  (`isocapture/sourceview_linux.go:136`), "rather than recursively deleting a mounted
  tree" notwithstanding (`docs/rufusarm64-device-backup.1:104`); `CleanEnd` excepts it
  (`c.cut`). When `mountPrivate`'s look for other mounts fails
  (`windowstogo/device.go:237`), the cleanup removes the applied volume's files in the same
  way, and the persistent writer leaves a mount it was told had failed
  (`linuxmedia/create.go:241`, against `docs/persistence-create.md:41`); `EndsClean` speaks
  of commands that succeed.

Claims that the models refute and that no run states: `ActiveIntact` under
cancellation and power loss together (rollback makes the removal of a generation
durable before the return of the previous record), and the same under power loss alone
for the operation that brings the store to its generation limit (it commits, the load
that verifies it refuses the directory for its size, and the rollback runs into the
power loss; `PowerSafe` therefore assumes fewer operations than generations); that a
store can always be
opened again (a death while rollback unseals a generation, and publication
number 257, leave one that every call refuses); that a retained partial can
always be resumed (its mode is 0644 between `Chmod` and `Install`); that the
cached catalog of a shared cache is never behind the accepted one; that
the runtime-integrity transaction restores the tree at other boundaries that are not
tested (a rollback that loses power before its only sync may keep the removal and lose
the rewrite, a death inside `restoreInstalledState` leaves the wrapper without the
loader it starts, and after a death in the middle of an installation neither call
accepts the media); that a report of a changed disk is never lost (a clock set back
during the run makes `ValidateReport` refuse it); that the formatter's "final check"
refreshes the identity (`nonbootable/backend_linux.go:24`: its closure compares the
kernel's device number, so a disk attached after `RevalidateTarget` and before the
open is erased, which `TargetReviewed` and `ErasesReviewed` except); that a container
which is prepared without a lease is the hashed one even if an edit is undone with its
`mtime` put back (`imaging/input.go:293`; the run has `EditsLeaveTrace = TRUE`); that the
reported hash of a container backup describes the image when somebody writes to the
raw disk meanwhile (`drivebackup/executor_linux.go:209`); that a failed directory sync
removes only the command's own file (`executor_linux.go:398` unlinks by name).

### Fairness

`TrustStore!Fairness` is weak fairness of each process's own forward and rollback
steps: no step of a transaction waits for anything but the kernel once the lock
is held. `FullFlash!FairSpec` is weak fairness of the command as a whole: its
loops are bounded by the plan and it never waits for the writer of the source,
because it only polls the lease. Nothing is assumed of users, disks, servers,
writeback or the clock. The channels and the download have no liveness property:
a server may stall a transfer for ever. Nor has the formatter: its utilities run
under time limits, but what a kernel does with one that hangs on a failing disk
is not the program's. The same holds for the media writers and the captures; they
have no loop that a property of theirs could be stuck in.

## Proofs

`TrustStoreProofs`, for any number of processes, payloads, operations and
generations:

* `TypeCorrect`: `Spec => []TypeOK` under every fault. `TypeOK` alone is not
  inductive, since the rollback of an added generation reads the directory entry;
  `TypeInv` adds that a transaction that says it added a generation finds it.
* `CrashSafe`: when no system call of a transaction or of its rollback fails and no
  power is lost, `Spec => []ActiveIntact`. `CrashInv` adds to `TypeInv` what the lock holder's
  transaction knows at each stage (`StageInv`): whether the active record is
  still the previous one or already the new one, that the new generation is
  complete before it can become active, and that it is not part of the previous
  record's history, so that removing it in a rollback harms nothing. The
  assumption is necessary: `trust_lost_generation` refutes the claim with one failing
  system call, and cancellation with power loss refutes it as well.
* `PowerSafe`: with kills and power loss and with fewer operations than generations
  (`MaxOps < MaxGenerations`), `Spec => []ActiveIntact`. Behind the view that processes
  have of the two directories there is the disk's, and the kernel may have written back
  one directory and not the other. `PowerInv` therefore asks that the record of either
  view of the root directory is intact in either view of the generations, and
  follows the stages of a transaction (`Sound`) to see that each fsync comes before the
  change that relies on it. The bound on operations keeps
  histories shorter than the limit (`HistoryBounded`), so that the load that verifies a
  commit succeeds and no commit is rolled back; at the limit one may be, and the claim is
  false.
* `HistoryAuthorizedHolds`, `ObservedDurableHolds`, under every fault: an active record
  has only links that were signed, and what a completed call or a load has answered is
  not forgotten, by processes or by the disk. `LedgerInv` says both of either
  view of `active.json`, that the two differ by one step at most (`Adjacent`), and
  of the lock holder where the old and the new record are, which the order of
  exchange, fsync and rollback decides (`Placed`).
* `ImplementsRegister`: `Spec => RegisterSpec` under every fault. A step of the store is
  a step of `TrustRegister` or leaves it alone: the exchange moves it to a successor of
  the value it had (`Vouched`), and a rollback or a power loss takes back only a record
  that nobody reported.
* `CancelUndoneHolds`: when calls fail only by cancellation, a call that has ended left
  neither a temporary nor a generation newer than the active record. `UndoInv` says what
  of it the transaction still knows and will remove (`Undoable`).

`ReleaseChannelProofs`, for any processes, envelopes and clock:

* `TypeCorrect`, `Signed`, `Fresh`: the invariants `TypeOK`, `StateSigned`, `NotFrozen`;
* `RefreshLinkedHolds`: the invariant `RefreshLinked`;
* `Monotone`: the action property `StateMonotone`.

  The inductive invariant `Inv` adds to these what a command has established by
  its stage: past the fetch, its release verifies under its root at its starting
  time; between the second look at the state and its publication, the lock is
  held, so the state it read is still the recorded one. `Fresh` needs the clock
  check made under the lock: it bounds the recorded time by the command's time
  plus the tolerated skew. `RefreshLinked` is about the root files, which overlapping
  commands put without a lock: it rests on `RootsAssumption`, as it does for the image
  catalog below.

`AcquisitionProofs`, about the channel, for any processes that share the cache, any
envelopes and any clock:

* `RootsLinkedHolds`, `HistoryReachesHolds`: the invariants `RootsLinked` and
  `HistoryReaches`;
* `KeptUnlessOvertakenHolds`: the action property `KeptUnlessOvertaken`.

  The difficulty is that a stored root may be replaced by another refresh that
  checked the directory before. The inductive invariant `Inv` therefore speaks of
  payloads and not of files: a root is `Rooted` when the history has its payload,
  `Signed` when a rooted one signed it, and `Chained` when both; `Reaches` says that
  the history has no gap below it. `StageInv` says that a root about to be stored
  follows the trusted one, so that storing it extends the history or puts the same
  payload again (`Extends`), and nothing said of other refreshes is lost
  (`StageStays`). This rests on `RootsAssumption`: the holders of a root's keys sign
  one successor of it. If they signed two, two refreshes that both found no file
  could store different ones, as nothing locks the directory between the check of
  `storeRootHistory` and its rename.

`TargetDiskProofs`, for any number of runs of the formatter, disks, attachments and
layouts:

* `TypeCorrect`, `OnlyReviewedDisk`, `HonestReport`: the invariants `TypeOK`,
  `TargetReviewed`, `ChangeReported`;
* `SystemMountsStay`, `DurableSuccess`: the action properties `SystemMountKept` and
  `PassedDurable`.

  The inductive invariant `IInv` says of each run what it may rely on at its
  stage. `TargetReviewed` speaks only of what was changed; to see that the next
  change is to the reviewed disk one needs that the descriptor is of that disk,
  and, before there is a descriptor, that the path names it or nothing unless a
  disk was attached in between (`Identified`). `SystemMountKept` needs that a
  listing about to be unmounted passed the policy (`ListingChecked`), and
  `ChangeReported` that the report owns up before the first utility starts
  (`Decided`). `OneRun` reduces a step of one run to that run's record, so that
  overlapping runs cost nothing in the proof. `PassedDurable` needs a second invariant,
  `DurableInv`: while nobody else may write to the disk (`Alone`), what a run has made
  by its stage is in the cache, and past its last sync on the media (`Kept`).

and, for drive backup and ISO capture, with any disks, versions and edits:

* `CaptureTypeCorrect`, `CaptureWholeHolds`, `CleanEndHolds`: the invariants
  `CaptureTypeOK`, `CaptureWhole`, `CleanEnd`.

  A capture reads its source in pieces while others may edit it, put the edit back, or
  attach another disk. `CaptureWhole` speaks of the published file alone; the inductive
  invariant `CaptureInv` says what image, hash and inventories stand for at each stage
  on the way. A backup (`BackupInv`) has read what the source was as long as the
  counter of writes is the one it began with. An ISO capture (`IsoInv`) holds no
  counter; its inventories carry change times, which only grow (`SourceInv`), so that
  an inventory which a later one confirms was true of all files at one moment
  (`Together`), and the image is compared with that. `MountInv` says which mounts
  exist and which of them the command knows, for `CleanEnd`; `PublishInv` what the
  name and the report stand for.

`FullFlashProofs`, for any plan, any disks and any number of attachments, source
versions and trust bundles:

* `TypeCorrect`, `HonestStatus`: the invariants `TypeOK` and `StatusHonest`;
* `WritesReviewed`: the action property `OnlyReviewed`.

  The inductive invariant `Inv` adds to `TypeOK` what the command knows at its
  stage, and each part of it holds only while nobody has interfered. The source is
  authentic as long as its identity is the one that was read (`SourceInv`): a writer
  may break the lease, but versions only grow, so that a version that is seen again
  was never left. The blocks before the index are written as long as the port holds
  the disk that was opened (`WrittenInv`): what the kernel had cached of it is lost
  when it is unplugged, and a disk that comes back does so under another sequence
  number (`PortInv`), so that the next check refuses it. After the sync they are
  durable and stay so wherever the disk goes (`DurableInv`), and the readback extends
  a prefix of blocks that equal the authentic source (`ReadBackInv`). `StatusHonest`
  follows where the result is made.

and, about the planners, for any image and any size of the target:

* `OperationsIndependent`: operations stay on the target and in the payload, no two
  write the same block, and those of different descriptors share no payload;
* `PlansAreExecutable`: what the planners accept satisfies `PlanAssumption`;
* `TargetSizeSuffices`: with same-anchor overlaps refused and `MinimumTargetBlocks` on
  the target, nothing is left for the overlap check of `resolveRestoreWriteExtents` to
  refuse.

  That neighbours apart in a sorted list are pairwise apart needs no induction, since
  the order is known of every pair (`NeighboursSuffice`). That descriptors which take
  the payload in turn share none of it is an induction on descriptors; the library's
  rule for that cannot be instantiated, and a least counterexample stands in for it
  (`LeastNatural`, from the well-foundedness of `<`). Destinations counted from the two
  ends cannot meet because each lies within the extent of its anchor, and the target
  holds both extents (`ResolvedApart`).

`AcquisitionProofs`, about the download, for any number of commands, files and blocks:

* `FinishedUntouchedHolds`: the invariant `FinishedUntouched`;
* `ForeignKeptHolds`: the action property `ForeignKept`;
* `AloneVerifiedHolds`: `AloneSpec => []AloneVerified`.

  The inductive invariant says what makes a partial a command's own: a resumable one is
  locked, and one with a random name is referred to by nothing else, neither by another
  command nor by a name (`CommandInv`). A finished file differs from a partial in its
  mode alone, so `Inspect`, which refuses a mode that is not private, has to come after
  the lock; that is where the proof uses it. For commands that run one at a time
  `AloneInv` adds that the name of a resumable partial refers to the file the command
  has open (`HeldByName`), so that what is installed by name is what was checked
  (`Checked`); overlapping commands break that.

`RuntimeIntegrityProofs`, for any number of changes by another program, and so of
calls, failures, deaths and power losses:

* `TypeCorrect`, `OriginalKeptHolds`: the invariants `TypeOK` and `OriginalKept`;
* `UndoExactHolds`, `SuccessDurableHolds`: the action properties `UndoExact` and
  `SuccessDurable`.

  `OriginalKept` is not inductive, as a power loss brings back what the disk holds.
  `OriginalInv` therefore asks, unless a removal is not synced (`exposed`), that one of
  the two names hold the original in the tree and on the disk at once: then it does not
  matter which entries FAT has written back. The wrapper may replace the loader because
  the backup was synced before, the backup may go because the restored loader was. The
  other parts say, for each stage of a call and of its two rollbacks, which changes it
  has made (`DoneInv`), what loaders and manifest are (`TreeInv`), as long as no step of
  the rollback failed what they were before (`before`), and what of it is on the disk
  (`DurableInv`). A removal needs that every manifest ever published names the wrapper
  (`Wrappers`): what it takes for the backup of the original is then the original.

`MediaWritersProofs`, for any versions of the image, any disks of any sizes and any
number of edits, attachments and acts of the others:

* `TypeCorrect`, `ErasesReviewedHolds`, `ClaimHonestHolds`, `EndsCleanHolds`: the
  invariants `TypeOK`, `ErasesReviewed`, `ClaimHonest`, `EndsClean`;
* `VerdictTrueHolds`: the invariant `VerdictTrue`, for any number of regions and every
  drive;
* `ExtentsSound`, for a disk of any size: whatever `ValidateMediaPlan` accepts passes
  the checks at the end of `plannedMediaExtents`.

  One inductive invariant, `Inv`, serves the first four. It gives every stage of every
  writer a phase: target unopened, reviewed, looked at for the last time, written,
  cleaned up, closed. `PhaseInv` says of a phase whether there is a descriptor and
  whether anything may have been changed, `OpenInv` that no other disk takes the path
  while a descriptor is open, `ChangedInv` what has been changed and what is said of it.
  `CleanInv` says what may be mounted, made or held at a stage unless an error occurred,
  and `ImageInv` that a private image has bytes. Each step of `MediaSession` is shown
  once to keep `Inv` under what the stage it goes to promises (`Onward`, `Carries`); the
  proofs about writers are a walk through their stages. A check by identity
  (raw, the helper) and one by device number differ in one conjunct of `PhaseInv`, which
  is where `ErasesReviewed` gets its exception from.

  The verdict has an invariant of its own, `VerdictInv`. The pattern of the first pass
  is in no cell before it, so that a region that reads back is in a cell that keeps
  what is written; from then on each such cell holds the last region written to it,
  and if all regions read back no two share one (`SyncedInv`). It needs that a pattern
  depends on its region and that the first one is none that an earlier test leaves.

  `ExtentsSound` says that the extents are on the disk, in order and without overlap, and
  that the free data space is left alone. Both FATs with their reserved sectors end
  where the data begins (`Geometry`), 65536 clusters are more than the root directory
  and the two files need (`Files`), and their end is within the partition
  (`ClustersFit`). There are seven cluster sizes (`ClusterChoice`), and within each the
  arithmetic is linear. The model's numbers are unbounded; the code's are 64 bits wide
  and the largest accepted disk has less than 2^42 bytes.

`MediaDataProofs`, for the same constants:

* `OneSourceHolds`: the invariant `OneSource`, under the hypothesis `EditsLeaveTrace`.

  `OneSource` has an inductive invariant of its own, `DataInv`, that rests on `Inv`.
  `Level` gives each stage of each writer what has been done to the data so far: image
  unread, hashed, table written, filesystem made, files copied, flushed, looked at for
  the last time. The image is `Steady` as long as nobody can have changed it since the
  hash: it is private, or under an intact lease, or has the pinned `mtime` and the
  digest's bytes. Only while it is are the plan, the staged files and the target known
  to be of one version (`ReadInv`, `TargetDataInv`), and it is the last look at the
  image that makes of this a fact about the medium, which later edits cannot take back
  (`Kept`, `DoneInv`). For an image that is hashed or expanded without a lease, and
  only compared by its `mtime` and its bytes, that look is conclusive because of
  `Traced`: under the pinned `mtime` the hashed bytes are among those the image has
  had. This is where the hypothesis is needed. With `EditsLeaveTrace = FALSE` TLC
  finds a container that is edited while it is expanded and put back, `mtime` and all:
  `PrepareCheck` sees no difference, and a mixture is written that no version of the
  image contains.

The assumptions are those of the modules (`EnvelopeAssumption`, `RootsAssumption`,
`NoneIsNoValue`, `PayloadsAssumption`, `BoundsAssumption`, ...): version numbers, times
and bounds are naturals, and `None` is no value of another kind. `PlanAssumption`, that
a plan writes no block twice, is itself a theorem about the planners
(`PlansAreExecutable`). TLC evaluates them on every instance.

Only model-checked: liveness (`LockReleased`, `CommandEnds`), as liveness under
fairness is outside the installed provers.

## Plan

1. *Done:* trust store, FFU restore, both channels, download, the non-bootable
   formatter, the runtime-integrity transaction.
2. *Done:* the other media writers on `TargetDisk` (raw imaging, Windows media,
   Windows To Go, Linux media and persistence, FreeDOS) behind their commands; drive
   backup and ISO capture up to the published file; the drive test.
3. *Done:* theorems on every safety property that a passing run checks.
4. *Done:* the expansion of FFU descriptors into write operations, with overlap and
   bounds checks. Left: the parser's byte arithmetic and the hash table's chunks.
5. The GUI's view of a helper that is cancelled, dies or is cut off, and the admission
   of qualification evidence.

Scenarios of one component share a run (a Boolean chooses between them in the
initial state), and writers that share their surroundings are composed in one, so
that each new component costs at most one run.

## Not modelled, and why

Parsing and formatting (JSON, PE, certificates, XML), network transport policy
(hosts, redirects, TLS), progress output and argument handling keep no state and
are represented by the failures they cause. Cryptography is perfect. Packaging,
scripts and vendored code are not part of the program's logic. Of the writers, file
names, kernel lines, partition table bytes, answer files and the contents of boot
sectors are abstracted to the version of the image they come from. Channel
administration is an offline ceremony whose results are `RootChain`'s inputs;
qualification records and the GUI are planned.
